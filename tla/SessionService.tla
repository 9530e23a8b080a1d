--------------------------- MODULE SessionService ---------------------------
(***************************************************************************)
(* What a DistributedRegistry promises (internal/session/service.go): the  *)
(* in-memory implementation, each operation one critical section of s.mu.  *)
(* Development and the tests run against it; RedisRegistry, which          *)
(* production runs, is shown to implement it.                              *)
(***************************************************************************)
EXTENDS Naturals

CONSTANTS
  Session,    \* session ids
  AgentType,  \* agent types
  Simulation, \* simulation ids other than ""
  Nil         \* no agent type, the simulation id "": in neither set

VARIABLES
  agentTypes,    \* sessionID -> its agent type (Nil: no key)
  agentSessions, \* agentType -> its sessions ({}: no key)
  sessionSim,    \* sessionID -> its simulation (Nil: no key)
  simSessions    \* simulationID -> its sessions ({}: no key)

vars == <<agentTypes, agentSessions, sessionSim, simSessions>>

Init ==
  /\ agentTypes = [s \in Session |-> Nil]
  /\ agentSessions = [t \in AgentType |-> {}]
  /\ sessionSim = [s \in Session |-> Nil]
  /\ simSessions = [m \in Simulation |-> {}]

(***************************************************************************)
(* BatchTrackSessions, and TrackSession with one entry: the type and the   *)
(* simulation of each new session. The ids are UUIDs made by the caller,   *)
(* so none of them is in the registry.                                     *)
(***************************************************************************)
BatchTrackSessions(type, sim) ==
  LET new == DOMAIN type IN
  /\ \A s \in new : agentTypes[s] = Nil
  /\ agentTypes' = [s \in Session |-> IF s \in new THEN type[s] ELSE agentTypes[s]]
  /\ agentSessions' = [t \in AgentType |-> agentSessions[t] \cup {s \in new : type[s] = t}]
  /\ sessionSim' = [s \in Session |-> IF s \in new THEN sim[s] ELSE sessionSim[s]]
  /\ simSessions' = [m \in Simulation |-> simSessions[m] \cup {s \in new : sim[s] = m}]

UntrackSession(s) ==
  /\ agentTypes' = [agentTypes EXCEPT ![s] = Nil]
  /\ agentSessions' = [t \in AgentType |->
       IF t = agentTypes[s] THEN agentSessions[t] \ {s} ELSE agentSessions[t]]
  /\ sessionSim' = [sessionSim EXCEPT ![s] = Nil]
  /\ simSessions' = [m \in Simulation |->
       IF m = sessionSim[s] THEN simSessions[m] \ {s} ELSE simSessions[m]]

Flush ==
  /\ agentTypes' = [s \in Session |-> Nil]
  /\ agentSessions' = [t \in AgentType |-> {}]
  /\ sessionSim' = [s \in Session |-> Nil]
  /\ simSessions' = [m \in Simulation |-> {}]

Next ==
  \/ \E new \in SUBSET Session :
       \E type \in [new -> AgentType], sim \in [new -> Simulation \cup {Nil}] :
         BatchTrackSessions(type, sim)
  \/ \E s \in Session : UntrackSession(s)
  \/ Flush

Spec == Init /\ [][Next]_vars

ActiveAgentTypes == {t \in AgentType : agentSessions[t] # {}}
ListSimulations == {m \in Simulation : simSessions[m] # {}}
=============================================================================
