---------------------------- MODULE RedisRegistry ----------------------------
(***************************************************************************)
(* The registry of sessions in Redis (internal/session/redis_registry.go), *)
(* shared by every gateway instance, and the gateway code that calls it:   *)
(* request handlers that track a batch of sessions and untrack it when the *)
(* spawn events cannot be enqueued, flushes, and one reaper per gateway.   *)
(*                                                                         *)
(* Redis executes one command at a time. A pipeline is a sequence of       *)
(* commands, not a transaction: commands of other clients may run between  *)
(* two of them. A set without members is a key that does not exist.        *)
(***************************************************************************)
EXTENDS Naturals, Sequences, FiniteSets

CONSTANTS
  Session,    \* session ids: each a UUID, handed out once
  AgentType,
  Simulation,
  Nil,        \* no value; the simulation id ""
  Handler,    \* gateway goroutines that serve requests to create sessions
  Flusher,    \* gateway goroutines that serve requests to flush the registry
  Reaper,     \* the reaper goroutine of each gateway
  MaxBatch,   \* bound: sessions tracked by one request
  MaxFlushes, \* bound: flushes
  MaxErrors, \* bound: requests and reaps cut short, lookups that fail
  Serial,     \* TRUE: an operation starts only when no other is running
  Faults      \* what may go wrong: "enqueue", "expiry"

ASSUME RegistryAssumption ==
  /\ Nil \notin AgentType /\ Nil \notin Simulation /\ Nil \notin Session
  /\ Handler \cap Flusher = {} /\ Handler \cap Reaper = {} /\ Flusher \cap Reaper = {}
  /\ MaxBatch \in Nat /\ MaxFlushes \in Nat /\ MaxErrors \in Nat
  /\ Serial \in BOOLEAN /\ Faults \subseteq {"enqueue", "expiry"}

(***************************************************************************)
(* Keys and commands.                                                      *)
(***************************************************************************)
SessionKey(s)         == <<"session", s>>
SessionSimulation(s)  == <<"session-simulation", s>>
AgentSessions(t)      == <<"agent-sessions", t>>
SimulationSessions(m) == <<"simulation-sessions", m>>
ActiveAgents          == <<"active-agents", Nil>>
ActiveSimulations     == <<"active-simulations", Nil>>

StringKeys == ({"session", "session-simulation"} \X Session)
IndexKeys  == ({"agent-sessions"} \X AgentType) \cup ({"simulation-sessions"} \X Simulation)
ActiveKeys == {ActiveAgents, ActiveSimulations}
Key == StringKeys \cup IndexKeys \cup ActiveKeys

Absent(k) == IF k \in StringKeys THEN Nil ELSE {}

Set(k, v)   == [op |-> "SET", key |-> k, arg |-> v]
SAdd(k, v)  == [op |-> "SADD", key |-> k, arg |-> {v}]
SRem(k, vs) == [op |-> "SREM", key |-> k, arg |-> vs]
Del(k)      == [op |-> "DEL", key |-> k, arg |-> Nil]

\* The value of the command's key once Redis has executed it.
Result(cmd, d) ==
  CASE cmd.op = "SET"  -> cmd.arg
    [] cmd.op = "SADD" -> d[cmd.key] \cup cmd.arg
    [] cmd.op = "SREM" -> d[cmd.key] \ cmd.arg
    [] cmd.op = "DEL"  -> Absent(cmd.key)

Run(cmd, d) == [d EXCEPT ![cmd.key] = Result(cmd, d)]

(***************************************************************************)
(* State.                                                                  *)
(***************************************************************************)
VARIABLES
  db,         \* the Redis keys
  at,         \* what each goroutine does when its pipeline is done
  pipe,       \* the commands of its pipeline Redis has yet to execute
  local,      \* its local variables
  used,       \* the session ids handed out
  rolledBack, \* history: the sessions an UntrackSession that ended had removed
  unfound,    \* history: the sessions whose simulation an UntrackSession failed to look up
  flushes, errors

vars == <<db, at, pipe, local, used, rolledBack, unfound, flushes, errors>>

Client == Handler \cup Flusher \cup Reaper

\* One entry of the request's batch (session.SessionTrackingEntry).
Entry == [session : Session, type : AgentType, sim : Simulation \cup {Nil}]

NoLocals ==
  [batch |-> <<>>, \* the entries of the request
   next  |-> 1,    \* the loop's position in the batch
   type  |-> Nil, sim |-> Nil, \* what UntrackSession looked up
   todo  |-> {},   \* keys still to be deleted or visited
   visit |-> Nil,  \* the index set the reaper looks at
   ids   |-> {},   \* its members not yet checked
   stale |-> {}]   \* its members whose session key is gone

Init ==
  /\ db = [k \in Key |-> Absent(k)]
  /\ at = [c \in Client |-> "idle"]
  /\ pipe = [c \in Client |-> <<>>]
  /\ local = [c \in Client |-> NoLocals]
  /\ used = {} /\ rolledBack = {} /\ unfound = {}
  /\ flushes = 0 /\ errors = 0

InHand(s) == \E h \in Handler : \E i \in DOMAIN local[h].batch : local[h].batch[i].session = s

MayStart(c) == at[c] = "idle" /\ (Serial => \A d \in Client : at[d] = "idle")

\* c has received every answer of its last pipeline and is at l.
Ready(c, l) == at[c] = l /\ pipe[c] = <<>>

\* One command of c, and the control state it goes on to.
Do(c, cmd, l) == db' = Run(cmd, db) /\ at' = [at EXCEPT ![c] = l]

Goto(c, l) == at' = [at EXCEPT ![c] = l]
Send(c, commands) == pipe' = [pipe EXCEPT ![c] = commands]
Return(c) == Goto(c, "idle") /\ local' = [local EXCEPT ![c] = NoLocals]

\* Redis executes the next command of a pipeline.
Execute(c) ==
  /\ pipe[c] # <<>>
  /\ db' = Run(Head(pipe[c]), db)
  /\ Send(c, Tail(pipe[c]))
  /\ UNCHANGED <<at, local, used, rolledBack, unfound, flushes, errors>>

(***************************************************************************)
(* POST /sessions and POST /spawn.                                         *)
(***************************************************************************)
\* Slips: the session key set last; the session's simulation not stored.
TrackCommandsKeyLast(e) ==
  <<SAdd(AgentSessions(e.type), e.session),
    SAdd(ActiveAgents, e.type),
    Set(SessionKey(e.session), e.type)>>

TrackCommandsNoSimulation(e) ==
  <<Set(SessionKey(e.session), e.type),
    SAdd(AgentSessions(e.type), e.session),
    SAdd(ActiveAgents, e.type)>>
  \o IF e.sim = Nil THEN <<>> ELSE
       <<SAdd(SimulationSessions(e.sim), e.session), SAdd(ActiveSimulations, e.sim)>>

TrackCommands(e) ==
  <<Set(SessionKey(e.session), e.type),
    SAdd(AgentSessions(e.type), e.session),
    SAdd(ActiveAgents, e.type)>>
  \o IF e.sim = Nil THEN <<>> ELSE
       <<SAdd(SimulationSessions(e.sim), e.session),
         Set(SessionSimulation(e.session), e.sim),
         SAdd(ActiveSimulations, e.sim)>>

\* A request with fresh session ids, all of one simulation.
BatchTrackSessions(h) ==
  /\ MayStart(h)
  /\ \E n \in 1..MaxBatch, sim \in Simulation \cup {Nil} :
     \E ids \in [1..n -> Session \ used], type \in [1..n -> AgentType] :
       /\ \A i, j \in 1..n : ids[i] = ids[j] => i = j
       /\ local' = [local EXCEPT ![h].batch =
            [i \in 1..n |-> [session |-> ids[i], type |-> type[i], sim |-> sim]]]
       /\ used' = used \cup {ids[i] : i \in 1..n}
  /\ Goto(h, "track")
  /\ UNCHANGED <<db, pipe, rolledBack, unfound, flushes, errors>>

\* The commands of the next entry reach Redis.
TrackEntry(h) ==
  /\ Ready(h, "track")
  /\ local[h].next <= Len(local[h].batch)
  /\ Send(h, TrackCommands(local[h].batch[local[h].next]))
  /\ local' = [local EXCEPT ![h].next = @ + 1]
  /\ UNCHANGED <<db, at, used, rolledBack, unfound, flushes, errors>>

\* Every entry is tracked: the spawn events are enqueued, or the roll-back starts.
Enqueue(h) ==
  /\ Ready(h, "track")
  /\ local[h].next > Len(local[h].batch)
  /\ \/ Return(h)
     \/ /\ "enqueue" \in Faults
        /\ Goto(h, "untrack")
        /\ local' = [local EXCEPT ![h].next = 1]
  /\ UNCHANGED <<db, pipe, used, rolledBack, unfound, flushes, errors>>

(***************************************************************************)
(* UntrackSession, called for each entry of the batch in turn.             *)
(***************************************************************************)
\* The session UntrackSession is called for.
Current(h) == local[h].batch[local[h].next].session

FindAgentType(h) ==
  /\ Ready(h, "untrack")
  /\ local[h].next <= Len(local[h].batch)
  /\ local' = [local EXCEPT ![h].type = db[SessionKey(Current(h))]]
  /\ Goto(h, "simulation")
  /\ UNCHANGED <<db, pipe, used, rolledBack, unfound, flushes, errors>>

\* Slip: the simulation's set keeps the session.
UntrackCommandsOfType(s, type, sim) ==
  <<Del(SessionKey(s)), Del(SessionSimulation(s))>>
  \o (IF type = Nil THEN <<>> ELSE <<SRem(AgentSessions(type), {s})>>)

UntrackCommands(s, type, sim) ==
  <<Del(SessionKey(s)), Del(SessionSimulation(s))>>
  \o (IF type = Nil THEN <<>> ELSE <<SRem(AgentSessions(type), {s})>>)
  \o (IF sim = Nil THEN <<>> ELSE <<SRem(SimulationSessions(sim), {s})>>)

\* The session leaves the set of the simulation that was found.
Leave(h, sim) ==
  /\ local' = [local EXCEPT ![h].sim = sim]
  /\ Send(h, UntrackCommands(Current(h), local[h].type, sim))
  /\ Goto(h, "count type")

\* An error of FindSimulation is ignored: UntrackSession goes on as if the session
\* had no simulation.
FindSimulation(h) ==
  /\ Ready(h, "simulation")
  /\ \/ /\ Leave(h, db[SessionSimulation(Current(h))])
        /\ UNCHANGED unfound
        /\ UNCHANGED errors
     \/ /\ errors < MaxErrors
        /\ Leave(h, Nil)
        /\ unfound' = unfound \cup {Current(h)}
        /\ errors' = errors + 1
  /\ UNCHANGED <<db, used, rolledBack, flushes>>

\* Slip: an emptied type stays on the list.
CountTypeSkipped(h) ==
  /\ Ready(h, "count type")
  /\ Goto(h, "count simulation")
  /\ UNCHANGED <<db, pipe, local, used, rolledBack, unfound, flushes, errors>>

\* SCARD of the agent type's set.
CountType(h) ==
  LET type == local[h].type IN
  /\ Ready(h, "count type")
  /\ Send(h, IF type # Nil /\ db[AgentSessions(type)] = {}
             THEN <<SRem(ActiveAgents, {type})>> ELSE <<>>)
  /\ Goto(h, "count simulation")
  /\ UNCHANGED <<db, local, used, rolledBack, unfound, flushes, errors>>

\* SCARD of the simulation's set.
CountSimulation(h) ==
  LET sim == local[h].sim IN
  /\ Ready(h, "count simulation")
  /\ Send(h, IF sim # Nil /\ db[SimulationSessions(sim)] = {}
             THEN <<Del(SimulationSessions(sim)), SRem(ActiveSimulations, {sim})>> ELSE <<>>)
  /\ Goto(h, "untracked")
  /\ UNCHANGED <<db, local, used, rolledBack, unfound, flushes, errors>>

Untracked(h) ==
  /\ Ready(h, "untracked")
  /\ rolledBack' = rolledBack \cup {Current(h)}
  /\ IF local[h].next < Len(local[h].batch)
       THEN /\ local' = [local EXCEPT ![h].next = @ + 1]
            /\ Goto(h, "untrack")
       ELSE Return(h)
  /\ UNCHANGED <<db, pipe, used, unfound, flushes, errors>>

(***************************************************************************)
(* Flush: POST /sessions/flush and POST /environment/reset.                *)
(***************************************************************************)
Delete(f) == \E k \in local[f].todo :
  /\ at[f] \in {"flush types", "flush simulations", "flush sessions"}
  /\ Do(f, Del(k), at[f])
  /\ local' = [local EXCEPT ![f].todo = @ \ {k}]
  /\ UNCHANGED <<pipe, used, rolledBack, unfound, flushes, errors>>

\* SMEMBERS of active-agents.
Flush(f) ==
  /\ MayStart(f) /\ flushes < MaxFlushes
  /\ local' = [local EXCEPT ![f].todo = {AgentSessions(t) : t \in db[ActiveAgents]}]
  /\ flushes' = flushes + 1
  /\ Goto(f, "flush types")
  /\ UNCHANGED <<db, pipe, used, rolledBack, unfound, errors>>

FlushActiveAgents(f) ==
  /\ at[f] = "flush types" /\ local[f].todo = {}
  /\ Do(f, Del(ActiveAgents), "scan simulations")
  /\ UNCHANGED <<pipe, local, used, rolledBack, unfound, flushes, errors>>

Present(ks) == {k \in ks : db[k] # Absent(k)}

ScanSimulations(f) ==
  /\ at[f] = "scan simulations"
  /\ local' = [local EXCEPT ![f].todo = Present({SimulationSessions(m) : m \in Simulation})]
  /\ Goto(f, "flush simulations")
  /\ UNCHANGED <<db, pipe, used, rolledBack, unfound, flushes, errors>>

FlushActiveSimulations(f) ==
  /\ at[f] = "flush simulations" /\ local[f].todo = {}
  /\ Do(f, Del(ActiveSimulations), "scan sessions")
  /\ UNCHANGED <<pipe, local, used, rolledBack, unfound, flushes, errors>>

ScanSessions(f) ==
  /\ at[f] = "scan sessions"
  /\ local' = [local EXCEPT ![f].todo = Present(StringKeys)]
  /\ Goto(f, "flush sessions")
  /\ UNCHANGED <<db, pipe, used, rolledBack, unfound, flushes, errors>>

Flushed(f) ==
  /\ at[f] = "flush sessions" /\ local[f].todo = {}
  /\ Return(f)
  /\ UNCHANGED <<db, pipe, used, rolledBack, unfound, flushes, errors>>

(***************************************************************************)
(* Reap. Both sweeps visit index sets: check the members one by one,       *)
(* remove the stale ones, count what is left.                              *)
(***************************************************************************)
\* SMEMBERS of active-agents.
Reap(r) ==
  /\ MayStart(r)
  /\ local' = [local EXCEPT ![r].todo = {AgentSessions(t) : t \in db[ActiveAgents]}]
  /\ Goto(r, "reap")
  /\ UNCHANGED <<db, pipe, used, rolledBack, unfound, flushes, errors>>

\* SMEMBERS of the next set; the agent sweep skips a set without members.
Visit(r) == \E k \in local[r].todo :
  /\ Ready(r, at[r]) /\ at[r] \in {"reap", "sweep"}
  /\ IF at[r] = "reap" /\ db[k] = {}
       THEN /\ local' = [local EXCEPT ![r].todo = @ \ {k}]
            /\ UNCHANGED at
       ELSE /\ local' = [local EXCEPT ![r].todo = @ \ {k}, ![r].visit = k,
                                      ![r].ids = db[k], ![r].stale = {}]
            /\ Goto(r, IF at[r] = "reap" THEN "check type" ELSE "check simulation")
  /\ UNCHANGED <<db, pipe, used, rolledBack, unfound, flushes, errors>>

\* EXISTS; the simulation sweep deletes the simulation of a stale session at once.
Check(r) == \E s \in local[r].ids :
  LET gone == db[SessionKey(s)] = Nil IN
  /\ Ready(r, at[r]) /\ at[r] \in {"check type", "check simulation"}
  /\ local' = [local EXCEPT ![r].ids = @ \ {s},
                            ![r].stale = IF gone THEN @ \cup {s} ELSE @]
  /\ Send(r, IF gone /\ at[r] = "check simulation" THEN <<Del(SessionSimulation(s))>> ELSE <<>>)
  /\ UNCHANGED <<db, at, used, rolledBack, unfound, flushes, errors>>

Prune(r) ==
  /\ Ready(r, at[r]) /\ at[r] \in {"check type", "check simulation"}
  /\ local[r].ids = {}
  /\ Do(r, SRem(local[r].visit, local[r].stale),
        IF at[r] = "check type" THEN "card type" ELSE "card simulation")
  /\ UNCHANGED <<pipe, local, used, rolledBack, unfound, flushes, errors>>

\* SCARD; the owner of a set left empty is taken off its list.
CountReaped(r) ==
  LET k == local[r].visit IN
  /\ Ready(r, "card type")
  /\ Send(r, IF db[k] = {} THEN <<SRem(ActiveAgents, {k[2]}), Del(k)>> ELSE <<>>)
  /\ Goto(r, "reap")
  /\ UNCHANGED <<db, local, used, rolledBack, unfound, flushes, errors>>

CountSwept(r) ==
  LET k == local[r].visit IN
  /\ Ready(r, "card simulation")
  /\ Send(r, IF db[k] = {} THEN <<Del(k), SRem(ActiveSimulations, {k[2]})>> ELSE <<>>)
  /\ Goto(r, "sweep")
  /\ UNCHANGED <<db, local, used, rolledBack, unfound, flushes, errors>>

\* Slip: the sweep visits the simulations on the list instead of every set.
ReapListedSimulations(r) ==
  /\ Ready(r, "reap") /\ local[r].todo = {}
  /\ local' = [local EXCEPT ![r].todo = {SimulationSessions(m) : m \in db[ActiveSimulations]}]
  /\ Goto(r, "sweep")
  /\ UNCHANGED <<db, pipe, used, rolledBack, unfound, flushes, errors>>

\* SCAN of the simulations' sets.
ReapSimulations(r) ==
  /\ Ready(r, "reap") /\ local[r].todo = {}
  /\ local' = [local EXCEPT ![r].todo = Present({SimulationSessions(m) : m \in Simulation})]
  /\ Goto(r, "sweep")
  /\ UNCHANGED <<db, pipe, used, rolledBack, unfound, flushes, errors>>

Reaped(r) ==
  /\ Ready(r, "sweep") /\ local[r].todo = {}
  /\ Return(r)
  /\ UNCHANGED <<db, pipe, used, rolledBack, unfound, flushes, errors>>

(***************************************************************************)
(* What else happens.                                                      *)
(***************************************************************************)
\* The request's context is cancelled, or Redis answers the reaper with an error:
\* what was sent may have been executed in part, the rest is not.
Cancel(c) ==
  /\ at[c] # "idle" /\ errors < MaxErrors
  /\ Return(c) /\ Send(c, <<>>)
  /\ errors' = errors + 1
  /\ UNCHANGED <<db, used, rolledBack, unfound, flushes>>

\* A string key's TTL passes. Requests are far shorter than the TTL.
Expire(k) ==
  /\ "expiry" \in Faults
  /\ k \in StringKeys /\ db[k] # Nil /\ ~InHand(k[2])
  /\ db' = Run(Del(k), db)
  /\ UNCHANGED <<at, pipe, local, used, rolledBack, unfound, flushes, errors>>

\* A simulation's set lives twice as long after the last session was added to it.
ExpireSimulation(m) ==
  /\ "expiry" \in Faults
  /\ db[SimulationSessions(m)] # {}
  /\ \A s \in db[SimulationSessions(m)] : db[SessionKey(s)] = Nil
  /\ \A h \in Handler : \A i \in DOMAIN local[h].batch : local[h].batch[i].sim # m
  /\ db' = Run(Del(SimulationSessions(m)), db)
  /\ UNCHANGED <<at, pipe, local, used, rolledBack, unfound, flushes, errors>>

HandlerNext(h) ==
  \/ Execute(h) \/ TrackEntry(h) \/ Enqueue(h)
  \/ FindAgentType(h) \/ FindSimulation(h) \/ CountType(h) \/ CountSimulation(h) \/ Untracked(h)

FlusherNext(f) ==
  \/ Delete(f) \/ FlushActiveAgents(f) \/ ScanSimulations(f)
  \/ FlushActiveSimulations(f) \/ ScanSessions(f) \/ Flushed(f)

ReaperNext(r) ==
  \/ Execute(r) \/ Reap(r) \/ Visit(r) \/ Check(r) \/ Prune(r)
  \/ CountReaped(r) \/ CountSwept(r) \/ ReapSimulations(r) \/ Reaped(r)

Next ==
  \/ \E h \in Handler : HandlerNext(h) \/ BatchTrackSessions(h)
  \/ \E f \in Flusher : FlusherNext(f) \/ Flush(f)
  \/ \E r \in Reaper : ReaperNext(r)
  \/ \E c \in Client : Cancel(c)
  \/ \E k \in StringKeys : Expire(k)
  \/ \E m \in Simulation : ExpireSimulation(m)

Spec == Init /\ [][Next]_vars

\* A request that has started and a reap go on, and the reaper's ticker fires for ever.
FairSpec ==
  /\ Spec
  /\ \A h \in Handler : WF_vars(HandlerNext(h))
  /\ \A f \in Flusher : WF_vars(FlusherNext(f))
  /\ \A r \in Reaper : WF_vars(ReaperNext(r))

(***************************************************************************)
(* Properties.                                                             *)
(***************************************************************************)
Control == {"idle", "track", "untrack", "simulation", "count type", "count simulation",
            "untracked", "flush types", "scan simulations", "flush simulations",
            "scan sessions", "flush sessions", "reap", "check type", "card type", "sweep",
            "check simulation", "card simulation"}

Owners(k) == IF k = ActiveAgents THEN AgentType ELSE Simulation

Commands ==
  [op : {"SET"}, key : {"session"} \X Session, arg : AgentType] \cup
  [op : {"SET"}, key : {"session-simulation"} \X Session, arg : Simulation] \cup
  [op : {"SADD", "SREM"}, key : IndexKeys, arg : SUBSET Session] \cup
  [op : {"SADD", "SREM"}, key : {ActiveAgents}, arg : SUBSET AgentType] \cup
  [op : {"SADD", "SREM"}, key : {ActiveSimulations}, arg : SUBSET Simulation] \cup
  [op : {"DEL"}, key : Key, arg : {Nil}]

Locals ==
  [batch : Seq(Entry), next : Nat, type : AgentType \cup {Nil}, sim : Simulation \cup {Nil},
   todo : SUBSET Key, visit : IndexKeys \cup {Nil}, ids : SUBSET Session, stale : SUBSET Session]

\* Every Redis key holds a value of its kind and every goroutine's locals are well
\* typed: a session never resolves to something that is not an agent type.
TypeOK ==
  /\ DOMAIN db = Key
  /\ \A s \in Session : /\ db[SessionKey(s)] \in AgentType \cup {Nil}
                        /\ db[SessionSimulation(s)] \in Simulation \cup {Nil}
  /\ \A k \in IndexKeys : db[k] \subseteq Session
  /\ \A k \in ActiveKeys : db[k] \subseteq Owners(k)
  /\ at \in [Client -> Control]
  /\ pipe \in [Client -> Seq(Commands)]
  /\ local \in [Client -> Locals]
  /\ used \subseteq Session /\ rolledBack \subseteq used /\ unfound \subseteq Session
  /\ flushes \in 0..MaxFlushes /\ errors \in 0..MaxErrors

\* What the reaper has found stale is still gone when it removes it, although EXISTS
\* and SREM are separate commands and sessions are tracked in between: a pipeline
\* sets the session key before it adds the session to any set.
StaleIsDead ==
  \A r \in Reaper : \A s \in local[r].stale : db[SessionKey(s)] = Nil

\* The commands that may take a session out of an index set: the whole set is deleted
\* by a flush, or by the DEL that follows a count of zero; or UntrackSession removes it.
Dropped(k) == \E f \in Flusher : k \in local[f].todo /\ k \notin local'[f].todo

Sent(c) == pipe[c] # <<>> /\ pipe'[c] = Tail(pipe[c])
Emptied(k) == \E c \in Client : Sent(c) /\ Head(pipe[c]) = Del(k)
Leaves(s) == \E h \in Handler : Sent(h) /\ at[h] = "count type" /\ Current(h) = s

\* A session whose key exists leaves an index set by these three ways alone: never as
\* one of the members the reaper has found stale, although it checks and removes them
\* by separate commands while sessions are tracked. The second way is open to the
\* living: SCARD and DEL are separate too, and a session tracked between them loses
\* its entry to the DEL of UntrackSession or of Reap, whose comment says that it
\* "removes those whose session key no longer exists" (redis_registry.go:285).
LiveStayIndexed ==
  [][\A k \in IndexKeys, s \in Session :
       s \in db[k] /\ s \notin db'[k] /\ db[SessionKey(s)] # Nil
         => Dropped(k) \/ Emptied(k) \/ Leaves(s)]_vars

\* A spawn that was rolled back to its end has left no key and no index entry of the
\* session, whatever other requests and the reaper did meanwhile, but for the entry in
\* the simulation's set when the lookup of the simulation failed: UntrackSession
\* ignores that and returns no error, and the entry is left to the reaper (see
\* StaleReaped). A flush is excluded: it may delete the session key UntrackSession
\* looks the type up in.
RollbackComplete ==
  flushes = 0 => \A s \in rolledBack :
    /\ db[SessionKey(s)] = Nil /\ db[SessionSimulation(s)] = Nil
    /\ \A t \in AgentType : s \notin db[AgentSessions(t)]
    /\ s \notin unfound => \A m \in Simulation : s \notin db[SimulationSessions(m)]

\* An index entry whose session key is gone (expired, flushed, cut short) is removed
\* by the reaper in the end. The agent sweep visits only the types on the list; the
\* simulation sweep finds every set by SCAN.
StaleReaped ==
  /\ \A t \in AgentType, s \in Session :
       (s \in db[AgentSessions(t)] /\ db[SessionKey(s)] = Nil)
         ~> (s \notin db[AgentSessions(t)] \/ t \notin db[ActiveAgents])
  /\ \A m \in Simulation, s \in Session :
       (s \in db[SimulationSessions(m)] /\ db[SessionKey(s)] = Nil)
         ~> s \notin db[SimulationSessions(m)]

\* Operations that do not overlap leave the lists exact: ActiveAgentTypes and
\* ListSimulations answer what the in-memory service answers.
ListsExact ==
  (\A c \in Client : at[c] = "idle") =>
    /\ db[ActiveAgents] = {t \in AgentType : db[AgentSessions(t)] # {}}
    /\ db[ActiveSimulations] = {m \in Simulation : db[SimulationSessions(m)] # {}}

(***************************************************************************)
(* The refinement: a batch appears in the service when its last command is *)
(* done, a session leaves it when UntrackSession reads its type, and a     *)
(* flush takes effect when it starts.                                      *)
(***************************************************************************)
Flushing == \E f \in Flusher :
  at[f] \in {"flush types", "scan simulations", "flush simulations", "scan sessions", "flush sessions"}

Hidden(s) ==
  \/ Flushing
  \/ \E h \in Handler : at[h] = "track" /\ \E i \in DOMAIN local[h].batch : local[h].batch[i].session = s
  \/ \E h \in Handler : /\ at[h] \in {"simulation", "count type", "count simulation", "untracked"}
                       /\ Current(h) = s

Service == INSTANCE SessionService WITH
  agentTypes    <- [s \in Session |-> IF Hidden(s) THEN Nil ELSE db[SessionKey(s)]],
  agentSessions <- [t \in AgentType |-> {s \in db[AgentSessions(t)] : ~Hidden(s)}],
  sessionSim    <- [s \in Session |-> IF Hidden(s) THEN Nil ELSE db[SessionSimulation(s)]],
  simSessions   <- [m \in Simulation |-> {s \in db[SimulationSessions(m)] : ~Hidden(s)}]

\* One client at a time, the registry implements the in-memory service the tests and
\* local development use: every operation takes effect at once, as a whole.
ServiceImplemented == Service!Spec

\* So do the lists of types and simulations, which no service variable holds.
ServesExactly == ServiceImplemented /\ []ListsExact
=============================================================================
