------------------------------ MODULE HubProofs ------------------------------
(***************************************************************************)
(* Proofs about Hub for any number of connections, sessions, simulations,  *)
(* messages and workers, any buffer size and any number of frames.         *)
(***************************************************************************)
EXTENDS Hub, TLAPS, WellFoundedInduction, FiniteSetTheorems

\* The shape of Next as one flat disjunction, for the case splits.
LEMMA NextCases ==
  ASSUME Next
  PROVE \/ \E c \in Client : Register(c)
        \/ \E c \in Client, f \in Frame : HandleTextMessage(c, f)
        \/ \E c \in Client : Unregister(c)
        \/ \E c \in Client : PumpWrite(c)
        \/ \E c \in Client : PumpFails(c)
        \/ \E c \in Client : PumpClosed(c)
        \/ RunRegister
        \/ \E c \in Client : RunUnregister(c)
        \/ \E c \in Client : RunSubscribe(c)
        \/ \E c \in Client : RunUnsubscribe(c)
        \/ RunBroadcast
        \/ RunSessionMsg
        \/ \E m \in Message : Publish(m)
        \/ \E w \in Worker : WorkerTake(w)
        \/ \E w \in Worker : WorkerFanOut(w)
        \/ \E w \in Worker, found \in SUBSET SessionId : WorkerLookup(w, found)
  BY DEF Next, ReaderNext, PumpNext, RunNext, WorkerNext

-----------------------------------------------------------------------------
(* Type correctness                                                        *)

LEMMA InitTypeOK == Init => TypeOK
  <1> SUFFICES ASSUME Init PROVE TypeOK
    OBVIOUS
  <1>1. Idle \in WorkerState /\ Idle.pc = "idle"
    BY DEF Idle, WorkerState
  <1>2. /\ reader \in [Client -> ReaderPCs]
        /\ frame \in [Client -> Frame \cup {NoFrame}]
        /\ \A c \in Client : reader[c] = "sending" <=> frame[c] # NoFrame
        /\ pump \in [Client -> PumpPCs]
    BY DEF Init, ReaderPCs, PumpPCs
  <1>3. /\ worker \in [Worker -> WorkerState]
        /\ \A w \in Worker : worker[w].pc # "idle" => worker[w].msg \in Message
    BY <1>1 DEF Init
  <1>4. /\ send \in [Client -> Seq(Message)]
        /\ channel \in [Channels -> Seq(Message)]
        /\ copies \in [Client -> [Message -> Nat]]
        /\ frames \in [Client -> Seq(Frame)]
    BY DEF Init
  <1> QED BY <1>2, <1>3, <1>4 DEF Init, TypeOK

\* The assumptions but the lists of targets.
LEMMA Attributes ==
  /\ Global \notin Session /\ NoSim \notin Sim
  /\ None \notin Client /\ None \notin Message
  /\ SessionOf \in [Client -> SessionId]
  /\ AutoSub \in [Client -> Sim \cup {NoSim}]
  /\ Channel \in [Message -> Channels]
  /\ SimOf \in [Message -> Sim \cup {NoSim}]
  BY HubAssumption DEF HubAssumption

\* Every client is sent one copy at least.
Times == [Client -> Nat \ {0}]

LEMMA TimesType ==
  /\ Once \in Times
  /\ \A m \in Message : Namings(m) \in Times /\ Named(m) \subseteq SessionId
  <1>1. Once \in Times
    BY DEF Once, Times
  <1>2. ASSUME NEW m \in Message PROVE Namings(m) \in Times /\ Named(m) \subseteq SessionId
    <2>1. Targets[m] \in Seq(SessionId)
      BY HubAssumption DEF HubAssumption
    <2>2. ASSUME NEW c \in Client
          PROVE Cardinality({i \in DOMAIN Targets[m] : Targets[m][i] = SessionOf[c]}) \in Nat
      <3>1. IsFiniteSet(1..Len(Targets[m]))
        BY <2>1, FS_Interval
      <3>2. {i \in DOMAIN Targets[m] : Targets[m][i] = SessionOf[c]} \subseteq 1..Len(Targets[m])
        BY <2>1
      <3> QED BY <3>1, <3>2, FS_Subset, FS_CardinalityType
    <2>3. Namings(m) \in Times
      BY <2>2 DEF Namings, Times
    <2> QED BY <2>1, <2>3 DEF Named
  <1> QED BY <1>1, <1>2

\* What fits in a buffer with room is between one copy and all of them.
LEMMA FitIn ==
  ASSUME TypeOK, NEW times \in Times, NEW c \in Client, HasRoom(c)
  PROVE Fit(c, times[c]) \in 1..times[c]
  <1>1. Len(send[c]) \in Nat /\ SendBuffer \in Nat /\ Len(send[c]) < SendBuffer
    BY HubAssumption DEF HubAssumption, TypeOK, HasRoom
  <1>2. times[c] \in Nat /\ times[c] > 0
    BY DEF Times
  <1> QED BY <1>1, <1>2 DEF Fit

LEMMA EnqueueType ==
  ASSUME TypeOK, NEW m \in Message, NEW to \in SUBSET Client, NEW times \in Times,
         Enqueue(m, to, times)
  PROVE /\ send' \in [Client -> Seq(Message)]
        /\ copies' \in [Client -> [Message -> Nat]]
        /\ panicked' \in BOOLEAN
  <1>1. ASSUME NEW c \in Client, c \in Queued(to)
        PROVE Fit(c, times[c]) \in Nat
    BY <1>1, FitIn DEF Queued, Times
  <1>2. ASSUME NEW c \in Client, c \in Queued(to)
        PROVE send[c] \o [i \in 1..Fit(c, times[c]) |-> m] \in Seq(Message)
    <2>1. [i \in 1..Fit(c, times[c]) |-> m] \in Seq(Message)
      <3> DEFINE n == Fit(c, times[c])
      <3>1. n \in Nat
        BY <1>1, <1>2
      <3> HIDE DEF n
      <3>2. [i \in 1..n |-> m] \in [1..n -> Message]
        OBVIOUS
      <3>3. [i \in 1..n |-> m] \in Seq(Message)
        BY <3>1, <3>2
      <3> QED BY <3>3 DEF n
    <2>2. send[c] \in Seq(Message)
      BY DEF TypeOK
    <2> QED BY <2>1, <2>2
  <1>3. send' \in [Client -> Seq(Message)]
    BY <1>2 DEF TypeOK, Enqueue
  <1>4. ASSUME NEW c \in Client, c \in Queued(to)
        PROVE [copies[c] EXCEPT ![m] = @ + Fit(c, times[c])] \in [Message -> Nat]
    BY <1>1, <1>4 DEF TypeOK
  <1>5. copies' \in [Client -> [Message -> Nat]]
    BY <1>4 DEF TypeOK, Enqueue
  <1> QED BY <1>3, <1>5 DEF Enqueue

\* The recipients computed by the delivery paths are clients.
LEMMA RecipientsAreClients ==
  ASSUME TypeOK
  PROVE /\ UNION {clients[s] : s \in SessionId} \subseteq Client
        /\ \A m \in Message :
             /\ UNION {clients[s] : s \in Named(m)} \subseteq Client
             /\ Observers(m) \subseteq Client
             /\ Targeted(m) \subseteq Client
             /\ Subscribers(m) \subseteq Client
        /\ \A w \in Worker, found \in SUBSET SessionId :
             CrossInstance(w, found) \subseteq Client
  <1>1. \A s \in SessionId : clients[s] \subseteq Client
    BY DEF TypeOK
  <1>2. \A m \in Message : Named(m) \subseteq SessionId /\ SimOf[m] \in Sim \cup {NoSim}
    BY TimesType, HubAssumption DEF HubAssumption
  <1> QED BY <1>1, <1>2 DEF TypeOK, Observers, Targeted, Subscribers, CrossInstance, SessionId

LEMMA NextTypeOK == TypeOK /\ [Next]_vars => TypeOK'
  <1> SUFFICES ASSUME TypeOK, [Next]_vars PROVE TypeOK'
    OBVIOUS
  <1> USE HubAssumption DEF HubAssumption
  <1>1. ASSUME NEW c \in Client, Register(c) PROVE TypeOK'
    BY <1>1 DEF TypeOK, Register, mapVars, msgVars, subVars, ReaderPCs, PumpPCs
  <1>2. ASSUME NEW c \in Client, NEW f \in Frame, HandleTextMessage(c, f) PROVE TypeOK'
    <2>1. f # NoFrame
      BY DEF Frame, NoFrame
    <2> QED BY <1>2, <2>1 DEF TypeOK, HandleTextMessage, mapVars, msgVars, subVars, ReaderPCs
  <1>3. ASSUME NEW c \in Client, Unregister(c) PROVE TypeOK'
    BY <1>3 DEF TypeOK, Unregister, mapVars, msgVars, subVars, ReaderPCs
  <1>4. ASSUME NEW c \in Client, PumpWrite(c) PROVE TypeOK'
    BY <1>4 DEF TypeOK, PumpWrite, mapVars, connVars, subVars
  <1>5. ASSUME NEW c \in Client, PumpFails(c) PROVE TypeOK'
    <2>1. send' \in [Client -> Seq(Message)]
      <3>1. send[c] # <<>> => Tail(send[c]) \in Seq(Message)
        BY DEF TypeOK
      <3> QED BY <1>5, <3>1 DEF TypeOK, PumpFails
    <2> QED BY <1>5, <2>1 DEF TypeOK, PumpFails, mapVars, subVars, PumpPCs
  <1>6. ASSUME NEW c \in Client, PumpClosed(c) PROVE TypeOK'
    BY <1>6 DEF TypeOK, PumpClosed, mapVars, msgVars, subVars, PumpPCs
  <1>7. CASE RunRegister
    <2>1. registering \in Client /\ SessionOf[registering] \in SessionId
      BY <1>7 DEF RunRegister, TypeOK
    <2>2. /\ clients' \in [SessionId -> SUBSET Client]
          /\ connToClient' \in SUBSET Client
      BY <1>7, <2>1 DEF TypeOK, RunRegister
    <2>3. /\ simSubscriptions' \in [Client -> SUBSET Sim]
          /\ simToClients' \in [Sim -> SUBSET Client]
      <3>1. CASE AutoSub[registering] = NoSim
        BY <1>7, <3>1 DEF TypeOK, RunRegister
      <3>2. CASE AutoSub[registering] # NoSim
        <4>1. AutoSub[registering] \in Sim
          BY <2>1, <3>2
        <4>2. AddSubscription(registering, AutoSub[registering])
          BY <1>7, <3>2 DEF RunRegister
        <4> QED BY <2>1, <4>1, <4>2 DEF TypeOK, AddSubscription
      <3> QED BY <3>1, <3>2
    <2> QED BY <1>7, <2>2, <2>3 DEF TypeOK, RunRegister, msgVars
  <1>8. ASSUME NEW c \in Client, RunUnregister(c) PROVE TypeOK'
    <2>1. RemoveClient(c)
      BY <1>8 DEF RunUnregister
    <2>2. /\ clients' \in [SessionId -> SUBSET Client]
          /\ connToClient' \in SUBSET Client
          /\ simSubscriptions' \in [Client -> SUBSET Sim]
          /\ simToClients' \in [Sim -> SUBSET Client]
          /\ simBlocked' \in [Client -> SUBSET Sim]
          /\ sendClosed' \in SUBSET Client
      BY <2>1 DEF TypeOK, RemoveClient
    <2>3. /\ reader' \in [Client -> ReaderPCs]
          /\ pump' \in [Client -> PumpPCs]
          /\ \A d \in Client : reader'[d] = "sending" <=> frame'[d] # NoFrame
      <3>1. CASE reader[c] = "unregistering" /\ reader' = [reader EXCEPT ![c] = "done"] /\ UNCHANGED pump
        BY <1>8, <3>1 DEF TypeOK, RunUnregister, ReaderPCs
      <3>2. CASE pump' = [pump EXCEPT ![c] = "failed"] /\ UNCHANGED reader
        BY <1>8, <3>2 DEF TypeOK, RunUnregister, PumpPCs
      <3> QED BY <1>8, <3>1, <3>2 DEF RunUnregister
    <2> QED BY <1>8, <2>2, <2>3 DEF TypeOK, RunUnregister, msgVars
  <1>9. ASSUME NEW c \in Client, RunSubscribe(c) PROVE TypeOK'
    <2>1. frame[c] \in Frame
      BY <1>9 DEF RunSubscribe, TakeFrame, TypeOK
    <2> QED BY <1>9, <2>1 DEF TypeOK, RunSubscribe, TakeFrame, AddSubscription, msgVars, ReaderPCs, Frame
  <1>10. ASSUME NEW c \in Client, RunUnsubscribe(c) PROVE TypeOK'
    <2>1. frame[c] \in Frame
      BY <1>10 DEF RunUnsubscribe, TakeFrame, TypeOK
    <2> QED BY <1>10, <2>1 DEF TypeOK, RunUnsubscribe, TakeFrame, msgVars, ReaderPCs, Frame
  <1>11. ASSUME NEW ch \in Channels, NEW to \in SUBSET Client, Deliver(ch, to) PROVE TypeOK'
    <2>1. Head(channel[ch]) \in Message /\ Tail(channel[ch]) \in Seq(Message)
      BY <1>11 DEF Deliver, TypeOK
    <2>2. Enqueue(Head(channel[ch]), to, Once)
      BY <1>11 DEF Deliver
    <2> QED BY <1>11, <2>1, <2>2, EnqueueType, TimesType DEF TypeOK, Deliver, mapVars, connVars, subVars
  <1>12. CASE RunBroadcast
    BY <1>11, <1>12, RecipientsAreClients DEF RunBroadcast, Channels
  <1>13. CASE RunSessionMsg
    <2>1. Head(channel["sessionMsg"]) \in Message
      BY <1>13 DEF RunSessionMsg, TypeOK, Channels
    <2> QED BY <1>11, <1>13, <2>1, RecipientsAreClients DEF RunSessionMsg, Channels
  <1>14. ASSUME NEW m \in Message, Publish(m) PROVE TypeOK'
    BY <1>14 DEF TypeOK, Publish, mapVars, connVars, subVars
  <1>15. ASSUME NEW w \in Worker, WorkerTake(w) PROVE TypeOK'
    <2>1. Head(channel["remoteMsg"]) \in Message /\ Tail(channel["remoteMsg"]) \in Seq(Message)
      BY <1>15 DEF WorkerTake, TypeOK, Channels
    <2> QED BY <1>15, <2>1 DEF TypeOK, WorkerTake, mapVars, connVars, subVars, WorkerState
  <1>16. ASSUME NEW w \in Worker, WorkerFanOut(w) PROVE TypeOK'
    <2> DEFINE m == worker[w].msg
               to == Observers(m) \cup Targeted(m) \cup Subscribers(m)
    <2>1. m \in Message
      BY <1>16 DEF WorkerFanOut, TypeOK
    <2>2. to \in SUBSET Client
      BY <2>1, RecipientsAreClients
    <2>3. Enqueue(m, to, Namings(m)) /\ Namings(m) \in Times
      BY <1>16, <2>1, TimesType DEF WorkerFanOut
    <2>4. Queued(to) \in SUBSET Client
      BY <2>2 DEF Queued
    <2>5. worker' = [worker EXCEPT ![w] = IF SimOf[m] = NoSim THEN Idle
                       ELSE [pc |-> "lookup", msg |-> m, delivered |-> Queued(to)]]
      BY <1>16 DEF WorkerFanOut
    <2>6. worker' \in [Worker -> WorkerState]
          /\ \A v \in Worker : worker'[v].pc # "idle" => worker'[v].msg \in Message
      BY <2>1, <2>4, <2>5 DEF TypeOK, WorkerState, Idle
    <2> HIDE DEF m, to
    <2> QED BY <1>16, <2>1, <2>2, <2>3, <2>6, EnqueueType DEF TypeOK, WorkerFanOut, mapVars, connVars, subVars
  <1>17. ASSUME NEW w \in Worker, NEW found \in SUBSET SessionId, WorkerLookup(w, found) PROVE TypeOK'
    <2>1. worker[w].msg \in Message /\ CrossInstance(w, found) \in SUBSET Client
      BY <1>17, RecipientsAreClients DEF WorkerLookup, TypeOK
    <2>2. Enqueue(worker[w].msg, CrossInstance(w, found), Once)
      BY <1>17 DEF WorkerLookup
    <2> QED BY <1>17, <2>1, <2>2, EnqueueType, TimesType
            DEF TypeOK, WorkerLookup, mapVars, connVars, subVars, WorkerState, Idle
  <1>18. CASE UNCHANGED vars
    BY <1>18 DEF TypeOK, vars, mapVars, connVars, msgVars, subVars
  <1> QED
    BY <1>1, <1>2, <1>3, <1>4, <1>5, <1>6, <1>7, <1>8, <1>9, <1>10, <1>12, <1>13, <1>14,
       <1>15, <1>16, <1>17, <1>18, NextCases

\* The maps, buffers and program counters stay in their types.
THEOREM TypeCorrect == Spec => []TypeOK
  BY InitTypeOK, NextTypeOK, PTL DEF Spec

-----------------------------------------------------------------------------
(* The routing maps and the lifetime of a connection                       *)

LEMMA InitHubInv == Init => HubInv
  <1> SUFFICES ASSUME Init PROVE HubInv
    OBVIOUS
  <1>1. IndexesAgree /\ RegisteredIsOpen
    BY DEF Init, IndexesAgree, RegisteredIsOpen
  <1>2. ConnectionInv /\ OnlyLateFramesPanic
    BY HubAssumption DEF HubAssumption, Init, ConnectionInv, Fresh, Forgotten, OnlyLateFramesPanic
  <1> QED BY <1>1, <1>2, InitTypeOK DEF HubInv

\* A locked section that sends to registered clients, to indexed clients or
\* to both can only panic because of a late frame.
LEMMA SendInv ==
  ASSUME HubInv, NEW m \in Message, NEW to \in SUBSET Client, NEW times,
         Enqueue(m, to, times), UNCHANGED <<mapVars, connVars>>,
         \A c \in to : \/ \E s \in SessionId : c \in clients[s]
                      \/ \E s \in Sim : c \in simToClients[s]
  PROVE (IndexesAgree /\ RegisteredIsOpen /\ ConnectionInv /\ OnlyLateFramesPanic)'
  <1> USE DEF HubInv, mapVars, connVars, subVars
  <1>1. (IndexesAgree /\ RegisteredIsOpen)'
    BY DEF IndexesAgree, RegisteredIsOpen
  <1>2. ConnectionInv'
    BY DEF ConnectionInv, Fresh, Forgotten
  <1>3. ASSUME to \cap sendClosed # {} PROVE OnlyLateFramesPanic'
    <2>1. PICK c \in to : c \in sendClosed
      BY <1>3
    <2>2. PICK s \in Sim : c \in simToClients[s]
      BY <2>1 DEF RegisteredIsOpen
    <2>3. simSubscriptions[c] # {}
      BY <2>2 DEF IndexesAgree
    <2>4. pump[c] = "failed" /\ frames[c] # <<>>
      BY <2>1, <2>3 DEF ConnectionInv, Forgotten
    <2> QED BY <2>1, <2>3, <2>4 DEF OnlyLateFramesPanic
  <1>4. ASSUME to \cap sendClosed = {} PROVE OnlyLateFramesPanic'
    BY <1>4 DEF Enqueue, OnlyLateFramesPanic
  <1> QED BY <1>1, <1>2, <1>3, <1>4

\* A step that leaves the maps alone and neither registers a client nor ends
\* a reader or a writePump keeps the invariant.
LEMMA QuietInv ==
  ASSUME HubInv, ~panicked', UNCHANGED mapVars, UNCHANGED <<registering, frames>>,
         \A c \in Client : /\ reader'[c] = "new" <=> reader[c] = "new"
                           /\ reader[c] = "done" => reader'[c] = "done"
                           /\ pump'[c] = "failed" <=> pump[c] = "failed"
  PROVE (IndexesAgree /\ RegisteredIsOpen /\ ConnectionInv /\ OnlyLateFramesPanic)'
  <1> USE DEF HubInv, mapVars, subVars
  <1>1. (IndexesAgree /\ RegisteredIsOpen /\ OnlyLateFramesPanic)'
    BY DEF IndexesAgree, RegisteredIsOpen, OnlyLateFramesPanic
  <1>2. ConnectionInv'
    BY DEF ConnectionInv, Fresh, Forgotten
  <1> QED BY <1>1, <1>2

LEMMA RegisterInv ==
  ASSUME HubInv, NEW c \in Client, Register(c)
  PROVE (IndexesAgree /\ RegisteredIsOpen /\ ConnectionInv /\ OnlyLateFramesPanic)'
  <1> USE DEF HubInv, Register, mapVars, msgVars, subVars
  <1>1. (IndexesAgree /\ RegisteredIsOpen /\ OnlyLateFramesPanic)'
    BY DEF IndexesAgree, RegisteredIsOpen, OnlyLateFramesPanic
  <1>2. Fresh(c)
    BY DEF Fresh
  <1>3. ASSUME NEW d \in Client, d # c PROVE Fresh(d)' => Fresh(d)
    BY <1>3 DEF Fresh, TypeOK
  <1>4. \A d \in Client : reader'[d] = IF d = c THEN "reading" ELSE reader[d]
    BY DEF TypeOK
  <1>5. \A d \in Client : pump'[d] = IF d = c THEN "running" ELSE pump[d]
    BY DEF TypeOK
  <1>6. \A d \in Client : Forgotten(d)' <=> Forgotten(d)
    BY DEF Forgotten
  <1>7. ConnectionInv'
    BY <1>2, <1>3, <1>4, <1>5, <1>6 DEF ConnectionInv
  <1> QED BY <1>1, <1>7

LEMMA RunRegisterInv ==
  ASSUME HubInv, RunRegister
  PROVE (IndexesAgree /\ RegisteredIsOpen /\ ConnectionInv /\ OnlyLateFramesPanic)'
  <1> USE Attributes DEF HubInv
  <1>0. PICK c \in Client : c = registering
    BY DEF RunRegister, TypeOK
  <1>1. c \in Client /\ Fresh(c) /\ Forgotten(c) /\ c \notin sendClosed
    BY <1>0 DEF Fresh, ConnectionInv
  <1>2. /\ clients' = [clients EXCEPT ![SessionOf[c]] = @ \cup {c}]
        /\ connToClient' = connToClient \cup {c}
        /\ registering' = None
        /\ UNCHANGED <<simBlocked, sendClosed, reader, frame, pump, frames, panicked>>
    BY <1>0 DEF RunRegister, msgVars
  <1>3. SessionOf[c] \in SessionId
    BY <1>1
  <1>4. /\ IndexesAgree'
        /\ \A d \in Client \ {c} : simSubscriptions'[d] = simSubscriptions[d]
    <2>1. CASE AutoSub[c] = NoSim
      BY <1>0, <2>1 DEF RunRegister, IndexesAgree
    <2>2. CASE AutoSub[c] # NoSim
      <3>1. AddSubscription(c, AutoSub[c]) /\ AutoSub[c] \in Sim
        BY <1>0, <1>1, <2>2 DEF RunRegister
      <3> QED BY <1>1, <3>1 DEF AddSubscription, IndexesAgree, TypeOK
    <2> QED BY <2>1, <2>2
  <1>5. RegisteredIsOpen'
    BY <1>1, <1>2, <1>3 DEF RegisteredIsOpen, TypeOK
  <1>6. ConnectionInv'
    <2>1. c \notin sendClosed'
      BY <1>1, <1>2
    <2>2. ~Fresh(c)'
      <3>1. reader[c] # "new"
        BY <1>0 DEF ConnectionInv
      <3> QED BY <1>1, <1>2, <3>1 DEF Fresh
    <2>3. ASSUME NEW d \in Client, d # c
          PROVE (Fresh(d)' => Fresh(d)) /\ (Forgotten(d) => Forgotten(d)')
      <3>1. Fresh(d)' => Fresh(d)
        BY <1>2, <2>3 DEF Fresh
      <3>2. Forgotten(d) => Forgotten(d)'
        BY <1>1, <1>2, <1>3, <1>4, <2>3 DEF Forgotten, IndexesAgree, TypeOK
      <3> QED BY <3>1, <3>2
    <2>4. ASSUME NEW d \in Client, d # c
          PROVE /\ registering' # d
                /\ Fresh(d)' => Forgotten(d)' /\ d \notin sendClosed'
                /\ d \in sendClosed' => d \notin connToClient'
                /\ d \in sendClosed' /\ pump'[d] # "failed" => reader'[d] = "done" /\ Forgotten(d)'
                /\ d \in sendClosed' /\ simSubscriptions'[d] # {} => frames'[d] # <<>>
      BY <1>2, <1>4, <2>3, <2>4 DEF ConnectionInv
    <2>5. registering' # c
      BY <1>1, <1>2
    <2> QED BY <2>1, <2>2, <2>4, <2>5 DEF ConnectionInv
  <1>7. OnlyLateFramesPanic'
    BY <1>2 DEF RunRegister, OnlyLateFramesPanic
  <1> QED BY <1>4, <1>5, <1>6, <1>7

LEMMA RunUnregisterInv ==
  ASSUME HubInv, NEW c \in Client, RunUnregister(c)
  PROVE (IndexesAgree /\ RegisteredIsOpen /\ ConnectionInv /\ OnlyLateFramesPanic)'
  <1> USE Attributes DEF HubInv
  <1>1. RemoveClient(c) /\ ~panicked /\ registering = None
        /\ UNCHANGED <<registering, frame, frames, panicked>>
    BY DEF RunUnregister, msgVars, AtSelect
  <1>2. /\ \A d \in Client \ {c} : reader'[d] = reader[d] /\ pump'[d] = pump[d]
        /\ \/ reader'[c] = "done" /\ pump'[c] = pump[c]
           \/ reader'[c] = reader[c] /\ pump'[c] = "failed"
    <2>1. CASE reader[c] = "unregistering" /\ reader' = [reader EXCEPT ![c] = "done"] /\ UNCHANGED pump
      BY <2>1 DEF TypeOK
    <2>2. CASE pump' = [pump EXCEPT ![c] = "failed"] /\ UNCHANGED reader
      BY <2>2 DEF TypeOK
    <2> QED BY <2>1, <2>2 DEF RunUnregister
  <1>3. IndexesAgree'
    BY <1>1 DEF RemoveClient, IndexesAgree, TypeOK
  <1>4. RegisteredIsOpen'
    BY <1>1 DEF RemoveClient, RegisteredIsOpen, TypeOK
  <1>5. Forgotten(c)'
    BY <1>1, <1>3 DEF RemoveClient, Forgotten, IndexesAgree, TypeOK
  <1>6. ASSUME NEW d \in Client, d # c
        PROVE /\ d \in sendClosed' <=> d \in sendClosed
              /\ simSubscriptions'[d] = simSubscriptions[d]
              /\ d \in connToClient' <=> d \in connToClient
              /\ Forgotten(d) => Forgotten(d)'
    BY <1>1, <1>6 DEF RemoveClient, Forgotten, TypeOK
  <1>7. simSubscriptions'[c] = {} /\ c \notin connToClient'
    BY <1>5 DEF Forgotten
  <1>8. reader'[c] = "new" => c \notin sendClosed'
    <2>1. ASSUME reader'[c] = "new" PROVE c \notin clients[SessionOf[c]] /\ c \notin sendClosed
      BY <1>2, <2>1 DEF ConnectionInv, Fresh, Forgotten
    <2> QED BY <1>1, <2>1 DEF RemoveClient
  <1>9. ConnectionInv'
    <2>1. ASSUME NEW d \in Client, d # c
          PROVE /\ Fresh(d)' => Forgotten(d)' /\ d \notin sendClosed'
                /\ registering' = d => reader'[d] # "new"
                /\ d \in sendClosed' => d \notin connToClient'
                /\ d \in sendClosed' /\ pump'[d] # "failed" => reader'[d] = "done" /\ Forgotten(d)'
                /\ d \in sendClosed' /\ simSubscriptions'[d] # {} => frames'[d] # <<>>
      BY <1>1, <1>2, <1>6, <2>1 DEF ConnectionInv, Fresh
    <2>2. registering' # c
      BY <1>1
    <2>3. c \in sendClosed' /\ pump'[c] # "failed" => reader'[c] = "done"
      BY <1>2
    <2> QED BY <1>5, <1>7, <1>8, <2>1, <2>2, <2>3 DEF ConnectionInv, Fresh
  <1>10. OnlyLateFramesPanic'
    BY <1>1 DEF OnlyLateFramesPanic
  <1> QED BY <1>3, <1>4, <1>9, <1>10

LEMMA RunFrameInv ==
  ASSUME HubInv, NEW c \in Client, RunSubscribe(c) \/ RunUnsubscribe(c)
  PROVE (IndexesAgree /\ RegisteredIsOpen /\ ConnectionInv /\ OnlyLateFramesPanic)'
  <1> USE DEF HubInv
  <1>1. /\ reader[c] = "sending" /\ frame[c].sim \in Sim /\ frame[c] \in Frame
        /\ reader' = [reader EXCEPT ![c] = "reading"]
        /\ frames' = [frames EXCEPT ![c] = Append(@, frame[c])]
        /\ registering = None
        /\ ~panicked /\ UNCHANGED <<clients, connToClient, sendClosed, registering, pump, panicked>>
    BY DEF RunSubscribe, RunUnsubscribe, TakeFrame, AtSelect, TypeOK, Frame, msgVars
  <1>2. /\ IndexesAgree'
        /\ \A d \in Client \ {c} : /\ simSubscriptions'[d] = simSubscriptions[d]
                                   /\ simBlocked'[d] = simBlocked[d]
                                   /\ \A s \in Sim : d \in simToClients'[s] <=> d \in simToClients[s]
    <2>1. CASE RunSubscribe(c)
      BY <1>1, <2>1 DEF RunSubscribe, AddSubscription, IndexesAgree, TypeOK
    <2>2. CASE RunUnsubscribe(c)
      BY <1>1, <2>2 DEF RunUnsubscribe, IndexesAgree, TypeOK
    <2> QED BY <2>1, <2>2
  <1>3. RegisteredIsOpen'
    BY <1>1 DEF RegisteredIsOpen
  <1>4. frames'[c] # <<>>
    <2>1. frames[c] \in Seq(Frame) /\ frames'[c] = Append(frames[c], frame[c])
      BY <1>1 DEF TypeOK
    <2>2. Len(frames'[c]) = Len(frames[c]) + 1 /\ Len(frames[c]) \in Nat
      BY <1>1, <2>1
    <2> QED BY <2>2
  <1>5. ~Fresh(c)' /\ registering' # c
    BY <1>1, HubAssumption DEF HubAssumption, Fresh, TypeOK
  <1>6. c \in sendClosed => pump[c] = "failed"
    BY <1>1 DEF ConnectionInv
  <1>7. ASSUME NEW d \in Client, d # c
        PROVE /\ Forgotten(d)' <=> Forgotten(d)
              /\ reader'[d] = reader[d] /\ frames'[d] = frames[d]
              /\ Fresh(d)' <=> Fresh(d)
    BY <1>1, <1>2, <1>7 DEF Forgotten, Fresh, TypeOK
  <1>8. ConnectionInv'
    <2>1. ASSUME NEW d \in Client, d # c
          PROVE /\ Fresh(d)' => Forgotten(d)' /\ d \notin sendClosed'
                /\ registering' = d => reader'[d] # "new"
                /\ d \in sendClosed' => d \notin connToClient'
                /\ d \in sendClosed' /\ pump'[d] # "failed" => reader'[d] = "done" /\ Forgotten(d)'
                /\ d \in sendClosed' /\ simSubscriptions'[d] # {} => frames'[d] # <<>>
      BY <1>1, <1>2, <1>7, <2>1 DEF ConnectionInv
    <2>2. c \in sendClosed' => c \notin connToClient'
      BY <1>1 DEF ConnectionInv
    <2> QED BY <1>1, <1>4, <1>5, <1>6, <2>1, <2>2 DEF ConnectionInv
  <1>9. OnlyLateFramesPanic'
    BY <1>1 DEF OnlyLateFramesPanic
  <1> QED BY <1>2, <1>3, <1>8, <1>9

LEMMA NextHubInv == HubInv /\ [Next]_vars => HubInv'
  <1> SUFFICES ASSUME HubInv, [Next]_vars
               PROVE (IndexesAgree /\ RegisteredIsOpen /\ ConnectionInv /\ OnlyLateFramesPanic)'
    BY NextTypeOK DEF HubInv
  <1> USE Attributes
  <1>1. ASSUME NEW c \in Client, NEW f \in Frame, HandleTextMessage(c, f)
        PROVE (IndexesAgree /\ RegisteredIsOpen /\ ConnectionInv /\ OnlyLateFramesPanic)'
    BY <1>1, QuietInv DEF HandleTextMessage, msgVars, HubInv, TypeOK
  <1>2. ASSUME NEW c \in Client, Unregister(c)
        PROVE (IndexesAgree /\ RegisteredIsOpen /\ ConnectionInv /\ OnlyLateFramesPanic)'
    BY <1>2, QuietInv DEF Unregister, msgVars, HubInv, TypeOK
  <1>3. ASSUME NEW c \in Client, PumpWrite(c) \/ PumpFails(c) \/ PumpClosed(c)
        PROVE (IndexesAgree /\ RegisteredIsOpen /\ ConnectionInv /\ OnlyLateFramesPanic)'
    <2>1. CASE PumpWrite(c)
      BY <2>1, QuietInv DEF PumpWrite, connVars, msgVars, HubInv, TypeOK
    <2>2. CASE PumpFails(c)
      BY <2>2, QuietInv DEF PumpFails, connVars, msgVars, HubInv, TypeOK
    <2>3. CASE PumpClosed(c)
      BY <2>3, QuietInv DEF PumpClosed, connVars, msgVars, HubInv, TypeOK
    <2> QED BY <1>3, <2>1, <2>2, <2>3
  <1>4. ASSUME NEW m \in Message, Publish(m)
        PROVE (IndexesAgree /\ RegisteredIsOpen /\ ConnectionInv /\ OnlyLateFramesPanic)'
    BY <1>4, QuietInv DEF Publish, connVars
  <1>5. ASSUME NEW w \in Worker, WorkerTake(w)
        PROVE (IndexesAgree /\ RegisteredIsOpen /\ ConnectionInv /\ OnlyLateFramesPanic)'
    BY <1>5, QuietInv DEF WorkerTake, connVars
  <1>6. CASE RunBroadcast
    <2>1. Head(channel["broadcast"]) \in Message
      BY <1>6 DEF RunBroadcast, Deliver, HubInv, TypeOK, Channels
    <2>2. Enqueue(Head(channel["broadcast"]), UNION {clients[s] : s \in SessionId}, Once)
      BY <1>6 DEF RunBroadcast, Deliver
    <2>3. UNION {clients[s] : s \in SessionId} \in SUBSET Client
      BY RecipientsAreClients DEF HubInv
    <2>4. UNCHANGED <<mapVars, connVars>>
      BY <1>6 DEF RunBroadcast, Deliver
    <2>5. \A c \in UNION {clients[s] : s \in SessionId} : \E s \in SessionId : c \in clients[s]
      OBVIOUS
    <2> QED BY <2>1, <2>2, <2>3, <2>4, <2>5, SendInv
  <1>7. CASE RunSessionMsg
    <2> DEFINE m == Head(channel["sessionMsg"])
    <2>1. m \in Message
      BY <1>7 DEF RunSessionMsg, HubInv, TypeOK, Channels
    <2>2. Enqueue(m, UNION {clients[s] : s \in Named(m)}, Once)
      BY <1>7 DEF RunSessionMsg, Deliver
    <2>3. UNION {clients[s] : s \in Named(m)} \in SUBSET Client
      BY <2>1, RecipientsAreClients DEF HubInv
    <2>4. \A c \in UNION {clients[s] : s \in Named(m)} : \E s \in SessionId : c \in clients[s]
      BY <2>1, TimesType
    <2>5. UNCHANGED <<mapVars, connVars>>
      BY <1>7 DEF RunSessionMsg, Deliver
    <2> HIDE DEF m
    <2> QED BY <2>1, <2>2, <2>3, <2>4, <2>5, SendInv
  <1>8. ASSUME NEW w \in Worker, WorkerFanOut(w)
        PROVE (IndexesAgree /\ RegisteredIsOpen /\ ConnectionInv /\ OnlyLateFramesPanic)'
    <2> DEFINE m == worker[w].msg
               to == Observers(m) \cup Targeted(m) \cup Subscribers(m)
    <2>1. m \in Message /\ SimOf[m] \in Sim \cup {NoSim} /\ Named(m) \subseteq SessionId
      BY <1>8, TimesType DEF WorkerFanOut, HubInv, TypeOK
    <2>2. Enqueue(m, to, Namings(m)) /\ UNCHANGED <<mapVars, connVars>>
      BY <1>8 DEF WorkerFanOut
    <2>3. to \in SUBSET Client
      BY <2>1, RecipientsAreClients DEF HubInv
    <2>4. \A c \in to : \/ \E s \in SessionId : c \in clients[s]
                       \/ \E s \in Sim : c \in simToClients[s]
      BY <2>1 DEF Observers, Targeted, Subscribers, SessionId
    <2> HIDE DEF m, to
    <2> QED BY <2>1, <2>2, <2>3, <2>4, SendInv
  <1>9. ASSUME NEW w \in Worker, NEW found \in SUBSET SessionId, WorkerLookup(w, found)
        PROVE (IndexesAgree /\ RegisteredIsOpen /\ ConnectionInv /\ OnlyLateFramesPanic)'
    <2>1. worker[w].msg \in Message
      BY <1>9 DEF WorkerLookup, HubInv, TypeOK
    <2>2. CrossInstance(w, found) \in SUBSET Client
      BY RecipientsAreClients DEF HubInv
    <2>3. \A c \in CrossInstance(w, found) : \E s \in SessionId : c \in clients[s]
      BY DEF CrossInstance
    <2> QED BY <1>9, <2>1, <2>2, <2>3, SendInv DEF WorkerLookup
  <1>10. CASE UNCHANGED vars
    BY <1>10 DEF HubInv, IndexesAgree, RegisteredIsOpen, ConnectionInv, OnlyLateFramesPanic,
         Fresh, Forgotten, vars, mapVars, connVars, msgVars, subVars
  <1> QED
    BY <1>1, <1>2, <1>3, <1>4, <1>5, <1>6, <1>7, <1>8, <1>9, <1>10, NextCases,
       RegisterInv, RunRegisterInv, RunUnregisterInv, RunFrameInv

\* HubInv is inductive: the routing maps agree with each other and with what
\* each connection's reader and writePump have done.
THEOREM HubInvariant == Spec => []HubInv
  BY InitHubInv, NextHubInv, PTL DEF Spec

\* Registered clients have an open channel and can be resolved; the allowlist
\* and its reverse index agree; a connection its reader ended leaves nothing
\* behind; the process only panics for a late frame.
THEOREM RoutingMapsSafe ==
  Spec => [](RoutingMapsAgree /\ OnlyLateFramesPanic)
  <1>1. HubInv => RegisteredIsOpen /\ IndexesAgree /\ CleanDisconnect /\ OnlyLateFramesPanic
    BY DEF HubInv, CleanDisconnect, ConnectionInv, TypeOK
  <1>2. HubInv => RoutingMapsAgree /\ OnlyLateFramesPanic
    BY <1>1 DEF RoutingMapsAgree
  <1> QED BY <1>2, HubInvariant, PTL

-----------------------------------------------------------------------------
(* At-most-once delivery                                                   *)

\* CopiesInv says what follows of every place of every channel.
LEMMA Places ==
  ASSUME TypeOK, CopiesInv, NEW m \in Message, NEW ch \in Channels, NEW i, At(ch, i, m)
  PROVE /\ m \in published /\ Unsent(m)
        /\ \A w \in Worker : ~HeldBy(w, m)
        /\ \A ch2 \in Channels : \A j : At(ch2, j, m) => ch2 = ch /\ j = i
  BY DEF CopiesInv, OnePlace, InChannel, At

LEMMA HeldIsOut ==
  ASSUME TypeOK, CopiesInv, NEW m \in Message, NEW w \in Worker, HeldBy(w, m)
  PROVE /\ m \in published /\ ~InChannel(m)
        /\ \A v \in Worker : HeldBy(v, m) => v = w
  BY DEF CopiesInv, OnePlace, InChannel

\* Receiving from a channel: the rest keeps its order, one place earlier.
LEMMA TailPositions ==
  ASSUME TypeOK, NEW ch0 \in Channels, channel[ch0] # <<>>,
         channel' = [channel EXCEPT ![ch0] = Tail(@)],
         NEW ch \in Channels, NEW i, NEW n, At(ch, i, n)'
  PROVE i \in Nat \ {0} /\ At(ch, IF ch = ch0 THEN i + 1 ELSE i, n)
  <1>1. channel[ch] \in Seq(Message)
    BY DEF TypeOK
  <1>2. CASE ch = ch0
    <2>1. channel'[ch] = Tail(channel[ch])
      BY <1>2 DEF TypeOK
    <2>2. Len(channel[ch]) \in Nat \ {0} /\ DOMAIN channel[ch] = 1..Len(channel[ch])
      BY <1>1, <1>2
    <2>3. /\ Tail(channel[ch]) \in Seq(Message)
          /\ Len(Tail(channel[ch])) = Len(channel[ch]) - 1
          /\ \A j \in 1..Len(Tail(channel[ch])) : Tail(channel[ch])[j] = channel[ch][j+1]
      BY <1>1, <1>2
    <2>4. DOMAIN Tail(channel[ch]) = 1..Len(Tail(channel[ch]))
      BY <2>3
    <2>5. i \in 1..(Len(channel[ch]) - 1) /\ channel[ch][i+1] = n
      BY <2>1, <2>3, <2>4 DEF At
    <2> QED BY <1>2, <2>2, <2>5 DEF At
  <1>3. CASE ch # ch0
    <2>1. channel'[ch] = channel[ch]
      BY <1>3 DEF TypeOK
    <2> QED BY <1>1, <1>3, <2>1 DEF At
  <1> QED BY <1>2, <1>3

\* What is left in the channels after a receive was there before, is not the
\* message received, and is still in one place.
LEMMA TailPlaces ==
  ASSUME TypeOK, CopiesInv, NEW ch0 \in Channels, channel[ch0] # <<>>,
         channel' = [channel EXCEPT ![ch0] = Tail(@)],
         NEW ch \in Channels, NEW i, NEW n \in Message, At(ch, i, n)'
  PROVE /\ n # Head(channel[ch0])
        /\ n \in published /\ Unsent(n) /\ \A w \in Worker : ~HeldBy(w, n)
        /\ \A ch2 \in Channels : \A j : At(ch2, j, n)' => ch2 = ch /\ j = i
  <1>1. PICK k : k = (IF ch = ch0 THEN i + 1 ELSE i) /\ i \in Nat \ {0} /\ At(ch, k, n)
    BY TailPositions
  <1>2. /\ n \in published /\ Unsent(n) /\ \A w \in Worker : ~HeldBy(w, n)
        /\ \A ch2 \in Channels : \A j : At(ch2, j, n) => ch2 = ch /\ j = k
    BY <1>1, Places
  <1>3. n # Head(channel[ch0])
    <2>1. At(ch0, 1, Head(channel[ch0]))
      BY DEF TypeOK, At
    <2>2. ASSUME n = Head(channel[ch0]) PROVE FALSE
      <3>1. ch0 = ch /\ 1 = k
        BY <1>2, <2>1, <2>2
      <3> QED BY <1>1, <3>1
    <2> QED BY <2>2
  <1>4. ASSUME NEW ch2 \in Channels, NEW j, At(ch2, j, n)' PROVE ch2 = ch /\ j = i
    <2>1. PICK l : l = (IF ch2 = ch0 THEN j + 1 ELSE j) /\ j \in Nat \ {0} /\ At(ch2, l, n)
      BY <1>4, TailPositions
    <2>2. ch2 = ch /\ l = k
      BY <1>2, <2>1
    <2> QED BY <1>1, <2>1, <2>2
  <1> QED BY <1>2, <1>3, <1>4

\* Sending to a channel: the message comes last.
LEMMA AppendPositions ==
  ASSUME TypeOK, NEW ch0 \in Channels, NEW m \in Message,
         channel' = [channel EXCEPT ![ch0] = Append(@, m)],
         NEW ch \in Channels, NEW i, NEW n, At(ch, i, n)'
  PROVE \/ At(ch, i, n)
        \/ ch = ch0 /\ i = Len(channel[ch]) + 1 /\ n = m
  <1>1. channel[ch] \in Seq(Message)
    BY DEF TypeOK
  <1>2. CASE ch = ch0
    <2>1. channel'[ch] = Append(channel[ch], m)
      BY <1>2 DEF TypeOK
    <2> QED BY <1>1, <1>2, <2>1 DEF At
  <1>3. CASE ch # ch0
    BY <1>3 DEF TypeOK, At
  <1> QED BY <1>2, <1>3

\* The effect of a locked section on the copies of each message.
LEMMA EnqueueCopies ==
  ASSUME TypeOK, NEW m \in Message, NEW to, NEW times \in Times, Enqueue(m, to, times)
  PROVE /\ \A c \in Client, n \in Message \ {m} : copies'[c][n] = copies[c][n]
        /\ \A c \in Client : /\ copies[c][m] \in Nat /\ copies'[c][m] \in Nat
                             /\ c \notin Queued(to) => copies'[c][m] = copies[c][m]
                             /\ copies'[c][m] <= copies[c][m] + times[c]
  <1>1. \A c \in Client : copies[c][m] \in Nat /\ times[c] \in Nat
    BY DEF TypeOK, Times
  <1>2. \A c \in Client : c \in Queued(to) => Fit(c, times[c]) \in 1..times[c]
    BY FitIn DEF Queued
  <1>3. \A c \in Client, n \in Message \ {m} : copies'[c][n] = copies[c][n]
    BY DEF TypeOK, Enqueue
  <1>4. \A c \in Client : copies'[c][m] = IF c \in Queued(to) THEN copies[c][m] + Fit(c, times[c])
                                         ELSE copies[c][m]
    BY DEF TypeOK, Enqueue
  <1>5. ASSUME NEW c \in Client
        PROVE /\ copies'[c][m] \in Nat
              /\ c \notin Queued(to) => copies'[c][m] = copies[c][m]
              /\ copies'[c][m] <= copies[c][m] + times[c]
    BY <1>1, <1>2, <1>4
  <1> QED BY <1>1, <1>3, <1>5

\* Run() receives a text message and sends it.
LEMMA DeliverCopies ==
  ASSUME TypeOK, CopiesInv, OncePerNaming, NEW ch0 \in Channels, NEW to, Deliver(ch0, to)
  PROVE CopiesInv' /\ OncePerNaming'
  <1>1. PICK m \in Message : m = Head(channel[ch0]) /\ Enqueue(m, to, Once)
    BY DEF Deliver, TypeOK
  <1>2. /\ channel[ch0] # <<>> /\ UNCHANGED <<worker, published>>
        /\ channel' = [channel EXCEPT ![ch0] = Tail(@)]
    BY DEF Deliver
  <1>3. At(ch0, 1, m)
    BY <1>1, <1>2 DEF TypeOK, At
  <1>4. /\ Unsent(m) /\ m \in published /\ \A w \in Worker : ~HeldBy(w, m)
    BY <1>3, Places
  <1>5. ASSUME NEW ch \in Channels, NEW i, NEW n \in Message, At(ch, i, n)'
        PROVE /\ n # m /\ n \in published /\ Unsent(n) /\ \A w \in Worker : ~HeldBy(w, n)
              /\ \A ch2 \in Channels : \A j : At(ch2, j, n)' => ch2 = ch /\ j = i
    BY <1>1, <1>2, <1>5, TailPlaces
  <1>6. \A n \in Message \ {m} : Unsent(n) => Unsent(n)'
    BY <1>1, EnqueueCopies, TimesType DEF Unsent
  <1>7. \A c \in Client : copies'[c][m] <= 1
    BY <1>1, <1>4, EnqueueCopies, TimesType DEF Unsent, Once
  <1>13. \A c \in Client : Namings(m)[c] \in Nat /\ Namings(m)[c] >= 1
    BY TimesType DEF Times
  <1>8. OncePerNaming'
    BY <1>1, <1>7, <1>13, EnqueueCopies, TimesType DEF OncePerNaming
  <1>9. \A w \in Worker, n \in Message : HeldBy(w, n)' <=> HeldBy(w, n)
    BY <1>2 DEF HeldBy
  <1>10. ASSUME NEW n \in Message \ published'
         PROVE Unsent(n)' /\ ~InChannel(n)' /\ \A w \in Worker : ~HeldBy(w, n)'
    <2>1. Unsent(n)' /\ \A w \in Worker : ~HeldBy(w, n)'
      BY <1>2, <1>4, <1>6, <1>9 DEF CopiesInv
    <2>2. ASSUME NEW ch \in Channels, NEW i, At(ch, i, n)' PROVE FALSE
      BY <1>2, <1>5, <2>2
    <2> QED BY <2>1, <2>2 DEF InChannel
  <1>11. ASSUME NEW n \in Message, NEW ch \in Channels, NEW i, At(ch, i, n)'
         PROVE OnePlace(n, ch, i)'
    <2>1. Unsent(n)' /\ \A w \in Worker : ~HeldBy(w, n)'
      BY <1>5, <1>6, <1>9, <1>11
    <2> QED BY <1>5, <1>11, <2>1 DEF OnePlace
  <1>12. ASSUME NEW w \in Worker, NEW n \in Message, HeldBy(w, n)
         PROVE /\ worker[w].pc = "fanout" => Unsent(n)'
               /\ \A c \in Client : copies'[c][n] > 0 => c \in worker[w].delivered
               /\ \A v \in Worker : HeldBy(v, n) => v = w
    BY <1>1, <1>4, <1>6, <1>12, EnqueueCopies, TimesType DEF CopiesInv
  <1> QED BY <1>2, <1>8, <1>9, <1>10, <1>11, <1>12 DEF CopiesInv

LEMMA PublishCopies ==
  ASSUME TypeOK, CopiesInv, OncePerNaming, NEW m \in Message, Publish(m)
  PROVE CopiesInv' /\ OncePerNaming'
  <1>1. PICK ch0 \in Channels : channel' = [channel EXCEPT ![ch0] = Append(@, m)]
    BY HubAssumption DEF HubAssumption, Publish
  <1>2. m \notin published /\ published' = published \cup {m} /\ UNCHANGED <<worker, copies>>
    BY DEF Publish
  <1>3. Unsent(m) /\ ~InChannel(m) /\ \A w \in Worker : ~HeldBy(w, m)
    BY <1>2 DEF CopiesInv
  <1>4. \A ch \in Channels : \A i : ~At(ch, i, m)
    BY <1>3 DEF InChannel, At
  <1>5. \A n \in Message : /\ Unsent(n)' <=> Unsent(n)
                           /\ \A w \in Worker : HeldBy(w, n)' <=> HeldBy(w, n)
    BY <1>2 DEF Unsent, HeldBy
  <1>6. ASSUME NEW n \in Message, NEW ch \in Channels, NEW i, At(ch, i, n)'
        PROVE OnePlace(n, ch, i)'
    <2>1. CASE n = m
      <3>1. ASSUME NEW ch2 \in Channels, NEW j, At(ch2, j, m)' PROVE ch2 = ch0 /\ j = Len(channel[ch0]) + 1
        <4>1. ~At(ch2, j, m)
          BY <1>4
        <4> QED BY <1>1, <3>1, <4>1, AppendPositions
      <3>2. ch = ch0 /\ i = Len(channel[ch0]) + 1
        BY <1>6, <2>1, <3>1
      <3>3. Unsent(m)' /\ \A w \in Worker : ~HeldBy(w, m)'
        BY <1>3, <1>5
      <3> QED BY <2>1, <3>1, <3>2, <3>3 DEF OnePlace
    <2>2. CASE n # m
      <3>1. At(ch, i, n)
        BY <1>1, <1>6, <2>2, AppendPositions
      <3>2. ASSUME NEW ch2 \in Channels, NEW j, At(ch2, j, n)' PROVE ch2 = ch /\ j = i
        <4>1. At(ch2, j, n)
          BY <1>1, <2>2, <3>2, AppendPositions
        <4> QED BY <3>1, <4>1, Places
      <3>3. Unsent(n)' /\ \A w \in Worker : ~HeldBy(w, n)'
        BY <1>5, <3>1, Places
      <3> QED BY <3>2, <3>3 DEF OnePlace
    <2> QED BY <2>1, <2>2
  <1>7. ASSUME NEW n \in Message \ published'
        PROVE Unsent(n)' /\ ~InChannel(n)' /\ \A w \in Worker : ~HeldBy(w, n)'
    <2>1. n # m /\ n \notin published
      BY <1>2
    <2>2. ASSUME NEW ch \in Channels, NEW i, At(ch, i, n)' PROVE FALSE
      <3>1. At(ch, i, n)
        BY <1>1, <2>1, <2>2, AppendPositions
      <3> QED BY <2>1, <3>1, Places
    <2>3. Unsent(n)' /\ \A w \in Worker : ~HeldBy(w, n)'
      BY <1>5, <2>1 DEF CopiesInv
    <2> QED BY <2>2, <2>3 DEF InChannel
  <1> QED BY <1>2, <1>5, <1>6, <1>7 DEF CopiesInv, OncePerNaming

LEMMA TakeCopies ==
  ASSUME TypeOK, CopiesInv, OncePerNaming, NEW w0 \in Worker, WorkerTake(w0)
  PROVE CopiesInv' /\ OncePerNaming'
  <1>1. PICK ch0 \in Channels : /\ channel[ch0] # <<>> /\ ch0 = "remoteMsg"
                                /\ channel' = [channel EXCEPT ![ch0] = Tail(@)]
    BY DEF WorkerTake, Channels
  <1>2. PICK m \in Message : m = Head(channel[ch0])
    BY <1>1 DEF TypeOK
  <1>3. UNCHANGED <<published, copies>> /\ worker[w0].pc = "idle"
    BY DEF WorkerTake
  <1>4. At(ch0, 1, m)
    BY <1>1, <1>2 DEF TypeOK, At
  <1>5. \A w \in Worker : worker'[w] = IF w = w0 THEN [pc |-> "fanout", msg |-> m, delivered |-> {}]
                                       ELSE worker[w]
    BY <1>1, <1>2 DEF WorkerTake, TypeOK
  <1>6. Unsent(m) /\ m \in published /\ \A w \in Worker : ~HeldBy(w, m)
    BY <1>4, Places
  <1>7. ASSUME NEW ch \in Channels, NEW i, NEW n \in Message, At(ch, i, n)'
        PROVE /\ n # m /\ n \in published /\ Unsent(n) /\ \A w \in Worker : ~HeldBy(w, n)
              /\ \A ch2 \in Channels : \A j : At(ch2, j, n)' => ch2 = ch /\ j = i
    BY <1>1, <1>2, <1>7, TailPlaces
  <1>8. \A w \in Worker, n \in Message : HeldBy(w, n)' <=> IF w = w0 THEN n = m ELSE HeldBy(w, n)
    BY <1>5 DEF HeldBy
  <1>9. \A n : Unsent(n)' <=> Unsent(n)
    BY <1>3 DEF Unsent
  <1>10. ASSUME NEW n \in Message \ published'
         PROVE Unsent(n)' /\ ~InChannel(n)' /\ \A w \in Worker : ~HeldBy(w, n)'
    <2>1. n # m /\ n \notin published
      BY <1>3, <1>6
    <2>2. ASSUME NEW ch \in Channels, NEW i, At(ch, i, n)' PROVE FALSE
      BY <1>7, <2>1, <2>2
    <2>3. Unsent(n)' /\ \A w \in Worker : ~HeldBy(w, n)'
      BY <1>8, <1>9, <2>1 DEF CopiesInv
    <2> QED BY <2>2, <2>3 DEF InChannel
  <1>11. ASSUME NEW n \in Message, NEW ch \in Channels, NEW i, At(ch, i, n)'
         PROVE OnePlace(n, ch, i)'
    <2>1. Unsent(n)' /\ \A w \in Worker : ~HeldBy(w, n)'
      BY <1>7, <1>8, <1>9, <1>11
    <2> QED BY <1>7, <1>11, <2>1 DEF OnePlace
  <1>12. ASSUME NEW w \in Worker, NEW n \in Message, HeldBy(w, n)'
         PROVE /\ worker'[w].pc = "fanout" => Unsent(n)'
               /\ \A c \in Client : copies'[c][n] > 0 => c \in worker'[w].delivered
               /\ \A v \in Worker : HeldBy(v, n)' => v = w
    <2>1. CASE w = w0
      BY <1>3, <1>6, <1>8, <1>12, <2>1 DEF Unsent
    <2>2. CASE w # w0
      BY <1>3, <1>5, <1>6, <1>8, <1>9, <1>12, <2>2 DEF CopiesInv
    <2> QED BY <2>1, <2>2
  <1> QED BY <1>3, <1>10, <1>11, <1>12 DEF CopiesInv, OncePerNaming

\* WorkerFanOut and WorkerLookup: a worker sends a message it holds to clients
\* that have no copy, and then remembers them or lets the message go.
LEMMA WorkerCopies ==
  ASSUME TypeOK, CopiesInv, OncePerNaming,
         NEW w0 \in Worker, NEW m \in Message, NEW to, NEW rest, NEW times \in Times,
         HeldBy(w0, m), Enqueue(m, to, times), \A c \in Client : times[c] <= Namings(m)[c],
         UNCHANGED <<channel, published>>, worker' = [worker EXCEPT ![w0] = rest],
         \A c \in Queued(to) : copies[c][m] = 0,
         \/ rest = Idle
         \/ /\ rest.pc = "lookup" /\ rest.msg = m /\ Queued(to) \subseteq rest.delivered
            /\ Unsent(m)
  PROVE CopiesInv' /\ OncePerNaming'
  <1>1. \A w \in Worker : worker'[w] = IF w = w0 THEN rest ELSE worker[w]
    BY DEF TypeOK
  <1>2. m \in published /\ ~InChannel(m) /\ \A v \in Worker : HeldBy(v, m) => v = w0
    BY HeldIsOut
  <1>3. OncePerNaming'
    <2>1. \A c \in Client : times[c] \in Nat /\ Namings(m)[c] \in Nat
      BY TimesType DEF Times
    <2>2. ASSUME NEW c \in Client PROVE copies'[c][m] <= Namings(m)[c]
      <3>1. CASE c \in Queued(to)
        BY <2>1, <3>1, EnqueueCopies
      <3>2. CASE c \notin Queued(to)
        BY <2>1, <3>2, EnqueueCopies DEF OncePerNaming
      <3> QED BY <3>1, <3>2
    <2> QED BY <2>2, EnqueueCopies DEF OncePerNaming
  <1>4. \A n \in Message \ {m} : Unsent(n) => Unsent(n)'
    BY EnqueueCopies DEF Unsent
  <1>5. \A w \in Worker, n \in Message : HeldBy(w, n)' => HeldBy(w, n)
    BY <1>1 DEF HeldBy, Idle
  <1>6. \A n : InChannel(n)' <=> InChannel(n)
    BY DEF InChannel, At
  <1>7. \A n \in Message \ published' :
          Unsent(n)' /\ ~InChannel(n)' /\ \A w \in Worker : ~HeldBy(w, n)'
    BY <1>2, <1>4, <1>5, <1>6 DEF CopiesInv
  <1>8. ASSUME NEW n \in Message, NEW ch \in Channels, NEW i, At(ch, i, n)'
        PROVE OnePlace(n, ch, i)'
    <2>1. At(ch, i, n) /\ n # m
      BY <1>2, <1>8 DEF InChannel, At
    <2>2. \A ch2 \in Channels : \A j : At(ch2, j, n)' <=> At(ch2, j, n)
      BY DEF At
    <2> QED BY <1>4, <1>5, <2>1, <2>2, Places DEF OnePlace
  <1>9. ASSUME NEW w \in Worker, NEW n \in Message, HeldBy(w, n)'
        PROVE /\ worker'[w].pc = "fanout" => Unsent(n)'
              /\ \A c \in Client : copies'[c][n] > 0 => c \in worker'[w].delivered
              /\ \A v \in Worker : HeldBy(v, n)' => v = w
    <2>1. HeldBy(w, n) /\ \A v \in Worker : HeldBy(v, n)' => v = w
      BY <1>5, <1>9, HeldIsOut
    <2>2. CASE n = m
      <3>1. w = w0
        BY <1>2, <2>1, <2>2
      <3>2. rest # Idle
        BY <1>1, <1>9, <3>1 DEF HeldBy, Idle
      <3>3. rest.pc = "lookup" /\ Queued(to) \subseteq rest.delivered /\ Unsent(m)
        BY <3>2
      <3>4. \A c \in Client : copies'[c][m] > 0 => c \in Queued(to)
        BY <3>3, EnqueueCopies DEF Unsent
      <3> QED BY <1>1, <2>1, <2>2, <3>1, <3>3, <3>4
    <2>3. CASE n # m
      <3>1. w # w0
        BY <2>1, <2>3 DEF HeldBy
      <3>2. worker'[w] = worker[w]
        BY <1>1, <3>1
      <3> QED BY <1>4, <2>1, <2>3, <3>2, EnqueueCopies DEF CopiesInv
    <2> QED BY <2>2, <2>3
  <1> QED BY <1>3, <1>7, <1>8, <1>9 DEF CopiesInv

LEMMA NextCopiesInv ==
  TypeOK /\ CopiesInv /\ OncePerNaming /\ [Next]_vars => CopiesInv' /\ OncePerNaming'
  <1> SUFFICES ASSUME TypeOK, CopiesInv, OncePerNaming, [Next]_vars
               PROVE CopiesInv' /\ OncePerNaming'
    OBVIOUS
  <1>1. ASSUME UNCHANGED <<channel, worker, published, copies>> PROVE CopiesInv' /\ OncePerNaming'
    BY <1>1 DEF CopiesInv, OncePerNaming, OnePlace, HeldBy, InChannel, At, Unsent
  <1>2. ASSUME NEW w \in Worker, WorkerFanOut(w) PROVE CopiesInv' /\ OncePerNaming'
    <2> DEFINE m == worker[w].msg
               to == Observers(m) \cup Targeted(m) \cup Subscribers(m)
               rest == IF SimOf[m] = NoSim THEN Idle
                       ELSE [pc |-> "lookup", msg |-> m, delivered |-> Queued(to)]
    <2>1. m \in Message /\ HeldBy(w, m)
      BY <1>2 DEF WorkerFanOut, TypeOK, HeldBy
    <2>2. Unsent(m)
      BY <1>2, <2>1 DEF WorkerFanOut, CopiesInv
    <2>3. Enqueue(m, to, Namings(m)) /\ worker' = [worker EXCEPT ![w] = rest] /\ UNCHANGED <<channel, published>>
      BY <1>2 DEF WorkerFanOut
    <2>4. \/ rest = Idle
          \/ rest.pc = "lookup" /\ rest.msg = m /\ Queued(to) \subseteq rest.delivered /\ Unsent(m)
      BY <2>2
    <2>5. to \subseteq Client
      BY <2>1, RecipientsAreClients
    <2> HIDE DEF m, to, rest
    <2>6. \A c \in Queued(to) : copies[c][m] = 0
      BY <2>2, <2>5 DEF Queued, Unsent
    <2>7. Namings(m) \in Times /\ \A c \in Client : Namings(m)[c] <= Namings(m)[c]
      BY <2>1, TimesType DEF Times
    <2> QED BY <2>1, <2>2, <2>3, <2>4, <2>6, <2>7, WorkerCopies
  <1>3. ASSUME NEW w \in Worker, NEW found \in SUBSET SessionId, WorkerLookup(w, found)
        PROVE CopiesInv' /\ OncePerNaming'
    <2> DEFINE m == worker[w].msg
               to == CrossInstance(w, found)
    <2>1. m \in Message /\ HeldBy(w, m)
      BY <1>3 DEF WorkerLookup, TypeOK, HeldBy
    <2>2. Enqueue(m, to, Once) /\ worker' = [worker EXCEPT ![w] = Idle] /\ UNCHANGED <<channel, published>>
      BY <1>3 DEF WorkerLookup
    <2>3. to \subseteq Client
      BY RecipientsAreClients
    <2>8. to \cap worker[w].delivered = {}
      BY DEF CrossInstance
    <2> HIDE DEF m, to
    <2>4. \A c \in Client : copies[c][m] > 0 => c \in worker[w].delivered
      BY <2>1 DEF CopiesInv
    <2>5. \A c \in Client : copies[c][m] \in Nat
      BY <2>1 DEF TypeOK
    <2>6. \A c \in Queued(to) : copies[c][m] = 0
      BY <2>3, <2>4, <2>5, <2>8 DEF Queued
    <2>7. Once \in Times /\ \A c \in Client : Once[c] <= Namings(m)[c]
      BY <2>1, TimesType DEF Times, Once
    <2> QED BY <2>1, <2>2, <2>6, <2>7, WorkerCopies
  <1>4. ASSUME NEW c \in Client, Register(c) \/ Unregister(c) \/ PumpWrite(c) \/ PumpFails(c)
               \/ PumpClosed(c) \/ RunUnregister(c) \/ RunSubscribe(c) \/ RunUnsubscribe(c)
               \/ (\E f \in Frame : HandleTextMessage(c, f))
        PROVE CopiesInv' /\ OncePerNaming'
    BY <1>1, <1>4 DEF Register, Unregister, PumpWrite, PumpFails, PumpClosed, RunUnregister,
         RunSubscribe, RunUnsubscribe, HandleTextMessage, msgVars
  <1>5. CASE RunRegister
    BY <1>1, <1>5 DEF RunRegister, msgVars
  <1>6. CASE RunBroadcast \/ RunSessionMsg
    BY <1>6, DeliverCopies DEF RunBroadcast, RunSessionMsg, Channels
  <1>7. CASE UNCHANGED vars
    BY <1>1, <1>7 DEF vars, msgVars
  <1> QED BY <1>2, <1>3, <1>4, <1>5, <1>6, <1>7, PublishCopies, TakeCopies, NextCases

\* No client is queued a message more often than the message names its
\* session, or twice when it names it once or not at all.
THEOREM DeliveredOncePerNaming == Spec => []OncePerNaming
  <1>1. Init => CopiesInv /\ OncePerNaming
    BY TimesType DEF Times, Init, CopiesInv, OncePerNaming, OnePlace, HeldBy, InChannel, At, Unsent, Idle
  <1> QED BY <1>1, NextCopiesInv, TypeCorrect, PTL DEF Spec

-----------------------------------------------------------------------------
(* The filters are the client's own requests                               *)

\* LastOn and Refused, of any sequence of requests.
Naming(q, s) == {i \in DOMAIN q : q[i].sim = s}

LastIn(q, s) ==
  IF Naming(q, s) = {} THEN "none"
  ELSE q[CHOOSE i \in Naming(q, s) : \A j \in Naming(q, s) : j <= i].op

RefusedIn(q) ==
  {s \in Sim : \E i \in DOMAIN q :
     /\ q[i] = [op |-> "unsubscribe_simulation", sim |-> s]
     /\ \A j \in DOMAIN q : j > i => q[j].op # "subscribe_simulation"}

\* The model's operators are those of the client's requests.
LEMMA InRequests ==
  ASSUME NEW c
  PROVE /\ \A s : LastOn(c, s) = LastIn(Requests(c), s)
        /\ Wanted(c) = {s \in Sim : LastIn(Requests(c), s) = "subscribe_simulation"}
        /\ Refused(c) = RefusedIn(Requests(c))
  <1>1. \A s : LastOn(c, s) = LastIn(Requests(c), s)
    BY DEF LastOn, LastIn, Naming
  <1>2. Refused(c) = RefusedIn(Requests(c))
    BY DEF Refused, RefusedIn
  <1> QED BY <1>1, <1>2 DEF Wanted

\* A simulation some request names has a last such request.
LEMMA HasLast ==
  ASSUME NEW q \in Seq(Frame), NEW s, Naming(q, s) # {}
  PROVE \E i \in Naming(q, s) : \A j \in Naming(q, s) : j <= i
  <1> DEFINE T == {Len(q) - i : i \in Naming(q, s)}
  <1>1. Len(q) \in Nat /\ Naming(q, s) \subseteq 1..Len(q)
    BY DEF Naming
  <1>2. T \in SUBSET Nat /\ T # {}
    BY <1>1
  <1>3. \E x \in T : \A y \in T : ~ (<<y, x>> \in OpToRel(<, Nat))
    BY <1>2, NatLessThanWellFounded, WFMin
  <1>4. PICK x \in T : \A y \in T : ~ (y < x)
    BY <1>2, <1>3 DEF OpToRel
  <1>5. PICK i \in Naming(q, s) : x = Len(q) - i
    OBVIOUS
  <1>6. ASSUME NEW j \in Naming(q, s) PROVE j <= i
    <2>1. ~ (Len(q) - j < Len(q) - i)
      BY <1>4, <1>5
    <2> QED BY <1>1, <2>1
  <1> QED BY <1>6

\* The last one is the one LastIn chooses.
LEMMA LastIsLast ==
  ASSUME NEW q \in Seq(Frame), NEW s, NEW i \in Naming(q, s), \A j \in Naming(q, s) : j <= i
  PROVE LastIn(q, s) = q[i].op
  <1> DEFINE k == CHOOSE k \in Naming(q, s) : \A j \in Naming(q, s) : j <= k
  <1>1. k \in Naming(q, s) /\ \A j \in Naming(q, s) : j <= k
    OBVIOUS
  <1>2. Naming(q, s) \subseteq Nat
    BY DEF Naming
  <1>3. k = i
    BY <1>1, <1>2
  <1> HIDE DEF k
  <1>4. LastIn(q, s) = q[k].op
    BY DEF k, LastIn
  <1> QED BY <1>3, <1>4

\* One more request decides of its own simulation and of no other.
LEMMA AppendLast ==
  ASSUME NEW q \in Seq(Frame), NEW f \in Frame, NEW s
  PROVE LastIn(Append(q, f), s) = IF f.sim = s THEN f.op ELSE LastIn(q, s)
  <1> DEFINE r == Append(q, f)
             n == Len(q) + 1
  <1>1. /\ r \in Seq(Frame) /\ DOMAIN r = 1..n /\ DOMAIN q = 1..Len(q) /\ Len(q) \in Nat
        /\ r[n] = f /\ \A i \in 1..Len(q) : r[i] = q[i]
    OBVIOUS
  <1> HIDE DEF r
  <1>2. CASE f.sim = s
    <2>1. n \in Naming(r, s) /\ \A j \in Naming(r, s) : j <= n
      BY <1>1, <1>2 DEF Naming
    <2>2. LastIn(r, s) = r[n].op
      BY <1>1, <2>1, LastIsLast
    <2> QED BY <1>1, <1>2, <2>2 DEF r
  <1>3. CASE f.sim # s
    <2>1. Naming(r, s) = Naming(q, s)
      BY <1>1, <1>3 DEF Naming
    <2>2. CASE Naming(q, s) = {}
      BY <1>3, <2>1, <2>2 DEF LastIn, r
    <2>3. CASE Naming(q, s) # {}
      <3>1. PICK i \in Naming(q, s) : \A j \in Naming(q, s) : j <= i
        BY <2>3, HasLast
      <3>2. LastIn(q, s) = q[i].op /\ LastIn(r, s) = r[i].op
        BY <1>1, <2>1, <3>1, LastIsLast
      <3>3. r[i] = q[i]
        BY <1>1 DEF Naming
      <3> QED BY <1>3, <3>2, <3>3 DEF r
    <2> QED BY <2>2, <2>3
  <1> QED BY <1>2, <1>3

\* A subscribe forgets every refusal; an unsubscribe adds one.
LEMMA AppendRefused ==
  ASSUME NEW q \in Seq(Frame), NEW f \in Frame
  PROVE RefusedIn(Append(q, f)) = IF f.op = "subscribe_simulation" THEN {}
                                  ELSE RefusedIn(q) \cup {f.sim}
  <1> DEFINE r == Append(q, f)
             n == Len(q) + 1
  <1>1. /\ DOMAIN r = 1..n /\ DOMAIN q = 1..Len(q) /\ Len(q) \in Nat
        /\ r[n] = f /\ \A i \in 1..Len(q) : r[i] = q[i]
    OBVIOUS
  <1> HIDE DEF r
  <1>2. CASE f.op = "subscribe_simulation"
    <2>1. ASSUME NEW s \in RefusedIn(r) PROVE FALSE
      <3>1. PICK i \in 1..n : /\ r[i] = [op |-> "unsubscribe_simulation", sim |-> s]
                              /\ \A j \in 1..n : j > i => r[j].op # "subscribe_simulation"
        BY <1>1, <2>1 DEF RefusedIn
      <3>2. i # n /\ n \in 1..n
        BY <1>1, <1>2, <3>1
      <3>3. n > i
        BY <1>1, <3>2
      <3> QED BY <1>1, <1>2, <3>1, <3>2, <3>3
    <2> QED BY <1>2, <2>1 DEF r
  <1>3. CASE f.op # "subscribe_simulation"
    <2>1. f = [op |-> "unsubscribe_simulation", sim |-> f.sim] /\ f.sim \in Sim
      BY <1>3 DEF Frame
    <2>2. ASSUME NEW s \in RefusedIn(r), s # f.sim PROVE s \in RefusedIn(q)
      <3>1. s \in Sim
        BY <2>2 DEF RefusedIn
      <3>2. PICK i \in 1..n : /\ r[i] = [op |-> "unsubscribe_simulation", sim |-> s]
                              /\ \A j \in 1..n : j > i => r[j].op # "subscribe_simulation"
        BY <1>1, <2>2 DEF RefusedIn
      <3>3. i # n
        BY <1>1, <2>2, <3>2
      <3>4. i \in 1..Len(q)
        BY <1>1, <3>3
      <3>5. q[i] = [op |-> "unsubscribe_simulation", sim |-> s]
        BY <1>1, <3>2, <3>4
      <3>6. \A j \in 1..Len(q) : j > i => q[j].op # "subscribe_simulation"
        BY <1>1, <3>2
      <3> QED BY <1>1, <3>1, <3>4, <3>5, <3>6 DEF RefusedIn
    <2>3. ASSUME NEW s \in RefusedIn(q) PROVE s \in RefusedIn(r)
      <3>1. PICK i \in 1..Len(q) : /\ q[i] = [op |-> "unsubscribe_simulation", sim |-> s]
                                   /\ \A j \in 1..Len(q) : j > i => q[j].op # "subscribe_simulation"
        BY <1>1, <2>3 DEF RefusedIn
      <3>2. i \in 1..n /\ r[i] = [op |-> "unsubscribe_simulation", sim |-> s]
        BY <1>1, <3>1
      <3>3. ASSUME NEW j \in 1..n, j > i PROVE r[j].op # "subscribe_simulation"
        <4>1. CASE j = n
          BY <1>1, <1>3, <4>1
        <4>2. CASE j # n
          BY <1>1, <3>1, <3>3, <4>2
        <4> QED BY <4>1, <4>2
      <3>4. s \in Sim
        BY <2>3 DEF RefusedIn
      <3> QED BY <1>1, <3>2, <3>3, <3>4 DEF RefusedIn
    <2>4. f.sim \in RefusedIn(r)
      <3>1. n \in 1..n /\ \A j \in 1..n : ~(j > n)
        BY <1>1
      <3> QED BY <1>1, <2>1, <3>1 DEF RefusedIn
    <2> QED BY <1>3, <2>2, <2>3, <2>4 DEF r
  <1> QED BY <1>2, <1>3

\* What the maps hold of a client is what its requests say: all of it while
\* the client is registered, at most that much before and after.
RequestsInv ==
  \A c \in Client :
    /\ Fresh(c) => frames[c] = <<>>
    /\ simSubscriptions[c] \subseteq Wanted(c)
    /\ c \in clients[SessionOf[c]] => simSubscriptions[c] = Wanted(c) /\ simBlocked[c] = Refused(c)

\* A channel carries its own messages.
ChannelInv ==
  \A ch \in Channels : \A i : \A m \in Message : At(ch, i, m) => Channel[m] = ch

FilterInv == HubInv /\ RequestsInv /\ ChannelInv

\* Requests are frames, the auto-subscription included.
LEMMA RequestsType ==
  ASSUME TypeOK, NEW c \in Client
  PROVE Requests(c) \in Seq(Frame)
  <1>1. frames[c] \in Seq(Frame)
    BY DEF TypeOK
  <1>2. CASE AutoSub[c] = NoSim
    BY <1>1, <1>2 DEF Requests
  <1>3. CASE AutoSub[c] # NoSim
    <2>1. AutoSub[c] \in Sim
      BY <1>3, HubAssumption DEF HubAssumption
    <2> DEFINE f == [op |-> "subscribe_simulation", sim |-> AutoSub[c]]
    <2>2. f \in Frame
      BY <2>1 DEF Frame
    <2>3. Requests(c) = <<f>> \o frames[c]
      BY <1>3 DEF Requests
    <2> HIDE DEF f
    <2> QED BY <1>1, <2>2, <2>3
  <1> QED BY <1>2, <1>3

\* What a connection without frames wants: its auto-subscription.
LEMMA FirstRequests ==
  ASSUME NEW c \in Client, frames[c] = <<>>
  PROVE /\ Wanted(c) = IF AutoSub[c] = NoSim THEN {} ELSE {AutoSub[c]}
        /\ Refused(c) = {}
  <1>1. CASE AutoSub[c] = NoSim
    <2>1. Requests(c) = <<>>
      BY <1>1 DEF Requests
    <2>2. \A s : Naming(<<>>, s) = {}
      BY DEF Naming
    <2>3. RefusedIn(<<>>) = {}
      BY DEF RefusedIn
    <2>4. \A s : LastIn(<<>>, s) = "none"
      BY <2>2 DEF LastIn
    <2> QED BY <1>1, <2>1, <2>3, <2>4, InRequests
  <1>2. CASE AutoSub[c] # NoSim
    <2> DEFINE f == [op |-> "subscribe_simulation", sim |-> AutoSub[c]]
    <2>1. AutoSub[c] \in Sim
      BY <1>2, HubAssumption DEF HubAssumption
    <2>2. f \in Frame /\ f.sim = AutoSub[c] /\ f.op = "subscribe_simulation"
      BY <2>1 DEF Frame
    <2>3. Requests(c) = <<f>> \o <<>>
      BY <1>2 DEF Requests
    <2> HIDE DEF f
    <2>4. <<>> \in Seq(Frame)
      OBVIOUS
    <2>5. Requests(c) = Append(<<>>, f)
      BY <2>2, <2>3
    <2>6. \A s : LastIn(<<>>, s) = "none"
      BY DEF LastIn, Naming
    <2>7. RefusedIn(Requests(c)) = {}
      BY <2>2, <2>4, <2>5, AppendRefused
    <2>8. ASSUME NEW s \in Sim
          PROVE LastIn(Requests(c), s) = IF AutoSub[c] = s THEN "subscribe_simulation" ELSE "none"
      <3>1. LastIn(Append(<<>>, f), s) = IF f.sim = s THEN f.op ELSE LastIn(<<>>, s)
        BY <2>2, <2>4, AppendLast
      <3> QED BY <2>2, <2>5, <2>6, <3>1
    <2> QED BY <1>2, <2>1, <2>7, <2>8, InRequests
  <1> QED BY <1>1, <1>2

\* Requests read frames only.
LEMMA SameRequests ==
  ASSUME NEW c, frames'[c] = frames[c]
  PROVE Wanted(c)' = Wanted(c) /\ Refused(c)' = Refused(c)
  <1>1. Requests(c)' = Requests(c)
    BY DEF Requests
  <1> QED BY <1>1 DEF Wanted, LastOn, Refused

\* What Run()'s taking of a frame does to them.
LEMMA OneMoreRequest ==
  ASSUME TypeOK, NEW c \in Client, NEW f \in Frame, frames'[c] = Append(frames[c], f)
  PROVE /\ Wanted(c)' = IF f.op = "subscribe_simulation" THEN Wanted(c) \cup {f.sim}
                        ELSE Wanted(c) \ {f.sim}
        /\ Refused(c)' = IF f.op = "subscribe_simulation" THEN {} ELSE Refused(c) \cup {f.sim}
  <1>1. Requests(c)' = Append(Requests(c), f)
    <2>1. frames[c] \in Seq(Frame)
      BY DEF TypeOK
    <2>2. CASE AutoSub[c] = NoSim
      BY <2>2 DEF Requests
    <2>3. CASE AutoSub[c] # NoSim
      <3> DEFINE g == [op |-> "subscribe_simulation", sim |-> AutoSub[c]]
      <3>1. g \in Frame
        BY <2>3, HubAssumption DEF HubAssumption, Frame
      <3>2. Requests(c) = <<g>> \o frames[c] /\ Requests(c)' = <<g>> \o Append(frames[c], f)
        BY <2>3 DEF Requests
      <3> HIDE DEF g
      <3> QED BY <2>1, <3>1, <3>2
    <2> QED BY <2>2, <2>3
  <1>2. /\ Wanted(c)' = {s \in Sim : LastIn(Requests(c)', s) = "subscribe_simulation"}
        /\ Refused(c)' = RefusedIn(Requests(c)')
    <2>1. (\A s : LastOn(c, s) = LastIn(Requests(c), s))'
      BY DEF LastOn, LastIn, Naming
    <2>2. (Refused(c) = RefusedIn(Requests(c)))'
      BY DEF Refused, RefusedIn
    <2> QED BY <2>1, <2>2 DEF Wanted, LastIn, Naming, RefusedIn
  <1>3. f.op \in {"subscribe_simulation", "unsubscribe_simulation"} /\ f.sim \in Sim
    BY DEF Frame
  <1>4. \A s \in Sim : LastIn(Requests(c)', s) = IF f.sim = s THEN f.op ELSE LastIn(Requests(c), s)
    BY <1>1, RequestsType, AppendLast
  <1>5. RefusedIn(Requests(c)') = IF f.op = "subscribe_simulation" THEN {}
                                  ELSE RefusedIn(Requests(c)) \cup {f.sim}
    BY <1>1, RequestsType, AppendRefused
  <1>6. Wanted(c) \subseteq Sim
    BY DEF Wanted
  <1> QED BY <1>2, <1>3, <1>4, <1>5, <1>6, InRequests, ZenonT(40)

LEMMA InitFilterInv == Init => RequestsInv /\ ChannelInv
  <1> SUFFICES ASSUME Init PROVE RequestsInv /\ ChannelInv
    OBVIOUS
  <1>1. \A c \in Client : c \notin clients[SessionOf[c]]
    BY HubAssumption DEF HubAssumption, Init
  <1>2. RequestsInv
    BY <1>1 DEF Init, RequestsInv
  <1>3. ChannelInv
    BY DEF Init, ChannelInv, At
  <1> QED BY <1>2, <1>3

\* A step that leaves the routing maps and the frames alone, and in which no
\* connection that was known becomes new.
LEMMA QuietRequests ==
  ASSUME RequestsInv, UNCHANGED mapVars, UNCHANGED frames,
         \A c \in Client : Fresh(c)' => Fresh(c)
  PROVE RequestsInv'
  <1>1. \A c \in Client : Wanted(c)' = Wanted(c) /\ Refused(c)' = Refused(c)
    BY SameRequests
  <1> QED BY <1>1 DEF RequestsInv, mapVars, subVars

LEMMA RunRegisterRequests ==
  ASSUME HubInv, RequestsInv, RunRegister
  PROVE RequestsInv'
  <1> USE Attributes
  <1>1. PICK c \in Client : c = registering
    BY DEF RunRegister, HubInv, TypeOK
  <1>2. Fresh(c) /\ Forgotten(c) /\ frames[c] = <<>>
    BY <1>1 DEF Fresh, HubInv, ConnectionInv, RequestsInv
  <1>3. /\ clients' = [clients EXCEPT ![SessionOf[c]] = @ \cup {c}]
        /\ registering' = None
        /\ UNCHANGED <<simBlocked, reader, frames>>
    BY <1>1 DEF RunRegister
  <1>4. \A d \in Client : Wanted(d)' = Wanted(d) /\ Refused(d)' = Refused(d)
    BY <1>3, SameRequests
  <1>5. simSubscriptions' = [simSubscriptions EXCEPT ![c] = Wanted(c)]
    <2>1. simSubscriptions[c] = {} /\ simSubscriptions \in [Client -> SUBSET Sim]
      BY <1>2 DEF Forgotten, HubInv, TypeOK
    <2>2. CASE AutoSub[c] = NoSim
      <3>1. Wanted(c) = {}
        BY <1>2, <2>2, FirstRequests
      <3>2. simSubscriptions' = simSubscriptions
        BY <1>1, <2>2 DEF RunRegister
      <3> QED BY <2>1, <3>1, <3>2
    <2>3. CASE AutoSub[c] # NoSim
      <3>1. Wanted(c) = {AutoSub[c]}
        BY <1>2, <2>3, FirstRequests
      <3>2. simSubscriptions' = [simSubscriptions EXCEPT ![c] = @ \cup {AutoSub[c]}]
        BY <1>1, <2>3 DEF RunRegister, AddSubscription
      <3> QED BY <2>1, <3>1, <3>2
    <2> QED BY <2>2, <2>3
  <1>6. simBlocked[c] = {} /\ Refused(c) = {}
    BY <1>2, FirstRequests DEF Forgotten
  <1>7. ASSUME NEW d \in Client
        PROVE /\ Fresh(d)' => frames'[d] = <<>>
              /\ simSubscriptions'[d] \subseteq Wanted(d)'
              /\ d \in clients'[SessionOf[d]] =>
                   simSubscriptions'[d] = Wanted(d)' /\ simBlocked'[d] = Refused(d)'
    <2>1. clients \in [SessionId -> SUBSET Client] /\ simSubscriptions \in [Client -> SUBSET Sim]
      BY DEF HubInv, TypeOK
    <2>2. Fresh(d)' => Fresh(d)
      BY <1>3 DEF Fresh
    <2>3. CASE d = c
      BY <1>2, <1>3, <1>4, <1>5, <1>6, <2>1, <2>3
    <2>4. CASE d # c
      <3>1. simSubscriptions'[d] = simSubscriptions[d] /\ simBlocked'[d] = simBlocked[d]
        BY <1>3, <1>5, <2>1, <2>4
      <3>2. d \in clients'[SessionOf[d]] => d \in clients[SessionOf[d]]
        BY <1>3, <2>1, <2>4
      <3> QED BY <1>3, <1>4, <2>2, <3>1, <3>2 DEF RequestsInv
    <2> QED BY <2>3, <2>4
  <1> QED BY <1>7 DEF RequestsInv

LEMMA RunUnregisterRequests ==
  ASSUME HubInv, RequestsInv, NEW c \in Client, RunUnregister(c)
  PROVE RequestsInv'
  <1> USE Attributes
  <1>1. RemoveClient(c) /\ UNCHANGED <<registering, frames>>
    BY DEF RunUnregister
  <1>2. \A d \in Client : Wanted(d)' = Wanted(d) /\ Refused(d)' = Refused(d)
    BY <1>1, SameRequests
  <1>3. \A d \in Client : reader'[d] = "new" => reader[d] = "new"
    BY DEF RunUnregister, HubInv, TypeOK
  <1>4. \A d \in Client : Fresh(d)' => Fresh(d)
    BY <1>1, <1>3 DEF Fresh
  <1>5. ASSUME NEW d \in Client
        PROVE /\ simSubscriptions'[d] \subseteq Wanted(d)'
              /\ d \in clients'[SessionOf[d]] =>
                   simSubscriptions'[d] = Wanted(d)' /\ simBlocked'[d] = Refused(d)'
    <2>1. /\ clients \in [SessionId -> SUBSET Client]
          /\ simSubscriptions \in [Client -> SUBSET Sim] /\ simBlocked \in [Client -> SUBSET Sim]
      BY DEF HubInv, TypeOK
    <2>2. CASE d = c
      BY <1>1, <2>1, <2>2 DEF RemoveClient
    <2>3. CASE d # c
      <3>1. simSubscriptions'[d] = simSubscriptions[d] /\ simBlocked'[d] = simBlocked[d]
        BY <1>1, <2>1, <2>3 DEF RemoveClient
      <3>2. d \in clients'[SessionOf[d]] => d \in clients[SessionOf[d]]
        BY <1>1, <2>1 DEF RemoveClient
      <3> QED BY <1>2, <3>1, <3>2 DEF RequestsInv
    <2> QED BY <2>2, <2>3
  <1> QED BY <1>1, <1>4, <1>5 DEF RequestsInv

LEMMA RunFrameRequests ==
  ASSUME HubInv, RequestsInv, NEW c \in Client, RunSubscribe(c) \/ RunUnsubscribe(c)
  PROVE RequestsInv'
  <1>1. /\ frame[c] \in Frame /\ registering = None
        /\ reader[c] = "sending" /\ reader' = [reader EXCEPT ![c] = "reading"]
        /\ frames' = [frames EXCEPT ![c] = Append(@, frame[c])]
        /\ UNCHANGED <<clients, registering>>
    BY DEF RunSubscribe, RunUnsubscribe, TakeFrame, AtSelect, HubInv, TypeOK
  <1>2. PICK f \in Frame : f = frame[c]
    BY <1>1
  <1>3. /\ simSubscriptions \in [Client -> SUBSET Sim] /\ simBlocked \in [Client -> SUBSET Sim]
        /\ frames \in [Client -> Seq(Frame)] /\ reader \in [Client -> ReaderPCs]
    BY DEF HubInv, TypeOK
  <1>4. frames'[c] = Append(frames[c], f) /\ \A d \in Client \ {c} : frames'[d] = frames[d]
    BY <1>1, <1>2, <1>3
  <1>5. /\ Wanted(c)' = IF f.op = "subscribe_simulation" THEN Wanted(c) \cup {f.sim}
                        ELSE Wanted(c) \ {f.sim}
        /\ Refused(c)' = IF f.op = "subscribe_simulation" THEN {} ELSE Refused(c) \cup {f.sim}
    BY <1>4, OneMoreRequest DEF HubInv
  <1>6. /\ simSubscriptions'[c] = IF f.op = "subscribe_simulation" THEN simSubscriptions[c] \cup {f.sim}
                                  ELSE simSubscriptions[c] \ {f.sim}
        /\ simBlocked'[c] = IF f.op = "subscribe_simulation" THEN {} ELSE simBlocked[c] \cup {f.sim}
        /\ \A d \in Client \ {c} : /\ simSubscriptions'[d] = simSubscriptions[d]
                                   /\ simBlocked'[d] = simBlocked[d]
    <2>1. CASE RunSubscribe(c)
      BY <1>2, <1>3, <2>1 DEF RunSubscribe, AddSubscription, TakeFrame
    <2>2. CASE RunUnsubscribe(c)
      BY <1>2, <1>3, <2>2 DEF RunUnsubscribe, TakeFrame
    <2> QED BY <2>1, <2>2
  <1>7. ~Fresh(c)'
    BY <1>1, <1>3, HubAssumption DEF HubAssumption, Fresh
  <1>8. ASSUME NEW d \in Client
        PROVE /\ Fresh(d)' => frames'[d] = <<>>
              /\ simSubscriptions'[d] \subseteq Wanted(d)'
              /\ d \in clients'[SessionOf[d]] =>
                   simSubscriptions'[d] = Wanted(d)' /\ simBlocked'[d] = Refused(d)'
    <2>1. /\ simSubscriptions[d] \subseteq Wanted(d)
          /\ d \in clients[SessionOf[d]] => simSubscriptions[d] = Wanted(d) /\ simBlocked[d] = Refused(d)
          /\ Fresh(d) => frames[d] = <<>>
      BY DEF RequestsInv
    <2>2. CASE d = c
      BY <1>1, <1>5, <1>6, <1>7, <2>1, <2>2
    <2>3. CASE d # c
      <3>1. Wanted(d)' = Wanted(d) /\ Refused(d)' = Refused(d)
        BY <1>4, <2>3, SameRequests
      <3>2. Fresh(d)' => Fresh(d)
        BY <1>1, <1>3, <2>3 DEF Fresh
      <3> QED BY <1>1, <1>4, <1>6, <2>1, <2>3, <3>1, <3>2
    <2> QED BY <2>2, <2>3
  <1> QED BY <1>8 DEF RequestsInv

LEMMA NextRequests ==
  ASSUME HubInv, RequestsInv, [Next]_vars
  PROVE RequestsInv'
  <1>1. ASSUME NEW c \in Client, Register(c) PROVE RequestsInv'
    <2>1. \A d \in Client : Fresh(d)' => Fresh(d)
      BY <1>1 DEF Register, Fresh, HubInv, TypeOK
    <2> QED BY <1>1, <2>1, QuietRequests DEF Register
  <1>2. ASSUME NEW c \in Client,
               (\E f \in Frame : HandleTextMessage(c, f)) \/ Unregister(c)
        PROVE RequestsInv'
    <2>1. UNCHANGED <<mapVars, registering, frames>>
      BY <1>2 DEF HandleTextMessage, Unregister
    <2>2. \A d \in Client : reader'[d] = "new" => reader[d] = "new"
      BY <1>2 DEF HandleTextMessage, Unregister, HubInv, TypeOK
    <2>3. \A d \in Client : Fresh(d)' => Fresh(d)
      BY <2>1, <2>2 DEF Fresh
    <2> QED BY <2>1, <2>3, QuietRequests
  <1>3. ASSUME UNCHANGED <<mapVars, registering, reader, frames>> PROVE RequestsInv'
    BY <1>3, QuietRequests DEF Fresh
  <1>4. ASSUME NEW c \in Client, PumpWrite(c) \/ PumpFails(c) \/ PumpClosed(c)
        PROVE RequestsInv'
    BY <1>3, <1>4 DEF PumpWrite, PumpFails, PumpClosed, connVars
  <1>5. CASE RunBroadcast \/ RunSessionMsg \/ (\E m \in Message : Publish(m))
    BY <1>3, <1>5 DEF RunBroadcast, RunSessionMsg, Deliver, Publish, connVars
  <1>6. ASSUME NEW w \in Worker,
               \/ WorkerTake(w) \/ WorkerFanOut(w)
               \/ \E found \in SUBSET SessionId : WorkerLookup(w, found)
        PROVE RequestsInv'
    BY <1>3, <1>6 DEF WorkerTake, WorkerFanOut, WorkerLookup, connVars
  <1>7. CASE UNCHANGED vars
    BY <1>3, <1>7 DEF vars, connVars
  <1> QED BY <1>1, <1>2, <1>4, <1>5, <1>6, <1>7, NextCases,
             RunRegisterRequests, RunUnregisterRequests, RunFrameRequests

LEMMA NextChannel ==
  ASSUME TypeOK, ChannelInv, [Next]_vars
  PROVE ChannelInv'
  <1>1. ASSUME NEW ch0 \in Channels, channel[ch0] # <<>>,
               channel' = [channel EXCEPT ![ch0] = Tail(@)]
        PROVE ChannelInv'
    <2> SUFFICES ASSUME NEW ch \in Channels, NEW i, NEW m \in Message, At(ch, i, m)'
                 PROVE Channel[m] = ch
      BY DEF ChannelInv
    <2>1. \E k : At(ch, k, m)
      BY <1>1, TailPositions
    <2> QED BY <2>1 DEF ChannelInv
  <1>2. ASSUME NEW m \in Message, Publish(m) PROVE ChannelInv'
    <2>1. PICK ch0 \in Channels : ch0 = Channel[m] /\ channel' = [channel EXCEPT ![ch0] = Append(@, m)]
      BY <1>2, HubAssumption DEF HubAssumption, Publish
    <2> SUFFICES ASSUME NEW ch \in Channels, NEW i, NEW n \in Message, At(ch, i, n)'
                 PROVE Channel[n] = ch
      BY DEF ChannelInv
    <2>2. At(ch, i, n) \/ (ch = ch0 /\ n = m)
      BY <2>1, AppendPositions
    <2> QED BY <2>1, <2>2 DEF ChannelInv
  <1>3. ASSUME UNCHANGED channel PROVE ChannelInv'
    BY <1>3 DEF ChannelInv, At
  <1>4. CASE RunBroadcast \/ RunSessionMsg
    BY <1>1, <1>4 DEF RunBroadcast, RunSessionMsg, Deliver, Channels
  <1>5. ASSUME NEW w \in Worker, WorkerTake(w) PROVE ChannelInv'
    BY <1>1, <1>5 DEF WorkerTake, Channels
  <1>6. ASSUME NEW w \in Worker,
               WorkerFanOut(w) \/ \E found \in SUBSET SessionId : WorkerLookup(w, found)
        PROVE ChannelInv'
    BY <1>3, <1>6 DEF WorkerFanOut, WorkerLookup
  <1>7. ASSUME NEW c \in Client, Register(c) \/ Unregister(c) \/ PumpWrite(c) \/ PumpFails(c)
               \/ PumpClosed(c) \/ RunUnregister(c) \/ RunSubscribe(c) \/ RunUnsubscribe(c)
               \/ (\E f \in Frame : HandleTextMessage(c, f))
        PROVE ChannelInv'
    BY <1>3, <1>7 DEF Register, Unregister, PumpWrite, PumpFails, PumpClosed, RunUnregister,
         RunSubscribe, RunUnsubscribe, HandleTextMessage, msgVars
  <1>8. CASE RunRegister \/ UNCHANGED vars
    BY <1>3, <1>8 DEF RunRegister, vars, msgVars
  <1> QED BY <1>2, <1>4, <1>5, <1>6, <1>7, <1>8, NextCases

\* What the client's requests entitle it to of a message: an observer to what
\* its filters let through, a client of a session to what is addressed to it
\* or wanted by it.
Entitled(c, m) ==
  IF SessionOf[c] = Global
  THEN SimOf[m] # NoSim =>
         IF Wanted(c) # {} THEN SimOf[m] \in Wanted(c) ELSE SimOf[m] \notin Refused(c)
  ELSE Targets[m] = <<>> \/ SessionOf[c] \in Named(m) \/ SimOf[m] \in Wanted(c)

\* Phases 1 to 3 and phase 3b choose entitled clients only.
LEMMA RecipientsAreEntitled ==
  ASSUME HubInv, RequestsInv, NEW m \in Message, NEW c \in Client,
         \/ c \in Observers(m) \cup Targeted(m) \cup Subscribers(m)
         \/ SimOf[m] \in simSubscriptions[c]
  PROVE Entitled(c, m)
  <1> USE Attributes
  <1>1. \A s \in SessionId : c \in clients[s] => SessionOf[c] = s
    BY DEF HubInv, RegisteredIsOpen
  <1>2. CASE c \in Observers(m)
    <2>1. c \in clients[Global]
      BY <1>2 DEF Observers
    <2>2. SessionOf[c] = Global
      BY <1>1, <2>1 DEF SessionId
    <2>3. simSubscriptions[c] = Wanted(c) /\ simBlocked[c] = Refused(c)
      BY <2>1, <2>2 DEF RequestsInv
    <2> QED BY <1>2, <2>2, <2>3 DEF Observers, Entitled
  <1>3. CASE c \in Targeted(m)
    <2>1. PICK s \in SessionId : /\ s # Global /\ c \in clients[s]
                                 /\ Targets[m] = <<>> \/ s \in Named(m)
      <3>1. Named(m) \subseteq SessionId
        BY TimesType
      <3> QED BY <1>3, <3>1 DEF Targeted, SessionId
    <2> QED BY <1>1, <2>1 DEF Entitled
  <1>4. CASE SimOf[m] \in simSubscriptions[c]
    <2>1. SimOf[m] \in Wanted(c)
      BY <1>4 DEF RequestsInv
    <2> QED BY <2>1 DEF Entitled
  <1>5. CASE c \in Subscribers(m)
    <2>1. SimOf[m] \in Sim /\ c \in simToClients[SimOf[m]]
      BY <1>5 DEF Subscribers
    <2>2. SimOf[m] \in simSubscriptions[c]
      BY <2>1 DEF HubInv, IndexesAgree
    <2> QED BY <1>4, <2>2
  <1> QED BY <1>2, <1>3, <1>4, <1>5

\* A remote message is only ever received from a worker's fan-out or lookup.
LEMMA ReceivedIsEntitled ==
  ASSUME FilterInv, [Next]_vars, NEW c \in Client, NEW m \in Message, Received(c, m),
         Channel[m] = "remoteMsg"
  PROVE Entitled(c, m)
  <1> USE DEF FilterInv
  <1>1. ASSUME NEW n \in Message, NEW to, NEW times \in Times, Enqueue(n, to, times)
        PROVE n = m /\ c \in to
    <2>1. copies[c][m] \in Nat /\ TypeOK
      BY DEF HubInv, TypeOK
    <2>2. n = m /\ c \in Queued(to)
      BY <1>1, <2>1, EnqueueCopies DEF Received
    <2> QED BY <2>2 DEF Queued
  <1>2. ASSUME UNCHANGED copies PROVE FALSE
    <2>1. copies[c][m] \in Nat
      BY DEF HubInv, TypeOK
    <2> QED BY <1>2, <2>1 DEF Received
  <1>3. ASSUME NEW ch \in Channels, NEW to, ch # "remoteMsg", Deliver(ch, to) PROVE FALSE
    <2>1. Head(channel[ch]) \in Message /\ At(ch, 1, Head(channel[ch]))
      BY <1>3 DEF Deliver, HubInv, TypeOK, At
    <2>2. Channel[Head(channel[ch])] = ch
      BY <2>1 DEF ChannelInv
    <2>3. Head(channel[ch]) = m
      BY <1>1, <1>3, <2>1, TimesType DEF Deliver
    <2> QED BY <1>3, <2>2, <2>3
  <1>4. CASE RunBroadcast \/ RunSessionMsg
    BY <1>3, <1>4 DEF RunBroadcast, RunSessionMsg, Channels
  <1>5. ASSUME NEW w \in Worker, WorkerFanOut(w) PROVE Entitled(c, m)
    <2>1. worker[w].msg \in Message
      BY <1>5 DEF WorkerFanOut, HubInv, TypeOK
    <2>2. worker[w].msg = m /\ c \in Observers(m) \cup Targeted(m) \cup Subscribers(m)
      BY <1>1, <1>5, <2>1, TimesType DEF WorkerFanOut
    <2> QED BY <2>2, RecipientsAreEntitled
  <1>6. ASSUME NEW w \in Worker, NEW found \in SUBSET SessionId, WorkerLookup(w, found)
        PROVE Entitled(c, m)
    <2>1. worker[w].msg \in Message
      BY <1>6 DEF WorkerLookup, HubInv, TypeOK
    <2>2. worker[w].msg = m /\ c \in CrossInstance(w, found)
      BY <1>1, <1>6, <2>1, TimesType DEF WorkerLookup
    <2>3. SimOf[m] \in simSubscriptions[c]
      BY <2>2 DEF CrossInstance
    <2> QED BY <2>3, RecipientsAreEntitled
  <1>7. ASSUME NEW d \in Client, Register(d) \/ Unregister(d) \/ PumpWrite(d) \/ PumpFails(d)
               \/ PumpClosed(d) \/ RunUnregister(d) \/ RunSubscribe(d) \/ RunUnsubscribe(d)
               \/ (\E f \in Frame : HandleTextMessage(d, f))
        PROVE FALSE
    BY <1>2, <1>7 DEF Register, Unregister, PumpWrite, PumpFails, PumpClosed, RunUnregister,
         RunSubscribe, RunUnsubscribe, HandleTextMessage, msgVars
  <1>8. CASE RunRegister \/ UNCHANGED vars
    BY <1>2, <1>8 DEF RunRegister, vars, msgVars
  <1>9. ASSUME NEW n \in Message, Publish(n) PROVE FALSE
    BY <1>2, <1>9 DEF Publish
  <1>10. ASSUME NEW w \in Worker, WorkerTake(w) PROVE FALSE
    BY <1>2, <1>10 DEF WorkerTake
  <1> QED BY <1>4, <1>5, <1>6, <1>7, <1>8, <1>9, <1>10, NextCases

\* While a client is registered, the maps hold of it what its requests say;
\* before and after, no more than that.
THEOREM FiltersAreRequests == Spec => []FilterInv
  <1>1. Init => FilterInv
    BY InitHubInv, InitFilterInv DEF FilterInv
  <1>2. FilterInv /\ [Next]_vars => FilterInv'
    <2> SUFFICES ASSUME FilterInv, [Next]_vars PROVE FilterInv'
      OBVIOUS
    <2> QED BY NextHubInv, NextRequests, NextChannel DEF FilterInv, HubInv
  <1> QED BY <1>1, <1>2, PTL DEF Spec

\* What a global observer is sent of a simulation is decided by the requests
\* it has made and nothing else.
THEOREM ObserversAreFiltered == Spec => ObserverFilter
  <1>1. FilterInv /\ [Next]_vars =>
          \A c \in Client, m \in Message :
            Received(c, m) /\ SessionOf[c] = Global /\ Channel[m] = "remoteMsg" /\ SimOf[m] # NoSim
              => IF Wanted(c) # {} THEN SimOf[m] \in Wanted(c) ELSE SimOf[m] \notin Refused(c)
    BY ReceivedIsEntitled DEF Entitled
  <1> QED BY <1>1, FiltersAreRequests, PTL DEF Spec, ObserverFilter

\* A client of a session gets a remote message only if the message names its
\* session or no session, or the client wants its simulation at that moment.
THEOREM SessionsAreFiltered == Spec => SessionFilter
  <1>1. FilterInv /\ [Next]_vars =>
          \A c \in Client, m \in Message :
            Received(c, m) /\ SessionOf[c] # Global /\ Channel[m] = "remoteMsg"
              => Targets[m] = <<>> \/ SessionOf[c] \in Named(m) \/ SimOf[m] \in Wanted(c)
    BY ReceivedIsEntitled DEF Entitled
  <1> QED BY <1>1, FiltersAreRequests, PTL DEF Spec, SessionFilter
=============================================================================
