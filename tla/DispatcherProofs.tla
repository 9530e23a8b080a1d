-------------------------- MODULE DispatcherProofs --------------------------
(***************************************************************************)
(* What holds of any number of dispatchers, for any sessions, simulations  *)
(* and pulses, however their readers, the pokes, resets, broken            *)
(* connections and runs interleave.                                        *)
(***************************************************************************)
EXTENDS Dispatcher, TLAPS

(***************************************************************************)
(* Types.                                                                  *)
(***************************************************************************)
EventId ==
  ({"spawn", "action"} \X Session) \cup ({"reset"} \X Nat) \cup ({"end"} \X Simulation)
    \cup ({"pulse"} \X STRING) \cup ({"relay"} \X STRING \X Instance \X Handler)

SpawnEvents  == [type : {"spawn_agent"}, id : EventId, sid : Session]
ResetEvents  == [type : {"environment_reset"}, id : EventId]
EndEvents    == [type : {"end_simulation"}, id : EventId, sim : Simulation]
ActionEvents == [type : {"a2ui_action"}, id : EventId, sid : Session, name : {"action"}]
BroadcastEvents ==
  [type : {"broadcast"}, id : EventId \cup {None}, name : STRING, sim : Simulation \cup {None},
   targets : SUBSET (Session \cup {AgentType}), again : SUBSET Session,
   excluded : SUBSET Session, relayed : BOOLEAN]

Event == SpawnEvents \cup ResetEvents \cup EndEvents \cup ActionEvents \cup BroadcastEvents

Scoped == {s \in Session : SimOf[s] # None}

Awaited ==
  [at : {"idle", "clear"}] \cup [at : {"register"}, sid : Scoped]
    \cup [at : {"subscribe"}, sim : Simulation]
    \cup [at : {"relay"}, event : BroadcastEvents, to : SUBSET Session]

Run == [no : Nat, sid : Session, lock : Nat \cup {None}, on : BOOLEAN, live : BOOLEAN]

Call == ({"unregister"} \X Session) \cup ({"unsubscribe"} \X Simulation)

WireOK ==
  /\ spawned \subseteq Session /\ published \subseteq Pulse /\ ended \subseteq Simulation
  /\ resets \in Nat /\ breaks \in Nat
  /\ queue \subseteq Session /\ pokes \subseteq Event
  /\ mail \in [Instance -> Seq(Event)]

LinksOK ==
  /\ link \in [Instance -> {"up", "joining", "down"}]
  /\ heard \in [Instance -> SUBSET (Simulation \cup {Global})]
  /\ todo \in [Instance -> SUBSET Simulation] /\ deaf \in [Instance -> SUBSET Simulation]

SessionsOK ==
  /\ active \in [Instance -> SUBSET Session] /\ mapped \in [Instance -> SUBSET Session]
  /\ subs \in [Instance -> SUBSET Simulation]
  /\ work \in [Instance -> [Handler -> Awaited]]
  /\ chores \in [Instance -> SUBSET Call]

RunsOK ==
  /\ runs \in [Instance -> SUBSET Run]
  /\ turns \in [Instance -> Nat] /\ locks \in [Instance -> Nat]

TypeOK == WireOK /\ LinksOK /\ SessionsOK /\ RunsOK

(***************************************************************************)
(* The runs of one instance: a set of runs, the number of the next one and *)
(* the number of its present table of locks.                               *)
(***************************************************************************)
\* A run is known by its number and its session.
Numbered(R, n) ==
  /\ \A r \in R : r.no < n
  /\ \A r, q \in R : r.no = q.no /\ r.sid = q.sid => r = q

\* A run that was not cancelled holds or awaits a lock of the present table.
Present(R, k) ==
  \A r \in R : r.lock # None => r.lock <= k /\ (r.live => r.lock = k)

\* Who goes on has its lock alone, and was triggered before all who await it.
Lined(R) ==
  \A r \in R : r.on =>
    /\ r.lock # None
    /\ \A q \in R : q.sid = r.sid /\ q.lock = r.lock /\ q # r => ~q.on /\ r.no < q.no

\* Runs begin in the order of their numbers.
InTurn(R) == \A r, q \in R : r.lock # None /\ q.lock = None => r.no <= q.no

Serial(R, n, k) == Numbered(R, n) /\ Present(R, k) /\ Lined(R) /\ InTurn(R)

SerialInv == \A i \in Instance : Serial(runs[i], turns[i], locks[i])

LEMMA SerialTrigger ==
  ASSUME NEW R \in SUBSET Run, NEW n \in Nat, NEW k \in Nat, Serial(R, n, k),
         NEW T \in SUBSET Session
  PROVE  R \cup Scheduled(T, n) \in SUBSET Run /\ Serial(R \cup Scheduled(T, n), n + 1, k)
<1> DEFINE fresh(s) == [no |-> n, sid |-> s, lock |-> None, on |-> FALSE, live |-> TRUE]
           new == {fresh(s) : s \in T}
<1>. \A s \in T : fresh(s) \in Run /\ fresh(s).sid = s /\ fresh(s).no = n
                 /\ fresh(s).lock = None /\ fresh(s).on = FALSE
  BY DEF Run
<1>. HIDE DEF fresh
<1>1. \A r \in new : r \in Run /\ r.no = n /\ r.lock = None /\ r.on = FALSE
  OBVIOUS
<1>2. \A r, q \in new : r.sid = q.sid => r = q
  OBVIOUS
<1>3. \A r \in R : r.no \in Nat /\ r.no < n
  BY DEF Run, Serial, Numbered
<1> HIDE DEF new
<1>4. R \cup new \in SUBSET Run
  BY <1>1
<1>5. Numbered(R \cup new, n + 1)
  BY <1>1, <1>2, <1>3 DEF Serial, Numbered
<1>6. Present(R \cup new, k)
  BY <1>1 DEF Serial, Present
<1>7. Lined(R \cup new)
  BY <1>1, DispatcherAssumption DEF Serial, Lined
<1>8. InTurn(R \cup new)
  BY <1>1, <1>3 DEF Serial, InTurn
<1>9. new = Scheduled(T, n)
  BY DEF new, fresh, Scheduled
<1>. QED  BY <1>4, <1>5, <1>6, <1>7, <1>8, <1>9 DEF Serial

LEMMA SerialReset ==
  ASSUME NEW R \in SUBSET Run, NEW n \in Nat, NEW k \in Nat, Serial(R, n, k)
  PROVE  LET gone == {[no |-> r.no, sid |-> r.sid, lock |-> r.lock, on |-> r.on,
                       live |-> FALSE] : r \in R}
         IN  gone \in SUBSET Run /\ Serial(gone, n, k + 1)
<1> DEFINE dead(r) == [no |-> r.no, sid |-> r.sid, lock |-> r.lock, on |-> r.on, live |-> FALSE]
           gone == {dead(r) : r \in R}
<1>1. \A r \in R : /\ dead(r) \in Run /\ dead(r).no = r.no /\ dead(r).sid = r.sid
                   /\ dead(r).lock = r.lock /\ dead(r).on = r.on /\ ~dead(r).live
  BY DEF Run
<1>2. \A d \in gone : \E r \in R : d = dead(r)
  OBVIOUS
<1>3. \A r \in R : r.lock \in Nat \cup {None} /\ r.no \in Nat
  BY DEF Run
<1> HIDE DEF dead, gone
<1>4. gone \in SUBSET Run
  BY <1>1, <1>2
<1>5. Numbered(gone, n)
  BY <1>1, <1>2 DEF Serial, Numbered
<1>6. Present(gone, k + 1)
  BY <1>1, <1>2, <1>3 DEF Serial, Present
<1>7. Lined(gone)
  BY <1>1, <1>2 DEF Serial, Lined
<1>8. InTurn(gone)
  BY <1>1, <1>2 DEF Serial, InTurn
<1>. QED  BY <1>4, <1>5, <1>6, <1>7, <1>8 DEF Serial, gone, dead

\* A run takes the lock of its session, or gets in line.
LEMMA SerialBegin ==
  ASSUME NEW R \in SUBSET Run, NEW n \in Nat, NEW k \in Nat, Serial(R, n, k),
         NEW r \in R, r.lock = None, \A q \in R : q.lock = None => r.no <= q.no,
         NEW on \in BOOLEAN, on <=> {q \in R : q.sid = r.sid /\ q.lock = k} = {}
  PROVE  LET S == (R \ {r}) \cup {Holding(r, k, on)}
         IN  S \in SUBSET Run /\ Serial(S, n, k)
<1> DEFINE h == Holding(r, k, on)
           S == (R \ {r}) \cup {h}
<1>1. /\ h \in Run /\ h.no = r.no /\ h.sid = r.sid /\ h.lock = k /\ h.on = on /\ h.live = r.live
      /\ h.lock # None
  BY DispatcherAssumption DEF Run, Holding
<1>2. \A q \in R : q.no \in Nat
  BY DEF Run
<1>3. \A q \in R \ {r} : ~(q.no = r.no /\ q.sid = r.sid)
  BY DEF Serial, Numbered
<1>4. \A q \in R : q.lock # None => q.no <= r.no
  BY DEF Serial, InTurn
<1> HIDE DEF h
<1>5. S \in SUBSET Run
  BY <1>1
<1>6. Numbered(S, n)
  BY <1>1, <1>3 DEF Serial, Numbered
<1>7. Present(S, k)
  BY <1>1 DEF Serial, Present
<1>8. Lined(S)
  <2> SUFFICES ASSUME NEW p \in S, p.on
               PROVE  /\ p.lock # None
                      /\ \A q \in S : q.sid = p.sid /\ q.lock = p.lock /\ q # p
                                      => ~q.on /\ p.no < q.no
    BY DEF Lined
  <2>1. CASE p = h
    BY <2>1, <1>1
  <2>2. CASE p \in R \ {r}
    <3>1. p.lock # None
      BY <2>2 DEF Serial, Lined
    <3>2. \A q \in R \ {r} : q.sid = p.sid /\ q.lock = p.lock /\ q # p => ~q.on /\ p.no < q.no
      BY <2>2 DEF Serial, Lined
    <3>3. h.sid = p.sid /\ h.lock = p.lock => ~h.on /\ p.no < h.no
      <4>1. h.sid = p.sid => p.no # h.no
        BY <2>2, <1>3, <1>1
      <4>2. p.no <= h.no
        BY <2>2, <3>1, <1>4, <1>1
      <4>3. p.no \in Nat /\ h.no \in Nat
        BY <2>2, <1>1, <1>2
      <4>. QED  BY <4>1, <4>2, <4>3, <2>2, <1>1
    <3>. QED  BY <3>1, <3>2, <3>3
  <2>. QED  BY <2>1, <2>2
<1>9. InTurn(S)
  BY <1>1 DEF Serial, InTurn
<1>. QED  BY <1>5, <1>6, <1>7, <1>8, <1>9 DEF Serial, h

\* A run ends, and if it went on, the first in line goes on.
LEMMA SerialFinish ==
  ASSUME NEW R \in SUBSET Run, NEW n \in Nat, NEW k \in Nat, Serial(R, n, k), NEW r \in R
  PROVE  LET line == {q \in R : q.sid = r.sid /\ q.lock = r.lock} \ {r}
             next == IF r.on THEN {q \in line : \A p \in line : q.no <= p.no} ELSE {}
             S    == (R \ ({r} \cup next)) \cup {Holding(q, q.lock, TRUE) : q \in next}
         IN  S \in SUBSET Run /\ Serial(S, n, k)
<1> DEFINE line == {q \in R : q.sid = r.sid /\ q.lock = r.lock} \ {r}
           next == IF r.on THEN {q \in line : \A p \in line : q.no <= p.no} ELSE {}
           kept == R \ ({r} \cup next)
           h(q) == Holding(q, q.lock, TRUE)
           S    == kept \cup {h(q) : q \in next}
<1>1. \A q \in R : q.no \in Nat /\ q.lock \in Nat \cup {None}
  BY DEF Run
<1>2. \A q \in R : /\ h(q) \in Run /\ h(q).no = q.no /\ h(q).sid = q.sid /\ h(q).lock = q.lock
                   /\ h(q).on /\ h(q).live = q.live
  BY DEF Run, Holding
<1>3. next # {} => r.on /\ r.lock # None
  BY DEF Serial, Lined
<1>4. \A q \in next : /\ q \in R /\ q # r /\ q.sid = r.sid /\ q.lock = r.lock
                      /\ \A p \in line : q.no <= p.no
  OBVIOUS
<1>5. \A q \in next : \A p \in R : p.sid = q.sid /\ p.no = q.no => p = q
  BY <1>4 DEF Serial, Numbered
<1>6. \A q, p \in next : p = q
  BY <1>4, <1>5, <1>1
<1>7. r.on => \A q \in line : ~q.on
  BY DEF Serial, Lined
<1>8. \A s \in S : \/ s \in kept
                   \/ \E q \in next : s = h(q)
  OBVIOUS
<1>9. kept \subseteq R /\ \A q \in kept : q # r /\ q \notin next
  OBVIOUS
<1>10. \A q \in next : \A p \in kept : p.sid = q.sid /\ p.lock = q.lock => p \in line
  BY <1>4
<1> HIDE DEF h, S, kept, next, line
<1>11. S \in SUBSET Run
  BY <1>2, <1>4, <1>8, <1>9
<1>12. Numbered(S, n)
  <2>1. \A s \in S : s.no < n
    BY <1>2, <1>4, <1>8, <1>9 DEF Serial, Numbered
  <2>2. \A s, z \in S : s.no = z.no /\ s.sid = z.sid => s = z
    BY <1>2, <1>4, <1>5, <1>6, <1>8, <1>9 DEF Serial, Numbered
  <2>. QED  BY <2>1, <2>2 DEF Numbered
<1>13. Present(S, k)
  BY <1>2, <1>4, <1>8, <1>9 DEF Serial, Present
<1>14. Lined(S)
  <2> SUFFICES ASSUME NEW s \in S, s.on
               PROVE  /\ s.lock # None
                      /\ \A z \in S : z.sid = s.sid /\ z.lock = s.lock /\ z # s
                                      => ~z.on /\ s.no < z.no
    BY DEF Lined
  <2>1. CASE s \in kept
    <3>1. s.lock # None
      BY <2>1, <1>9 DEF Serial, Lined
    <3>2. \A z \in R : z.sid = s.sid /\ z.lock = s.lock /\ z # s => ~z.on /\ s.no < z.no
      BY <2>1, <1>9 DEF Serial, Lined
    <3>3. \A q \in next : ~(q.sid = s.sid /\ q.lock = s.lock)
      BY <2>1, <1>3, <1>7, <1>10
    <3>. QED  BY <3>1, <3>2, <3>3, <1>2, <1>4, <1>8, <1>9
  <2>2. CASE \E q \in next : s = h(q)
    <3> PICK q \in next : s = h(q)  BY <2>2
    <3>1. s.lock # None /\ s.no = q.no /\ s.sid = q.sid /\ s.lock = q.lock
      BY <1>2, <1>3, <1>4
    <3>2. \A z \in kept : z.sid = q.sid /\ z.lock = q.lock => ~z.on /\ q.no < z.no
      <4> SUFFICES ASSUME NEW z \in kept, z.sid = q.sid, z.lock = q.lock
                   PROVE  ~z.on /\ q.no < z.no
        OBVIOUS
      <4>1. z \in line /\ z \in R /\ z # q
        BY <1>9, <1>10
      <4>2. ~z.on
        BY <4>1, <1>3, <1>7
      <4>3. q.no <= z.no /\ q.no # z.no /\ q.no \in Nat /\ z.no \in Nat
        BY <4>1, <1>1, <1>4, <1>5
      <4>. QED  BY <4>2, <4>3
    <3>3. \A z \in S : z \in kept \/ z = s
      BY <1>6, <1>8
    <3>. QED  BY <3>1, <3>2, <3>3
  <2>. QED  BY <2>1, <2>2, <1>8
<1>15. InTurn(S)
  <2>1. \A q \in next : q.lock # None
    BY <1>3, <1>4
  <2>. QED  BY <2>1, <1>2, <1>4, <1>8, <1>9 DEF Serial, InTurn
<1>. QED  BY <1>11, <1>12, <1>13, <1>14, <1>15 DEF Serial, S, kept, next, line, h

(***************************************************************************)
(* The steps.                                                              *)
(***************************************************************************)
SerialOK == RunsOK /\ SerialInv

LEMMA TriggerSerial ==
  ASSUME SerialOK, NEW i \in Instance, NEW T \in SUBSET Session, NEW e,
         Trigger(i, T, e), UNCHANGED locks
  PROVE  SerialOK'
<1> DEFINE again == T \cap Repeated(e)
           new   == Scheduled(T, turns[i]) \cup Scheduled(again, turns[i] + 1)
<1>1. /\ runs' = [runs EXCEPT ![i] = @ \cup new]
      /\ turns' = [turns EXCEPT ![i] = IF T = {} THEN @ ELSE @ + 2]
  BY DEF Trigger
<1>2. T = {} => new = {}
  BY DEF Scheduled
<1>3. Serial(runs[i], turns[i], locks[i]) /\ runs[i] \in SUBSET Run
      /\ turns[i] \in Nat /\ locks[i] \in Nat
  BY DEF SerialOK, RunsOK, SerialInv
<1>4. runs[i] \cup new \in SUBSET Run /\ Serial(runs[i] \cup new, turns[i] + 2, locks[i])
  <2> DEFINE first == runs[i] \cup Scheduled(T, turns[i])
             both  == first \cup Scheduled(again, turns[i] + 1)
  <2>1. first \in SUBSET Run /\ Serial(first, turns[i] + 1, locks[i])
    BY <1>3, SerialTrigger
  <2>2. again \in SUBSET Session /\ turns[i] + 1 \in Nat
    BY <1>3
  <2>3. both = runs[i] \cup new
    OBVIOUS
  <2> HIDE DEF first, again
  <2>4. both \in SUBSET Run /\ Serial(both, (turns[i] + 1) + 1, locks[i])
    BY <1>3, <2>1, <2>2, SerialTrigger
  <2>5. (turns[i] + 1) + 1 = turns[i] + 2
    BY <1>3
  <2> HIDE DEF both, new
  <2>. QED  BY <2>3, <2>4, <2>5
<1> HIDE DEF new
<1>5. RunsOK'
  BY <1>1, <1>3, <1>4 DEF SerialOK, RunsOK
<1>6. SerialInv'
  BY <1>1, <1>2, <1>3, <1>4 DEF SerialOK, RunsOK, SerialInv
<1>. QED  BY <1>5, <1>6 DEF SerialOK

LEMMA ResetSerial ==
  ASSUME SerialOK, NEW i \in Instance, UNCHANGED turns,
         runs' = [runs EXCEPT ![i] = Cancelled(i)], locks' = [locks EXCEPT ![i] = @ + 1]
  PROVE  SerialOK'
<1>1. Serial(runs[i], turns[i], locks[i]) /\ runs[i] \in SUBSET Run
      /\ turns[i] \in Nat /\ locks[i] \in Nat
  BY DEF SerialOK, RunsOK, SerialInv
<1>2. Cancelled(i) \in SUBSET Run /\ Serial(Cancelled(i), turns[i], locks[i] + 1)
  BY <1>1, SerialReset DEF Cancelled
<1>3. RunsOK'
  BY <1>1, <1>2 DEF SerialOK, RunsOK
<1>4. SerialInv'
  BY <1>1, <1>2 DEF SerialOK, RunsOK, SerialInv
<1>. QED  BY <1>3, <1>4 DEF SerialOK

LEMMA BeginSerial ==
  ASSUME SerialOK, NEW i \in Instance, NEW r \in runs[i], Begin(i, r)
  PROVE  SerialOK'
<1> DEFINE S == (runs[i] \ {r}) \cup {Holding(r, locks[i], GetsLock(i, r))}
<1>1. Serial(runs[i], turns[i], locks[i]) /\ runs[i] \in SUBSET Run
      /\ turns[i] \in Nat /\ locks[i] \in Nat
  BY DEF SerialOK, RunsOK, SerialInv
<1>2. GetsLock(i, r) \in BOOLEAN
      /\ (GetsLock(i, r) <=> {q \in runs[i] : q.sid = r.sid /\ q.lock = locks[i]} = {})
  BY DEF GetsLock, InLine
<1>3. r.lock = None /\ \A q \in runs[i] : q.lock = None => r.no <= q.no
  BY DEF Begin
<1>4. S \in SUBSET Run /\ Serial(S, turns[i], locks[i])
  BY <1>1, <1>2, <1>3, SerialBegin
<1>5. runs' = [runs EXCEPT ![i] = S] /\ UNCHANGED <<turns, locks>>
  BY DEF Begin
<1> HIDE DEF S
<1>6. RunsOK'
  BY <1>4, <1>5 DEF SerialOK, RunsOK
<1>7. SerialInv'
  BY <1>4, <1>5 DEF SerialOK, RunsOK, SerialInv
<1>. QED  BY <1>6, <1>7 DEF SerialOK

LEMMA FinishSerial ==
  ASSUME SerialOK, NEW i \in Instance, NEW r \in runs[i], Finish(i, r)
  PROVE  SerialOK'
<1> DEFINE line == {q \in runs[i] : q.sid = r.sid /\ q.lock = r.lock} \ {r}
           next == IF r.on THEN {q \in line : \A p \in line : q.no <= p.no} ELSE {}
           S == (runs[i] \ ({r} \cup next)) \cup {Holding(q, q.lock, TRUE) : q \in next}
<1>1. Serial(runs[i], turns[i], locks[i]) /\ runs[i] \in SUBSET Run
      /\ turns[i] \in Nat /\ locks[i] \in Nat
  BY DEF SerialOK, RunsOK, SerialInv
<1>2. S \in SUBSET Run /\ Serial(S, turns[i], locks[i])
  BY <1>1, SerialFinish
<1>3. runs' = [runs EXCEPT ![i] = S] /\ UNCHANGED <<turns, locks>>
  BY DEF Finish, InLine
<1> HIDE DEF S
<1>4. RunsOK'
  BY <1>2, <1>3 DEF SerialOK, RunsOK
<1>5. SerialInv'
  BY <1>2, <1>3 DEF SerialOK, RunsOK, SerialInv
<1>. QED  BY <1>4, <1>5 DEF SerialOK

LEMMA MatchedAre ==
  ASSUME SessionsOK, NEW i \in Instance, NEW e
  PROVE  Matched(i, e) \subseteq active[i] /\ Matched(i, e) \in SUBSET Session
BY DEF Matched, SessionsOK

LEMMA AwaitOK ==
  ASSUME SessionsOK, NEW i \in Instance, NEW h \in Handler, NEW w \in Awaited, Await(i, h, w)
  PROVE  work' \in [Instance -> [Handler -> Awaited]]
BY DEF SessionsOK, Await

LEMMA EventsAre ==
  ASSUME NEW e \in Event
  PROVE  /\ e.type = "spawn_agent" => e.sid \in Session
         /\ e.type = "end_simulation" => e.sim \in Simulation
         /\ e.type = "a2ui_action" => e.sid \in Session
         /\ e.type = "broadcast" => e \in BroadcastEvents
BY DEF Event, SpawnEvents, ResetEvents, EndEvents, ActionEvents, BroadcastEvents

\* What a handler makes of an event, until it returns or awaits.
LEMMA ProcessEventOK ==
  ASSUME SessionsOK, SerialOK, NEW i \in Instance, NEW h \in Handler, NEW e \in Event,
         ProcessEvent(i, h, e)
  PROVE  SessionsOK' /\ SerialOK' /\ UNCHANGED <<registered, links>>
<1> USE EventsAre
<1>1. CASE Duplicate(i, e)
  BY <1>1 DEF ProcessEvent, SessionsOK, SerialOK, RunsOK, SerialInv, sessions, running
<1>2. CASE HandleReset(i, h, e)
  <2>1. SessionsOK'
    BY <1>2 DEF HandleReset, Await, SessionsOK, Awaited
  <2>2. SerialOK'
    BY <1>2, ResetSerial DEF HandleReset
  <2>. QED  BY <1>2, <2>1, <2>2 DEF HandleReset
<1>3. CASE HandleSpawn(i, h, e)
  <2>1. SessionsOK'
    <3>1. CASE SimOf[e.sid] = None
      BY <1>3, <3>1 DEF HandleSpawn, SessionsOK
    <3>2. CASE SimOf[e.sid] # None
      <4>1. e.sid \in Scoped
        BY <1>3, <3>2 DEF HandleSpawn, Scoped
      <4>2. [at |-> "register", sid |-> e.sid] \in Awaited
        BY <4>1 DEF Awaited
      <4>3. Await(i, h, [at |-> "register", sid |-> e.sid])
        BY <1>3, <3>2 DEF HandleSpawn
      <4>4. work' \in [Instance -> [Handler -> Awaited]]
        BY <4>2, <4>3, AwaitOK
      <4>5. e.sid \in Session /\ active' = [active EXCEPT ![i] = @ \cup {e.sid}]
            /\ mapped' = [mapped EXCEPT ![i] = @ \cup {e.sid}] /\ UNCHANGED <<subs, chores>>
        BY <1>3, <3>2, <4>1 DEF HandleSpawn, Scoped
      <4>. QED  BY <4>4, <4>5 DEF SessionsOK
    <3>. QED  BY <3>1, <3>2
  <2>2. SerialOK'
    BY <1>3 DEF HandleSpawn, SerialOK, RunsOK, SerialInv, running
  <2>. QED  BY <1>3, <2>1, <2>2 DEF HandleSpawn
<1>4. CASE HandleBroadcast(i, h, e)
  <2> DEFINE here == Matched(i, e)
  <2>1. here \in SUBSET Session /\ e \in BroadcastEvents
    BY <1>4, MatchedAre DEF HandleBroadcast
  <2>2. CASE Relays(e, here)
    <3>1. [at |-> "relay", event |-> e, to |-> here] \in Awaited
      BY <2>1 DEF Awaited
    <3>2. SessionsOK'
      <4>1. Await(i, h, [at |-> "relay", event |-> e, to |-> here])
        BY <1>4, <2>2 DEF HandleBroadcast
      <4>. QED  BY <1>4, <3>1, <4>1, AwaitOK DEF HandleBroadcast, SessionsOK
    <3>3. SerialOK'
      BY <1>4, <2>2 DEF HandleBroadcast, SerialOK, RunsOK, SerialInv
    <3>. QED  BY <1>4, <3>2, <3>3 DEF HandleBroadcast
  <2>3. CASE ~Relays(e, here)
    <3>1. SessionsOK'
      BY <1>4, <2>3 DEF HandleBroadcast, SessionsOK
    <3>2. Trigger(i, here, e) /\ UNCHANGED locks
      BY <1>4, <2>3 DEF HandleBroadcast
    <3>3. SerialOK'
      BY <3>2, <2>1, TriggerSerial
    <3>. QED  BY <1>4, <3>1, <3>3 DEF HandleBroadcast
  <2>. QED  BY <2>2, <2>3
<1>5. CASE HandleEnd(i, h, e)
  <2>1. {"unregister"} \X Of(i, e.sim) \subseteq Call /\ <<"unsubscribe", e.sim>> \in Call
    BY <1>5 DEF HandleEnd, Of, Call, SessionsOK
  <2>2. SessionsOK'
    BY <1>5, <2>1 DEF HandleEnd, SessionsOK
  <2>3. SerialOK'
    BY <1>5 DEF HandleEnd, SerialOK, RunsOK, SerialInv, running
  <2>. QED  BY <1>5, <2>2, <2>3 DEF HandleEnd
<1>6. CASE HandleAction(i, h, e)
  <2>1. SessionsOK'
    BY <1>6 DEF HandleAction, SessionsOK
  <2>2. Trigger(i, {e.sid} \cap active[i], e) /\ UNCHANGED locks
    BY <1>6 DEF HandleAction
  <2>3. {e.sid} \cap active[i] \in SUBSET Session
    BY DEF SessionsOK
  <2>4. SerialOK'
    BY <2>2, <2>3, TriggerSerial
  <2>. QED  BY <1>6, <2>1, <2>4 DEF HandleAction
<1>. QED  BY <1>1, <1>2, <1>3, <1>4, <1>5, <1>6 DEF ProcessEvent, links

LEMMA NewEvents ==
  /\ \A s \in Session : SpawnEvent(s) \in Event /\ ActionEvent(s) \in Event
  /\ resets \in Nat => ResetEvent \in Event
  /\ \A x \in Simulation : EndEvent(x) \in Event
  /\ \A p \in Pulse : BroadcastEvent(p) \in Event
<1>1. \A s \in Session : SpawnEvent(s) \in SpawnEvents /\ ActionEvent(s) \in ActionEvents
  BY DEF SpawnEvent, ActionEvent, SpawnEvents, ActionEvents, EventId
<1>2. resets \in Nat => ResetEvent \in ResetEvents
  BY DEF ResetEvent, ResetEvents, EventId
<1>3. \A x \in Simulation : EndEvent(x) \in EndEvents
  BY DEF EndEvent, EndEvents, EventId
<1>4. \A p \in Pulse : BroadcastEvent(p) \in BroadcastEvents
  <2> TAKE p \in Pulse
  <2>1. /\ p.name \in STRING /\ p.sim \in Simulation \cup {None}
        /\ p.targets \in SUBSET (Session \cup {AgentType}) /\ p.excluded \in SUBSET Session
        /\ p.again \in SUBSET Session
    BY DispatcherAssumption
  <2>2. (IF p.hasId THEN <<"pulse", p.name>> ELSE None) \in EventId \cup {None}
    BY <2>1 DEF EventId
  <2>. QED  BY <2>1, <2>2 DEF BroadcastEvent, BroadcastEvents
<1>. QED  BY <1>1, <1>2, <1>3, <1>4 DEF Event

LEMMA RelayIs ==
  ASSUME NEW i \in Instance, NEW h \in Handler, NEW e \in BroadcastEvents,
         NEW unmatched \in SUBSET (Session \cup {AgentType})
  PROVE  Relay(i, h, e, unmatched) \in BroadcastEvents
<1>1. RelayId(i, h, e.name) \in EventId
  BY DEF RelayId, EventId, BroadcastEvents
<1>. QED  BY <1>1 DEF Relay, BroadcastEvents

LEMMA PublishOK ==
  ASSUME mail \in [Instance -> Seq(Event)], NEW c, NEW e \in Event, Publish(c, e)
  PROVE  mail' \in [Instance -> Seq(Event)]
BY DEF Publish

Inv == TypeOK /\ SerialInv

LEMMA InitInv == Init => Inv
<1> SUFFICES ASSUME Init PROVE Inv
  OBVIOUS
<1>1. WireOK /\ LinksOK
  BY DEF Init, WireOK, LinksOK
<1>2. SessionsOK
  BY DEF Init, SessionsOK, Awaited, Idle
<1>3. RunsOK
  BY DEF Init, RunsOK
<1>4. SerialInv
  BY DEF Init, SerialInv, Serial, Numbered, Present, Lined, InTurn
<1>. QED  BY <1>1, <1>2, <1>3, <1>4 DEF Inv, TypeOK

\* An instance reads an event.
LEMMA ReadsInv ==
  ASSUME Inv, NEW i \in Instance, TakeMail(i) \/ TakeSpawn(i) \/ TakePoke(i)
  PROVE  Inv'
<1> USE DEF Inv, TypeOK, SerialOK
<1>1. PICK h \in Handler, e \in Event : ProcessEvent(i, h, e)
  <2>1. CASE TakeMail(i)
    <3>1. mail[i] \in Seq(Event) /\ mail[i] # <<>> /\ ProcessEvent(i, "pubsub", Head(mail[i]))
      BY <2>1 DEF TakeMail, WireOK
    <3>2. Head(mail[i]) \in Event
      BY <3>1
    <3>. QED  BY <3>1, <3>2 DEF Handler
  <2>2. CASE TakeSpawn(i)
    BY <2>2, NewEvents DEF TakeSpawn, WireOK, Handler
  <2>3. CASE TakePoke(i)
    BY <2>3 DEF TakePoke, WireOK, Handler
  <2>. QED  BY <2>1, <2>2, <2>3
<1>2. SessionsOK' /\ SerialOK' /\ UNCHANGED links
  BY <1>1, ProcessEventOK
<1>3. LinksOK'
  BY <1>2 DEF LinksOK, links
<1>4. WireOK'
  <2>1. CASE TakeMail(i)
    <3>1. mail[i] \in Seq(Event) /\ mail[i] # <<>>
      BY <2>1 DEF TakeMail, WireOK
    <3>2. Tail(mail[i]) \in Seq(Event)
      BY <3>1
    <3>. QED  BY <2>1, <3>2 DEF TakeMail, WireOK, asked
  <2>2. CASE TakeSpawn(i)
    BY <2>2 DEF TakeSpawn, WireOK, asked
  <2>3. CASE TakePoke(i)
    BY <2>3 DEF TakePoke, WireOK, asked
  <2>. QED  BY <2>1, <2>2, <2>3
<1>. QED  BY <1>2, <1>3, <1>4

\* A handler goes on.
LEMMA AwaitsInv ==
  ASSUME Inv, NEW i \in Instance, NEW h \in Handler,
         Registered(i, h) \/ Subscribed(i, h) \/ Relayed(i, h) \/ Cleared(i, h)
  PROVE  Inv'
<1> USE DEF Inv, TypeOK
<1>1. work[i][h] \in Awaited /\ Idle \in Awaited
  BY DEF SessionsOK, Awaited, Idle
<1>2. CASE Registered(i, h)
  <2> DEFINE x == SimOf[work[i][h].sid]
             w == IF x \in subs[i] \/ link[i] = "down" THEN Idle ELSE [at |-> "subscribe", sim |-> x]
  <2>1. work[i][h].at = "register" /\ Await(i, h, w) /\ subs' = [subs EXCEPT ![i] = @ \cup {x}]
    BY <1>2 DEF Registered
  <2>2. x \in Simulation
    BY <1>1, <2>1, DispatcherAssumption DEF Awaited, Scoped
  <2>3. w \in Awaited
    BY <1>1, <2>2 DEF Awaited
  <2>4. work' \in [Instance -> [Handler -> Awaited]]
    BY <2>1, <2>3, AwaitOK
  <2> HIDE DEF x
  <2>5. SessionsOK'
    <3>1. UNCHANGED <<active, mapped, chores>>
      BY <1>2 DEF Registered
    <3>2. subs' \in [Instance -> SUBSET Simulation]
      BY <2>1, <2>2 DEF SessionsOK
    <3>. QED  BY <2>4, <3>1, <3>2 DEF SessionsOK
  <2>6. WireOK' /\ LinksOK'
    BY <1>2 DEF Registered, WireOK, LinksOK, asked, links
  <2>7. RunsOK' /\ SerialInv'
    BY <1>2 DEF Registered, RunsOK, SerialInv, running
  <2>. QED  BY <2>5, <2>6, <2>7
<1>3. CASE Subscribed(i, h)
  <2>1. /\ work[i][h].at = "subscribe" /\ Await(i, h, Idle)
        /\ heard' = heard \/ heard' = [heard EXCEPT ![i] = @ \cup {work[i][h].sim}]
        /\ deaf' = deaf \/ deaf' = [deaf EXCEPT ![i] = @ \cup {work[i][h].sim}]
    BY <1>3 DEF Subscribed
  <2>2. work[i][h].sim \in Simulation
    BY <1>1, <2>1 DEF Awaited
  <2>3. work' \in [Instance -> [Handler -> Awaited]]
    BY <1>1, <2>1, AwaitOK
  <2>4. SessionsOK' /\ WireOK'
    BY <1>3, <2>3 DEF Subscribed, SessionsOK, WireOK, asked, wire, sessions
  <2>5. LinksOK'
    BY <1>3, <2>1, <2>2 DEF Subscribed, LinksOK
  <2>6. RunsOK' /\ SerialInv'
    BY <1>3 DEF Subscribed, RunsOK, SerialInv, running
  <2>. QED  BY <2>4, <2>5, <2>6
<1>4. CASE Relayed(i, h)
  <2> DEFINE w == work[i][h]
  <2>1. w.at = "relay" /\ Await(i, h, Idle) /\ Trigger(i, w.to, w.event) /\ UNCHANGED locks
    BY <1>4 DEF Relayed
  <2>2. w.event \in BroadcastEvents /\ w.to \in SUBSET Session
    BY <1>1, <2>1 DEF Awaited
  <2>3. work' \in [Instance -> [Handler -> Awaited]]
    BY <1>1, <2>1, AwaitOK
  <2>4. SessionsOK' /\ LinksOK'
    BY <1>4, <2>3 DEF Relayed, SessionsOK, LinksOK, sessions, links
  <2>5. SerialOK'
    BY <2>1, <2>2, TriggerSerial DEF SerialOK
  <2>6. w.event.targets \ w.to \in SUBSET (Session \cup {AgentType})
    BY <2>2 DEF BroadcastEvents
  <2>7. Relay(i, h, w.event, w.event.targets \ w.to) \in Event
    BY <2>2, <2>6, RelayIs DEF Event
  <2>8. \/ Publish(ChannelOf(w.event), Relay(i, h, w.event, w.event.targets \ w.to))
        \/ UNCHANGED mail
    BY <1>4 DEF Relayed
  <2>9. mail' \in [Instance -> Seq(Event)]
    BY <2>7, <2>8, PublishOK DEF WireOK
  <2>10. WireOK'
    BY <1>4, <2>9 DEF Relayed, WireOK, asked
  <2>. QED  BY <2>4, <2>5, <2>10 DEF SerialOK
<1>5. CASE Cleared(i, h)
  <2>1. work' \in [Instance -> [Handler -> Awaited]]
    BY <1>1, <1>5, AwaitOK DEF Cleared
  <2>2. SessionsOK' /\ LinksOK' /\ WireOK'
    BY <1>5, <2>1 DEF Cleared, SessionsOK, LinksOK, WireOK, asked, sessions, links
  <2>3. RunsOK' /\ SerialInv'
    BY <1>5 DEF Cleared, RunsOK, SerialInv, running
  <2>. QED  BY <2>2, <2>3
<1>. QED  BY <1>2, <1>3, <1>4, <1>5

\* Calls left to the loop, and runs.
LEMMA LoopInv ==
  ASSUME Inv, NEW i \in Instance,
         Chore(i) \/ \E r \in runs[i] : Begin(i, r) \/ Finish(i, r)
  PROVE  Inv'
<1> USE DEF Inv, TypeOK
<1>1. CASE Chore(i)
  <2>1. PICK c \in chores[i] :
          /\ chores' = [chores EXCEPT ![i] = @ \ {c}]
          /\ heard' = IF c[1] = "unsubscribe" THEN [heard EXCEPT ![i] = @ \ {c[2]}] ELSE heard
    BY <1>1 DEF Chore
  <2>2. LinksOK'
    <3>1. heard' \in [Instance -> SUBSET (Simulation \cup {Global})]
      BY <2>1 DEF LinksOK
    <3>. QED  BY <1>1, <3>1 DEF Chore, LinksOK
  <2>3. SessionsOK' /\ WireOK'
    BY <1>1, <2>1 DEF Chore, SessionsOK, WireOK, asked, sessions
  <2>4. RunsOK' /\ SerialInv'
    BY <1>1 DEF Chore, RunsOK, SerialInv, running
  <2>. QED  BY <2>2, <2>3, <2>4
<1>2. ASSUME NEW r \in runs[i], Begin(i, r) \/ Finish(i, r)
      PROVE  Inv'
  <2>1. SerialOK'
    BY <1>2, BeginSerial, FinishSerial DEF SerialOK
  <2>2. WireOK' /\ SessionsOK' /\ LinksOK'
    BY <1>2 DEF Begin, Finish, WireOK, SessionsOK, LinksOK, asked, wire, sessions, links
  <2>. QED  BY <2>1, <2>2 DEF SerialOK
<1>. QED  BY <1>1, <1>2

\* Connections.
LEMMA ConnectionsInv ==
  ASSUME Inv, NEW i \in Instance,
         (\E h \in Handler : Break(i, h)) \/ Connect(i) \/ Rejoin(i)
  PROVE  Inv'
<1> USE DEF Inv, TypeOK
<1>1. ASSUME NEW first \in Handler, Break(i, first)
      PROVE  Inv'
  <2> DEFINE other == IF first = "pubsub" THEN "queue" ELSE "pubsub"
             late_ == IF work[i]["http"].at = "subscribe" THEN Idle ELSE work[i]["http"]
  <2>1. other \in Handler /\ other # "http" /\ "http" \in Handler /\ Idle \in Awaited
    BY DEF Handler, Awaited, Idle
  <2>2. work' = [work EXCEPT ![i] = [@ EXCEPT ![other] = Idle, !["http"] = late_]]
    BY <1>1, <2>1 DEF Break, SessionsOK
  <2>3. late_ \in Awaited /\ work[i] \in [Handler -> Awaited]
    BY <2>1 DEF SessionsOK
  <2> HIDE DEF late_
  <2>4. work' \in [Instance -> [Handler -> Awaited]]
    BY <2>1, <2>2, <2>3 DEF SessionsOK
  <2>5. SessionsOK'
    BY <1>1, <2>4 DEF Break, SessionsOK, sessions
  <2>6. LinksOK'
    BY <1>1 DEF Break, LinksOK
  <2>7. queue' \subseteq queue /\ breaks' = breaks + 1 /\ mail' = [mail EXCEPT ![i] = <<>>]
        /\ UNCHANGED <<spawned, published, ended, resets, pokes>>
    BY <1>1 DEF Break
  <2>8. WireOK'
    BY <2>7 DEF WireOK
  <2>9. RunsOK' /\ SerialInv'
    BY <1>1 DEF Break, RunsOK, SerialInv, running
  <2>. QED  BY <2>5, <2>6, <2>8, <2>9
<1>2. CASE Connect(i)
  <2>1. LinksOK'
    BY <1>2 DEF Connect, Rejoins, LinksOK, SessionsOK
  <2>2. SessionsOK' /\ WireOK'
    BY <1>2 DEF Connect, SessionsOK, WireOK, asked, wire, sessions
  <2>3. RunsOK' /\ SerialInv'
    BY <1>2 DEF Connect, RunsOK, SerialInv, running
  <2>. QED  BY <2>1, <2>2, <2>3
<1>3. CASE Rejoin(i)
  <2>1. LinksOK'
    BY <1>3 DEF Rejoin, LinksOK
  <2>2. SessionsOK' /\ WireOK'
    BY <1>3 DEF Rejoin, SessionsOK, WireOK, asked, wire, sessions
  <2>3. RunsOK' /\ SerialInv'
    BY <1>3 DEF Rejoin, RunsOK, SerialInv, running
  <2>. QED  BY <2>1, <2>2, <2>3
<1>. QED  BY <1>1, <1>2, <1>3

\* The gateway and the simulator.
LEMMA ClientInv ==
  ASSUME Inv, ClientNext
  PROVE  Inv'
<1> USE DEF Inv, TypeOK
<1>1. UNCHANGED <<sessions, links, work, chores, running>>
  BY DEF ClientNext, Spawn, PublishPulse, SendPulse, SendAction, EndSimulation, ResetEnvironment
<1>2. LinksOK' /\ SessionsOK' /\ RunsOK' /\ SerialInv'
  BY <1>1 DEF LinksOK, SessionsOK, RunsOK, SerialInv, sessions, links, running
<1>3. WireOK'
  <2>1. ASSUME NEW S \in SUBSET Session, NEW poked \in SUBSET S, Spawn(S, poked)
        PROVE  WireOK'
    BY <2>1, NewEvents DEF Spawn, WireOK
  <2>2. ASSUME NEW p \in Pulse, PublishPulse(p)
        PROVE  WireOK'
    BY <2>2, NewEvents, PublishOK DEF PublishPulse, WireOK
  <2>3. ASSUME NEW p \in Pulse, SendPulse(p)
        PROVE  WireOK'
    BY <2>3, NewEvents, PublishOK DEF SendPulse, WireOK
  <2>4. ASSUME NEW s \in Session, SendAction(s)
        PROVE  WireOK'
    BY <2>4, NewEvents DEF SendAction, WireOK
  <2>5. ASSUME NEW x \in Simulation, EndSimulation(x)
        PROVE  WireOK'
    BY <2>5, NewEvents, PublishOK DEF EndSimulation, WireOK
  <2>6. CASE ResetEnvironment
    BY <2>6, NewEvents, PublishOK DEF ResetEnvironment, WireOK
  <2>. QED  BY <2>1, <2>2, <2>3, <2>4, <2>5, <2>6 DEF ClientNext
<1>. QED  BY <1>2, <1>3

LEMMA NextInv == Inv /\ [Next]_vars => Inv'
<1> SUFFICES ASSUME Inv, [Next]_vars PROVE Inv'
  OBVIOUS
<1>1. CASE Next
  BY <1>1, ClientInv, ReadsInv, AwaitsInv, LoopInv, ConnectionsInv DEF Next, InstanceNext
<1>2. CASE UNCHANGED vars
  BY <1>2 DEF Inv, TypeOK, WireOK, LinksOK, SessionsOK, RunsOK, SerialInv, vars, asked, wire,
              sessions, links, running
<1>. QED  BY <1>1, <1>2

(* Every reachable state of the dispatchers is well typed, whatever arrives in which order. *)
THEOREM TypeCorrect == Spec => []TypeOK
<1>1. Inv => TypeOK
  BY DEF Inv
<1>. QED  BY InitInv, NextInv, <1>1, PTL DEF Spec

(* In an instance at most one run of a session goes on that was not cancelled, and none
   overtakes an earlier one, although a reset drops locks that runs hold
   (dispatcher.py:355-362, 576-587). *)
THEOREM RunsSerial == Spec => []RunsAreSerial
<1>1. Inv => RunsAreSerial
  <2> SUFFICES ASSUME Inv, NEW i \in Instance, NEW r \in runs[i], NEW q \in runs[i],
                      r # q, r.sid = q.sid, r.on, r.live, q.live
               PROVE  ~q.on /\ q.no > r.no
    BY DEF RunsAreSerial
  <2>1. Serial(runs[i], turns[i], locks[i]) /\ r \in Run /\ q \in Run
    BY DEF Inv, TypeOK, RunsOK, SerialInv
  <2>2. r.no \in Nat /\ q.no \in Nat /\ r.no # q.no
    BY <2>1 DEF Run, Serial, Numbered
  <2>3. r.lock # None /\ r.lock = locks[i]
    BY <2>1 DEF Serial, Lined, Present
  <2>4. CASE q.lock = None
    BY <2>1, <2>2, <2>3, <2>4 DEF Serial, Lined, InTurn
  <2>5. CASE q.lock # None
    BY <2>1, <2>2, <2>3, <2>5 DEF Serial, Lined, Present
  <2>. QED  BY <2>4, <2>5
<1>. QED  BY InitInv, NextInv, <1>1, PTL DEF Spec

(***************************************************************************)
(* Sessions, channels and connections.                                     *)
(***************************************************************************)
True(e) == e.type = "end_simulation" => e.sim \in ended

\* A simulation is ended, and its channel given up, only when it ended.
MailTrue  == \A i \in Instance : \A n \in DOMAIN mail[i] : True(mail[i][n])
PokesTrue == \A e \in pokes : True(e)
CallsTrue == \A i \in Instance : \A c \in chores[i] : c[1] = "unsubscribe" => c[2] \in ended

\* A handler will see to it that the instance takes up the channel.
Registers(i, s)  == \E h \in Handler : work[i][h] = [at |-> "register", sid |-> s]
Subscribes(i, x) == \E h \in Handler : work[i][h] = [at |-> "subscribe", sim |-> x]

Noted ==
  \A i \in Instance : \A s \in active[i] :
    SimOf[s] \in Simulation \ ended /\ <<i, s>> \notin cut
    => SimOf[s] \in subs[i] \/ Registers(i, s)

Heard ==
  \A i \in Instance : \A x \in subs[i] \ ended :
    link[i] # "down" => x \in heard[i] \/ x \in todo[i] \/ Subscribes(i, x) \/ x \in deaf[i]

Joined == \A i \in Instance : todo[i] # {} => link[i] = "joining"

\* What the handlers of an instance keep, and what is on its way to them.
ListenInv == CallsTrue /\ Noted /\ Heard /\ Joined /\ StraysHaveACause
FleetInv  == MailTrue /\ PokesTrue /\ ListenInv

LEMMA TriggerStrays ==
  ASSUME Inv, StraysHaveACause, NEW i \in Instance, NEW T \in SUBSET Session, NEW e,
         Trigger(i, T, e), UNCHANGED <<active, ended>>, late \subseteq late',
         \A s \in T : s \in active[i] \/ <<i, s>> \in late'
  PROVE  StraysHaveACause'
<1> DEFINE again == T \cap Repeated(e)
           new   == Scheduled(T, turns[i]) \cup Scheduled(again, turns[i] + 1)
<1>1. runs' = [runs EXCEPT ![i] = @ \cup new]
  BY DEF Trigger
<1>2. \A r \in new : r.sid \in active[i] \/ <<i, r.sid>> \in late'
  BY DEF Scheduled
<1> HIDE DEF new
<1>. QED  BY <1>1, <1>2 DEF StraysHaveACause, Inv, TypeOK, RunsOK

LEMMA ProcessEventListens ==
  ASSUME Inv, ListenInv, NEW i \in Instance, NEW h \in Handler, NEW e \in Event, True(e),
         work[i][h] = Idle, ProcessEvent(i, h, e), UNCHANGED ended
  PROVE  ListenInv'
<1> USE EventsAre DEF ListenInv
<1>1. /\ active \in [Instance -> SUBSET Session] /\ mapped \in [Instance -> SUBSET Session]
      /\ subs \in [Instance -> SUBSET Simulation]
      /\ work \in [Instance -> [Handler -> Awaited]]
      /\ chores \in [Instance -> SUBSET Call]
      /\ runs \in [Instance -> SUBSET Run]
  BY DEF Inv, TypeOK, SessionsOK, RunsOK
\* What h did was nothing, and what it does now is neither of the two.
<1>2. ASSUME \A k \in Instance, g \in Handler : work'[k][g] = work[k][g] \/ work[k][g] = Idle
      PROVE  /\ \A k \in Instance, s \in Session : Registers(k, s) => Registers(k, s)'
             /\ \A k \in Instance, x \in Simulation : Subscribes(k, x) => Subscribes(k, x)'
  BY <1>2 DEF Registers, Subscribes, Idle
<1>3. ASSUME NEW w, Await(i, h, w)
      PROVE  \A k \in Instance, g \in Handler : work'[k][g] = work[k][g] \/ work[k][g] = Idle
  BY <1>1, <1>3 DEF Await
<1>4. CASE Duplicate(i, e)
  BY <1>4 DEF ProcessEvent, CallsTrue, Noted, Heard, Joined, StraysHaveACause, Registers,
              Subscribes, sessions, links, running, causes
<1>5. CASE HandleReset(i, h, e)
  <2>1. /\ active' = [active EXCEPT ![i] = {}] /\ runs' = [runs EXCEPT ![i] = Cancelled(i)]
        /\ UNCHANGED <<subs, link, heard, todo, deaf, chores, cut, late>>
    BY <1>5 DEF HandleReset, links
  <2>2. /\ \A k \in Instance, s \in Session : Registers(k, s) => Registers(k, s)'
        /\ \A k \in Instance, x \in Simulation : Subscribes(k, x) => Subscribes(k, x)'
    BY <1>2, <1>3, <1>5 DEF HandleReset
  <2>3. Noted' /\ Heard' /\ Joined' /\ CallsTrue'
    BY <1>1, <2>1, <2>2 DEF Noted, Heard, Joined, CallsTrue
  <2>4. \A r \in Cancelled(i) : ~r.live
    BY DEF Cancelled
  <2>5. StraysHaveACause'
    BY <1>1, <2>1, <2>4 DEF StraysHaveACause
  <2>. QED  BY <2>3, <2>5
<1>6. CASE HandleSpawn(i, h, e)
  <2>1. /\ active' = [active EXCEPT ![i] = @ \cup {e.sid}]
        /\ UNCHANGED <<subs, link, heard, todo, deaf, chores, cut, late, runs>>
    BY <1>6 DEF HandleSpawn, links, running
  <2>2. SimOf[e.sid] # None => Await(i, h, [at |-> "register", sid |-> e.sid])
    BY <1>6 DEF HandleSpawn
  <2>3. SimOf[e.sid] = None => UNCHANGED work
    BY <1>6 DEF HandleSpawn
  <2>4. /\ \A k \in Instance, s \in Session : Registers(k, s) => Registers(k, s)'
        /\ \A k \in Instance, x \in Simulation : Subscribes(k, x) => Subscribes(k, x)'
    BY <1>2, <1>3, <2>2, <2>3
  <2>5. SimOf[e.sid] # None => Registers(i, e.sid)'
    BY <1>1, <2>2 DEF Registers, Await
  <2>6. e.sid \in Session
    BY <1>6 DEF HandleSpawn
  <2>7. Noted'
    <3> SUFFICES ASSUME NEW k \in Instance, NEW s \in active'[k],
                        SimOf[s] \in Simulation \ ended, <<k, s>> \notin cut
                 PROVE  SimOf[s] \in subs[k] \/ Registers(k, s)'
      BY <2>1 DEF Noted
    <3>1. CASE s \in active[k]
      BY <1>1, <2>4, <3>1 DEF Noted
    <3>2. CASE k = i /\ s = e.sid /\ SimOf[s] # None
      BY <2>5, <3>2
    <3>3. CASE SimOf[s] = None
      BY <3>3, DispatcherAssumption
    <3>. QED  BY <1>1, <2>1, <3>1, <3>2, <3>3
  <2>8. Heard' /\ Joined' /\ CallsTrue'
    BY <1>1, <2>1, <2>4 DEF Heard, Joined, CallsTrue
  <2>9. StraysHaveACause'
    BY <1>1, <2>1 DEF StraysHaveACause
  <2>. QED  BY <2>7, <2>8, <2>9
<1>7. CASE HandleBroadcast(i, h, e)
  <2> DEFINE here == Matched(i, e)
  <2>1. UNCHANGED <<active, subs, link, heard, todo, deaf, chores, cut, late>>
    BY <1>7 DEF HandleBroadcast, links
  <2>2. /\ \A k \in Instance, s \in Session : Registers(k, s) => Registers(k, s)'
        /\ \A k \in Instance, x \in Simulation : Subscribes(k, x) => Subscribes(k, x)'
    BY <1>2, <1>3, <1>7 DEF HandleBroadcast
  <2>3. Noted' /\ Heard' /\ Joined' /\ CallsTrue'
    BY <1>1, <2>1, <2>2 DEF Noted, Heard, Joined, CallsTrue
  <2>4. CASE Relays(e, here)
    <3>1. UNCHANGED <<runs, ended>>
      BY <1>7, <2>4 DEF HandleBroadcast
    <3>. QED  BY <2>1, <2>3, <3>1 DEF StraysHaveACause
  <2>5. CASE ~Relays(e, here)
    <3>1. Trigger(i, here, e)
      BY <1>7, <2>5 DEF HandleBroadcast
    <3>2. here \in SUBSET Session /\ here \subseteq active[i]
      BY MatchedAre DEF Inv, TypeOK
    <3>3. StraysHaveACause'
      BY <2>1, <3>1, <3>2, TriggerStrays
    <3>. QED  BY <2>3, <3>3
  <2>. QED  BY <2>4, <2>5
<1>8. CASE HandleEnd(i, h, e)
  <2> DEFINE victims == Of(i, e.sim)
             leaves == victims # {} /\ e.sim \in subs[i]
  <2>1. /\ active' = [active EXCEPT ![i] = @ \ victims]
        /\ subs' = [subs EXCEPT ![i] = IF leaves THEN @ \ {e.sim} ELSE @]
        /\ chores' = [chores EXCEPT ![i] = @ \cup ({"unregister"} \X victims) \cup
                        (IF leaves THEN {<<"unsubscribe", e.sim>>} ELSE {})]
        /\ UNCHANGED <<link, heard, todo, deaf, work, cut, late, runs>>
    BY <1>8 DEF HandleEnd, links, running
  <2>2. e.sim \in ended /\ \A s \in victims : SimOf[s] = e.sim
    BY <1>8 DEF HandleEnd, True, Of
  <2> HIDE DEF victims, leaves
  <2>3. Noted'
    BY <1>1, <2>1, <2>2 DEF Noted, Registers
  <2>4. Heard' /\ Joined'
    BY <1>1, <2>1, <2>2 DEF Heard, Joined, Subscribes
  <2>5. CallsTrue'
    BY <1>1, <2>1, <2>2 DEF CallsTrue
  <2>6. StraysHaveACause'
    BY <1>1, <2>1, <2>2 DEF StraysHaveACause
  <2>. QED  BY <2>3, <2>4, <2>5, <2>6
<1>9. CASE HandleAction(i, h, e)
  <2>1. UNCHANGED <<active, subs, link, heard, todo, deaf, work, chores, cut, late>>
    BY <1>9 DEF HandleAction, links
  <2>2. Noted' /\ Heard' /\ Joined' /\ CallsTrue'
    BY <2>1 DEF Noted, Heard, Joined, CallsTrue, Registers, Subscribes
  <2>3. Trigger(i, {e.sid} \cap active[i], e)
    BY <1>9 DEF HandleAction
  <2>4. {e.sid} \cap active[i] \in SUBSET Session
    BY <1>1
  <2>5. StraysHaveACause'
    BY <2>1, <2>3, <2>4, TriggerStrays
  <2>. QED  BY <2>2, <2>5
<1>. QED  BY <1>4, <1>5, <1>6, <1>7, <1>8, <1>9 DEF ProcessEvent

\* An event on its way is one that was true when it was sent; the ended stay ended.
LEMMA PublishTrue ==
  ASSUME Inv, MailTrue, NEW c, NEW e \in Event, Publish(c, e), ended \subseteq ended',
         e.type = "end_simulation" => e.sim \in ended'
  PROVE  MailTrue'
<1>1. mail \in [Instance -> Seq(Event)]
  BY DEF Inv, TypeOK, WireOK
<1> SUFFICES ASSUME NEW i \in Instance, NEW n \in DOMAIN mail'[i]
             PROVE  mail'[i][n].type = "end_simulation" => mail'[i][n].sim \in ended'
  BY DEF MailTrue, True
<1>2. mail[i] \in Seq(Event) /\ mail'[i] = IF c \in heard[i] THEN Append(mail[i], e) ELSE mail[i]
  BY <1>1 DEF Publish
<1>3. mail'[i][n] = e \/ (n \in DOMAIN mail[i] /\ mail'[i][n] = mail[i][n])
  BY <1>2
<1>. QED  BY <1>3 DEF MailTrue, True

LEMMA ReadsFleet ==
  ASSUME Inv, FleetInv, NEW i \in Instance, TakeMail(i) \/ TakeSpawn(i) \/ TakePoke(i)
  PROVE  FleetInv'
<1> USE DEF FleetInv
<1>1. mail \in [Instance -> Seq(Event)] /\ pokes \subseteq Event /\ queue \subseteq Session
  BY DEF Inv, TypeOK, WireOK
<1>2. CASE TakeMail(i)
  <2>1. /\ mail[i] \in Seq(Event) /\ mail[i] # <<>> /\ ProcessEvent(i, "pubsub", Head(mail[i]))
        /\ work[i]["pubsub"] = Idle /\ mail' = [mail EXCEPT ![i] = Tail(@)]
        /\ UNCHANGED <<ended, pokes>>
    BY <1>1, <1>2 DEF TakeMail, asked
  <2>2. Head(mail[i]) = mail[i][1] /\ 1 \in DOMAIN mail[i] /\ Head(mail[i]) \in Event
    BY <2>1
  <2>3. ListenInv'
    BY <2>1, <2>2, ProcessEventListens DEF MailTrue, Handler
  <2>4. \A n \in DOMAIN Tail(mail[i]) : n + 1 \in DOMAIN mail[i] /\ Tail(mail[i])[n] = mail[i][n+1]
    BY <2>1
  <2>5. MailTrue'
    BY <1>1, <2>1, <2>4 DEF MailTrue, True
  <2>6. PokesTrue'
    BY <2>1 DEF PokesTrue, True
  <2>. QED  BY <2>3, <2>5, <2>6
<1>3. CASE TakeSpawn(i)
  <2>1. PICK s \in queue : ProcessEvent(i, "queue", SpawnEvent(s))
    BY <1>3 DEF TakeSpawn
  <2>2. SpawnEvent(s) \in Event /\ True(SpawnEvent(s))
    BY <1>1, NewEvents DEF SpawnEvent, True
  <2>3. work[i]["queue"] = Idle /\ UNCHANGED <<ended, mail, pokes>>
    BY <1>3 DEF TakeSpawn, asked
  <2>4. ListenInv'
    BY <2>1, <2>2, <2>3, ProcessEventListens DEF Handler
  <2>. QED  BY <2>3, <2>4 DEF MailTrue, PokesTrue, True
<1>4. CASE TakePoke(i)
  <2>1. PICK e \in pokes : ProcessEvent(i, "http", e) /\ pokes' = pokes \ {e}
    BY <1>4 DEF TakePoke
  <2>2. work[i]["http"] = Idle /\ UNCHANGED <<ended, mail>>
    BY <1>4 DEF TakePoke, asked
  <2>3. ListenInv'
    BY <1>1, <2>1, <2>2, ProcessEventListens DEF Handler, PokesTrue
  <2>. QED  BY <2>1, <2>2, <2>3 DEF MailTrue, PokesTrue, True
<1>. QED  BY <1>2, <1>3, <1>4

LEMMA AwaitsFleet ==
  ASSUME Inv, FleetInv, NEW i \in Instance, NEW h \in Handler,
         Registered(i, h) \/ Subscribed(i, h) \/ Relayed(i, h) \/ Cleared(i, h)
  PROVE  FleetInv'
<1> USE DEF FleetInv, ListenInv
<1>1. /\ active \in [Instance -> SUBSET Session] /\ subs \in [Instance -> SUBSET Simulation]
      /\ work \in [Instance -> [Handler -> Awaited]] /\ work[i][h] \in Awaited
      /\ heard \in [Instance -> SUBSET (Simulation \cup {Global})]
      /\ deaf \in [Instance -> SUBSET Simulation]
  BY DEF Inv, TypeOK, SessionsOK, LinksOK
\* The handler h goes on, the others stay.
<1>2. ASSUME NEW w, Await(i, h, w)
      PROVE  \A k \in Instance, g \in Handler : k # i \/ g # h => work'[k][g] = work[k][g]
  BY <1>1, <1>2 DEF Await
<1>3. CASE Registered(i, h)
  <2> DEFINE s0 == work[i][h].sid
             x0 == SimOf[s0]
             w == IF x0 \in subs[i] \/ link[i] = "down" THEN Idle
                  ELSE [at |-> "subscribe", sim |-> x0]
  <2>1. /\ work[i][h].at = "register" /\ Await(i, h, w)
        /\ subs' = [subs EXCEPT ![i] = @ \cup {x0}]
        /\ UNCHANGED <<ended, active, link, heard, todo, deaf, chores, cut, late, runs, mail, pokes>>
    BY <1>3 DEF Registered, asked, links, running, causes
  <2>2. work[i][h] = [at |-> "register", sid |-> s0]
    BY <1>1, <2>1 DEF Awaited
  <2>3. \A k \in Instance, x \in Simulation : Subscribes(k, x) => Subscribes(k, x)'
    BY <1>2, <2>1, <2>2 DEF Subscribes
  <2>4. \A k \in Instance, s \in Session :
          Registers(k, s) => Registers(k, s)' \/ (k = i /\ s = s0)
    BY <1>2, <2>1, <2>2 DEF Registers
  <2>5. w # Idle => work'[i][h] = [at |-> "subscribe", sim |-> x0]
    <3>1. work'[i][h] = w
      BY <1>1, <2>1 DEF Await
    <3>2. w # Idle => w = [at |-> "subscribe", sim |-> x0]
      OBVIOUS
    <3>. QED  BY <3>1, <3>2
  <2>6. w = Idle => x0 \in subs[i] \/ link[i] = "down"
    BY DEF Idle
  <2> HIDE DEF x0, s0, w
  <2>7. Noted'
    BY <1>1, <2>1, <2>4 DEF Noted, x0
  <2>8. Heard'
    <3> SUFFICES ASSUME NEW k \in Instance, NEW x \in subs'[k] \ ended, link[k] # "down"
                 PROVE  x \in heard[k] \/ x \in todo[k] \/ Subscribes(k, x)' \/ x \in deaf[k]
      BY <2>1 DEF Heard
    <3>1. CASE x \in subs[k]
      BY <1>1, <2>3, <3>1 DEF Heard
    <3>2. CASE k = i /\ x = x0 /\ x \notin subs[k]
      BY <2>5, <2>6, <3>2 DEF Subscribes
    <3>. QED  BY <1>1, <2>1, <3>1, <3>2
  <2>9. Joined' /\ CallsTrue' /\ StraysHaveACause' /\ MailTrue' /\ PokesTrue'
    BY <2>1 DEF Joined, CallsTrue, StraysHaveACause, MailTrue, PokesTrue, True
  <2>. QED  BY <2>7, <2>8, <2>9
<1>4. CASE Subscribed(i, h)
  <2> DEFINE x0 == work[i][h].sim
  <2>1. /\ work[i][h].at = "subscribe" /\ Await(i, h, Idle)
        /\ \/ heard' = [heard EXCEPT ![i] = @ \cup {x0}] /\ UNCHANGED deaf
           \/ deaf' = [deaf EXCEPT ![i] = @ \cup {x0}] /\ UNCHANGED heard
        /\ UNCHANGED <<ended, active, subs, link, todo, chores, cut, late, runs, mail, pokes>>
    BY <1>4 DEF Subscribed, asked, wire, sessions, running, causes
  <2>2. work[i][h] = [at |-> "subscribe", sim |-> x0]
    BY <1>1, <2>1 DEF Awaited
  <2>3. \A k \in Instance, s \in Session : Registers(k, s) => Registers(k, s)'
    BY <1>2, <2>1, <2>2 DEF Registers
  <2>4. \A k \in Instance, x \in Simulation :
          Subscribes(k, x) => Subscribes(k, x)' \/ (k = i /\ x = x0)
    BY <1>2, <2>1, <2>2 DEF Subscribes
  <2> HIDE DEF x0
  <2>5. Noted'
    BY <1>1, <2>1, <2>3 DEF Noted
  <2>6. Heard'
    BY <1>1, <2>1, <2>4 DEF Heard
  <2>7. Joined' /\ CallsTrue' /\ StraysHaveACause' /\ MailTrue' /\ PokesTrue'
    BY <2>1 DEF Joined, CallsTrue, StraysHaveACause, MailTrue, PokesTrue, True
  <2>. QED  BY <2>5, <2>6, <2>7
\* The two other ways to go on were no steps towards a channel.
<1>5. ASSUME Await(i, h, Idle), work[i][h].at \in {"relay", "clear"},
             UNCHANGED <<ended, active, subs, link, heard, todo, deaf, chores, cut>>
      PROVE  Noted' /\ Heard' /\ Joined' /\ CallsTrue'
  <2>1. /\ \A k \in Instance, s \in Session : Registers(k, s) => Registers(k, s)'
        /\ \A k \in Instance, x \in Simulation : Subscribes(k, x) => Subscribes(k, x)'
    BY <1>2, <1>5 DEF Registers, Subscribes
  <2>. QED  BY <1>1, <1>5, <2>1 DEF Noted, Heard, Joined, CallsTrue
<1>6. CASE Relayed(i, h)
  <2> DEFINE w == work[i][h]
  <2>1. /\ w.at = "relay" /\ Await(i, h, Idle) /\ Trigger(i, w.to, w.event)
        /\ late' = late \cup {<<i, s>> : s \in w.to \ active[i]}
        /\ UNCHANGED <<ended, active, subs, link, heard, todo, deaf, chores, cut, pokes>>
    BY <1>6 DEF Relayed, asked, sessions, links
  <2>2. w.event \in BroadcastEvents /\ w.to \in SUBSET Session
    BY <1>1, <2>1 DEF Awaited
  <2>3. w.event.targets \ w.to \in SUBSET (Session \cup {AgentType})
    BY <2>2 DEF BroadcastEvents
  <2>4. /\ Relay(i, h, w.event, w.event.targets \ w.to) \in Event
        /\ Relay(i, h, w.event, w.event.targets \ w.to).type # "end_simulation"
    BY <2>2, <2>3, RelayIs DEF Event, BroadcastEvents
  <2>5. \/ Publish(ChannelOf(w.event), Relay(i, h, w.event, w.event.targets \ w.to))
        \/ UNCHANGED mail
    BY <1>6 DEF Relayed
  <2>6. MailTrue'
    BY <2>1, <2>4, <2>5, PublishTrue DEF MailTrue, True
  <2>7. StraysHaveACause'
    BY <2>1, <2>2, TriggerStrays
  <2>. QED  BY <1>5, <2>1, <2>6, <2>7 DEF PokesTrue, True
<1>7. CASE Cleared(i, h)
  <2>1. /\ work[i][h].at = "clear" /\ Await(i, h, Idle)
        /\ UNCHANGED <<ended, active, subs, link, heard, todo, deaf, chores, cut, late, runs, mail, pokes>>
    BY <1>7 DEF Cleared, asked, sessions, links, running, causes
  <2>. QED  BY <1>5, <2>1 DEF StraysHaveACause, MailTrue, PokesTrue, True
<1>. QED  BY <1>3, <1>4, <1>6, <1>7

LEMMA LoopFleet ==
  ASSUME Inv, FleetInv, NEW i \in Instance,
         Chore(i) \/ \E r \in runs[i] : Begin(i, r) \/ Finish(i, r)
  PROVE  FleetInv'
<1> USE DEF FleetInv, ListenInv
<1>1. CASE Chore(i)
  <2>1. PICK c \in chores[i] :
          /\ chores' = [chores EXCEPT ![i] = @ \ {c}]
          /\ heard' = IF c[1] = "unsubscribe" THEN [heard EXCEPT ![i] = @ \ {c[2]}] ELSE heard
    BY <1>1 DEF Chore
  <2>2. UNCHANGED <<ended, active, subs, link, todo, deaf, work, cut, late, runs, mail, pokes>>
    BY <1>1 DEF Chore, asked, sessions, running, causes
  <2>3. /\ chores \in [Instance -> SUBSET Call]
        /\ heard \in [Instance -> SUBSET (Simulation \cup {Global})]
    BY DEF Inv, TypeOK, SessionsOK, LinksOK
  <2>4. \A k \in Instance : \A x \in heard[k] \ ended : x \in heard'[k]
    BY <2>1, <2>3 DEF CallsTrue
  <2>5. Heard'
    <3> SUFFICES ASSUME NEW k \in Instance, NEW x \in subs[k] \ ended, link[k] # "down"
                 PROVE  x \in heard'[k] \/ x \in todo[k] \/ Subscribes(k, x)' \/ x \in deaf[k]
      BY <2>2 DEF Heard
    <3>1. x \in heard[k] \/ x \in todo[k] \/ Subscribes(k, x) \/ x \in deaf[k]
      BY DEF Heard
    <3>. QED  BY <2>2, <2>4, <3>1 DEF Subscribes
  <2>6. CallsTrue'
    BY <2>1, <2>2, <2>3 DEF CallsTrue
  <2>7. Noted' /\ Joined' /\ StraysHaveACause' /\ MailTrue' /\ PokesTrue'
    BY <2>2 DEF Noted, Registers, Joined, StraysHaveACause, MailTrue, PokesTrue, True
  <2>. QED  BY <2>5, <2>6, <2>7
<1>2. ASSUME NEW r \in runs[i], Begin(i, r) \/ Finish(i, r)
      PROVE  FleetInv'
  <2>1. UNCHANGED <<ended, active, subs, link, heard, todo, deaf, work, chores, cut, late, mail, pokes>>
    BY <1>2 DEF Begin, Finish, asked, wire, sessions, links, causes
  <2>2. Noted' /\ Heard' /\ Joined' /\ CallsTrue' /\ MailTrue' /\ PokesTrue'
    BY <2>1 DEF Noted, Heard, Registers, Subscribes, Joined, CallsTrue, MailTrue, PokesTrue, True
  <2>3. runs \in [Instance -> SUBSET Run]
    BY DEF Inv, TypeOK, RunsOK
  <2>4. \A p \in runs'[i] : \E q \in runs[i] : p.sid = q.sid /\ p.live = q.live
    <3>1. \A q, l, o : Holding(q, l, o).sid = q.sid /\ Holding(q, l, o).live = q.live
      BY DEF Holding
    <3>2. CASE Begin(i, r)
      BY <2>3, <3>1, <3>2 DEF Begin
    <3>3. CASE Finish(i, r)
      <4> DEFINE line == InLine(i, r.sid, r.lock) \ {r}
                 next == IF r.on THEN {q \in line : \A p \in line : q.no <= p.no} ELSE {}
      <4>1. runs'[i] = (runs[i] \ ({r} \cup next)) \cup {Holding(q, q.lock, TRUE) : q \in next}
        BY <2>3, <3>3 DEF Finish
      <4>2. next \subseteq runs[i]
        BY DEF InLine
      <4> HIDE DEF next
      <4>3. ASSUME NEW p \in runs'[i]
            PROVE  \E q \in runs[i] : p.sid = q.sid /\ p.live = q.live
        <5>1. p \in runs[i] \/ \E q \in next : p = Holding(q, q.lock, TRUE)
          BY <4>1
        <5>2. ASSUME NEW q \in next, p = Holding(q, q.lock, TRUE)
              PROVE  \E z \in runs[i] : p.sid = z.sid /\ p.live = z.live
          <6>1. p.sid = q.sid /\ p.live = q.live
            BY <5>2 DEF Holding
          <6>. QED  BY <4>2, <6>1
        <5>. QED  BY <5>1, <5>2
      <4>. QED  BY <4>3
    <3>. QED  BY <1>2, <3>2, <3>3
  <2>5. \A k \in Instance : k # i => runs'[k] = runs[k]
    BY <1>2, <2>3 DEF Begin, Finish
  <2>6. StraysHaveACause'
    BY <2>1, <2>4, <2>5 DEF StraysHaveACause
  <2>. QED  BY <2>2, <2>6
<1>. QED  BY <1>1, <1>2

LEMMA ConnectionsFleet ==
  ASSUME Inv, FleetInv, NEW i \in Instance,
         (\E h \in Handler : Break(i, h)) \/ Connect(i) \/ Rejoin(i)
  PROVE  FleetInv'
<1> USE DEF FleetInv, ListenInv
<1>1. /\ work \in [Instance -> [Handler -> Awaited]]
      /\ mail \in [Instance -> Seq(Event)]
      /\ heard \in [Instance -> SUBSET (Simulation \cup {Global})]
      /\ todo \in [Instance -> SUBSET Simulation] /\ deaf \in [Instance -> SUBSET Simulation]
      /\ link \in [Instance -> {"up", "joining", "down"}]
  BY DEF Inv, TypeOK, WireOK, LinksOK, SessionsOK
<1>2. ASSUME NEW first \in Handler, Break(i, first)
      PROVE  FleetInv'
  <2> DEFINE other == IF first = "pubsub" THEN "queue" ELSE "pubsub"
  <2>1. /\ link' = [link EXCEPT ![i] = "down"] /\ heard' = [heard EXCEPT ![i] = {}]
        /\ todo' = [todo EXCEPT ![i] = {}] /\ mail' = [mail EXCEPT ![i] = <<>>]
        /\ deaf' = [deaf EXCEPT ![i] = {}]
        /\ UNCHANGED <<ended, active, subs, chores, late, runs, pokes>>
        /\ cut \subseteq cut'
        /\ work[i][other].at = "register" => <<i, work[i][other].sid>> \in cut'
    BY <1>2 DEF Break, sessions, running
  <2>2. /\ \A k \in Instance, h \in Handler : k # i => work'[k][h] = work[k][h]
        /\ \A h \in Handler : \/ work'[i][h] = work[i][h]
                             \/ h = other
                             \/ work[i][h].at = "subscribe"
    BY <1>1, <1>2 DEF Break, Handler
  <2> HIDE DEF other
  <2>3. \A k \in Instance, s \in Session :
          Registers(k, s) => Registers(k, s)' \/ <<k, s>> \in cut'
    BY <2>1, <2>2 DEF Registers
  <2>4. \A k \in Instance : k # i => \A x \in Simulation : Subscribes(k, x) => Subscribes(k, x)'
    BY <2>2 DEF Subscribes
  <2>5. /\ active \in [Instance -> SUBSET Session] /\ subs \in [Instance -> SUBSET Simulation]
    BY DEF Inv, TypeOK, SessionsOK
  <2>6. Noted'
    BY <2>1, <2>3, <2>5 DEF Noted
  <2>7. Heard' /\ Joined'
    BY <1>1, <2>1, <2>4, <2>5 DEF Heard, Joined
  <2>8. CallsTrue' /\ StraysHaveACause' /\ PokesTrue'
    BY <2>1 DEF CallsTrue, StraysHaveACause, PokesTrue, True
  <2>9. MailTrue'
    BY <1>1, <2>1 DEF MailTrue, True
  <2>. QED  BY <2>6, <2>7, <2>8, <2>9
<1>3. CASE Connect(i)
  <2>1. /\ link[i] = "down"
        /\ link' = [link EXCEPT ![i] = IF subs[i] = {} THEN "up" ELSE "joining"]
        /\ todo' = [todo EXCEPT ![i] = subs[i]]
        /\ heard' = [heard EXCEPT ![i] = {Global}]
        /\ UNCHANGED <<ended, active, subs, deaf, work, chores, cut, late, runs, mail, pokes>>
    BY <1>3 DEF Connect, Rejoins, asked, wire, sessions, running, causes
  <2>2. Heard' /\ Joined'
    BY <1>1, <2>1 DEF Heard, Joined, Subscribes
  <2>3. Noted' /\ CallsTrue' /\ StraysHaveACause' /\ MailTrue' /\ PokesTrue'
    BY <2>1 DEF Noted, Registers, CallsTrue, StraysHaveACause, MailTrue, PokesTrue, True
  <2>. QED  BY <2>2, <2>3
<1>4. CASE Rejoin(i)
  <2>1. PICK x \in todo[i] : /\ heard' = [heard EXCEPT ![i] = @ \cup {x}]
                             /\ todo' = [todo EXCEPT ![i] = @ \ {x}]
    BY <1>4 DEF Rejoin
  <2>2. /\ link' = [link EXCEPT ![i] = IF todo'[i] = {} THEN "up" ELSE @]
        /\ UNCHANGED <<ended, active, subs, deaf, work, chores, cut, late, runs, mail, pokes>>
    BY <1>4 DEF Rejoin, asked, wire, sessions, running, causes
  <2>3. Joined'
    BY <1>1, <2>1, <2>2 DEF Joined
  <2>4. link[i] = "joining"
    BY <2>1 DEF Joined
  <2>5. Heard'
    <3> SUFFICES ASSUME NEW k \in Instance, NEW y \in subs[k] \ ended, link'[k] # "down"
                 PROVE  y \in heard'[k] \/ y \in todo'[k] \/ Subscribes(k, y)' \/ y \in deaf[k]
      BY <2>2 DEF Heard
    <3>1. link[k] # "down"
      BY <1>1, <2>2, <2>4
    <3>2. y \in heard[k] \/ y \in todo[k] \/ Subscribes(k, y) \/ y \in deaf[k]
      BY <3>1 DEF Heard
    <3>3. Subscribes(k, y) => Subscribes(k, y)'
      BY <2>2 DEF Subscribes
    <3>. QED  BY <1>1, <2>1, <3>2, <3>3
  <2>6. Noted' /\ CallsTrue' /\ StraysHaveACause' /\ MailTrue' /\ PokesTrue'
    BY <2>2 DEF Noted, Registers, CallsTrue, StraysHaveACause, MailTrue, PokesTrue, True
  <2>. QED  BY <2>3, <2>5, <2>6
<1>. QED  BY <1>2, <1>3, <1>4

LEMMA ClientFleet ==
  ASSUME Inv, FleetInv, ClientNext
  PROVE  FleetInv'
<1> USE DEF FleetInv, ListenInv
<1>1. UNCHANGED <<sessions, links, work, chores, running, cut, late>> /\ ended \subseteq ended'
  BY DEF ClientNext, Spawn, PublishPulse, SendPulse, SendAction, EndSimulation, ResetEnvironment,
         causes
<1>2. Noted' /\ Heard' /\ Joined' /\ CallsTrue' /\ StraysHaveACause'
  BY <1>1 DEF sessions, links, running, Noted, Heard, Registers, Subscribes, Joined, CallsTrue,
              StraysHaveACause
<1>3. MailTrue' /\ PokesTrue'
  <2>1. /\ \A s : SpawnEvent(s).type = "spawn_agent" /\ ActionEvent(s).type = "a2ui_action"
        /\ \A p : BroadcastEvent(p).type = "broadcast"
        /\ \A x : EndEvent(x).type = "end_simulation" /\ EndEvent(x).sim = x
        /\ ResetEvent.type = "environment_reset"
    BY DEF SpawnEvent, ActionEvent, BroadcastEvent, EndEvent, ResetEvent
  <2>2. resets \in Nat
    BY DEF Inv, TypeOK, WireOK
  <2>3. ASSUME UNCHANGED mail
        PROVE  MailTrue'
    BY <1>1, <2>3 DEF MailTrue, True
  <2>4. ASSUME pokes' \subseteq pokes \cup {e \in pokes' : e.type # "end_simulation"}
        PROVE  PokesTrue'
    BY <1>1, <2>4 DEF PokesTrue, True
  <2>5. ASSUME NEW S \in SUBSET Session, NEW poked \in SUBSET S, Spawn(S, poked)
        PROVE  MailTrue' /\ PokesTrue'
    BY <2>1, <2>3, <2>4, <2>5 DEF Spawn
  <2>6. ASSUME NEW p \in Pulse, PublishPulse(p)
        PROVE  MailTrue' /\ PokesTrue'
    BY <1>1, <2>1, <2>4, <2>6, NewEvents, PublishTrue DEF PublishPulse
  <2>7. ASSUME NEW p \in Pulse, SendPulse(p)
        PROVE  MailTrue' /\ PokesTrue'
    BY <1>1, <2>1, <2>3, <2>4, <2>7, NewEvents, PublishTrue DEF SendPulse
  <2>8. ASSUME NEW s \in Session, SendAction(s)
        PROVE  MailTrue' /\ PokesTrue'
    BY <2>1, <2>3, <2>4, <2>8 DEF SendAction
  <2>9. ASSUME NEW x \in Simulation, EndSimulation(x)
        PROVE  MailTrue' /\ PokesTrue'
    BY <1>1, <2>1, <2>4, <2>9, NewEvents, PublishTrue DEF EndSimulation
  <2>10. CASE ResetEnvironment
    BY <1>1, <2>1, <2>2, <2>4, <2>10, NewEvents, PublishTrue DEF ResetEnvironment
  <2>. QED  BY <2>5, <2>6, <2>7, <2>8, <2>9, <2>10 DEF ClientNext
<1>. QED  BY <1>2, <1>3

LEMMA InitFleet == Init => FleetInv
BY DEF Init, FleetInv, ListenInv, MailTrue, PokesTrue, CallsTrue, Noted, Heard, Joined,
       StraysHaveACause

LEMMA NextFleet == Inv /\ FleetInv /\ [Next]_vars => FleetInv'
<1> SUFFICES ASSUME Inv, FleetInv, [Next]_vars PROVE FleetInv'
  OBVIOUS
<1>1. CASE Next
  BY <1>1, ClientFleet, ReadsFleet, AwaitsFleet, LoopFleet, ConnectionsFleet DEF Next, InstanceNext
<1>2. CASE UNCHANGED vars
  BY <1>2 DEF FleetInv, ListenInv, MailTrue, PokesTrue, CallsTrue, Noted, Heard, Joined, True,
              Registers, Subscribes, StraysHaveACause, vars, asked, wire, sessions, links, running,
              causes
<1>. QED  BY <1>1, <1>2

(* What a session of a simulation hears and notes of its channel is kept through every await,
   broken connection and end of a simulation. *)
THEOREM FleetInvariant == Spec => [](Inv /\ FleetInv)
<1>1. Init => Inv /\ FleetInv
  BY InitInv, InitFleet
<1>2. Inv /\ FleetInv /\ [Next]_vars => (Inv /\ FleetInv)'
  BY NextInv, NextFleet
<1>. QED  BY <1>1, <1>2, PTL DEF Spec

(* An active session of a simulation that goes on hears its channel whenever the instance is
   connected and at rest, unless its spawn was cut short or the connection failed to subscribe
   (dispatcher.py:267-271, 374-394). *)
THEOREM SimulationHeard == Spec => []HearsItsSimulation
<1>1. Inv /\ FleetInv => HearsItsSimulation
  <2> SUFFICES ASSUME Inv, FleetInv, NEW i \in Instance, NEW s \in active[i],
                      SimOf[s] \in Simulation \ ended, link[i] = "up", <<i, s>> \notin cut,
                      SimOf[s] \notin deaf[i],
                      \A h \in Handler : work[i][h].at \notin {"register", "subscribe"}
               PROVE  SimOf[s] \in heard[i]
    BY DEF HearsItsSimulation
  <2>1. ~Registers(i, s) /\ ~Subscribes(i, SimOf[s])
    BY DEF Registers, Subscribes
  <2>2. SimOf[s] \in subs[i]
    BY <2>1 DEF FleetInv, ListenInv, Noted
  <2>3. todo[i] = {}
    BY DEF FleetInv, ListenInv, Joined
  <2>. QED  BY <2>1, <2>2, <2>3 DEF FleetInv, ListenInv, Heard
<1>. QED  BY FleetInvariant, <1>1, PTL

(* A run that was not cancelled is of an active session, of a simulation that ended, or was
   triggered after a relay had been awaited (dispatcher.py:355-360, 498, 519-522, 535-540). *)
THEOREM StraysCaused == Spec => []StraysHaveACause
<1>1. Inv /\ FleetInv => StraysHaveACause
  BY DEF FleetInv, ListenInv
<1>. QED  BY FleetInvariant, <1>1, PTL


(***************************************************************************)
(* Broadcasts: each copy of a pulse is told by its id, its name and where  *)
(* it came from.                                                           *)
(***************************************************************************)
Letters(k) == {mail[k][n] : n \in DOMAIN mail[k]}
Copies(k)  == {e \in Letters(k) : e.type = "broadcast"}
Poked      == {e \in pokes : e.type = "broadcast"}

Relaying(i, h, name) == work[i][h].at = "relay" /\ work[i][h].event.name = name
HasGot(k, name) == \E s \in Session : <<s, name>> \in got[k]

PulseIds ==
  {<<"pulse", p.name>> : p \in Pulse}
    \cup UNION {{RelayId(i, h, p.name) : i \in Instance, h \in Handler} : p \in Pulse}

\* What the pulse p is in a mailbox: itself, when the channels carry it, or what
\* h relayed at i.
Original(e, p) == e = BroadcastEvent(p) /\ (p.from = "client" => p.name \in spread)

RelayOf(e, p, i, h) ==
  /\ p.from = "client" /\ p.targets # {} /\ Repeated(e) = {}
  /\ e.relayed /\ e.name = p.name /\ e.id = RelayId(i, h, p.name)

Sent(e) ==
  \E p \in published :
    Original(e, p) \/ \E i \in Instance, h \in Handler : RelayOf(e, p, i, h)

Origin ==
  /\ \A k \in Instance : \A e \in Copies(k) : Sent(e)
  /\ \A k \in Instance : \A e \in Letters(k) \ Copies(k) :
       e.type # "a2ui_action" /\ e.id \notin PulseIds
  /\ \A e \in Poked : \E p \in published : p.from = "client" /\ e = BroadcastEvent(p)
  /\ \A e \in pokes \ Poked :
       e.id \notin PulseIds /\ (e.type = "a2ui_action" => e = ActionEvent(e.sid))
  /\ \A i \in Instance, h \in Handler : work[i][h].at = "relay" =>
       \E p \in published : /\ p.from = "client" /\ p.targets # {}
                            /\ work[i][h].event = BroadcastEvent(p)

\* No id of a relay that h has not made at i is anywhere.
Unused(i, h, name) ==
  \A k \in Instance :
    /\ k # i => RelayId(i, h, name) \notin seen[k]
    /\ \A e \in Copies(k) : e.id # RelayId(i, h, name)

\* Nothing is known of a pulse before it is published.
Unheard ==
  \A p \in Pulse \ published :
    /\ \A k \in Instance : ~HasGot(k, p.name) /\ <<"pulse", p.name>> \notin seen[k]
    /\ \A i \in Instance, h \in Handler : Unused(i, h, p.name)

\* A mailbox has each copy once.
Same(e, f) ==
  /\ e.type = "broadcast" /\ f.type = "broadcast"
  /\ e.relayed = f.relayed /\ e.name = f.name /\ (e.relayed => e.id = f.id)

OnceInMail ==
  \A k \in Instance : \A m, n \in DOMAIN mail[k] : Same(mail[k][m], mail[k][n]) => m = n

\* Who has still to read a pulse, or to relay it, has not relayed it; and what
\* was relayed is new to all who have it in their mailbox, but for its sender.
RelaysOnce ==
  /\ \A p \in Pulse, i \in Instance :
       BroadcastEvent(p) \in pokes => Unused(i, "http", p.name) /\ ~Relaying(i, "http", p.name)
  /\ \A p \in Pulse, i \in Instance :
       BroadcastEvent(p) \in Copies(i) => Unused(i, "pubsub", p.name) /\ ~Relaying(i, "pubsub", p.name)
  /\ \A p \in Pulse, i \in Instance, h \in Handler :
       Relaying(i, h, p.name) =>
         Unused(i, h, p.name) /\ RelayId(i, h, p.name) \in seen[i] \cup forgotten[i]
  /\ \A p \in Pulse, i \in Instance, h \in Handler, k \in Instance : \A e \in Copies(k) :
       e.id = RelayId(i, h, p.name) =>
         IF k = i THEN e.id \in seen[k] \cup forgotten[k] ELSE e.id \notin seen[k]

\* A pulse of the simulator is new to who has it in its mailbox.
PulseIsNew ==
  \A p \in Pulse, k \in Instance : p.from # "client" /\ BroadcastEvent(p) \in Copies(k) =>
    <<"pulse", p.name>> \notin seen[k] /\ ~HasGot(k, p.name)

\* Nobody has got the pulse p, or is to get it but for one handler.
Untouched(p) ==
  \A k \in Instance : ~HasGot(k, p.name) /\ \A e \in Copies(k) : e.name # p.name

\* A pulse that was poked only is in one place, or was relayed from one place.
InOnePlace ==
  \A p \in published : p.from = "client" /\ p.name \notin spread =>
    /\ BroadcastEvent(p) \in pokes =>
         Untouched(p) /\ \A i \in Instance, h \in Handler : ~Relaying(i, h, p.name)
    /\ \A i \in Instance, h \in Handler : Relaying(i, h, p.name) =>
         /\ Untouched(p)
         /\ \A k \in Instance, g \in Handler : Relaying(k, g, p.name) => k = i /\ g = h
    /\ \A k, l \in Instance : \A e \in Copies(k), f \in Copies(l) :
         e.name = p.name /\ f.name = p.name => e.id = f.id

\* Why an instance may run a session again.
Excused(i, name) ==
  \/ forgotten[i] \cap IdsOf(i, name) # {}
  \/ \E p \in published : p.name = name /\ name \in spread /\ (~p.hasId \/ p.targets # {})

Known(i, e) == e.id # None /\ e.id \in seen[i] \cap IdsOf(i, e.name)

\* Of a pulse that an instance has run sessions for, what may still come is
\* known by its id; or there is an excuse.
Handled ==
  \A k \in Instance :
    /\ \A e \in Copies(k) \cup Poked : HasGot(k, e.name) => Known(k, e) \/ Excused(k, e.name)
    /\ \A h \in Handler, p \in Pulse :
         Relaying(k, h, p.name) /\ HasGot(k, p.name) => Excused(k, p.name)

ActsOnce ==
  \A s \in Session :
    /\ (\E k \in Instance : <<s, "action">> \in got[k]) => s \in acted
    /\ ActionEvent(s) \in pokes => s \in acted /\ \A k \in Instance : <<s, "action">> \notin got[k]

\* A pulse that names a target twice.
NamedTwice(t) == \E p \in published : p.name = t[2] /\ t[1] \in Repeated(BroadcastEvent(p))

NotTwice == \A i \in Instance : \A t \in twice[i] : Excused(i, t[2]) \/ NamedTwice(t)

\* What a session may be run for.
Name == {"action"} \cup {p.name : p \in Pulse}

HistoryOK ==
  /\ seen \in [Instance -> SUBSET EventId]
  /\ forgotten \in [Instance -> SUBSET EventId]
  /\ got \in [Instance -> SUBSET (Session \X Name)]
  /\ twice \in [Instance -> SUBSET (Session \X Name)]

PulsesOnly ==
  /\ Origin /\ Unheard /\ OnceInMail /\ RelaysOnce /\ PulseIsNew /\ InOnePlace /\ Handled

CopiesInv == HistoryOK /\ PulsesOnly /\ ActsOnce /\ NotTwice

-----------------------------------------------------------------------------
LEMMA IdFacts ==
  /\ None \notin PulseIds
  /\ \A p \in Pulse, i \in Instance, h \in Handler :
       /\ <<"pulse", p.name>> \in PulseIds /\ RelayId(i, h, p.name) \in PulseIds
       /\ IdsOf(i, p.name) \subseteq PulseIds
       /\ <<"pulse", p.name>> \in EventId /\ RelayId(i, h, p.name) \in EventId
  /\ \A n1, n2, i, h : <<"pulse", n1>> # RelayId(i, h, n2)
  /\ \A n1, n2, i, h, j, g : RelayId(i, h, n1) = RelayId(j, g, n2) => i = j /\ h = g /\ n1 = n2
<1>1. None \notin PulseIds
  BY DispatcherAssumption DEF PulseIds
<1>2. \A p \in Pulse, i \in Instance, h \in Handler :
        /\ <<"pulse", p.name>> \in PulseIds /\ RelayId(i, h, p.name) \in PulseIds
        /\ IdsOf(i, p.name) \subseteq PulseIds
  BY DEF PulseIds, IdsOf
<1>3. \A p \in Pulse, i \in Instance, h \in Handler :
        <<"pulse", p.name>> \in EventId /\ RelayId(i, h, p.name) \in EventId
  <2>1. \A p \in Pulse : p.name \in STRING
    BY DispatcherAssumption
  <2>. QED  BY <2>1 DEF EventId, RelayId
<1>4. \A n1, n2, i, h : <<"pulse", n1>> # RelayId(i, h, n2)
  BY DEF RelayId
<1>5. \A n1, n2, i, h, j, g : RelayId(i, h, n1) = RelayId(j, g, n2) => i = j /\ h = g /\ n1 = n2
  BY DEF RelayId
<1>. QED  BY <1>1, <1>2, <1>3, <1>4, <1>5

LEMMA PlainIds ==
  /\ \A s \in Session : SpawnEvent(s).id \notin PulseIds /\ ActionEvent(s).id \notin PulseIds
  /\ \A x \in Simulation : EndEvent(x).id \notin PulseIds
  /\ ResetEvent.id \notin PulseIds
<1>1. \A a : a \notin {"pulse", "relay"} => \A y : <<a, y>> \notin PulseIds
  <2> SUFFICES ASSUME NEW a, a \notin {"pulse", "relay"}, NEW y
               PROVE  <<a, y>> \notin PulseIds
    OBVIOUS
  <2>1. \A n : <<a, y>> # <<"pulse", n>>
    OBVIOUS
  <2>2. \A i, h, n : <<a, y>> # RelayId(i, h, n)
    BY DEF RelayId
  <2>. QED  BY <2>1, <2>2 DEF PulseIds
<1>. QED  BY <1>1 DEF SpawnEvent, ActionEvent, EndEvent, ResetEvent

LEMMA PulseFacts ==
  ASSUME NEW p \in Pulse
  PROVE  LET e == BroadcastEvent(p)
         IN  /\ e.type = "broadcast" /\ e.name = p.name /\ ~e.relayed /\ e.targets = p.targets
             /\ e.sim = p.sim /\ e.excluded = p.excluded
             /\ e.id = IF p.hasId THEN <<"pulse", p.name>> ELSE None
             /\ \A q \in Pulse : BroadcastEvent(q) = e => q = p
             /\ \A q \in Pulse, i \in Instance, h \in Handler : e.id # RelayId(i, h, q.name)
<1> DEFINE e == BroadcastEvent(p)
<1>1. /\ e.type = "broadcast" /\ e.name = p.name /\ ~e.relayed /\ e.targets = p.targets
      /\ e.sim = p.sim /\ e.excluded = p.excluded
      /\ e.id = IF p.hasId THEN <<"pulse", p.name>> ELSE None
  BY DEF BroadcastEvent
<1>2. ASSUME NEW q \in Pulse, BroadcastEvent(q) = e
      PROVE  q = p
  <2>1. q.name = p.name
    BY <1>1, <1>2 DEF BroadcastEvent
  <2>. QED  BY <2>1, DispatcherAssumption
<1>3. ASSUME NEW i \in Instance, NEW h \in Handler, NEW q \in Pulse
      PROVE  e.id # RelayId(i, h, q.name)
  <2>1. <<"pulse", p.name>> # RelayId(i, h, q.name)
    BY IdFacts
  <2>2. None # RelayId(i, h, q.name)
    BY DispatcherAssumption
  <2>. QED  BY <1>1, <2>1, <2>2
<1>. QED  BY <1>1, <1>2, <1>3

LEMMA PulsesAreNoRelays ==
  \A p, q \in Pulse, i \in Instance, h \in Handler : BroadcastEvent(p).id # RelayId(i, h, q.name)
BY PulseFacts

(***************************************************************************)
(* Mailboxes.                                                              *)
(***************************************************************************)
LEMMA TailMail ==
  ASSUME mail \in [Instance -> Seq(Event)], OnceInMail, NEW i \in Instance, mail[i] # <<>>,
         mail' = [mail EXCEPT ![i] = Tail(@)]
  PROVE  /\ Head(mail[i]) \in Letters(i) /\ OnceInMail'
         /\ \A k \in Instance :
              /\ Letters(k)' \subseteq Letters(k)
              /\ Letters(k) \subseteq Letters(k)' \cup IF k = i THEN {Head(mail[i])} ELSE {}
         /\ \A f \in Letters(i)' : ~Same(f, Head(mail[i]))
<1>1. mail[i] \in Seq(Event) /\ Head(mail[i]) = mail[i][1] /\ 1 \in DOMAIN mail[i]
  OBVIOUS
<1>2. \A n \in DOMAIN Tail(mail[i]) :
        /\ n \in Nat \ {0} /\ n + 1 \in DOMAIN mail[i] /\ Tail(mail[i])[n] = mail[i][n + 1]
  BY <1>1
<1>3. mail'[i] = Tail(mail[i]) /\ \A k \in Instance : k # i => mail'[k] = mail[k]
  OBVIOUS
<1>4. Head(mail[i]) \in Letters(i)
  BY <1>1 DEF Letters
<1>5. ASSUME NEW k \in Instance
      PROVE  /\ Letters(k)' \subseteq Letters(k)
             /\ Letters(k) \subseteq Letters(k)' \cup IF k = i THEN {Head(mail[i])} ELSE {}
  <2>1. CASE k # i
    BY <1>3, <2>1 DEF Letters
  <2>2. CASE k = i
    <3>1. \A n \in DOMAIN mail[i] : n # 1 =>
            n - 1 \in DOMAIN Tail(mail[i]) /\ Tail(mail[i])[n - 1] = mail[i][n]
      BY <1>1
    <3>2. Letters(i)' \subseteq Letters(i)
      BY <1>2, <1>3 DEF Letters
    <3>3. ASSUME NEW n \in DOMAIN mail[i]
          PROVE  mail[i][n] \in Letters(i)' \cup {Head(mail[i])}
      BY <1>1, <1>3, <3>1 DEF Letters
    <3>4. Letters(i) \subseteq Letters(i)' \cup {Head(mail[i])}
      BY <3>3 DEF Letters
    <3>. QED  BY <2>2, <3>2, <3>4
  <2>. QED  BY <2>1, <2>2
<1>6. ASSUME NEW f \in Letters(i)'
      PROVE  ~Same(f, Head(mail[i]))
  <2>1. PICK n \in DOMAIN Tail(mail[i]) : f = mail[i][n + 1]
    BY <1>2, <1>3 DEF Letters
  <2>2. n + 1 \in DOMAIN mail[i] /\ n + 1 # 1
    BY <1>2
  <2>. QED  BY <1>1, <2>1, <2>2 DEF OnceInMail
<1>7. OnceInMail'
  <2> SUFFICES ASSUME NEW k \in Instance, NEW m \in DOMAIN mail'[k], NEW n \in DOMAIN mail'[k],
                      Same(mail'[k][m], mail'[k][n])
               PROVE  m = n
    BY DEF OnceInMail, Same
  <2>1. CASE k # i
    BY <1>3, <2>1 DEF OnceInMail
  <2>2. CASE k = i
    <3>1. /\ m + 1 \in DOMAIN mail[i] /\ n + 1 \in DOMAIN mail[i]
          /\ mail'[k][m] = mail[i][m + 1] /\ mail'[k][n] = mail[i][n + 1]
          /\ m \in Nat /\ n \in Nat
      BY <1>2, <1>3, <2>2
    <3>2. m + 1 = n + 1
      BY <3>1 DEF OnceInMail
    <3>. QED  BY <3>1, <3>2
  <2>. QED  BY <2>1, <2>2
<1>. QED  BY <1>4, <1>5, <1>6, <1>7

LEMMA PublishMail ==
  ASSUME mail \in [Instance -> Seq(Event)], NEW c, NEW e \in Event, Publish(c, e)
  PROVE  /\ \A k \in Instance : Letters(k)' = Letters(k) \cup IF c \in heard[k] THEN {e} ELSE {}
         /\ OnceInMail /\ (\A k \in Instance : \A f \in Letters(k) : ~Same(e, f)) => OnceInMail'
<1>1. ASSUME NEW k \in Instance, c \in heard[k]
      PROVE  /\ mail[k] \in Seq(Event) /\ mail'[k] = Append(mail[k], e)
             /\ DOMAIN mail'[k] = DOMAIN mail[k] \cup {Len(mail[k]) + 1}
             /\ mail'[k][Len(mail[k]) + 1] = e
             /\ \A n \in DOMAIN mail[k] : mail'[k][n] = mail[k][n]
  <2>1. mail[k] \in Seq(Event) /\ mail'[k] = Append(mail[k], e)
    BY <1>1 DEF Publish
  <2>. QED  BY <2>1
<1>2. ASSUME NEW k \in Instance, c \notin heard[k]
      PROVE  mail'[k] = mail[k]
  BY <1>2 DEF Publish
<1>3. ASSUME NEW k \in Instance
      PROVE  Letters(k)' = Letters(k) \cup IF c \in heard[k] THEN {e} ELSE {}
  <2>1. CASE c \in heard[k]
    BY <1>1, <2>1 DEF Letters
  <2>2. CASE c \notin heard[k]
    BY <1>2, <2>2 DEF Letters
  <2>. QED  BY <2>1, <2>2
<1>4. ASSUME OnceInMail, \A k \in Instance : \A f \in Letters(k) : ~Same(e, f)
      PROVE  OnceInMail'
  <2> SUFFICES ASSUME NEW k \in Instance, NEW m \in DOMAIN mail'[k], NEW n \in DOMAIN mail'[k],
                      Same(mail'[k][m], mail'[k][n])
               PROVE  m = n
    BY DEF OnceInMail, Same
  <2>1. \A f \in Letters(k) : ~Same(e, f) /\ ~Same(f, e)
    BY <1>4 DEF Same
  <2>2. CASE c \in heard[k]
    <3>1. \A l \in DOMAIN mail[k] : mail[k][l] \in Letters(k)
      BY DEF Letters
    <3>2. \A a, b \in DOMAIN mail[k] : Same(mail[k][a], mail[k][b]) => a = b
      BY <1>4 DEF OnceInMail
    <3>. QED  BY <1>1, <2>1, <2>2, <3>1, <3>2
  <2>3. CASE c \notin heard[k]
    BY <1>2, <1>4, <2>3 DEF OnceInMail
  <2>. QED  BY <2>2, <2>3
<1>. QED  BY <1>3, <1>4

(***************************************************************************)
(* The steps that bring no pulse nearer to anybody.                        *)
(***************************************************************************)
\* What the channels, the pokes and the awaits hold of the pulses gets less.
LessToCome ==
  /\ \A k \in Instance : \A e \in Letters(k)' \ Letters(k) :
       e.type \notin {"broadcast", "a2ui_action"} /\ e.id \notin PulseIds
  /\ \A e \in pokes' \ pokes :
       /\ e.type # "broadcast" /\ e.id \notin PulseIds
       /\ e.type = "a2ui_action" => e = ActionEvent(e.sid) /\ e.sid \in acted' \ acted
  /\ \A i \in Instance, h \in Handler : work'[i][h].at = "relay" => work'[i][h] = work[i][h]

\* No id of a pulse is new to an instance; what it knows no longer, it has forgotten.
NothingNew ==
  \A k \in Instance :
    /\ forgotten[k] \subseteq forgotten'[k]
    /\ seen'[k] \cap PulseIds \subseteq seen[k]
    /\ seen[k] \cap PulseIds \subseteq seen'[k] \cup forgotten'[k]

LEMMA CopiesAre ==
  ASSUME LessToCome
  PROVE  /\ \A k \in Instance : Copies(k)' \subseteq Copies(k)
         /\ Poked' \subseteq Poked
         /\ \A n : \A i \in Instance, h \in Handler : Relaying(i, h, n)' => Relaying(i, h, n)
BY DEF LessToCome, Copies, Poked, Relaying

LEMMA ExcusedStays ==
  ASSUME published \subseteq published', spread \subseteq spread', NEW k \in Instance,
         forgotten[k] \subseteq forgotten'[k], NEW n
  PROVE  Excused(k, n) => Excused(k, n)'
<1>1. IdsOf(k, n)' = IdsOf(k, n)
  BY DEF IdsOf, RelayId
<1>. QED  BY <1>1 DEF Excused

LEMMA NamedStays ==
  ASSUME published \subseteq published', NEW t
  PROVE  NamedTwice(t) => NamedTwice(t)'
BY DEF NamedTwice, Repeated, BroadcastEvent

\* An event on its way is of a pulse that was published.
LEMMA EventsOfPulses ==
  ASSUME Origin
  PROVE  /\ \A k \in Instance : \A e \in Copies(k) : \E p \in published : e.name = p.name
         /\ \A e \in Poked : \E p \in published : e.name = p.name
<1>1. ASSUME NEW k \in Instance, NEW e \in Copies(k)
      PROVE  \E p \in published : e.name = p.name
  <2>1. Sent(e)
    BY DEF Origin
  <2>. QED  BY <2>1 DEF Sent, Original, RelayOf, BroadcastEvent
<1>2. ASSUME NEW e \in Poked
      PROVE  \E p \in published : e.name = p.name
  BY DEF Origin, BroadcastEvent
<1>. QED  BY <1>1, <1>2

LEMMA QuietStep ==
  ASSUME Inv, PulsesOnly, LessToCome, NothingNew, OnceInMail', UNCHANGED <<published, spread>>,
         \A p \in Pulse, k \in Instance : HasGot(k, p.name)' => HasGot(k, p.name)
  PROVE  PulsesOnly'
<1> USE DEF PulsesOnly
<1>1. /\ \A k \in Instance : Copies(k)' \subseteq Copies(k)
      /\ Poked' \subseteq Poked
      /\ \A n : \A i \in Instance, h \in Handler : Relaying(i, h, n)' => Relaying(i, h, n)
  BY CopiesAre
<1>2. published \subseteq Pulse
  BY DEF Inv, TypeOK, WireOK
<1>3. \A i \in Instance, h \in Handler, p \in Pulse : Unused(i, h, p.name) => Unused(i, h, p.name)'
  BY <1>1, IdFacts DEF Unused, NothingNew
<1>4. Origin'
  <2>1. \A e : Sent(e) => Sent(e)'
    BY DEF Sent, Original, RelayOf
  <2>2. \A k \in Instance : \A e \in Copies(k)' : Sent(e)'
    BY <1>1, <2>1 DEF Origin
  <2>3. \A k \in Instance : \A e \in Letters(k)' \ Copies(k)' :
          e.type # "a2ui_action" /\ e.id \notin PulseIds
    BY DEF Origin, LessToCome, Copies
  <2>4. \A e \in Poked' : \E p \in published : p.from = "client" /\ e = BroadcastEvent(p)
    BY <1>1 DEF Origin
  <2>5. \A e \in pokes' \ Poked' :
          e.id \notin PulseIds /\ (e.type = "a2ui_action" => e = ActionEvent(e.sid))
    BY DEF Origin, LessToCome, Poked
  <2>6. \A i \in Instance, h \in Handler : work'[i][h].at = "relay" =>
          \E p \in published : /\ p.from = "client" /\ p.targets # {}
                               /\ work'[i][h].event = BroadcastEvent(p)
    BY DEF Origin, LessToCome
  <2>7. PulseIds' = PulseIds
    BY DEF PulseIds
  <2>. QED  BY <2>2, <2>3, <2>4, <2>5, <2>6, <2>7 DEF Origin, ActionEvent
<1>5. Unheard'
  <2> SUFFICES ASSUME NEW p \in Pulse \ published
               PROVE  /\ \A k \in Instance : ~HasGot(k, p.name)' /\ <<"pulse", p.name>> \notin seen'[k]
                      /\ \A i \in Instance, h \in Handler : Unused(i, h, p.name)'
    BY DEF Unheard
  <2>1. <<"pulse", p.name>> \in PulseIds
    BY DEF PulseIds
  <2>. QED  BY <1>3, <2>1 DEF Unheard, NothingNew
<1>6. RelaysOnce'
  <2>1. \A p \in Pulse, i \in Instance :
          BroadcastEvent(p) \in pokes' =>
            Unused(i, "http", p.name)' /\ ~Relaying(i, "http", p.name)'
    <3> SUFFICES ASSUME NEW p \in Pulse, NEW i \in Instance, BroadcastEvent(p) \in pokes'
                 PROVE  Unused(i, "http", p.name)' /\ ~Relaying(i, "http", p.name)'
      OBVIOUS
    <3>1. BroadcastEvent(p) \in pokes
      BY PulseFacts DEF LessToCome
    <3>. QED  BY <1>1, <1>3, <3>1 DEF RelaysOnce, Handler
  <2>2. \A p \in Pulse, i \in Instance :
          BroadcastEvent(p) \in Copies(i)' =>
            Unused(i, "pubsub", p.name)' /\ ~Relaying(i, "pubsub", p.name)'
    BY <1>1, <1>3 DEF RelaysOnce, Handler
  <2>3. \A p \in Pulse, i \in Instance, h \in Handler :
          Relaying(i, h, p.name)' =>
            Unused(i, h, p.name)' /\ RelayId(i, h, p.name) \in seen'[i] \cup forgotten'[i]
    BY <1>1, <1>3, IdFacts DEF RelaysOnce, NothingNew
  <2>4. ASSUME NEW p \in Pulse, NEW i \in Instance, NEW h \in Handler, NEW k \in Instance,
               NEW e \in Copies(k)', e.id = RelayId(i, h, p.name)
        PROVE  IF k = i THEN e.id \in seen'[k] \cup forgotten'[k] ELSE e.id \notin seen'[k]
    <3>1. e.id \in PulseIds /\ e \in Copies(k)
      <4>1. RelayId(i, h, p.name) \in PulseIds
        BY IdFacts
      <4>. QED  BY <1>1, <2>4, <4>1
    <3>2. IF k = i THEN e.id \in seen[k] \cup forgotten[k] ELSE e.id \notin seen[k]
      BY <2>4, <3>1 DEF RelaysOnce
    <3>. QED  BY <3>1, <3>2 DEF NothingNew
  <2>5. \A p \in Pulse : BroadcastEvent(p)' = BroadcastEvent(p)
    BY DEF BroadcastEvent
  <2>. QED  BY <2>1, <2>2, <2>3, <2>4, <2>5 DEF RelaysOnce, RelayId
<1>7. PulseIsNew'
  <2> SUFFICES ASSUME NEW p \in Pulse, NEW k \in Instance, p.from # "client",
                      BroadcastEvent(p) \in Copies(k)'
               PROVE  <<"pulse", p.name>> \notin seen'[k] /\ ~HasGot(k, p.name)'
    BY DEF PulseIsNew, BroadcastEvent
  <2>1. <<"pulse", p.name>> \notin seen[k] /\ ~HasGot(k, p.name)
    BY <1>1 DEF PulseIsNew
  <2>2. <<"pulse", p.name>> \in PulseIds
    BY DEF PulseIds
  <2>. QED  BY <2>1, <2>2 DEF NothingNew
<1>8. InOnePlace'
  <2>1. \A p \in Pulse : Untouched(p) => Untouched(p)'
    BY <1>1 DEF Untouched
  <2>2. \A p \in Pulse : BroadcastEvent(p) \in pokes' => BroadcastEvent(p) \in pokes
    BY PulseFacts DEF LessToCome
  <2>. QED  BY <1>1, <1>2, <2>1, <2>2 DEF InOnePlace, BroadcastEvent
<1>9. Handled'
  <2>1. ASSUME NEW k \in Instance, NEW e \in Copies(k)' \cup Poked', HasGot(k, e.name)'
        PROVE  Known(k, e)' \/ Excused(k, e.name)'
    <3>1. e \in Copies(k) \cup Poked
      BY <1>1
    <3>2. PICK p \in Pulse : e.name = p.name
      BY <1>2, <3>1, EventsOfPulses
    <3>3. Known(k, e) \/ Excused(k, e.name)
      BY <2>1, <3>1, <3>2 DEF Handled
    <3>4. Excused(k, e.name) => Excused(k, e.name)'
      BY ExcusedStays DEF NothingNew
    <3>5. ASSUME Known(k, e)
          PROVE  Known(k, e)' \/ Excused(k, e.name)'
      <4>1. e.id # None /\ e.id \in seen[k] /\ e.id \in IdsOf(k, e.name)
        BY <3>5 DEF Known
      <4>2. IdsOf(k, e.name)' = IdsOf(k, e.name) /\ IdsOf(k, e.name) \subseteq PulseIds
        <5>1. IdsOf(k, e.name)' = IdsOf(k, e.name)
          BY DEF IdsOf, RelayId
        <5>2. "http" \in Handler
          BY DEF Handler
        <5>. QED  BY <3>2, <5>1, <5>2, IdFacts
      <4>3. e.id \in seen'[k] \cup forgotten'[k]
        BY <4>1, <4>2 DEF NothingNew
      <4>. QED  BY <4>1, <4>2, <4>3 DEF Known, Excused
    <3>. QED  BY <3>3, <3>4, <3>5
  <2>2. ASSUME NEW k \in Instance, NEW h \in Handler, NEW p \in Pulse, Relaying(k, h, p.name)',
               HasGot(k, p.name)'
        PROVE  Excused(k, p.name)'
    <3>1. Excused(k, p.name)
      BY <1>1, <2>2 DEF Handled
    <3>. QED  BY <3>1, ExcusedStays DEF NothingNew
  <2>. QED  BY <2>1, <2>2 DEF Handled
<1>. QED  BY <1>4, <1>5, <1>6, <1>7, <1>8, <1>9

LEMMA StayQuiet ==
  ASSUME Inv, CopiesInv, LessToCome, NothingNew, OnceInMail', HistoryOK', acted \subseteq acted',
         UNCHANGED <<published, spread, got, twice>>
  PROVE  CopiesInv'
<1> USE DEF CopiesInv
<1>1. PulsesOnly'
  BY QuietStep DEF HasGot
<1>2. ActsOnce'
  <2>1. ASSUME NEW s \in Session, ActionEvent(s) \in pokes'
        PROVE  s \in acted' /\ \A k \in Instance : <<s, "action">> \notin got[k]
    <3>1. ActionEvent(s).type = "a2ui_action" /\ ActionEvent(s).sid = s
      BY DEF ActionEvent
    <3>. QED  BY <2>1, <3>1 DEF ActsOnce, LessToCome
  <2>2. \A s \in Session : ActionEvent(s)' = ActionEvent(s)
    BY DEF ActionEvent
  <2>. QED  BY <2>1, <2>2 DEF ActsOnce
<1>3. NotTwice'
  BY ExcusedStays, NamedStays DEF NotTwice, NothingNew
<1>. QED  BY <1>1, <1>2, <1>3

LEMMA NothingForgotten ==
  ASSUME UNCHANGED <<seen, forgotten>>
  PROVE  NothingNew
BY DEF NothingNew

LEMMA SameMail ==
  ASSUME UNCHANGED mail
  PROVE  (OnceInMail => OnceInMail') /\ \A k \in Instance : Letters(k)' = Letters(k)
BY DEF OnceInMail, Letters, Same

\* The steps between two reads that carry no broadcast on.
LEMMA LoopCopies ==
  ASSUME Inv, CopiesInv, NEW i \in Instance,
         \/ \E h \in Handler : Registered(i, h) \/ Subscribed(i, h) \/ Cleared(i, h)
         \/ Chore(i) \/ \E r \in runs[i] : Begin(i, r) \/ Finish(i, r)
         \/ Connect(i) \/ Rejoin(i)
  PROVE  CopiesInv'
<1>1. UNCHANGED <<published, spread, got, twice, acted, seen, forgotten, mail, pokes>>
  BY DEF Registered, Subscribed, Cleared, Chore, Begin, Finish, Connect, Rejoin,
         asked, wire, sessions, delivered, causes
<1>2. work \in [Instance -> [Handler -> Awaited]]
  BY DEF Inv, TypeOK, SessionsOK
<1>3. \A k \in Instance, h \in Handler : work'[k][h].at = "relay" => work'[k][h] = work[k][h]
  <2>1. ASSUME NEW h \in Handler, NEW w, w.at # "relay", Await(i, h, w)
        PROVE  \A k \in Instance, g \in Handler : work'[k][g].at = "relay" => work'[k][g] = work[k][g]
    BY <1>2, <2>1 DEF Await
  <2>2. Idle.at # "relay" /\ \A x : [at |-> "subscribe", sim |-> x].at # "relay"
    BY DEF Idle
  <2>3. ASSUME NEW h \in Handler, Registered(i, h) \/ Subscribed(i, h) \/ Cleared(i, h)
        PROVE  \A k \in Instance, g \in Handler : work'[k][g].at = "relay" => work'[k][g] = work[k][g]
    <3>1. PICK w : w.at # "relay" /\ Await(i, h, w)
      <4>1. CASE Registered(i, h)
        <5> DEFINE x == SimOf[work[i][h].sid]
                   w == IF x \in subs[i] \/ link[i] = "down" THEN Idle ELSE [at |-> "subscribe", sim |-> x]
        <5>1. Await(i, h, w)
          BY <4>1 DEF Registered
        <5>. QED  BY <2>2, <5>1
      <4>2. CASE Subscribed(i, h) \/ Cleared(i, h)
        BY <2>2, <4>2 DEF Subscribed, Cleared
      <4>. QED  BY <2>3, <4>1, <4>2
    <3>. QED  BY <2>1, <3>1
  <2>4. UNCHANGED work => \A k \in Instance, g \in Handler : work'[k][g] = work[k][g]
    OBVIOUS
  <2>. QED  BY <2>3, <2>4 DEF Chore, Begin, Finish, Connect, Rejoin
<1>4. LessToCome
  BY <1>1, <1>3, SameMail DEF LessToCome
<1>5. OnceInMail'
  BY <1>1, SameMail DEF CopiesInv, PulsesOnly
<1>6. HistoryOK'
  BY <1>1 DEF CopiesInv, HistoryOK
<1>. QED  BY <1>1, <1>4, <1>5, <1>6, StayQuiet, NothingForgotten

LEMMA BreakCopies ==
  ASSUME Inv, CopiesInv, NEW i \in Instance, NEW first \in Handler, Break(i, first)
  PROVE  CopiesInv'
<1>1. /\ UNCHANGED <<published, spread, got, twice, acted, seen, forgotten, pokes>>
      /\ mail' = [mail EXCEPT ![i] = <<>>]
  BY DEF Break, sessions
<1>2. work \in [Instance -> [Handler -> Awaited]] /\ mail \in [Instance -> Seq(Event)]
  BY DEF Inv, TypeOK, SessionsOK, WireOK
<1>3. Idle.at # "relay"
  BY DEF Idle
<1>4. \A k \in Instance, h \in Handler : work'[k][h].at = "relay" => work'[k][h] = work[k][h]
  BY <1>2, <1>3 DEF Break, Handler
<1>5. /\ mail'[i] = <<>> /\ \A k \in Instance : k # i => mail'[k] = mail[k]
  BY <1>1, <1>2
<1>6. \A k \in Instance : Letters(k)' \subseteq Letters(k)
  BY <1>5 DEF Letters
<1>7. LessToCome
  BY <1>1, <1>4, <1>6 DEF LessToCome
<1>8. OnceInMail'
  BY <1>5 DEF CopiesInv, PulsesOnly, OnceInMail, Same
<1>9. HistoryOK'
  BY <1>1 DEF CopiesInv, HistoryOK
<1>. QED  BY <1>1, <1>7, <1>8, <1>9, StayQuiet, NothingForgotten

\* The gateway and the simulator, but for the broadcasts they send.
LEMMA RequestsCopies ==
  ASSUME Inv, CopiesInv,
         \/ \E S \in SUBSET Session : \E poked \in SUBSET S : Spawn(S, poked)
         \/ \E s \in Session : SendAction(s)
         \/ \E x \in Simulation : EndSimulation(x)
         \/ ResetEnvironment
  PROVE  CopiesInv'
<1>1. /\ UNCHANGED <<published, spread, got, twice, seen, forgotten, work>>
      /\ acted \subseteq acted'
  BY DEF Spawn, SendAction, EndSimulation, ResetEnvironment, sessions, delivered, causes
<1>2. mail \in [Instance -> Seq(Event)] /\ resets \in Nat
  BY DEF Inv, TypeOK, WireOK
<1>3. \A e \in pokes' \ pokes :
        /\ e.type # "broadcast" /\ e.id \notin PulseIds
        /\ e.type = "a2ui_action" => e = ActionEvent(e.sid) /\ e.sid \in acted' \ acted
  <2>1. ASSUME NEW S \in SUBSET Session, NEW poked \in SUBSET S, Spawn(S, poked), NEW e \in pokes' \ pokes
        PROVE  e.type = "spawn_agent" /\ e.id \notin PulseIds
    <3>1. PICK s \in Session : e = SpawnEvent(s)
      BY <2>1 DEF Spawn
    <3>2. e.type = "spawn_agent"
      BY <3>1 DEF SpawnEvent
    <3>. QED  BY <3>1, <3>2, PlainIds
  <2>2. ASSUME NEW s \in Session, SendAction(s), NEW e \in pokes' \ pokes
        PROVE  /\ e.type = "a2ui_action" /\ e.id \notin PulseIds
               /\ e = ActionEvent(e.sid) /\ e.sid \in acted' \ acted
    <3>1. e = ActionEvent(s) /\ s \in acted' \ acted
      BY <2>2 DEF SendAction
    <3>2. e.type = "a2ui_action" /\ e.sid = s
      BY <3>1 DEF ActionEvent
    <3>. QED  BY <3>1, <3>2, PlainIds
  <2>3. ASSUME ResetEnvironment, NEW e \in pokes' \ pokes
        PROVE  e.type = "environment_reset" /\ e.id \notin PulseIds
    <3>1. e = ResetEvent
      BY <2>3 DEF ResetEnvironment
    <3>2. e.type = "environment_reset"
      BY <3>1 DEF ResetEvent
    <3>. QED  BY <3>1, <3>2, PlainIds
  <2>4. ASSUME NEW x \in Simulation, EndSimulation(x)
        PROVE  pokes' = pokes
    BY <2>4 DEF EndSimulation
  <2>. QED  BY <2>1, <2>2, <2>3, <2>4
<1>4. ASSUME NEW c, NEW e \in Event, Publish(c, e), e.type \notin {"broadcast", "a2ui_action"},
             e.id \notin PulseIds
      PROVE  /\ OnceInMail'
             /\ \A k \in Instance : \A f \in Letters(k)' \ Letters(k) :
                  f.type \notin {"broadcast", "a2ui_action"} /\ f.id \notin PulseIds
  <2>1. \A f : ~Same(e, f)
    BY <1>4 DEF Same
  <2>. QED  BY <1>2, <1>4, <2>1, PublishMail DEF CopiesInv, PulsesOnly
<1>5. /\ OnceInMail'
      /\ \A k \in Instance : \A f \in Letters(k)' \ Letters(k) :
           f.type \notin {"broadcast", "a2ui_action"} /\ f.id \notin PulseIds
  <2>1. ASSUME NEW x \in Simulation, EndSimulation(x)
        PROVE  /\ OnceInMail'
               /\ \A k \in Instance : \A f \in Letters(k)' \ Letters(k) :
                    f.type \notin {"broadcast", "a2ui_action"} /\ f.id \notin PulseIds
    <3>1. EndEvent(x).type = "end_simulation" /\ Publish(x, EndEvent(x))
      BY <2>1 DEF EndEvent, EndSimulation
    <3>. QED  BY <1>4, <3>1, NewEvents, PlainIds
  <2>2. CASE ResetEnvironment
    <3>1. ResetEvent.type = "environment_reset" /\ Publish(Global, ResetEvent)
      BY <2>2 DEF ResetEvent, ResetEnvironment
    <3>. QED  BY <1>2, <1>4, <3>1, NewEvents, PlainIds
  <2>3. CASE UNCHANGED mail
    BY <2>3, SameMail DEF CopiesInv, PulsesOnly
  <2>. QED  BY <2>1, <2>2, <2>3 DEF Spawn, SendAction
<1>6. LessToCome
  BY <1>1, <1>3, <1>5 DEF LessToCome
<1>7. HistoryOK'
  BY <1>1 DEF CopiesInv, HistoryOK
<1>. QED  BY <1>1, <1>5, <1>6, <1>7, StayQuiet, NothingForgotten

(***************************************************************************)
(* Reading an event.                                                       *)
(***************************************************************************)
\* What h took at i is gone from where it was, and nothing else is.
Took(i, h, e) ==
  /\ \A k \in Instance : /\ Letters(k)' \subseteq Letters(k)
                          /\ Letters(k) \subseteq Letters(k)' \cup IF k = i THEN {e} ELSE {}
  /\ pokes' \subseteq pokes
  /\ \/ h = "pubsub" /\ e \in Letters(i) /\ \A f \in Letters(i)' : ~Same(f, e)
     \/ h = "http" /\ e \in pokes \ pokes'
     \/ h = "queue" /\ e.type = "spawn_agent" /\ e.id \notin PulseIds

LEMMA ReadsTake ==
  ASSUME Inv, OnceInMail, NEW i \in Instance, TakeMail(i) \/ TakeSpawn(i) \/ TakePoke(i)
  PROVE  \E h \in Handler, e \in Event :
           /\ ProcessEvent(i, h, e) /\ Took(i, h, e) /\ work[i][h] = Idle
           /\ OnceInMail' /\ UNCHANGED asked
<1>1. mail \in [Instance -> Seq(Event)] /\ queue \subseteq Session /\ pokes \subseteq Event
  BY DEF Inv, TypeOK, WireOK
<1>2. CASE TakeMail(i)
  <2>1. /\ mail[i] # <<>> /\ ProcessEvent(i, "pubsub", Head(mail[i])) /\ work[i]["pubsub"] = Idle
        /\ mail' = [mail EXCEPT ![i] = Tail(@)] /\ UNCHANGED <<asked, pokes>>
    BY <1>2 DEF TakeMail
  <2>2. mail[i] \in Seq(Event) /\ Head(mail[i]) \in Event
    BY <1>1, <2>1
  <2>3. /\ Head(mail[i]) \in Letters(i) /\ OnceInMail'
        /\ \A k \in Instance :
             /\ Letters(k)' \subseteq Letters(k)
             /\ Letters(k) \subseteq Letters(k)' \cup IF k = i THEN {Head(mail[i])} ELSE {}
        /\ \A f \in Letters(i)' : ~Same(f, Head(mail[i]))
    BY <1>1, <2>1, TailMail
  <2>4. Took(i, "pubsub", Head(mail[i]))
    BY <2>1, <2>3 DEF Took
  <2>. QED  BY <2>1, <2>2, <2>3, <2>4 DEF Handler
<1>3. CASE TakeSpawn(i)
  <2>1. PICK s \in queue : ProcessEvent(i, "queue", SpawnEvent(s))
    BY <1>3 DEF TakeSpawn
  <2>2. work[i]["queue"] = Idle /\ UNCHANGED <<asked, pokes, mail>>
    BY <1>3 DEF TakeSpawn
  <2>3. SpawnEvent(s).type = "spawn_agent" /\ SpawnEvent(s).id \notin PulseIds
    BY <1>1, PlainIds DEF SpawnEvent
  <2>4. SpawnEvent(s) \in Event
    BY <1>1, NewEvents
  <2>5. Took(i, "queue", SpawnEvent(s)) /\ OnceInMail'
    BY <2>2, <2>3, SameMail DEF Took
  <2>. QED  BY <2>1, <2>2, <2>4, <2>5 DEF Handler
<1>4. CASE TakePoke(i)
  <2>1. PICK e \in pokes : ProcessEvent(i, "http", e) /\ pokes' = pokes \ {e}
    BY <1>4 DEF TakePoke
  <2>2. work[i]["http"] = Idle /\ UNCHANGED <<asked, mail>>
    BY <1>4 DEF TakePoke
  <2>3. Took(i, "http", e) /\ OnceInMail'
    BY <2>1, <2>2, SameMail DEF Took
  <2>. QED  BY <1>1, <2>1, <2>2, <2>3 DEF Handler
<1>. QED  BY <1>2, <1>3, <1>4

\* What an instance knows after an event: it knows the event, or has forgotten it, and nothing
\* else is new to it but what is added.
LEMMA RememberIs ==
  ASSUME HistoryOK, NEW i \in Instance, NEW e \in Event, NEW also \in SUBSET EventId,
         Remember(i, e, also)
  PROVE  /\ seen' \in [Instance -> SUBSET EventId] /\ forgotten' \in [Instance -> SUBSET EventId]
         /\ \A k \in Instance : k # i => seen'[k] = seen[k] /\ forgotten'[k] = forgotten[k]
         /\ forgotten[i] \subseteq forgotten'[i]
         /\ seen'[i] \subseteq seen[i] \cup ({e.id} \ {None}) \cup also
         /\ seen[i] \ {None} \subseteq seen'[i] \cup forgotten'[i]
         /\ e.id \in seen'[i] \cup forgotten'[i] \cup {None}
         /\ also \subseteq seen'[i]
<1>1. PICK kept \in Remembered(i, e) :
        /\ seen' = [seen EXCEPT ![i] = kept \cup also]
        /\ forgotten' = [forgotten EXCEPT ![i] = @ \cup ((seen[i] \cup {e.id}) \ (kept \cup {None}))]
  BY DEF Remember
<1>2. e.id \in EventId \cup {None}
  BY DEF Event, SpawnEvents, ResetEvents, EndEvents, ActionEvents, BroadcastEvents
<1>3. kept \subseteq seen[i] \cup ({e.id} \ {None})
  BY DEF Remembered
<1>4. seen \in [Instance -> SUBSET EventId] /\ forgotten \in [Instance -> SUBSET EventId]
  BY DEF HistoryOK
<1>5. kept \cup also \subseteq EventId /\ (seen[i] \cup {e.id}) \ (kept \cup {None}) \subseteq EventId
  BY <1>2, <1>3, <1>4
<1>6. /\ seen'[i] = kept \cup also
      /\ forgotten'[i] = forgotten[i] \cup ((seen[i] \cup {e.id}) \ (kept \cup {None}))
      /\ \A k \in Instance : k # i => seen'[k] = seen[k] /\ forgotten'[k] = forgotten[k]
  BY <1>1, <1>4
<1>7. seen' \in [Instance -> SUBSET EventId] /\ forgotten' \in [Instance -> SUBSET EventId]
  BY <1>1, <1>4, <1>5
<1>. QED  BY <1>3, <1>6, <1>7

LEMMA RememberNothing ==
  ASSUME HistoryOK, NEW i \in Instance, NEW e \in Event, Remember(i, e, {}), e.id \notin PulseIds
  PROVE  NothingNew /\ seen' \in [Instance -> SUBSET EventId]
                    /\ forgotten' \in [Instance -> SUBSET EventId]
<1>1. {} \in SUBSET EventId
  OBVIOUS
<1>2. /\ seen' \in [Instance -> SUBSET EventId] /\ forgotten' \in [Instance -> SUBSET EventId]
      /\ \A k \in Instance : k # i => seen'[k] = seen[k] /\ forgotten'[k] = forgotten[k]
      /\ forgotten[i] \subseteq forgotten'[i]
      /\ seen'[i] \subseteq seen[i] \cup ({e.id} \ {None}) \cup {}
      /\ seen[i] \ {None} \subseteq seen'[i] \cup forgotten'[i]
  BY <1>1, RememberIs
<1>3. None \notin PulseIds
  BY IdFacts
<1>. QED  BY <1>2, <1>3 DEF NothingNew

LEMMA TriggerIs ==
  ASSUME HistoryOK, NEW i \in Instance, NEW T \in SUBSET Session, NEW e, e.name \in Name,
         Trigger(i, T, e)
  PROVE  /\ got' \in [Instance -> SUBSET (Session \X Name)]
         /\ twice' \in [Instance -> SUBSET (Session \X Name)]
         /\ \A k \in Instance : k # i => got'[k] = got[k] /\ twice'[k] = twice[k]
         /\ got'[i] = got[i] \cup {<<s, e.name>> : s \in T}
         /\ \A t \in twice'[i] \ twice[i] :
              /\ t \in got[i] \/ t[1] \in Repeated(e)
              /\ \E s \in T : t = <<s, e.name>>
<1>0. /\ got' = [got EXCEPT ![i] = @ \cup {<<s, e.name>> : s \in T}]
      /\ twice' = [twice EXCEPT ![i] = @ \cup (got[i] \cap {<<s, e.name>> : s \in T})
                                        \cup {<<s, e.name>> : s \in T \cap Repeated(e)}]
  BY DEF Trigger
<1>2. {<<s, e.name>> : s \in T} \subseteq Session \X Name
  OBVIOUS
<1>3. /\ got \in [Instance -> SUBSET (Session \X Name)]
      /\ twice \in [Instance -> SUBSET (Session \X Name)]
  BY DEF HistoryOK
<1> DEFINE new   == {<<s, e.name>> : s \in T}
           again == {<<s, e.name>> : s \in T \cap Repeated(e)}
<1>1. /\ got' = [got EXCEPT ![i] = @ \cup new]
      /\ twice' = [twice EXCEPT ![i] = @ \cup (got[i] \cap new) \cup again]
  BY <1>0
<1>4. \A t \in new : \E s \in T : t = <<s, e.name>>
  OBVIOUS
<1>5. /\ again \subseteq new
      /\ \A t \in again : t[1] \in Repeated(e)
  OBVIOUS
<1> HIDE DEF new, again
<1>. QED  BY <1>1, <1>2, <1>3, <1>4, <1>5 DEF new

\* Who has got a name before and after a trigger.
LEMMA TriggerGot ==
  ASSUME HistoryOK, NEW i \in Instance, NEW T \in SUBSET Session, NEW e, Trigger(i, T, e)
  PROVE  \A n : \A k \in Instance : HasGot(k, n)' => HasGot(k, n) \/ (k = i /\ n = e.name)
<1> SUFFICES ASSUME NEW k \in Instance, NEW n, NEW s \in Session, <<s, n>> \in got'[k]
             PROVE  <<s, n>> \in got[k] \/ (k = i /\ n = e.name)
  BY DEF HasGot
<1>1. /\ \A j \in Instance : j # i => got'[j] = got[j]
      /\ got'[i] = got[i] \cup {<<r, e.name>> : r \in T}
  BY DEF HistoryOK, Trigger
<1>2. \A t \in {<<r, e.name>> : r \in T} : t[2] = e.name
  OBVIOUS
<1>3. <<s, n>>[2] = n
  OBVIOUS
<1>. QED  BY <1>1, <1>2, <1>3

LEMMA ReadCopies ==
  ASSUME Inv, CopiesInv, NEW i \in Instance, NEW h \in Handler, NEW e \in Event,
         ProcessEvent(i, h, e), Took(i, h, e), OnceInMail', UNCHANGED asked,
         e.type # "broadcast" \/ Duplicate(i, e)
  PROVE  CopiesInv'
<1> USE EventsAre
<1>1. UNCHANGED <<published, acted, spread>>
  BY DEF ProcessEvent, HandleReset, HandleSpawn, HandleBroadcast, HandleEnd, HandleAction, asked, causes
<1>2. work \in [Instance -> [Handler -> Awaited]]
  BY DEF Inv, TypeOK, SessionsOK
<1>3. \A k \in Instance, g \in Handler : work'[k][g].at = "relay" => work'[k][g] = work[k][g]
  <2>1. ASSUME NEW w, w.at # "relay", Await(i, h, w)
        PROVE  \A k \in Instance, g \in Handler : work'[k][g].at = "relay" => work'[k][g] = work[k][g]
    BY <1>2, <2>1 DEF Await
  <2>2. [at |-> "clear"].at # "relay" /\ \A s : [at |-> "register", sid |-> s].at # "relay"
    OBVIOUS
  <2>3. HandleReset(i, h, e) => Await(i, h, [at |-> "clear"])
    BY DEF HandleReset
  <2>4. HandleSpawn(i, h, e) => Await(i, h, [at |-> "register", sid |-> e.sid]) \/ UNCHANGED work
    BY DEF HandleSpawn
  <2>5. HandleEnd(i, h, e) \/ HandleAction(i, h, e) \/ Duplicate(i, e) => UNCHANGED work
    BY DEF HandleEnd, HandleAction, ProcessEvent
  <2>6. ~HandleBroadcast(i, h, e) \/ Duplicate(i, e)
    BY DEF HandleBroadcast
  <2>. QED  BY <2>1, <2>2, <2>3, <2>4, <2>5, <2>6 DEF ProcessEvent
<1>4. LessToCome
  BY <1>3 DEF LessToCome, Took
<1>5. e.type # "broadcast" => e.id \notin PulseIds
  BY DEF Took, CopiesInv, PulsesOnly, Origin, Copies, Poked
<1>6. CASE Duplicate(i, e)
  <2>1. UNCHANGED <<seen, forgotten, got, twice>>
    BY <1>6 DEF ProcessEvent, sessions, delivered, causes
  <2>2. HistoryOK'
    BY <2>1 DEF CopiesInv, HistoryOK
  <2>. QED  BY <1>1, <1>4, <2>1, <2>2, StayQuiet, NothingForgotten
<1>7. CASE HandleReset(i, h, e)
  <2>1. UNCHANGED <<got, twice>> /\ seen' = [seen EXCEPT ![i] = {}]
        /\ forgotten' = [forgotten EXCEPT ![i] = @ \cup seen[i] \cup {e.id}]
    BY <1>7 DEF HandleReset
  <2>2. e.id \in EventId
    BY <1>7 DEF HandleReset, Event, SpawnEvents, ResetEvents, EndEvents, ActionEvents, BroadcastEvents
  <2>3. NothingNew /\ HistoryOK'
    BY <2>1, <2>2 DEF CopiesInv, HistoryOK, NothingNew
  <2>. QED  BY <1>1, <1>4, <2>1, <2>3, StayQuiet
<1>8. CASE ~Duplicate(i, e) /\ (HandleSpawn(i, h, e) \/ HandleEnd(i, h, e))
  <2>1. e.type # "broadcast" /\ Remember(i, e, {}) /\ UNCHANGED <<got, twice>>
    BY <1>8 DEF HandleSpawn, HandleEnd, delivered
  <2>2. NothingNew /\ HistoryOK'
    BY <1>5, <2>1, RememberNothing DEF CopiesInv, HistoryOK
  <2>. QED  BY <1>1, <1>4, <2>1, <2>2, StayQuiet
<1>9. CASE HandleAction(i, h, e)
  <2> DEFINE T == {e.sid} \cap active[i]
  <2>1. e.type = "a2ui_action" /\ Remember(i, e, {}) /\ Trigger(i, T, e) /\ e.sid \in Session
    BY <1>9 DEF HandleAction
  <2>2. e = ActionEvent(e.sid) /\ e \in pokes \ pokes'
    <3>1. e \notin Letters(i)
      BY <2>1 DEF CopiesInv, PulsesOnly, Origin, Copies
    <3>. QED  BY <2>1, <3>1 DEF Took, CopiesInv, PulsesOnly, Origin, Poked
  <2>3. e.name = "action" /\ e.name \in Name /\ T \in SUBSET Session /\ HistoryOK
    <3>1. e.name = "action"
      BY <2>2 DEF ActionEvent
    <3>. QED  BY <2>1, <3>1 DEF CopiesInv, Name
  <2>4. /\ got' \in [Instance -> SUBSET (Session \X Name)]
        /\ twice' \in [Instance -> SUBSET (Session \X Name)]
        /\ \A k \in Instance : k # i => got'[k] = got[k] /\ twice'[k] = twice[k]
        /\ got'[i] = got[i] \cup {<<s, e.name>> : s \in T}
        /\ \A t \in twice'[i] \ twice[i] :
             /\ t \in got[i] \/ t[1] \in Repeated(e)
             /\ \E s \in T : t = <<s, e.name>>
    BY <2>1, <2>3, TriggerIs
  <2>5. \A n : \A k \in Instance : HasGot(k, n)' => HasGot(k, n) \/ (k = i /\ n = e.name)
    BY <2>1, <2>3, TriggerGot
  <2>6. NothingNew /\ seen' \in [Instance -> SUBSET EventId] /\ forgotten' \in [Instance -> SUBSET EventId]
    BY <1>5, <2>1, RememberNothing DEF CopiesInv
  <2>7. HistoryOK'
    BY <2>4, <2>6 DEF HistoryOK
  <2>8. PulsesOnly'
    <3>1. \A p \in Pulse, k \in Instance : HasGot(k, p.name)' => HasGot(k, p.name)
      BY <2>3, <2>5, DispatcherAssumption
    <3>. QED  BY <1>1, <1>4, <2>6, <3>1, QuietStep DEF CopiesInv
  <2>9. \A k \in Instance : <<e.sid, "action">> \notin got[k]
    BY <2>1, <2>2 DEF CopiesInv, ActsOnce
  <2>10. NotTwice'
    <3>1. Repeated(e) = {}
      BY <2>1 DEF Repeated
    <3>2. \A t \in twice'[i] : t \in twice[i]
      BY <2>3, <2>4, <2>9, <3>1
    <3>. QED  BY <1>1, <2>4, <2>6, <3>2, ExcusedStays, NamedStays DEF CopiesInv, NotTwice, NothingNew
  <2>11. ActsOnce'
    <3>1. ASSUME NEW s \in Session, NEW k \in Instance, <<s, "action">> \in got'[k]
          PROVE  <<s, "action">> \in got[k] \/ s = e.sid
      BY <2>4, <3>1
    <3>2. e.sid \in acted
      BY <2>1, <2>2 DEF CopiesInv, ActsOnce
    <3>3. ASSUME NEW s \in Session, ActionEvent(s) \in pokes'
          PROVE  s # e.sid /\ ActionEvent(s) \in pokes
      BY <2>2, <3>3 DEF Took
    <3>4. \A s \in Session : ActionEvent(s)' = ActionEvent(s)
      BY DEF ActionEvent
    <3>. QED  BY <1>1, <3>1, <3>2, <3>3, <3>4 DEF CopiesInv, ActsOnce
  <2>. QED  BY <2>7, <2>8, <2>10, <2>11 DEF CopiesInv
<1>10. ~HandleBroadcast(i, h, e) \/ Duplicate(i, e)
  BY DEF HandleBroadcast
<1>. QED  BY <1>6, <1>7, <1>8, <1>9, <1>10 DEF ProcessEvent

(***************************************************************************)
(* A broadcast is taken.                                                   *)
(***************************************************************************)
\* The pulse of a broadcast, and where it was taken.
TakenOf(i, h, e, p) ==
  /\ e.name = p.name
  /\ \/ h = "http" /\ e = BroadcastEvent(p) /\ e \in Poked /\ e \notin pokes' /\ p.from = "client"
     \/ /\ h = "pubsub" /\ e \in Copies(i) /\ \A f \in Copies(i)' : ~Same(f, e)
        /\ Original(e, p) \/ \E j \in Instance, g \in Handler : RelayOf(e, p, j, g)

LEMMA TakenBroadcast ==
  ASSUME Inv, PulsesOnly, NEW i \in Instance, NEW h \in Handler, NEW e \in Event,
         Took(i, h, e), e.type = "broadcast"
  PROVE  \E p \in published : TakenOf(i, h, e, p)
<1>1. CASE h = "pubsub"
  <2>1. e \in Copies(i) /\ \A f \in Copies(i)' : ~Same(f, e)
    BY <1>1 DEF Took, Copies
  <2>2. PICK p \in published : Original(e, p) \/ \E j \in Instance, g \in Handler : RelayOf(e, p, j, g)
    BY <2>1 DEF PulsesOnly, Origin, Sent
  <2>3. e.name = p.name
    BY <2>2 DEF Original, RelayOf, BroadcastEvent
  <2>. QED  BY <1>1, <2>1, <2>2, <2>3 DEF TakenOf
<1>2. CASE h = "http"
  <2>1. e \in Poked /\ e \notin pokes'
    BY <1>2 DEF Took, Poked
  <2>2. PICK p \in published : p.from = "client" /\ e = BroadcastEvent(p)
    BY <2>1 DEF PulsesOnly, Origin
  <2>3. e.name = p.name
    BY <2>2 DEF BroadcastEvent
  <2>. QED  BY <1>2, <2>1, <2>2, <2>3 DEF TakenOf
<1>. QED  BY <1>1, <1>2 DEF Took

\* Whose pulse it was is left alone in the channels and in the pokes.
LEMMA LessMail ==
  ASSUME NEW i \in Instance, NEW h \in Handler, NEW e, Took(i, h, e)
  PROVE  /\ \A k \in Instance : Copies(k)' \subseteq Copies(k)
         /\ \A k \in Instance : Letters(k)' \ Copies(k)' \subseteq Letters(k) \ Copies(k)
         /\ Poked' \subseteq Poked /\ pokes' \ Poked' \subseteq pokes \ Poked
BY DEF Took, Copies, Poked

\* What is unrelated to the awaits and to what instances know stays.
LEMMA OriginStays ==
  ASSUME PulsesOnly, NEW i \in Instance, NEW h \in Handler, NEW e, Took(i, h, e),
         UNCHANGED <<published, spread>>,
         \A j \in Instance, g \in Handler : work'[j][g].at = "relay" =>
           \E p \in published : /\ p.from = "client" /\ p.targets # {}
                                /\ work'[j][g].event = BroadcastEvent(p)
  PROVE  Origin'
<1>1. \A f : Sent(f) => Sent(f)'
  BY DEF Sent, Original, RelayOf
<1>2. PulseIds' = PulseIds
  BY DEF PulseIds
<1>3. /\ \A k \in Instance : \A f \in Copies(k)' : Sent(f)'
      /\ \A k \in Instance : \A f \in Letters(k)' \ Copies(k)' :
           f.type # "a2ui_action" /\ f.id \notin PulseIds
      /\ \A f \in Poked' : \E p \in published : p.from = "client" /\ f = BroadcastEvent(p)
      /\ \A f \in pokes' \ Poked' :
           f.id \notin PulseIds /\ (f.type = "a2ui_action" => f = ActionEvent(f.sid))
  <2>1. /\ \A k \in Instance : Copies(k)' \subseteq Copies(k)
        /\ \A k \in Instance : Letters(k)' \ Copies(k)' \subseteq Letters(k) \ Copies(k)
        /\ Poked' \subseteq Poked /\ pokes' \ Poked' \subseteq pokes \ Poked
    BY LessMail
  <2>. QED  BY <1>1, <2>1 DEF PulsesOnly, Origin
<1>. QED  BY <1>2, <1>3 DEF Origin, ActionEvent

LEMMA HandledStays ==
  ASSUME PulsesOnly, UNCHANGED <<published, spread>>, NEW k \in Instance,
         NEW e \in Copies(k) \cup Poked, HasGot(k, e.name),
         forgotten[k] \subseteq forgotten'[k], seen[k] \ {None} \subseteq seen'[k] \cup forgotten'[k]
  PROVE  Known(k, e)' \/ Excused(k, e.name)'
<1>1. Known(k, e) \/ Excused(k, e.name)
  BY DEF PulsesOnly, Handled
<1>2. IdsOf(k, e.name)' = IdsOf(k, e.name)
  BY DEF IdsOf, RelayId
<1>3. ASSUME Known(k, e)
      PROVE  Known(k, e)' \/ Excused(k, e.name)'
  BY <1>2, <1>3 DEF Known, Excused
<1>. QED  BY <1>1, <1>3, ExcusedStays

\* Some of its targets are elsewhere: it is to be relayed first.
LEMMA RelayingCopies ==
  ASSUME Inv, CopiesInv, NEW i \in Instance, NEW h \in Handler, NEW e \in Event,
         HandleBroadcast(i, h, e), Took(i, h, e), OnceInMail', UNCHANGED asked,
         work[i][h] = Idle, ~Duplicate(i, e), Relays(e, Matched(i, e))
  PROVE  CopiesInv'
<1> USE DEF CopiesInv, PulsesOnly
<1> DEFINE here == Matched(i, e)
           rid == RelayId(i, h, e.name)
<1>1. /\ UNCHANGED <<published, spread, acted, got, twice>> /\ e.type = "broadcast"
      /\ Remember(i, e, {rid}) /\ Await(i, h, [at |-> "relay", event |-> e, to |-> here])
  BY DEF HandleBroadcast, Marked, asked
<1>2. published \subseteq Pulse /\ work \in [Instance -> [Handler -> Awaited]]
  BY DEF Inv, TypeOK, WireOK, SessionsOK
<1>3. PICK p \in published : TakenOf(i, h, e, p)
  BY <1>1, TakenBroadcast
<1>4. e = BroadcastEvent(p) /\ p.targets # {} /\ p.from = "client" /\ e.name = p.name
  <2>1. ~e.relayed /\ e.targets # {}
    BY DEF Relays
  <2>2. e = BroadcastEvent(p) /\ e.name = p.name
    BY <1>3, <2>1 DEF TakenOf, Original, RelayOf
  <2>3. p.targets # {}
    BY <1>2, <2>1, <2>2, PulseFacts
  <2>. QED  BY <1>2, <2>2, <2>3, DispatcherAssumption
<1>5. /\ e.id = IF p.hasId THEN <<"pulse", p.name>> ELSE None
      /\ rid = RelayId(i, h, p.name)
      /\ \A q \in Pulse, j \in Instance, g \in Handler : e.id # RelayId(j, g, q.name)
      /\ rid \in EventId
  <2>1. e.id = IF p.hasId THEN <<"pulse", p.name>> ELSE None
    BY <1>2, <1>4, PulseFacts
  <2>2. \A q \in Pulse, j \in Instance, g \in Handler : e.id # RelayId(j, g, q.name)
    BY <1>2, <1>4, PulseFacts
  <2>3. rid = RelayId(i, h, p.name) /\ rid \in EventId
    BY <1>2, <1>4, IdFacts
  <2>. QED  BY <2>1, <2>2, <2>3
<1>6. /\ seen' \in [Instance -> SUBSET EventId] /\ forgotten' \in [Instance -> SUBSET EventId]
      /\ \A k \in Instance : k # i => seen'[k] = seen[k] /\ forgotten'[k] = forgotten[k]
      /\ forgotten[i] \subseteq forgotten'[i]
      /\ seen'[i] \subseteq seen[i] \cup ({e.id} \ {None}) \cup {rid}
      /\ seen[i] \ {None} \subseteq seen'[i] \cup forgotten'[i]
      /\ rid \in seen'[i]
  <2>1. {rid} \in SUBSET EventId
    BY <1>5
  <2> HIDE DEF rid
  <2>2. HistoryOK
    OBVIOUS
  <2>. QED  BY <1>1, <2>1, <2>2, RememberIs
\* In other instances nothing is new; here only the id of the pulse and of its relay.
<1>7. ASSUME NEW q \in Pulse, NEW j \in Instance, NEW g \in Handler, NEW k \in Instance, k # j,
             RelayId(j, g, q.name) \notin seen[k]
      PROVE  RelayId(j, g, q.name) \notin seen'[k]
  <2>1. RelayId(j, g, q.name) # e.id
    BY <1>5
  <2>2. k = i => RelayId(j, g, q.name) # rid
    BY <1>5, <1>7, IdFacts
  <2>. QED  BY <1>6, <1>7, <2>1, <2>2
<1>8. /\ \A k \in Instance : Copies(k)' \subseteq Copies(k)
      /\ Poked' \subseteq Poked /\ pokes' \subseteq pokes
      /\ \A n : \A k \in Instance : HasGot(k, n)' <=> HasGot(k, n)
  BY <1>1, LessMail DEF Took, HasGot
<1>9. \A q \in Pulse, j \in Instance, g \in Handler : Unused(j, g, q.name) => Unused(j, g, q.name)'
  BY <1>7, <1>8 DEF Unused, RelayId
<1>10. /\ work'[i][h] = [at |-> "relay", event |-> e, to |-> here]
       /\ \A j \in Instance, g \in Handler : j # i \/ g # h => work'[j][g] = work[j][g]
  BY <1>1, <1>2 DEF Await
<1>11. /\ \A n : \A j \in Instance, g \in Handler :
            Relaying(j, g, n)' => Relaying(j, g, n) \/ (j = i /\ g = h /\ n = p.name)
       /\ Relaying(i, h, p.name)'
  BY <1>4, <1>10 DEF Relaying
<1> HIDE DEF rid, here
<1>12. \A q \in Pulse : BroadcastEvent(q)' = BroadcastEvent(q)
  BY DEF BroadcastEvent
<1>13. ASSUME NEW q \in Pulse, q.name = p.name
       PROVE  q = p
  BY <1>2, <1>13, DispatcherAssumption
<1>14. Origin'
  <2>1. \A j \in Instance, g \in Handler : work'[j][g].at = "relay" =>
          \E q \in published : /\ q.from = "client" /\ q.targets # {}
                               /\ work'[j][g].event = BroadcastEvent(q)
    BY <1>4, <1>10 DEF Origin
  <2>. QED  BY <1>1, <2>1, OriginStays
<1>15. Unheard'
  <2> SUFFICES ASSUME NEW q \in Pulse \ published
               PROVE  /\ \A k \in Instance : ~HasGot(k, q.name)' /\ <<"pulse", q.name>> \notin seen'[k]
                      /\ \A j \in Instance, g \in Handler : Unused(j, g, q.name)'
    BY <1>1 DEF Unheard
  <2>1. q.name # p.name
    BY <1>13
  <2>2. <<"pulse", q.name>> # e.id \/ e.id = None
    BY <1>5, <2>1
  <2>3. <<"pulse", q.name>> # rid
    BY <1>5, IdFacts
  <2>. QED  BY <1>6, <1>8, <1>9, <2>2, <2>3 DEF Unheard
\* What h relays has not been relayed.
<1>16. Unused(i, h, p.name)
  BY <1>2, <1>3, <1>4 DEF TakenOf, Poked, RelaysOnce
<1>17. RelaysOnce'
  <2>1. ASSUME NEW q \in Pulse, NEW j \in Instance, BroadcastEvent(q) \in pokes'
        PROVE  Unused(j, "http", q.name)' /\ ~Relaying(j, "http", q.name)'
    <3>1. Unused(j, "http", q.name) /\ ~Relaying(j, "http", q.name)
      BY <1>8, <2>1 DEF RelaysOnce
    <3>2. ~(h = "http" /\ q.name = p.name)
      BY <1>3, <1>4, <1>13, <2>1 DEF TakenOf
    <3>. QED  BY <1>9, <1>11, <3>1, <3>2 DEF Handler
  <2>2. ASSUME NEW q \in Pulse, NEW j \in Instance, BroadcastEvent(q) \in Copies(j)'
        PROVE  Unused(j, "pubsub", q.name)' /\ ~Relaying(j, "pubsub", q.name)'
    <3>1. Unused(j, "pubsub", q.name) /\ ~Relaying(j, "pubsub", q.name)
      BY <1>8, <2>2 DEF RelaysOnce
    <3>2. ~(j = i /\ h = "pubsub" /\ q.name = p.name)
      <4>1. Same(e, e)
        BY <1>1 DEF Same
      <4>. QED  BY <1>3, <1>4, <1>13, <2>2, <4>1 DEF TakenOf
    <3>. QED  BY <1>9, <1>11, <3>1, <3>2 DEF Handler
  <2>3. ASSUME NEW q \in Pulse, NEW j \in Instance, NEW g \in Handler, Relaying(j, g, q.name)'
        PROVE  Unused(j, g, q.name)' /\ RelayId(j, g, q.name) \in seen'[j] \cup forgotten'[j]
    <3>1. CASE Relaying(j, g, q.name)
      <4>1. Unused(j, g, q.name) /\ RelayId(j, g, q.name) \in seen[j] \cup forgotten[j]
        BY <3>1 DEF RelaysOnce
      <4>2. RelayId(j, g, q.name) # None
        BY DispatcherAssumption
      <4>. QED  BY <1>6, <1>9, <4>1, <4>2
    <3>2. CASE j = i /\ g = h /\ q.name = p.name
      BY <1>5, <1>6, <1>9, <1>16, <3>2
    <3>. QED  BY <1>11, <2>3, <3>1, <3>2
  <2>4. ASSUME NEW q \in Pulse, NEW j \in Instance, NEW g \in Handler, NEW k \in Instance,
               NEW f \in Copies(k)', f.id = RelayId(j, g, q.name)
        PROVE  IF k = j THEN f.id \in seen'[k] \cup forgotten'[k] ELSE f.id \notin seen'[k]
    <3>1. f \in Copies(k) /\ f.id # None
      BY <1>8, <2>4, DispatcherAssumption
    <3>2. IF k = j THEN f.id \in seen[k] \cup forgotten[k] ELSE f.id \notin seen[k]
      BY <2>4, <3>1 DEF RelaysOnce
    <3>. QED  BY <1>6, <1>7, <2>4, <3>1, <3>2
  <2>. QED  BY <1>12, <2>1, <2>2, <2>3, <2>4 DEF RelaysOnce, RelayId
<1>18. PulseIsNew'
  <2> SUFFICES ASSUME NEW q \in Pulse, NEW k \in Instance, q.from # "client",
                      BroadcastEvent(q) \in Copies(k)'
               PROVE  <<"pulse", q.name>> \notin seen'[k] /\ ~HasGot(k, q.name)'
    BY <1>12 DEF PulseIsNew
  <2>1. <<"pulse", q.name>> \notin seen[k] /\ ~HasGot(k, q.name)
    BY <1>8 DEF PulseIsNew
  <2>2. q.name # p.name
    BY <1>4, <1>13
  <2>3. <<"pulse", q.name>> # e.id \/ e.id = None
    BY <1>5, <2>2
  <2>4. <<"pulse", q.name>> # rid
    BY <1>5, IdFacts
  <2>. QED  BY <1>6, <1>8, <2>1, <2>3, <2>4
<1>19. p.name \notin spread =>
         /\ Untouched(p) /\ BroadcastEvent(p) \notin pokes'
         /\ \A j \in Instance, g \in Handler : ~Relaying(j, g, p.name)
  <2> SUFFICES ASSUME p.name \notin spread
               PROVE  /\ Untouched(p) /\ BroadcastEvent(p) \notin pokes'
                      /\ \A j \in Instance, g \in Handler : ~Relaying(j, g, p.name)
    OBVIOUS
  <2>1. ~e.relayed
    BY DEF Relays
  <2>2. e \in Poked /\ e \notin pokes'
    BY <1>3, <1>4, <2>1 DEF TakenOf, Original, RelayOf
  <2>. QED  BY <1>4, <2>2 DEF InOnePlace, Poked
<1>20. InOnePlace'
  <2>1. \A q \in Pulse : Untouched(q) => Untouched(q)'
    BY <1>8 DEF Untouched
  <2> SUFFICES ASSUME NEW q \in published, q.from = "client", q.name \notin spread
               PROVE  /\ BroadcastEvent(q) \in pokes' =>
                           Untouched(q)' /\ \A j \in Instance, g \in Handler : ~Relaying(j, g, q.name)'
                      /\ \A j \in Instance, g \in Handler : Relaying(j, g, q.name)' =>
                           /\ Untouched(q)'
                           /\ \A k \in Instance, f \in Handler : Relaying(k, f, q.name)' => k = j /\ f = g
                      /\ \A k, l \in Instance : \A a \in Copies(k)', b \in Copies(l)' :
                           a.name = q.name /\ b.name = q.name => a.id = b.id
    BY <1>1, <1>2, <1>12 DEF InOnePlace
  <2>2. CASE q = p
    BY <1>8, <1>11, <1>19, <2>1, <2>2 DEF Untouched
  <2>3. CASE q # p
    <3>1. q.name # p.name
      BY <1>2, <1>13, <2>3
    <3>. QED  BY <1>2, <1>8, <1>11, <2>1, <3>1 DEF InOnePlace
  <2>. QED  BY <2>2, <2>3
<1>21. Handled'
  <2>1. ASSUME NEW k \in Instance, NEW f \in Copies(k)' \cup Poked', HasGot(k, f.name)'
        PROVE  Known(k, f)' \/ Excused(k, f.name)'
    BY <1>1, <1>6, <1>8, <2>1, HandledStays
  <2>2. ASSUME NEW k \in Instance, NEW g \in Handler, NEW q \in Pulse, Relaying(k, g, q.name)',
               HasGot(k, q.name)'
        PROVE  Excused(k, q.name)'
    <3>1. Excused(k, q.name)
      <4>1. CASE Relaying(k, g, q.name)
        BY <1>8, <2>2, <4>1 DEF Handled
      <4>2. CASE k = i /\ q.name = p.name
        <5>1. e \in Copies(i) \cup Poked
          BY <1>3 DEF TakenOf
        <5>2. ~Known(i, e)
          BY DEF Known, Duplicate
        <5>. QED  BY <1>4, <1>8, <2>2, <4>2, <5>1, <5>2 DEF Handled
      <4>. QED  BY <1>11, <2>2, <4>1, <4>2
    <3>. QED  BY <1>1, <1>6, <3>1, ExcusedStays
  <2>. QED  BY <2>1, <2>2 DEF Handled
<1>22. ActsOnce'
  BY <1>1, <1>8 DEF ActsOnce, ActionEvent
<1>23. NotTwice'
  BY <1>1, <1>6, ExcusedStays, NamedStays DEF NotTwice
<1>24. HistoryOK'
  BY <1>1, <1>6 DEF HistoryOK
<1>. QED  BY <1>14, <1>15, <1>17, <1>18, <1>20, <1>21, <1>22, <1>23, <1>24

\* The sessions it means are run at once.
LEMMA TriggeringCopies ==
  ASSUME Inv, CopiesInv, NEW i \in Instance, NEW h \in Handler, NEW e \in Event,
         HandleBroadcast(i, h, e), Took(i, h, e), OnceInMail', UNCHANGED asked,
         ~Duplicate(i, e), ~Relays(e, Matched(i, e))
  PROVE  CopiesInv'
<1> USE DEF CopiesInv, PulsesOnly
<1> DEFINE T == Matched(i, e)
<1>1. /\ UNCHANGED <<published, spread, acted, work>> /\ e.type = "broadcast"
      /\ Remember(i, e, {}) /\ Trigger(i, T, e)
  BY DEF HandleBroadcast, Marked, asked
<1>2. published \subseteq Pulse /\ T \in SUBSET Session
  BY MatchedAre DEF Inv, TypeOK, WireOK
<1>3. PICK p \in published : TakenOf(i, h, e, p)
  BY <1>1, TakenBroadcast
<1>4. e.name = p.name /\ e.name \in Name /\ HistoryOK
  BY <1>2, <1>3 DEF TakenOf, Name
<1> HIDE DEF T
<1>5. /\ got' \in [Instance -> SUBSET (Session \X Name)]
      /\ twice' \in [Instance -> SUBSET (Session \X Name)]
      /\ \A k \in Instance : k # i => got'[k] = got[k] /\ twice'[k] = twice[k]
      /\ got'[i] = got[i] \cup {<<s, e.name>> : s \in T}
      /\ \A t \in twice'[i] \ twice[i] :
           /\ t \in got[i] \/ t[1] \in Repeated(e)
           /\ \E s \in T : t = <<s, e.name>>
  BY <1>1, <1>2, <1>4, TriggerIs, ZenonT(40)
<1>6. \A n : \A k \in Instance : HasGot(k, n)' => HasGot(k, n) \/ (k = i /\ n = p.name)
  <2>1. \A n : \A k \in Instance : HasGot(k, n)' => HasGot(k, n) \/ (k = i /\ n = e.name)
    BY <1>1, <1>2, <1>4, TriggerGot
  <2>. QED  BY <1>4, <2>1
<1>7. /\ seen' \in [Instance -> SUBSET EventId] /\ forgotten' \in [Instance -> SUBSET EventId]
      /\ \A k \in Instance : k # i => seen'[k] = seen[k] /\ forgotten'[k] = forgotten[k]
      /\ forgotten[i] \subseteq forgotten'[i]
      /\ seen'[i] \subseteq seen[i] \cup ({e.id} \ {None})
      /\ seen[i] \ {None} \subseteq seen'[i] \cup forgotten'[i]
      /\ e.id \in seen'[i] \cup forgotten'[i] \cup {None}
  <2>1. {} \in SUBSET EventId
    OBVIOUS
  <2>2. /\ seen' \in [Instance -> SUBSET EventId] /\ forgotten' \in [Instance -> SUBSET EventId]
        /\ \A k \in Instance : k # i => seen'[k] = seen[k] /\ forgotten'[k] = forgotten[k]
        /\ forgotten[i] \subseteq forgotten'[i]
        /\ seen'[i] \subseteq seen[i] \cup ({e.id} \ {None}) \cup {}
        /\ seen[i] \ {None} \subseteq seen'[i] \cup forgotten'[i]
        /\ e.id \in seen'[i] \cup forgotten'[i] \cup {None}
    BY <1>1, <1>4, <2>1, RememberIs
  <2>. QED  BY <2>2
<1>8. /\ \A k \in Instance : Copies(k)' \subseteq Copies(k)
      /\ Poked' \subseteq Poked /\ pokes' \subseteq pokes
      /\ \A n : \A j \in Instance, g \in Handler : Relaying(j, g, n)' <=> Relaying(j, g, n)
  BY <1>1, LessMail DEF Took, Relaying
\* The event is one of its pulse: itself, or what was relayed of it.
<1>9. \/ e = BroadcastEvent(p) /\ e.id = IF p.hasId THEN <<"pulse", p.name>> ELSE None
      \/ /\ h = "pubsub" /\ p.from = "client" /\ p.targets # {}
         /\ \E j \in Instance, g \in Handler : RelayOf(e, p, j, g) /\ e.id = RelayId(j, g, p.name)
  <2>1. p \in Pulse
    BY <1>2
  <2>. QED  BY <1>3, <2>1, PulseFacts DEF TakenOf, Original, RelayOf
<1>10. \/ h = "http" /\ e = BroadcastEvent(p) /\ e \in Poked /\ e \notin pokes' /\ p.from = "client"
       \/ h = "pubsub" /\ e \in Copies(i) /\ \A f \in Copies(i)' : ~Same(f, e)
  BY <1>3 DEF TakenOf
<1>11. \A q \in Pulse : q.name = p.name => q = p
  BY <1>2, DispatcherAssumption
<1>12. \A q \in Pulse : BroadcastEvent(q)' = BroadcastEvent(q)
  BY DEF BroadcastEvent
\* Nothing of a pulse of the simulator is left here, once it is handled here.
<1>13. BroadcastEvent(p) \in Copies(i)' => p.from = "client"
  <2> SUFFICES ASSUME BroadcastEvent(p) \in Copies(i)', p.from # "client" PROVE FALSE
    OBVIOUS
  <2>1. e = BroadcastEvent(p) /\ \A f \in Copies(i)' : ~Same(f, e)
    BY <1>9, <1>10
  <2>2. Same(e, e)
    BY <1>1 DEF Same
  <2>. QED  BY <2>1, <2>2
\* The id of a relay that is unused is not the one taken.
<1>14. \A q \in Pulse, j \in Instance, g \in Handler : Unused(j, g, q.name) => e.id # RelayId(j, g, q.name)
  <2> SUFFICES ASSUME NEW q \in Pulse, NEW j \in Instance, NEW g \in Handler,
                      Unused(j, g, q.name), e.id = RelayId(j, g, q.name)
               PROVE  FALSE
    OBVIOUS
  <2>1. CASE e = BroadcastEvent(p)
    BY <1>2, <2>1, PulseFacts
  <2>2. CASE e # BroadcastEvent(p)
    BY <1>9, <1>10, <2>2 DEF Unused
  <2>. QED  BY <2>1, <2>2
<1>15. \A q \in Pulse, j \in Instance, g \in Handler : Unused(j, g, q.name) => Unused(j, g, q.name)'
  BY <1>7, <1>8, <1>14, ZenonT(40) DEF Unused, RelayId
<1>16. Origin'
  BY <1>1, OriginStays DEF Origin
<1>17. \A q \in Pulse : q.name # p.name => <<"pulse", q.name>> # e.id \/ e.id = None
  <2> SUFFICES ASSUME NEW q \in Pulse, q.name # p.name, e.id # None PROVE <<"pulse", q.name>> # e.id
    OBVIOUS
  <2>1. \A j, g : <<"pulse", q.name>> # RelayId(j, g, p.name)
    BY IdFacts
  <2>. QED  BY <1>9, <2>1
<1>18. Unheard'
  <2> SUFFICES ASSUME NEW q \in Pulse \ published
               PROVE  /\ \A k \in Instance : ~HasGot(k, q.name)' /\ <<"pulse", q.name>> \notin seen'[k]
                      /\ \A j \in Instance, g \in Handler : Unused(j, g, q.name)'
    BY <1>1 DEF Unheard
  <2>1. q.name # p.name
    BY <1>11
  <2>. QED  BY <1>6, <1>7, <1>15, <1>17, <2>1 DEF Unheard
<1>19. RelaysOnce'
  <2>1. ASSUME NEW q \in Pulse, NEW j \in Instance, BroadcastEvent(q) \in pokes'
        PROVE  Unused(j, "http", q.name)' /\ ~Relaying(j, "http", q.name)'
    BY <1>8, <1>15, <2>1 DEF RelaysOnce, Handler
  <2>2. ASSUME NEW q \in Pulse, NEW j \in Instance, BroadcastEvent(q) \in Copies(j)'
        PROVE  Unused(j, "pubsub", q.name)' /\ ~Relaying(j, "pubsub", q.name)'
    BY <1>8, <1>15, <2>2 DEF RelaysOnce, Handler
  <2>3. ASSUME NEW q \in Pulse, NEW j \in Instance, NEW g \in Handler, Relaying(j, g, q.name)'
        PROVE  Unused(j, g, q.name)' /\ RelayId(j, g, q.name) \in seen'[j] \cup forgotten'[j]
    <3>1. Unused(j, g, q.name) /\ RelayId(j, g, q.name) \in seen[j] \cup forgotten[j]
      BY <1>8, <2>3 DEF RelaysOnce
    <3>2. RelayId(j, g, q.name) # None
      BY DispatcherAssumption
    <3>. QED  BY <1>7, <1>15, <3>1, <3>2
  <2>4. ASSUME NEW q \in Pulse, NEW j \in Instance, NEW g \in Handler, NEW k \in Instance,
               NEW f \in Copies(k)', f.id = RelayId(j, g, q.name)
        PROVE  IF k = j THEN f.id \in seen'[k] \cup forgotten'[k] ELSE f.id \notin seen'[k]
    <3>1. f \in Copies(k) /\ f.id # None
      BY <1>8, <2>4, DispatcherAssumption
    <3>2. IF k = j THEN f.id \in seen[k] \cup forgotten[k] ELSE f.id \notin seen[k]
      BY <2>4, <3>1 DEF RelaysOnce
    <3>3. k = i => f.id # e.id
      <4> SUFFICES ASSUME k = i, f.id = e.id PROVE FALSE
        OBVIOUS
      <4>1. e # BroadcastEvent(p)
        BY <1>2, <2>4, PulsesAreNoRelays
      <4>2. e \in Copies(i) /\ ~Same(f, e) /\ e.relayed
        BY <1>9, <1>10, <2>4, <4>1 DEF RelayOf
      <4>3. PICK r \in published : Original(f, r) \/ \E a \in Instance, b \in Handler : RelayOf(f, r, a, b)
        BY <3>1 DEF Origin, Sent
      <4>4. ~Original(f, r)
        BY <1>2, <2>4, PulsesAreNoRelays DEF Original
      <4>5. f.relayed /\ f.name = e.name
        BY <1>9, <4>1, <4>3, <4>4, IdFacts DEF RelayOf
      <4>. QED  BY <1>1, <3>1, <4>2, <4>5 DEF Same, Copies
    <3>. QED  BY <1>7, <3>1, <3>2, <3>3
  <2>. QED  BY <1>12, <2>1, <2>2, <2>3, <2>4 DEF RelaysOnce, RelayId
<1>20. PulseIsNew'
  <2> SUFFICES ASSUME NEW q \in Pulse, NEW k \in Instance, q.from # "client",
                      BroadcastEvent(q) \in Copies(k)'
               PROVE  <<"pulse", q.name>> \notin seen'[k] /\ ~HasGot(k, q.name)'
    BY <1>12 DEF PulseIsNew
  <2>1. <<"pulse", q.name>> \notin seen[k] /\ ~HasGot(k, q.name)
    BY <1>8 DEF PulseIsNew
  <2>2. k = i => q.name # p.name
    BY <1>11, <1>13
  <2>. QED  BY <1>6, <1>7, <1>17, <2>1, <2>2
\* Of a pulse that was poked only nothing was left but what was taken, or its relays.
<1>21. p.from = "client" /\ p.name \notin spread =>
         /\ BroadcastEvent(p) \notin pokes'
         /\ \A j \in Instance, g \in Handler : ~Relaying(j, g, p.name)
         /\ \A f \in Copies(i)' : f.name # p.name
  <2> SUFFICES ASSUME p.from = "client", p.name \notin spread
               PROVE  /\ BroadcastEvent(p) \notin pokes'
                      /\ \A j \in Instance, g \in Handler : ~Relaying(j, g, p.name)
                      /\ \A f \in Copies(i)' : f.name # p.name
    OBVIOUS
  <2>1. CASE h = "http"
    <3>1. e = BroadcastEvent(p) /\ e \in pokes /\ e \notin pokes'
      BY <1>10, <2>1 DEF Poked
    <3>. QED  BY <1>8, <3>1 DEF InOnePlace, Untouched
  <2>2. CASE h # "http"
    <3>1. e \in Copies(i) /\ \A f \in Copies(i)' : ~Same(f, e)
      BY <1>10, <2>2
    <3>2. \E j \in Instance, g \in Handler : RelayOf(e, p, j, g)
      BY <1>3, <2>2 DEF TakenOf, Original
    <3>3. ~Untouched(p)
      BY <1>4, <3>1 DEF Untouched
    <3>4. ASSUME NEW f \in Copies(i)', f.name = p.name
          PROVE  FALSE
      <4>1. f \in Copies(i) /\ f.id = e.id
        BY <1>4, <1>8, <3>1, <3>4 DEF InOnePlace
      <4>2. PICK r \in published : Original(f, r) \/ \E a \in Instance, b \in Handler : RelayOf(f, r, a, b)
        BY <4>1 DEF Origin, Sent
      <4>3. ~Original(f, r)
        <5>1. \E j \in Instance, g \in Handler : f.id = RelayId(j, g, p.name)
          BY <3>2, <4>1 DEF RelayOf
        <5>. QED  BY <1>2, <5>1, PulsesAreNoRelays DEF Original
      <4>4. f.relayed /\ e.relayed
        BY <3>2, <4>2, <4>3 DEF RelayOf
      <4>. QED  BY <1>1, <1>4, <3>1, <3>4, <4>1, <4>4 DEF Same, Copies
    <3>. QED  BY <1>8, <3>3, <3>4 DEF InOnePlace
  <2>. QED  BY <2>1, <2>2
<1>22. InOnePlace'
  <2> SUFFICES ASSUME NEW q \in published, q.from = "client", q.name \notin spread
               PROVE  /\ BroadcastEvent(q) \in pokes' =>
                           Untouched(q)' /\ \A j \in Instance, g \in Handler : ~Relaying(j, g, q.name)'
                      /\ \A j \in Instance, g \in Handler : Relaying(j, g, q.name)' =>
                           /\ Untouched(q)'
                           /\ \A k \in Instance, f \in Handler : Relaying(k, f, q.name)' => k = j /\ f = g
                      /\ \A k, l \in Instance : \A a \in Copies(k)', b \in Copies(l)' :
                           a.name = q.name /\ b.name = q.name => a.id = b.id
    BY <1>1, <1>2, <1>12 DEF InOnePlace
  <2>1. CASE q = p
    BY <1>8, <1>21, <2>1 DEF InOnePlace
  <2>2. CASE q # p
    <3>1. q.name # p.name
      BY <1>2, <1>11, <2>2
    <3>2. Untouched(q) => Untouched(q)'
      BY <1>6, <1>8, <3>1 DEF Untouched
    <3>. QED  BY <1>2, <1>8, <3>1, <3>2 DEF InOnePlace
  <2>. QED  BY <2>1, <2>2
<1>23. \A n : \A k \in Instance : Excused(k, n) => Excused(k, n)'
  BY <1>1, <1>7, ExcusedStays
<1>24. Handled'
  <2>1. ASSUME NEW k \in Instance, NEW f \in Copies(k)' \cup Poked', HasGot(k, f.name)'
        PROVE  Known(k, f)' \/ Excused(k, f.name)'
    <3>1. f \in Copies(k) \cup Poked
      BY <1>8
    <3>2. CASE HasGot(k, f.name)
      BY <1>1, <1>7, <3>1, <3>2, HandledStays
    <3>3. CASE k = i /\ f.name = p.name
      <4>1. CASE p.from # "client"
        <5>1. f \notin Poked
          BY <1>11, <3>3, <4>1 DEF Origin, BroadcastEvent, Inv, TypeOK, WireOK
        <5>2. PICK r \in published : Original(f, r) \/ \E a \in Instance, b \in Handler : RelayOf(f, r, a, b)
          BY <3>1, <5>1 DEF Origin, Sent
        <5>3. r.name = f.name
          BY <5>2 DEF Original, RelayOf, BroadcastEvent
        <5>4. f = BroadcastEvent(p)
          BY <1>2, <1>11, <3>3, <4>1, <5>2, <5>3 DEF Original, RelayOf
        <5>. QED  BY <1>8, <1>13, <2>1, <3>3, <4>1, <5>1, <5>4
      <4>2. CASE p.from = "client" /\ p.name \in spread /\ (~p.hasId \/ p.targets # {})
        BY <1>1, <3>3, <4>2 DEF Excused
      <4>3. CASE p.from = "client" /\ p.hasId /\ p.targets = {}
        <5>1. \E r \in published : r.name = f.name /\ (f = BroadcastEvent(r) \/ r.targets # {})
          BY <3>1 DEF Origin, Sent, Original, RelayOf, BroadcastEvent
        <5>2. f = BroadcastEvent(p)
          BY <1>2, <1>11, <3>3, <4>3, <5>1
        <5>3. e = BroadcastEvent(p) /\ e.id = <<"pulse", p.name>>
          BY <1>9, <4>3
        <5>4. f.id \in seen'[i] \cup forgotten'[i] /\ f.id # None
          BY <1>2, <1>7, <5>2, <5>3, DispatcherAssumption
        <5>5. f.id \in IdsOf(i, f.name)'
          BY <3>3, <5>2, <5>3 DEF IdsOf
        <5>. QED  BY <3>3, <5>4, <5>5 DEF Known, Excused
      <4>4. CASE p.from = "client" /\ p.name \notin spread
        <5>1. f \in Poked'
          BY <1>21, <2>1, <3>3, <4>4
        <5>2. f = BroadcastEvent(p)
          BY <1>2, <1>8, <1>11, <3>3, <5>1 DEF Origin, BroadcastEvent
        <5>. QED  BY <1>21, <4>4, <5>1, <5>2 DEF Poked
      <4>. QED  BY <4>1, <4>2, <4>3, <4>4
    <3>. QED  BY <1>6, <2>1, <3>2, <3>3
  <2>2. ASSUME NEW k \in Instance, NEW g \in Handler, NEW q \in Pulse, Relaying(k, g, q.name)',
               HasGot(k, q.name)'
        PROVE  Excused(k, q.name)'
    <3>1. CASE HasGot(k, q.name)
      BY <1>8, <1>23, <2>2, <3>1 DEF Handled
    <3>2. CASE k = i /\ q.name = p.name
      <4>1. Relaying(k, g, p.name)
        BY <1>8, <2>2, <3>2
      <4>2. p.from = "client" /\ p.targets # {}
        <5>1. PICK r \in published : r.from = "client" /\ r.targets # {} /\ work[k][g].event = BroadcastEvent(r)
          BY <4>1 DEF Origin, Relaying
        <5>2. r.name = p.name
          BY <4>1, <5>1 DEF Relaying, BroadcastEvent
        <5>. QED  BY <1>2, <1>11, <5>1, <5>2
      <4>. QED  BY <1>1, <1>21, <3>2, <4>1, <4>2 DEF Excused
    <3>. QED  BY <1>6, <2>2, <3>1, <3>2
  <2>. QED  BY <2>1, <2>2 DEF Handled
<1>25. ActsOnce'
  <2>1. \A s \in Session, k \in Instance : <<s, "action">> \in got'[k] => <<s, "action">> \in got[k]
    <3>1. e.name # "action"
      BY <1>2, <1>4, DispatcherAssumption
    <3>2. \A t \in {<<s, e.name>> : s \in T} : t[2] = e.name
      OBVIOUS
    <3>. QED  BY <1>5, <3>1, <3>2
  <2>. QED  BY <1>1, <1>8, <2>1 DEF ActsOnce, ActionEvent
<1>26. NotTwice'
  <2> SUFFICES ASSUME NEW k \in Instance, NEW t \in twice'[k]
               PROVE  Excused(k, t[2])' \/ NamedTwice(t)'
    BY DEF NotTwice
  <2>1. CASE t \in twice[k]
    BY <1>1, <1>23, <2>1, NamedStays DEF NotTwice
  <2>2. CASE k = i /\ t \notin twice[i]
    <3>1. /\ t \in got[i] \/ t[1] \in Repeated(e)
          /\ \E s \in T : t = <<s, e.name>>
      BY <1>5, <2>2
    <3>2. t[2] = e.name
      BY <3>1
    <3>3. CASE t \in got[i]
      <4>1. HasGot(i, e.name)
        BY <1>2, <3>1, <3>3 DEF HasGot
      <4>2. e \in Copies(i) \cup Poked /\ ~Known(i, e)
        BY <1>10 DEF Known, Duplicate
      <4>. QED  BY <1>23, <2>2, <3>2, <4>1, <4>2 DEF Handled
    <3>4. CASE t[1] \in Repeated(e)
      <4>1. e = BroadcastEvent(p)
        BY <1>9, <3>4 DEF RelayOf
      <4>. QED  BY <1>1, <1>4, <3>2, <3>4, <4>1 DEF NamedTwice
    <3>. QED  BY <3>1, <3>3, <3>4
  <2>. QED  BY <1>5, <2>1, <2>2
<1>27. HistoryOK'
  BY <1>5, <1>7 DEF HistoryOK
<1>. QED  BY <1>16, <1>18, <1>19, <1>20, <1>22, <1>24, <1>25, <1>26, <1>27

\* The relay is published, or failed, and the sessions chosen before are run.
LEMMA RelayedCopies ==
  ASSUME Inv, CopiesInv, NEW i \in Instance, NEW h \in Handler, Relayed(i, h)
  PROVE  CopiesInv'
<1> USE DEF CopiesInv, PulsesOnly
<1> DEFINE w == work[i][h]
           r == Relay(i, h, w.event, w.event.targets \ w.to)
<1>1. /\ UNCHANGED <<published, spread, acted, seen, forgotten, pokes>>
      /\ w.at = "relay" /\ Trigger(i, w.to, w.event) /\ Await(i, h, Idle)
      /\ Publish(ChannelOf(w.event), r) \/ UNCHANGED mail
  BY DEF Relayed, asked, sessions
<1>2. /\ published \subseteq Pulse /\ work \in [Instance -> [Handler -> Awaited]]
      /\ mail \in [Instance -> Seq(Event)]
  BY DEF Inv, TypeOK, WireOK, SessionsOK
<1>3. w.event \in BroadcastEvents /\ w.to \in SUBSET Session
  <2>1. w \in Awaited
    BY <1>2
  <2>. QED  BY <1>1, <2>1 DEF Awaited
<1>4. PICK p \in published : p.from = "client" /\ p.targets # {} /\ w.event = BroadcastEvent(p)
  BY <1>1 DEF Origin
<1>5. w.event.name = p.name /\ w.event.name \in Name /\ HistoryOK /\ Relaying(i, h, p.name)
  BY <1>1, <1>2, <1>4 DEF BroadcastEvent, Name, Relaying
<1>6. /\ r \in Event /\ r.type = "broadcast" /\ r.name = p.name /\ r.relayed
      /\ r.id = RelayId(i, h, p.name) /\ RelayOf(r, p, i, h)
  <2>1. r \in BroadcastEvents
    <3>1. w.event.targets \ w.to \in SUBSET (Session \cup {AgentType})
      BY <1>3 DEF BroadcastEvents
    <3>. QED  BY <1>3, <3>1, RelayIs
  <2>2. r.name = p.name /\ r.relayed /\ r.id = RelayId(i, h, p.name)
    BY <1>3, <1>5 DEF Relay, BroadcastEvents
  <2>3. Repeated(r) = {}
    <3>1. r.again = {}
      BY <1>3 DEF Relay, BroadcastEvents
    <3>. QED  BY <3>1 DEF Repeated
  <2>. QED  BY <1>4, <2>1, <2>2, <2>3 DEF RelayOf, Event, BroadcastEvents
<1>7. /\ got' \in [Instance -> SUBSET (Session \X Name)]
      /\ twice' \in [Instance -> SUBSET (Session \X Name)]
      /\ \A k \in Instance : k # i => got'[k] = got[k] /\ twice'[k] = twice[k]
      /\ got'[i] = got[i] \cup {<<s, p.name>> : s \in w.to}
      /\ \A t \in twice'[i] \ twice[i] :
           /\ t \in got[i] \/ t[1] \in Repeated(w.event)
           /\ \E s \in w.to : t = <<s, p.name>>
  <2>1. /\ got' \in [Instance -> SUBSET (Session \X Name)]
        /\ twice' \in [Instance -> SUBSET (Session \X Name)]
        /\ \A k \in Instance : k # i => got'[k] = got[k] /\ twice'[k] = twice[k]
        /\ got'[i] = got[i] \cup {<<s, w.event.name>> : s \in w.to}
        /\ \A t \in twice'[i] \ twice[i] :
             /\ t \in got[i] \/ t[1] \in Repeated(w.event)
             /\ \E s \in w.to : t = <<s, w.event.name>>
    <3> HIDE DEF r, w
    <3>1. HistoryOK /\ w.to \in SUBSET Session /\ w.event.name \in Name /\ Trigger(i, w.to, w.event)
      BY <1>1, <1>3, <1>5
    <3>2. ASSUME NEW T, NEW e, T = w.to, e = w.event
          PROVE  /\ got' \in [Instance -> SUBSET (Session \X Name)]
                 /\ twice' \in [Instance -> SUBSET (Session \X Name)]
                 /\ \A k \in Instance : k # i => got'[k] = got[k] /\ twice'[k] = twice[k]
                 /\ got'[i] = got[i] \cup {<<s, e.name>> : s \in T}
                 /\ \A t \in twice'[i] \ twice[i] :
                      /\ t \in got[i] \/ t[1] \in Repeated(e)
                      /\ \E s \in T : t = <<s, e.name>>
      <4>1. T \in SUBSET Session /\ e.name \in Name /\ Trigger(i, T, e)
        BY <3>1, <3>2
      <4>. QED  BY <3>1, <4>1, TriggerIs, ZenonT(40)
    <3>. QED  BY <3>2
  <2>. QED  BY <1>5, <2>1
<1>8. \A n : \A k \in Instance : HasGot(k, n)' => HasGot(k, n) \/ (k = i /\ n = p.name)
  <2>1. \A n : \A k \in Instance : HasGot(k, n)' => HasGot(k, n) \/ (k = i /\ n = w.event.name)
    BY <1>1, <1>3, <1>5, TriggerGot
  <2>. QED  BY <1>5, <2>1
<1>9. /\ \A j \in Instance, g \in Handler : work'[j][g].at = "relay" =>
           work'[j][g] = work[j][g] /\ (j # i \/ g # h)
  BY <1>1, <1>2 DEF Await, Idle
<1>10. \A n : \A j \in Instance, g \in Handler : Relaying(j, g, n)' => Relaying(j, g, n) /\ (j # i \/ g # h)
  BY <1>9 DEF Relaying
<1> HIDE DEF r, w
\* A relay that was not made before, and known to its sender.
<1>11. Unused(i, h, p.name) /\ r.id \in seen[i] \cup forgotten[i]
  BY <1>2, <1>5, <1>6 DEF RelaysOnce
<1>12. /\ \A k \in Instance : Letters(k) \subseteq Letters(k)' /\ Letters(k)' \subseteq Letters(k) \cup {r}
       /\ OnceInMail'
  <2>1. \A k \in Instance : \A f \in Letters(k) : ~Same(r, f)
    BY <1>6, <1>11 DEF Same, Unused, Copies
  <2>2. CASE Publish(ChannelOf(w.event), r)
    BY <1>2, <1>6, <2>1, <2>2, PublishMail
  <2>3. CASE UNCHANGED mail
    BY <2>3, SameMail
  <2>. QED  BY <1>1, <2>2, <2>3
<1>13. /\ \A k \in Instance : Copies(k)' \subseteq Copies(k) \cup {r}
       /\ \A k \in Instance : Letters(k)' \ Copies(k)' \subseteq Letters(k) \ Copies(k)
       /\ Poked' = Poked
  BY <1>1, <1>6, <1>12 DEF Copies, Poked
<1>14. \A q \in Pulse : q.name = p.name => q = p
  BY <1>2, DispatcherAssumption
<1>15. \A q \in Pulse : BroadcastEvent(q)' = BroadcastEvent(q) /\ r # BroadcastEvent(q)
  BY <1>6 DEF BroadcastEvent
\* No other relay is touched.
<1>16. ASSUME NEW q \in Pulse, NEW j \in Instance, NEW g \in Handler, Unused(j, g, q.name),
              j # i \/ g # h \/ q.name # p.name
       PROVE  Unused(j, g, q.name)'
  <2>1. r.id # RelayId(j, g, q.name)
    BY <1>6, <1>16, IdFacts
  <2>. QED  BY <1>1, <1>13, <1>16, <2>1 DEF Unused, RelayId
<1>17. Origin'
  <2>1. \A f : Sent(f) => Sent(f)'
    BY <1>1 DEF Sent, Original, RelayOf
  <2>2. Sent(r)
    BY <1>6 DEF Sent
  <2>3. \A k \in Instance : \A f \in Copies(k)' : Sent(f)'
    BY <1>13, <2>1, <2>2 DEF Origin
  <2>4. \A k \in Instance : \A f \in Letters(k)' \ Copies(k)' :
          f.type # "a2ui_action" /\ f.id \notin PulseIds
    BY <1>13 DEF Origin
  <2>5. PulseIds' = PulseIds
    BY DEF PulseIds
  <2>. QED  BY <1>1, <1>9, <1>13, <2>3, <2>4, <2>5 DEF Origin, ActionEvent
<1>18. Unheard'
  <2> SUFFICES ASSUME NEW q \in Pulse \ published
               PROVE  /\ \A k \in Instance : ~HasGot(k, q.name)' /\ <<"pulse", q.name>> \notin seen'[k]
                      /\ \A j \in Instance, g \in Handler : Unused(j, g, q.name)'
    BY <1>1 DEF Unheard
  <2>1. q.name # p.name
    BY <1>14
  <2>. QED  BY <1>1, <1>8, <1>16, <2>1 DEF Unheard
<1>19. RelaysOnce'
  <2>1. ASSUME NEW q \in Pulse, NEW j \in Instance, BroadcastEvent(q) \in pokes'
        PROVE  Unused(j, "http", q.name)' /\ ~Relaying(j, "http", q.name)'
    <3>1. Unused(j, "http", q.name) /\ ~Relaying(j, "http", q.name)
      BY <1>1, <2>1 DEF RelaysOnce
    <3>2. j # i \/ h # "http" \/ q.name # p.name
      BY <1>5, <3>1
    <3>. QED  BY <1>10, <1>16, <3>1, <3>2 DEF Handler
  <2>2. ASSUME NEW q \in Pulse, NEW j \in Instance, BroadcastEvent(q) \in Copies(j)'
        PROVE  Unused(j, "pubsub", q.name)' /\ ~Relaying(j, "pubsub", q.name)'
    <3>1. Unused(j, "pubsub", q.name) /\ ~Relaying(j, "pubsub", q.name)
      BY <1>13, <1>15, <2>2 DEF RelaysOnce
    <3>2. j # i \/ h # "pubsub" \/ q.name # p.name
      BY <1>5, <3>1
    <3>. QED  BY <1>10, <1>16, <3>1, <3>2 DEF Handler
  <2>3. ASSUME NEW q \in Pulse, NEW j \in Instance, NEW g \in Handler, Relaying(j, g, q.name)'
        PROVE  Unused(j, g, q.name)' /\ RelayId(j, g, q.name) \in seen'[j] \cup forgotten'[j]
    <3>1. Relaying(j, g, q.name) /\ (j # i \/ g # h)
      BY <1>10, <2>3
    <3>. QED  BY <1>1, <1>16, <3>1 DEF RelaysOnce
  <2>4. ASSUME NEW q \in Pulse, NEW j \in Instance, NEW g \in Handler, NEW k \in Instance,
               NEW f \in Copies(k)', f.id = RelayId(j, g, q.name)
        PROVE  IF k = j THEN f.id \in seen'[k] \cup forgotten'[k] ELSE f.id \notin seen'[k]
    <3>1. CASE f \in Copies(k)
      BY <1>1, <2>4, <3>1 DEF RelaysOnce
    <3>2. CASE f = r
      <4>1. j = i
        BY <1>6, <2>4, <3>2, IdFacts
      <4>2. \A l \in Instance : l # i => r.id \notin seen[l]
        BY <1>6, <1>11 DEF Unused
      <4>. QED  BY <1>1, <1>11, <3>2, <4>1, <4>2
    <3>. QED  BY <1>13, <2>4, <3>1, <3>2
  <2>. QED  BY <1>15, <2>1, <2>2, <2>3, <2>4 DEF RelaysOnce, RelayId
<1>20. PulseIsNew'
  <2> SUFFICES ASSUME NEW q \in Pulse, NEW k \in Instance, q.from # "client",
                      BroadcastEvent(q) \in Copies(k)'
               PROVE  <<"pulse", q.name>> \notin seen'[k] /\ ~HasGot(k, q.name)'
    BY <1>15 DEF PulseIsNew
  <2>1. <<"pulse", q.name>> \notin seen[k] /\ ~HasGot(k, q.name)
    BY <1>13, <1>15 DEF PulseIsNew
  <2>2. q.name # p.name
    BY <1>4, <1>14
  <2>. QED  BY <1>1, <1>8, <2>1, <2>2
\* Of a pulse that was poked only this was all.
<1>21. p.name \notin spread =>
         /\ BroadcastEvent(p) \notin pokes
         /\ \A j \in Instance, g \in Handler : ~Relaying(j, g, p.name)'
         /\ \A k \in Instance : \A f \in Copies(k)' : f.name = p.name => f = r
         /\ \A k \in Instance : ~HasGot(k, p.name)
  <2> SUFFICES ASSUME p.name \notin spread
               PROVE  /\ BroadcastEvent(p) \notin pokes
                      /\ \A j \in Instance, g \in Handler : ~Relaying(j, g, p.name)'
                      /\ \A k \in Instance : \A f \in Copies(k)' : f.name = p.name => f = r
                      /\ \A k \in Instance : ~HasGot(k, p.name)
    OBVIOUS
  <2>1. /\ BroadcastEvent(p) \notin pokes /\ Untouched(p)
        /\ \A k \in Instance, g \in Handler : Relaying(k, g, p.name) => k = i /\ g = h
    BY <1>4, <1>5 DEF InOnePlace
  <2>. QED  BY <1>10, <1>13, <2>1 DEF Untouched
<1>22. InOnePlace'
  <2> SUFFICES ASSUME NEW q \in published, q.from = "client", q.name \notin spread
               PROVE  /\ BroadcastEvent(q) \in pokes' =>
                           Untouched(q)' /\ \A j \in Instance, g \in Handler : ~Relaying(j, g, q.name)'
                      /\ \A j \in Instance, g \in Handler : Relaying(j, g, q.name)' =>
                           /\ Untouched(q)'
                           /\ \A k \in Instance, f \in Handler : Relaying(k, f, q.name)' => k = j /\ f = g
                      /\ \A k, l \in Instance : \A a \in Copies(k)', b \in Copies(l)' :
                           a.name = q.name /\ b.name = q.name => a.id = b.id
    BY <1>1, <1>2, <1>15 DEF InOnePlace
  <2>1. CASE q = p
    BY <1>1, <1>21, <2>1
  <2>2. CASE q # p
    <3>1. q.name # p.name
      BY <1>2, <1>14, <2>2
    <3>2. Untouched(q) => Untouched(q)'
      BY <1>6, <1>8, <1>13, <3>1 DEF Untouched
    <3>. QED  BY <1>1, <1>6, <1>10, <1>13, <3>1, <3>2 DEF InOnePlace
  <2>. QED  BY <2>1, <2>2
<1>23. \A n : \A k \in Instance : Excused(k, n) => Excused(k, n)'
  BY <1>1, ExcusedStays
<1>24. p.name \in spread => \A k \in Instance : Excused(k, p.name)'
  BY <1>1, <1>4 DEF Excused
<1>25. Handled'
  <2>1. ASSUME NEW k \in Instance, NEW f \in Copies(k)' \cup Poked', HasGot(k, f.name)'
        PROVE  Known(k, f)' \/ Excused(k, f.name)'
    <3>1. CASE f \in Copies(k) \cup Poked /\ HasGot(k, f.name)
      BY <1>1, <3>1, HandledStays
    <3>2. CASE f.name = p.name /\ p.name \notin spread
      <4>1. f \notin Poked
        <5> SUFFICES ASSUME f \in Poked PROVE FALSE
          OBVIOUS
        <5>1. PICK q \in published : f = BroadcastEvent(q)
          BY DEF Origin
        <5>2. q.name = p.name
          BY <3>2, <5>1 DEF BroadcastEvent
        <5>3. q = p
          BY <1>2, <1>14, <5>2
        <5>. QED  BY <1>21, <3>2, <5>1, <5>3 DEF Poked
      <4>2. f = r
        BY <1>13, <1>21, <2>1, <3>2, <4>1
      <4>3. k = i
        BY <1>8, <1>21, <2>1, <3>2
      <4>4. r.id \in IdsOf(i, p.name)' /\ r.id # None
        BY <1>2, <1>6, DispatcherAssumption DEF IdsOf, RelayId
      <4>. QED  BY <1>1, <1>11, <3>2, <4>2, <4>3, <4>4 DEF Known, Excused
    <3>3. CASE f.name = p.name /\ p.name \in spread
      BY <1>24, <3>3
    <3>4. f.name # p.name => f \in Copies(k) \cup Poked /\ HasGot(k, f.name)
      BY <1>6, <1>8, <1>13, <2>1
    <3>. QED  BY <3>1, <3>2, <3>3, <3>4
  <2>2. ASSUME NEW k \in Instance, NEW g \in Handler, NEW q \in Pulse, Relaying(k, g, q.name)',
               HasGot(k, q.name)'
        PROVE  Excused(k, q.name)'
    <3>1. CASE HasGot(k, q.name)
      BY <1>10, <1>23, <2>2, <3>1 DEF Handled
    <3>2. CASE q.name = p.name
      BY <1>21, <1>24, <2>2, <3>2
    <3>. QED  BY <1>8, <2>2, <3>1, <3>2
  <2>. QED  BY <2>1, <2>2 DEF Handled
<1>26. ActsOnce'
  <2>1. \A s \in Session, k \in Instance : <<s, "action">> \in got'[k] => <<s, "action">> \in got[k]
    <3>1. p.name # "action"
      BY <1>2, DispatcherAssumption
    <3>2. \A t \in {<<s, p.name>> : s \in w.to} : t[2] = p.name
      OBVIOUS
    <3>. QED  BY <1>7, <3>1, <3>2
  <2>. QED  BY <1>1, <2>1 DEF ActsOnce, ActionEvent
<1>27. NotTwice'
  <2> SUFFICES ASSUME NEW k \in Instance, NEW t \in twice'[k]
               PROVE  Excused(k, t[2])' \/ NamedTwice(t)'
    BY DEF NotTwice
  <2>1. CASE t \in twice[k]
    BY <1>1, <1>23, <2>1, NamedStays DEF NotTwice
  <2>2. CASE k = i /\ t \notin twice[i]
    <3>1. /\ t \in got[i] \/ t[1] \in Repeated(BroadcastEvent(p))
          /\ \E s \in w.to : t = <<s, p.name>>
      BY <1>4, <1>7, <2>2
    <3>2. t[2] = p.name
      BY <3>1
    <3>3. CASE t \in got[i]
      <4>1. HasGot(i, p.name)
        BY <1>3, <3>1, <3>3 DEF HasGot
      <4>. QED  BY <1>2, <1>5, <1>23, <2>2, <3>2, <4>1 DEF Handled
    <3>4. CASE t[1] \in Repeated(BroadcastEvent(p))
      BY <1>1, <3>2, <3>4 DEF NamedTwice
    <3>. QED  BY <3>1, <3>3, <3>4
  <2>. QED  BY <1>7, <2>1, <2>2
<1>28. HistoryOK'
  BY <1>1, <1>7 DEF HistoryOK
<1>. QED  BY <1>12, <1>17, <1>18, <1>19, <1>20, <1>22, <1>25, <1>26, <1>27, <1>28

(***************************************************************************)
(* A pulse is sent.                                                        *)
(***************************************************************************)
LEMMA NewPulseCopies ==
  ASSUME Inv, CopiesInv, NEW p \in Pulse \ published, published' = published \cup {p},
         spread \subseteq spread', spread' \subseteq spread \cup {p.name}, OnceInMail',
         UNCHANGED <<acted, work, seen, forgotten, got, twice>>,
         \A k \in Instance : Letters(k) \subseteq Letters(k)'
                             /\ Letters(k)' \subseteq Letters(k) \cup {BroadcastEvent(p)},
         pokes' \subseteq pokes \cup {BroadcastEvent(p)},
         p.from # "client" => pokes' = pokes,
         p.from = "client" /\ p.name \notin spread' => UNCHANGED mail
  PROVE  CopiesInv'
<1> USE DEF CopiesInv, PulsesOnly
<1> DEFINE e == BroadcastEvent(p)
<1>1. published \subseteq Pulse
  BY DEF Inv, TypeOK, WireOK
<1>2. e.type = "broadcast" /\ e.name = p.name
  BY PulseFacts
<1>3. \A q \in Pulse : q.name = p.name => q = p
  BY DispatcherAssumption
<1>4. \A q \in published : q.name # p.name
  BY <1>1, <1>3
<1>5. \A q \in Pulse : BroadcastEvent(q)' = BroadcastEvent(q)
  BY DEF BroadcastEvent
<1>6. \A q \in Pulse : BroadcastEvent(q) = e => q = p
  BY PulseFacts
<1>7. \A q \in Pulse, j \in Instance, g \in Handler : e.id # RelayId(j, g, q.name)
  BY PulsesAreNoRelays
<1> HIDE DEF e
<1>8. /\ \A k \in Instance : Copies(k)' \subseteq Copies(k) \cup {e}
      /\ \A k \in Instance : Letters(k)' \ Copies(k)' \subseteq Letters(k) \ Copies(k)
      /\ Poked' \subseteq Poked \cup {e} /\ pokes' \ Poked' \subseteq pokes \ Poked
  BY <1>2 DEF Copies, Poked, e
<1>9. /\ \A n : \A k \in Instance : HasGot(k, n)' <=> HasGot(k, n)
      /\ \A n : \A j \in Instance, g \in Handler : Relaying(j, g, n)' <=> Relaying(j, g, n)
  BY DEF HasGot, Relaying
\* Nothing of the pulse was anywhere.
<1>10. \A k \in Instance : /\ ~HasGot(k, p.name) /\ <<"pulse", p.name>> \notin seen[k]
                           /\ \A g \in Handler : ~Relaying(k, g, p.name)
                           /\ \A f \in Copies(k) : f.name # p.name
  <2>1. \A k \in Instance : ~HasGot(k, p.name) /\ <<"pulse", p.name>> \notin seen[k]
    BY DEF Unheard
  <2>2. \A k \in Instance : \A f \in Copies(k) : f.name # p.name
    BY <1>4, EventsOfPulses
  <2>3. ASSUME NEW k \in Instance, NEW g \in Handler, Relaying(k, g, p.name)
        PROVE  FALSE
    <3>1. PICK q \in published : work[k][g].event = BroadcastEvent(q)
      BY <2>3 DEF Origin, Relaying
    <3>2. q.name = p.name
      BY <2>3, <3>1 DEF Relaying, BroadcastEvent
    <3>. QED  BY <1>4, <3>2
  <2>. QED  BY <2>1, <2>2, <2>3
<1>11. \A q \in Pulse, j \in Instance, g \in Handler : Unused(j, g, q.name) => Unused(j, g, q.name)'
  BY <1>7, <1>8 DEF Unused, RelayId
<1>12. Origin'
  <2>1. \A f : Sent(f) => Sent(f)'
    BY DEF Sent, Original, RelayOf, BroadcastEvent
  <2>2. ASSUME NEW k \in Instance, NEW f \in Copies(k)'
        PROVE  Sent(f)'
    <3>1. CASE f \in Copies(k)
      BY <2>1, <3>1 DEF Origin
    <3>2. CASE f = e /\ f \notin Copies(k)
      <4>1. Letters(k)' # Letters(k)
        BY <2>2, <3>2 DEF Copies
      <4>2. p.from = "client" => p.name \in spread'
        BY <4>1, SameMail
      <4>3. Original(e, p)'
        BY <1>5, <4>2 DEF Original, e
      <4>4. p \in published'
        OBVIOUS
      <4>. QED  BY <3>2, <4>3, <4>4 DEF Sent
    <3>. QED  BY <1>8, <2>2, <3>1, <3>2
  <2>3. ASSUME NEW f \in Poked'
        PROVE  \E q \in published' : q.from = "client" /\ f = BroadcastEvent(q)
    <3>1. CASE f \in Poked
      BY <3>1 DEF Origin
    <3>2. CASE f = e /\ f \notin Poked
      <4>1. p.from = "client"
        BY <2>3, <3>2 DEF Poked
      <4>. QED  BY <3>2, <4>1 DEF e
    <3>. QED  BY <1>8, <2>3, <3>1, <3>2
  <2>4. /\ \A k \in Instance : \A f \in Letters(k)' \ Copies(k)' :
             f.type # "a2ui_action" /\ f.id \notin PulseIds
        /\ \A f \in pokes' \ Poked' :
             f.id \notin PulseIds /\ (f.type = "a2ui_action" => f = ActionEvent(f.sid))
        /\ \A i \in Instance, h \in Handler : work[i][h].at = "relay" =>
             \E q \in published : /\ q.from = "client" /\ q.targets # {}
                                  /\ work[i][h].event = BroadcastEvent(q)
    BY <1>8 DEF Origin
  <2>5. PulseIds' = PulseIds
    BY DEF PulseIds
  <2>. QED  BY <2>2, <2>3, <2>4, <2>5, SMTT(20) DEF Origin, ActionEvent, BroadcastEvent
<1>13. Unheard'
  BY <1>9, <1>11 DEF Unheard
<1>14. RelaysOnce'
  <2>1. \A j \in Instance, g \in Handler : Unused(j, g, p.name)
    BY DEF Unheard
  <2>2. ASSUME NEW q \in Pulse, NEW j \in Instance, BroadcastEvent(q) \in pokes'
        PROVE  Unused(j, "http", q.name)' /\ ~Relaying(j, "http", q.name)'
    <3>1. BroadcastEvent(q) \in pokes \/ q = p
      BY <1>6, <2>2 DEF e
    <3>. QED  BY <1>9, <1>10, <1>11, <2>1, <3>1 DEF RelaysOnce, Handler
  <2>3. ASSUME NEW q \in Pulse, NEW j \in Instance, BroadcastEvent(q) \in Copies(j)'
        PROVE  Unused(j, "pubsub", q.name)' /\ ~Relaying(j, "pubsub", q.name)'
    <3>1. BroadcastEvent(q) \in Copies(j) \/ q = p
      BY <1>6, <1>8, <2>3
    <3>. QED  BY <1>9, <1>10, <1>11, <2>1, <3>1 DEF RelaysOnce, Handler
  <2>4. ASSUME NEW q \in Pulse, NEW j \in Instance, NEW g \in Handler, Relaying(j, g, q.name)'
        PROVE  Unused(j, g, q.name)' /\ RelayId(j, g, q.name) \in seen'[j] \cup forgotten'[j]
    BY <1>9, <1>11, <2>4 DEF RelaysOnce
  <2>5. ASSUME NEW q \in Pulse, NEW j \in Instance, NEW g \in Handler, NEW k \in Instance,
               NEW f \in Copies(k)', f.id = RelayId(j, g, q.name)
        PROVE  IF k = j THEN f.id \in seen'[k] \cup forgotten'[k] ELSE f.id \notin seen'[k]
    <3>1. f \in Copies(k)
      BY <1>7, <1>8, <2>5
    <3>. QED  BY <2>5, <3>1 DEF RelaysOnce
  <2>. QED  BY <1>5, <2>2, <2>3, <2>4, <2>5 DEF RelaysOnce, RelayId
<1>15. PulseIsNew'
  <2> SUFFICES ASSUME NEW q \in Pulse, NEW k \in Instance, q.from # "client",
                      BroadcastEvent(q) \in Copies(k)'
               PROVE  <<"pulse", q.name>> \notin seen[k] /\ ~HasGot(k, q.name)
    BY <1>5, <1>9 DEF PulseIsNew
  <2>1. BroadcastEvent(q) \in Copies(k) \/ q = p
    BY <1>6, <1>8
  <2>. QED  BY <1>10, <2>1 DEF PulseIsNew
<1>16. InOnePlace'
  <2> SUFFICES ASSUME NEW q \in published', q.from = "client", q.name \notin spread'
               PROVE  /\ BroadcastEvent(q) \in pokes' =>
                           Untouched(q)' /\ \A j \in Instance, g \in Handler : ~Relaying(j, g, q.name)'
                      /\ \A j \in Instance, g \in Handler : Relaying(j, g, q.name)' =>
                           /\ Untouched(q)'
                           /\ \A k \in Instance, f \in Handler : Relaying(k, f, q.name)' => k = j /\ f = g
                      /\ \A k, l \in Instance : \A a \in Copies(k)', b \in Copies(l)' :
                           a.name = q.name /\ b.name = q.name => a.id = b.id
    BY <1>1, <1>5 DEF InOnePlace
  <2>1. CASE q = p
    <3>1. \A k \in Instance : Copies(k)' = Copies(k)
      BY <2>1, SameMail DEF Copies
    <3>. QED  BY <1>9, <1>10, <2>1, <3>1 DEF Untouched
  <2>2. CASE q # p
    <3>1. q \in published /\ q.name # p.name
      BY <1>4, <2>2
    <3>2. Untouched(q) => Untouched(q)'
      BY <1>2, <1>8, <1>9, <3>1 DEF Untouched
    <3>3. BroadcastEvent(q) \in pokes' => BroadcastEvent(q) \in pokes
      BY <1>1, <1>6, <2>2, <3>1 DEF e
    <3>. QED  BY <1>2, <1>8, <1>9, <3>1, <3>2, <3>3 DEF InOnePlace
  <2>. QED  BY <2>1, <2>2
<1>17. \A n : \A k \in Instance : Excused(k, n) => Excused(k, n)'
  BY ExcusedStays
<1>18. Handled'
  <2>1. ASSUME NEW k \in Instance, NEW f \in Copies(k)' \cup Poked', HasGot(k, f.name)'
        PROVE  Known(k, f)' \/ Excused(k, f.name)'
    <3>1. f # e
      BY <1>2, <1>9, <1>10, <2>1
    <3>2. f \in Copies(k) \cup Poked /\ HasGot(k, f.name)
      BY <1>8, <1>9, <2>1, <3>1
    <3>. QED  BY <1>17, <3>2 DEF Handled, Known, IdsOf, RelayId
  <2>2. ASSUME NEW k \in Instance, NEW g \in Handler, NEW q \in Pulse, Relaying(k, g, q.name)',
               HasGot(k, q.name)'
        PROVE  Excused(k, q.name)'
    BY <1>9, <1>17, <2>2 DEF Handled
  <2>. QED  BY <2>1, <2>2 DEF Handled
<1>19. ActsOnce'
  <2>1. \A s \in Session : ActionEvent(s) # e
    BY <1>2 DEF ActionEvent
  <2>2. \A s \in Session : ActionEvent(s) \in pokes' => ActionEvent(s) \in pokes
    BY <2>1 DEF e
  <2>. QED  BY <2>2 DEF ActsOnce, ActionEvent
<1>20. NotTwice'
  BY <1>17, NamedStays DEF NotTwice
<1>21. HistoryOK'
  BY DEF HistoryOK
<1>. QED  BY <1>12, <1>13, <1>14, <1>15, <1>16, <1>18, <1>19, <1>20, <1>21

LEMMA SendsCopies ==
  ASSUME Inv, CopiesInv, NEW p \in Pulse, PublishPulse(p) \/ SendPulse(p)
  PROVE  CopiesInv'
<1>1. published \subseteq Pulse /\ mail \in [Instance -> Seq(Event)] /\ BroadcastEvent(p) \in Event
  BY NewEvents DEF Inv, TypeOK, WireOK
<1>2. /\ p \in Pulse \ published /\ published' = published \cup {p}
      /\ UNCHANGED <<acted, work, seen, forgotten, got, twice>>
  BY DEF PublishPulse, SendPulse, sessions, delivered
<1>3. \A k \in Instance : \A f \in Letters(k) : ~Same(BroadcastEvent(p), f)
  <2> SUFFICES ASSUME NEW k \in Instance, NEW f \in Letters(k), Same(BroadcastEvent(p), f)
               PROVE  FALSE
    OBVIOUS
  <2>1. f \in Copies(k) /\ f.name = p.name
    BY DEF Same, Copies, BroadcastEvent
  <2>2. \E q \in published : q.name = p.name
    BY <2>1, EventsOfPulses DEF CopiesInv, PulsesOnly
  <2>. QED  BY <1>1, <1>2, <2>2, DispatcherAssumption
<1>4. ASSUME NEW c, Publish(c, BroadcastEvent(p))
      PROVE  /\ OnceInMail'
             /\ \A k \in Instance : Letters(k) \subseteq Letters(k)'
                                    /\ Letters(k)' \subseteq Letters(k) \cup {BroadcastEvent(p)}
  <2>1. /\ \A k \in Instance :
             Letters(k)' = Letters(k) \cup IF c \in heard[k] THEN {BroadcastEvent(p)} ELSE {}
        /\ OnceInMail'
    BY <1>1, <1>3, <1>4, PublishMail DEF CopiesInv, PulsesOnly
  <2>. QED  BY <2>1
<1>5. /\ OnceInMail'
      /\ \A k \in Instance : Letters(k) \subseteq Letters(k)'
                             /\ Letters(k)' \subseteq Letters(k) \cup {BroadcastEvent(p)}
  <2>1. CASE UNCHANGED mail
    BY <2>1, SameMail DEF CopiesInv, PulsesOnly
  <2>. QED  BY <1>4, <2>1 DEF PublishPulse, SendPulse
<1>6. /\ pokes' \subseteq pokes \cup {BroadcastEvent(p)}
      /\ p.from # "client" => pokes' = pokes
      /\ spread \subseteq spread' /\ spread' \subseteq spread \cup {p.name}
      /\ p.from = "client" /\ p.name \notin spread' => UNCHANGED mail
  BY DEF PublishPulse, SendPulse
<1>. QED  BY <1>2, <1>5, <1>6, NewPulseCopies

LEMMA InitCopies == Init => CopiesInv
<1> SUFFICES ASSUME Init PROVE CopiesInv
  OBVIOUS
<1>1. \A k \in Instance : Letters(k) = {} /\ Copies(k) = {} /\ mail[k] = <<>>
  BY DEF Init, Letters, Copies
<1>2. Poked = {} /\ pokes = {} /\ published = {}
  BY DEF Init, Poked
<1>3. \A i \in Instance, h \in Handler : work[i][h].at # "relay"
  BY DEF Init, Idle
<1>4. \A k \in Instance : seen[k] = {} /\ got[k] = {} /\ twice[k] = {} /\ forgotten[k] = {}
  BY DEF Init
<1>5. HistoryOK
  BY DEF Init, HistoryOK
<1>6. Origin /\ OnceInMail /\ PulseIsNew /\ InOnePlace
  BY <1>1, <1>2, <1>3 DEF Origin, OnceInMail, PulseIsNew, InOnePlace
<1>7. Unheard
  BY <1>1, <1>4 DEF Unheard, Unused, HasGot
<1>8. RelaysOnce /\ Handled
  BY <1>1, <1>2, <1>3 DEF RelaysOnce, Handled, Relaying
<1>9. ActsOnce /\ NotTwice
  BY <1>2, <1>4 DEF ActsOnce, NotTwice
<1>. QED  BY <1>5, <1>6, <1>7, <1>8, <1>9 DEF CopiesInv, PulsesOnly

LEMMA NextCopies == Inv /\ CopiesInv /\ [Next]_vars => CopiesInv'
<1> SUFFICES ASSUME Inv, CopiesInv, [Next]_vars PROVE CopiesInv'
  OBVIOUS
<1>1. ASSUME NEW i \in Instance, TakeMail(i) \/ TakeSpawn(i) \/ TakePoke(i)
      PROVE  CopiesInv'
  <2>1. PICK h \in Handler, e \in Event :
          /\ ProcessEvent(i, h, e) /\ Took(i, h, e) /\ work[i][h] = Idle
          /\ OnceInMail' /\ UNCHANGED asked
    BY <1>1, ReadsTake DEF CopiesInv, PulsesOnly
  <2>2. CASE e.type # "broadcast" \/ Duplicate(i, e)
    BY <2>1, <2>2, ReadCopies
  <2>3. CASE e.type = "broadcast" /\ ~Duplicate(i, e)
    <3>1. HandleBroadcast(i, h, e)
      BY <2>1, <2>3 DEF ProcessEvent, HandleReset, HandleSpawn, HandleEnd, HandleAction
    <3>. QED  BY <2>1, <2>3, <3>1, RelayingCopies, TriggeringCopies
  <2>. QED  BY <2>2, <2>3
<1>2. CASE Next
  BY <1>1, <1>2, LoopCopies, BreakCopies, RequestsCopies, RelayedCopies, SendsCopies
     DEF Next, ClientNext, InstanceNext
<1>3. CASE UNCHANGED vars
  <2>1. UNCHANGED <<published, spread, acted, seen, forgotten, got, twice, mail, pokes, work>>
    BY <1>3 DEF vars, asked, wire, sessions, delivered, causes
  <2>2. LessToCome
    BY <2>1, SameMail DEF LessToCome
  <2>3. OnceInMail' /\ HistoryOK'
    BY <2>1, SameMail DEF CopiesInv, PulsesOnly, HistoryOK
  <2>. QED  BY <2>1, <2>2, <2>3, StayQuiet, NothingForgotten
<1>. QED  BY <1>2, <1>3

(***************************************************************************)
(* What is owed is on its way.                                             *)
(***************************************************************************)
\* A copy the instance k will take for new, and not relay.
Reads(k, e) ==
  /\ e \in Copies(k) /\ ~Duplicate(k, e)
  /\ \/ e.relayed /\ \A h \in Handler : e.id # RelayId(k, h, e.name)
     \/ \E p \in published : p.from # "client" /\ e = BroadcastEvent(p)

\* The session s was chosen before h relays at i, or the relay will reach its instance.
Brings(i, h, s) ==
  \/ s \in work[i][h].to
  \/ \E k \in Instance : /\ k # i /\ Global \in heard[k]
                         /\ s \in Matched(k, work[i][h].event) \ work[i][h].to

\* The session s was run for the pulse n, or a relay is about to bring it, or a copy that means
\* it is in the mailbox.
Coming(s, n) ==
  \/ \E k \in Instance : <<s, n>> \in got[k]
  \/ \E i \in Instance, h \in Handler : Relaying(i, h, n) /\ Brings(i, h, s)
  \/ \E k \in Instance : \E e \in Copies(k) : e.name = n /\ Reads(k, e) /\ s \in Matched(k, e)

OwedComes == \A o \in owed : Coming(o[1], o[2])

LEMMA CopyIs ==
  ASSUME Inv, Origin, NEW k \in Instance, NEW e \in Copies(k)
  PROVE  e \in Event /\ e \in BroadcastEvents /\ e.id \in PulseIds \cup {None}
<1>1. e \in Event /\ e.type = "broadcast"
  BY DEF Copies, Letters, Inv, TypeOK, WireOK
<1>2. PICK p \in published : Original(e, p) \/ \E i \in Instance, h \in Handler : RelayOf(e, p, i, h)
  BY DEF Origin, Sent
<1>3. p \in Pulse
  BY DEF Inv, TypeOK, WireOK
<1>4. /\ <<"pulse", p.name>> \in PulseIds
      /\ \A i \in Instance, h \in Handler : RelayId(i, h, p.name) \in PulseIds
  BY <1>3 DEF PulseIds
<1>5. e.id \in PulseIds \cup {None}
  BY <1>2, <1>4 DEF Original, RelayOf, BroadcastEvent
<1>. QED  BY <1>1, <1>5, EventsAre

LEMMA ReadsStays ==
  ASSUME Inv, CopiesInv, NEW k \in Instance, NEW e \in Copies(k)', Reads(k, e),
         published \subseteq published', e.id # None /\ e.id \notin seen[k] => e.id \notin seen'[k]
  PROVE  Reads(k, e)'
BY DEF Reads, Duplicate, RelayId, BroadcastEvent

LEMMA ComingStays ==
  ASSUME Inv, CopiesInv, NEW s, NEW n, Coming(s, n),
         \A k \in Instance : got[k] \subseteq got'[k] /\ (Global \in heard[k] => Global \in heard'[k]),
         \A i \in Instance, h \in Handler : Relaying(i, h, n) /\ Brings(i, h, s) =>
           work'[i][h] = work[i][h] \/ Coming(s, n)',
         \A k \in Instance, e \in Event : s \in Matched(k, e) => s \in Matched(k, e)',
         \A k \in Instance : \A e \in Copies(k) : e.name = n /\ Reads(k, e) /\ s \in Matched(k, e) =>
           (e \in Copies(k)' /\ Reads(k, e)') \/ Coming(s, n)'
  PROVE  Coming(s, n)'
<1>1. ASSUME NEW k \in Instance, <<s, n>> \in got[k]
      PROVE  Coming(s, n)'
  BY <1>1 DEF Coming
<1>2. ASSUME NEW i \in Instance, NEW h \in Handler, Relaying(i, h, n), Brings(i, h, s),
             work'[i][h] = work[i][h]
      PROVE  Coming(s, n)'
  <2>1. work[i][h].event \in Event
    <3>1. work[i][h] \in Awaited /\ work[i][h].at = "relay"
      BY <1>2 DEF Relaying, Inv, TypeOK, SessionsOK
    <3>. QED  BY <3>1 DEF Awaited, Event
  <2>2. Relaying(i, h, n)'
    BY <1>2 DEF Relaying
  <2>3. Brings(i, h, s)'
    BY <1>2, <2>1 DEF Brings
  <2>. QED  BY <2>2, <2>3 DEF Coming
<1>3. ASSUME NEW k \in Instance, NEW e \in Copies(k), e.name = n, Reads(k, e), s \in Matched(k, e)
      PROVE  Coming(s, n)'
  <2>1. e \in Event
    BY CopyIs DEF CopiesInv, PulsesOnly
  <2>. QED  BY <1>3, <2>1 DEF Coming
<1>. QED  BY <1>1, <1>2, <1>3 DEF Coming

\* The steps that take nothing from anybody.
LEMMA QuietOwed ==
  ASSUME Inv, CopiesInv, OwedComes, owed' \subseteq owed, published \subseteq published',
         UNCHANGED <<active, mapped>>,
         \A k \in Instance : /\ got[k] \subseteq got'[k]
                             /\ Global \in heard[k] => Global \in heard'[k]
                             /\ seen'[k] \cap PulseIds \subseteq seen[k]
                             /\ \A e \in Copies(k) : Reads(k, e) => e \in Copies(k)',
         \A i \in Instance, h \in Handler : work[i][h].at = "relay" => work'[i][h] = work[i][h]
  PROVE  OwedComes'
<1> SUFFICES ASSUME NEW o \in owed', NEW s, NEW n, s = o[1], n = o[2]
             PROVE  Coming(s, n)'
  BY DEF OwedComes
<1>1. Coming(s, n)
  BY DEF OwedComes
<1>2. \A k \in Instance, e \in Event : s \in Matched(k, e) => s \in Matched(k, e)'
  BY DEF Matched, Of
<1>3. \A k \in Instance : \A e \in Copies(k) : Reads(k, e) => e \in Copies(k)' /\ Reads(k, e)'
  <2> SUFFICES ASSUME NEW k \in Instance, NEW e \in Copies(k), Reads(k, e)
               PROVE  e \in Copies(k)' /\ Reads(k, e)'
    OBVIOUS
  <2>1. e.id \in PulseIds \cup {None}
    BY CopyIs DEF CopiesInv, PulsesOnly
  <2>. QED  BY <2>1, ReadsStays
<1>4. \A i \in Instance, h \in Handler : Relaying(i, h, n) => work'[i][h] = work[i][h]
  BY DEF Relaying
<1>. QED  BY <1>1, <1>2, <1>3, <1>4, ComingStays

LEMMA LoopOwed ==
  ASSUME Inv, CopiesInv, OwedComes, NEW i \in Instance,
         \/ \E h \in Handler : Registered(i, h) \/ Subscribed(i, h) \/ Cleared(i, h)
         \/ Chore(i) \/ \E r \in runs[i] : Begin(i, r) \/ Finish(i, r)
         \/ Connect(i) \/ Rejoin(i)
  PROVE  OwedComes'
<1>1. UNCHANGED <<published, got, owed, seen, mail, active, mapped>>
  BY DEF Registered, Subscribed, Cleared, Chore, Begin, Finish, Connect, Rejoin,
         asked, wire, sessions, delivered, causes
<1>2. /\ work \in [Instance -> [Handler -> Awaited]]
      /\ heard \in [Instance -> SUBSET (Simulation \cup {Global})]
      /\ chores \in [Instance -> SUBSET Call]
  BY DEF Inv, TypeOK, SessionsOK, LinksOK
<1>3. \A k \in Instance, h \in Handler : work'[k][h].at = "relay" \/ work[k][h].at = "relay" =>
        work'[k][h] = work[k][h]
  <2>1. ASSUME NEW h \in Handler, NEW w, w.at # "relay", work[i][h].at # "relay", Await(i, h, w)
        PROVE  \A k \in Instance, g \in Handler :
                 work'[k][g].at = "relay" \/ work[k][g].at = "relay" => work'[k][g] = work[k][g]
    BY <1>2, <2>1 DEF Await
  <2>2. Idle.at # "relay" /\ \A x : [at |-> "subscribe", sim |-> x].at # "relay"
    BY DEF Idle
  <2>3. ASSUME NEW h \in Handler, Registered(i, h) \/ Subscribed(i, h) \/ Cleared(i, h)
        PROVE  \A k \in Instance, g \in Handler :
                 work'[k][g].at = "relay" \/ work[k][g].at = "relay" => work'[k][g] = work[k][g]
    <3>1. work[i][h].at # "relay" /\ \E w : w.at # "relay" /\ Await(i, h, w)
      <4>1. CASE Registered(i, h)
        <5> DEFINE x == SimOf[work[i][h].sid]
                   w == IF x \in subs[i] \/ link[i] = "down" THEN Idle ELSE [at |-> "subscribe", sim |-> x]
        <5>1. Await(i, h, w) /\ work[i][h].at # "relay"
          BY <4>1 DEF Registered
        <5>. QED  BY <2>2, <5>1
      <4>2. CASE Subscribed(i, h) \/ Cleared(i, h)
        BY <2>2, <4>2 DEF Subscribed, Cleared
      <4>. QED  BY <2>3, <4>1, <4>2
    <3>. QED  BY <2>1, <3>1
  <2>4. UNCHANGED work => \A k \in Instance, g \in Handler : work'[k][g] = work[k][g]
    OBVIOUS
  <2>. QED  BY <2>3, <2>4 DEF Chore, Begin, Finish, Connect, Rejoin
<1>4. \A k \in Instance : Global \in heard[k] => Global \in heard'[k]
  <2>1. CASE Chore(i)
    <3>1. PICK c \in chores[i] :
            heard' = IF c[1] = "unsubscribe" THEN [heard EXCEPT ![i] = @ \ {c[2]}] ELSE heard
      BY <2>1 DEF Chore
    <3>2. c[1] = "unsubscribe" => c[2] # Global
      BY <1>2, DispatcherAssumption DEF Call
    <3>. QED  BY <1>2, <3>1, <3>2
  <2>2. CASE Connect(i) \/ Rejoin(i) \/ \E h \in Handler : Subscribed(i, h)
    BY <1>2, <2>2 DEF Connect, Rejoin, Subscribed
  <2>3. CASE UNCHANGED heard
    BY <2>3
  <2>. QED  BY <2>1, <2>2, <2>3 DEF Registered, Cleared, Begin, Finish, links
<1>5. \A k \in Instance : Copies(k)' = Copies(k)
  BY <1>1, SameMail DEF Copies
<1>. QED  BY <1>1, <1>3, <1>4, <1>5, QuietOwed

LEMMA BreakOwed ==
  ASSUME NEW i \in Instance, NEW first \in Handler, Break(i, first)
  PROVE  OwedComes'
BY DEF Break, OwedComes

LEMMA RequestsOwed ==
  ASSUME Inv, CopiesInv, OwedComes,
         \/ \E S \in SUBSET Session : \E poked \in SUBSET S : Spawn(S, poked)
         \/ \E p \in Pulse : SendPulse(p)
         \/ \E s \in Session : SendAction(s)
         \/ \E x \in Simulation : EndSimulation(x)
         \/ ResetEnvironment
  PROVE  OwedComes'
<1>1. /\ UNCHANGED <<got, owed, seen, work, active, mapped, heard>>
      /\ published \subseteq published'
  BY DEF Spawn, SendPulse, SendAction, EndSimulation, ResetEnvironment, sessions, links, delivered
<1>2. mail \in [Instance -> Seq(Event)] /\ resets \in Nat
  BY DEF Inv, TypeOK, WireOK
<1>3. \A k \in Instance : Letters(k) \subseteq Letters(k)'
  <2>1. ASSUME NEW c, NEW e \in Event, Publish(c, e)
        PROVE  \A k \in Instance : Letters(k) \subseteq Letters(k)'
    BY <1>2, <2>1, PublishMail
  <2>2. CASE UNCHANGED mail
    BY <2>2, SameMail
  <2>. QED  BY <1>2, <2>1, <2>2, NewEvents
            DEF Spawn, SendPulse, SendAction, EndSimulation, ResetEnvironment
<1>4. \A k \in Instance : Copies(k) \subseteq Copies(k)'
  BY <1>3 DEF Copies
<1>. QED  BY <1>1, <1>4, QuietOwed

\* A pulse of the simulator is new to all it reaches.
LEMMA PublishOwed ==
  ASSUME Inv, CopiesInv, OwedComes, NEW p \in Pulse, PublishPulse(p)
  PROVE  OwedComes'
<1> USE DEF CopiesInv, PulsesOnly
<1> DEFINE e == BroadcastEvent(p)
<1>1. /\ p \in Pulse \ published /\ p.from # "client" /\ published' = published \cup {p}
      /\ Publish(p.sim, e) /\ owed' = owed \cup Owes(e, {k \in Instance : p.sim \in heard[k]})
      /\ UNCHANGED <<got, seen, work, active, mapped, heard>>
  BY DEF PublishPulse, sessions, links
<1>2. mail \in [Instance -> Seq(Event)] /\ e \in Event
  BY NewEvents DEF Inv, TypeOK, WireOK
<1>3. \A k \in Instance : Letters(k)' = Letters(k) \cup IF p.sim \in heard[k] THEN {e} ELSE {}
  BY <1>1, <1>2, PublishMail
<1>4. e.type = "broadcast" /\ e.name = p.name /\ e.id = IF p.hasId THEN <<"pulse", p.name>> ELSE None
  BY PulseFacts
<1>5. e' = e
  BY DEF BroadcastEvent
<1> HIDE DEF e
<1>6. /\ \A k \in Instance : Copies(k) \subseteq Copies(k)'
      /\ \A k \in Instance : p.sim \in heard[k] => e \in Copies(k)'
  BY <1>3, <1>4 DEF Copies
<1>7. ASSUME NEW s, NEW n, Coming(s, n)
      PROVE  Coming(s, n)'
  <2>1. \A k \in Instance, f \in Event : s \in Matched(k, f) => s \in Matched(k, f)'
    BY <1>1 DEF Matched, Of
  <2>2. \A k \in Instance : \A f \in Copies(k) : Reads(k, f) => f \in Copies(k)' /\ Reads(k, f)'
    BY <1>1, <1>6, ReadsStays
  <2>. QED  BY <1>1, <1>7, <2>1, <2>2, ComingStays
<1>8. ASSUME NEW k \in Instance, p.sim \in heard[k], NEW s \in Matched(k, e)
      PROVE  Coming(s, p.name)'
  <2>1. e.id # None => e.id \notin seen[k]
    BY <1>1, <1>4 DEF Unheard
  <2>2. Reads(k, e)'
    BY <1>1, <1>5, <1>6, <1>8, <2>1 DEF Reads, Duplicate, e
  <2>3. s \in Matched(k, e)'
    BY <1>1, <1>5, <1>8 DEF Matched, Of
  <2>. QED  BY <1>4, <1>5, <1>6, <1>8, <2>2, <2>3 DEF Coming
<1> SUFFICES ASSUME NEW o \in owed'
             PROVE  Coming(o[1], o[2])'
  BY DEF OwedComes
<1>9. CASE o \in owed
  BY <1>7, <1>9 DEF OwedComes
<1>10. CASE o \in Owes(e, {k \in Instance : p.sim \in heard[k]})
  <2>1. PICK k \in Instance : p.sim \in heard[k] /\ \E s \in Matched(k, e) : o = <<s, e.name>>
    BY <1>10 DEF Owes
  <2>2. PICK s \in Matched(k, e) : o = <<s, e.name>>
    BY <2>1
  <2>. QED  BY <1>4, <1>8, <2>1, <2>2
<1>. QED  BY <1>1, <1>9, <1>10

\* What an event other than a broadcast, or one that is known, takes from the sessions it drops.
LEMMA ReadOwed ==
  ASSUME Inv, CopiesInv, OwedComes, NEW i \in Instance, NEW h \in Handler, NEW e \in Event,
         ProcessEvent(i, h, e), Took(i, h, e), UNCHANGED asked, work[i][h] = Idle,
         e.type # "broadcast" \/ Duplicate(i, e)
  PROVE  OwedComes'
<1> USE EventsAre DEF CopiesInv, PulsesOnly
<1>1. UNCHANGED published /\ UNCHANGED heard
  BY ProcessEventOK DEF asked, links, Inv, TypeOK, SerialOK
<1>2. /\ work \in [Instance -> [Handler -> Awaited]]
      /\ active \in [Instance -> SUBSET Session] /\ mapped \in [Instance -> SUBSET Session]
      /\ got \in [Instance -> SUBSET (Session \X Name)]
  BY DEF Inv, TypeOK, SessionsOK, HistoryOK
<1>3. \A k \in Instance, g \in Handler : work[k][g].at = "relay" => work'[k][g] = work[k][g]
  <2>1. ASSUME NEW w, Await(i, h, w)
        PROVE  \A k \in Instance, g \in Handler : work[k][g].at = "relay" => work'[k][g] = work[k][g]
    BY <1>2, <2>1 DEF Await, Idle
  <2>2. (\E w : Await(i, h, w)) \/ UNCHANGED work
    BY DEF ProcessEvent, HandleReset, HandleSpawn, HandleEnd, HandleAction, HandleBroadcast
  <2>. QED  BY <2>1, <2>2
<1>4. ASSUME NEW k \in Instance, NEW f \in Copies(k), Reads(k, f)
      PROVE  f \in Copies(k)'
  <2>1. ~(k = i /\ f = e)
    BY <1>4 DEF Reads, Copies
  <2>. QED  BY <1>4, <2>1 DEF Took, Copies
<1>5. e.type # "broadcast" => e.id \notin PulseIds
  BY DEF Took, Origin, Copies, Poked
<1>6. \A k \in Instance : got[k] \subseteq got'[k] /\ seen'[k] \cap PulseIds \subseteq seen[k]
  <2>1. CASE Duplicate(i, e)
    BY <2>1 DEF ProcessEvent, sessions, delivered
  <2>2. CASE HandleReset(i, h, e)
    BY <2>2 DEF HandleReset, HistoryOK
  <2>3. CASE e.type # "broadcast" /\ Remember(i, e, {}) /\ UNCHANGED got
    BY <1>5, <2>3, RememberNothing DEF NothingNew
  <2>4. CASE HandleAction(i, h, e)
    <3>1. \A k \in Instance : seen'[k] \cap PulseIds \subseteq seen[k]
      BY <1>5, <2>4, RememberNothing DEF NothingNew, HandleAction
    <3>. QED  BY <1>2, <2>4, <3>1 DEF HandleAction, Trigger
  <2>. QED  BY <2>1, <2>2, <2>3, <2>4
            DEF ProcessEvent, HandleSpawn, HandleEnd, HandleBroadcast, delivered
<1>7. \A k \in Instance : \A f \in Copies(k) : Reads(k, f) => f \in Copies(k)' /\ Reads(k, f)'
  <2> SUFFICES ASSUME NEW k \in Instance, NEW f \in Copies(k), Reads(k, f)
               PROVE  f \in Copies(k)' /\ Reads(k, f)'
    OBVIOUS
  <2>1. f.id \in PulseIds \cup {None}
    BY CopyIs
  <2>. QED  BY <1>1, <1>4, <1>6, <2>1, ReadsStays
\* A session that is still owed something is not dropped.
<1>8. ASSUME NEW o \in owed', NEW s, s = o[1]
      PROVE  o \in owed /\ \A k \in Instance, f \in Event : s \in Matched(k, f) => s \in Matched(k, f)'
  <2>1. CASE Duplicate(i, e) \/ HandleAction(i, h, e)
    <3>1. UNCHANGED <<owed, active, mapped>>
      BY <2>1 DEF ProcessEvent, HandleAction, sessions, delivered
    <3>. QED  BY <3>1 DEF Matched, Of
  <2>2. CASE HandleReset(i, h, e)
    <3>1. o \in owed /\ s \notin active[i]
      BY <1>8, <2>2 DEF HandleReset
    <3>2. /\ \A k \in Instance : k # i => active'[k] = active[k]
          /\ UNCHANGED mapped
      BY <1>2, <2>2 DEF HandleReset
    <3>. QED  BY <3>1, <3>2 DEF Matched, Of
  <2>3. CASE HandleSpawn(i, h, e)
    <3>1. o \in owed /\ \A k \in Instance : active[k] \subseteq active'[k] /\ mapped[k] \subseteq mapped'[k]
      BY <1>2, <2>3 DEF HandleSpawn, delivered
    <3>. QED  BY <3>1 DEF Matched, Of
  <2>4. CASE HandleEnd(i, h, e)
    <3>1. o \in owed /\ s \notin Of(i, e.sim)
      BY <1>8, <2>4 DEF HandleEnd
    <3>2. \A k \in Instance : (s \in active[k] => s \in active'[k]) /\ (s \in mapped[k] => s \in mapped'[k])
      BY <1>2, <2>4, <3>1 DEF HandleEnd
    <3>. QED  BY <3>1, <3>2 DEF Matched, Of
  <2>5. ~HandleBroadcast(i, h, e) \/ Duplicate(i, e)
    BY DEF HandleBroadcast
  <2>. QED  BY <2>1, <2>2, <2>3, <2>4, <2>5 DEF ProcessEvent
<1> SUFFICES ASSUME NEW o \in owed', NEW s, NEW n, s = o[1], n = o[2]
             PROVE  Coming(s, n)'
  BY DEF OwedComes
<1>9. Coming(s, n)
  BY <1>8 DEF OwedComes
<1>10. \A j \in Instance, g \in Handler : Relaying(j, g, n) => work'[j][g] = work[j][g]
  BY <1>3 DEF Relaying
<1>11. \A k \in Instance, f \in Event : s \in Matched(k, f) => s \in Matched(k, f)'
  BY <1>8
<1>. QED  BY <1>1, <1>6, <1>7, <1>9, <1>10, <1>11, ComingStays

\* What an instance will take for new stays so, whatever else it reads.
LEMMA StillReads ==
  ASSUME Inv, CopiesInv, NEW i \in Instance, NEW h \in Handler, NEW e \in Event, Took(i, h, e),
         e.type = "broadcast", NEW p \in published, TakenOf(i, h, e, p), UNCHANGED published,
         \A k \in Instance : k # i => seen'[k] = seen[k],
         seen'[i] \subseteq seen[i] \cup {e.id} \cup {RelayId(i, h, e.name)},
         NEW k \in Instance, NEW f \in Copies(k), Reads(k, f), k # i \/ f # e
  PROVE  f \in Copies(k)' /\ Reads(k, f)'
<1> USE DEF CopiesInv, PulsesOnly
<1>1. f \in Copies(k)'
  BY DEF Took, Copies
<1>2. published \subseteq Pulse /\ p \in Pulse
  BY DEF Inv, TypeOK, WireOK
<1>3. PICK q \in published : Original(f, q) \/ \E j \in Instance, g \in Handler : RelayOf(f, q, j, g)
  BY DEF Origin, Sent
<1>4. f.name = q.name /\ e.name = p.name /\ f.type = "broadcast"
  BY <1>3 DEF Original, RelayOf, BroadcastEvent, TakenOf, Copies
<1>5. \/ f.relayed /\ (\E j \in Instance, g \in Handler : f.id = RelayId(j, g, q.name))
         /\ \A g \in Handler : f.id # RelayId(k, g, f.name)
      \/ f = BroadcastEvent(q) /\ q.from # "client"
  <2>1. q \in Pulse
    BY <1>2
  <2>2. ~f.relayed => f = BroadcastEvent(q)
    BY <1>3 DEF Original, RelayOf
  <2>3. f.relayed => \E j \in Instance, g \in Handler : f.id = RelayId(j, g, q.name)
    BY <1>3, <2>1, PulseFacts DEF Original, RelayOf
  <2>4. ASSUME NEW r \in published, r.from # "client", f = BroadcastEvent(r)
        PROVE  f = BroadcastEvent(q) /\ q.from # "client"
    <3>1. r.name = q.name
      BY <1>4, <2>4 DEF BroadcastEvent
    <3>. QED  BY <1>2, <2>1, <2>4, <3>1, DispatcherAssumption
  <2>. QED  BY <2>2, <2>3, <2>4 DEF Reads
<1>6. f.id # RelayId(i, h, e.name) \/ k # i
  <2>1. CASE f = BroadcastEvent(q)
    BY <1>2, <1>4, <2>1, PulsesAreNoRelays
  <2>2. CASE f # BroadcastEvent(q) /\ k = i
    BY <1>4, <1>5, <2>2, IdFacts
  <2>. QED  BY <2>1, <2>2
<1>7. k = i /\ f.id # None => f.id # e.id
  <2> SUFFICES ASSUME k = i, f.id # None, f.id = e.id PROVE FALSE
    OBVIOUS
  <2>1. e = BroadcastEvent(p) \/ \E j \in Instance, g \in Handler : RelayOf(e, p, j, g)
    BY DEF TakenOf, Original
  <2>2. CASE f = BroadcastEvent(q) /\ q.from # "client"
    <3>1. f.id = <<"pulse", q.name>>
      BY <1>2, <2>2 DEF BroadcastEvent
    <3>2. e = BroadcastEvent(p)
      <4>1. \A j, g : e.id # RelayId(j, g, p.name)
        BY <3>1, IdFacts
      <4>. QED  BY <2>1, <4>1 DEF RelayOf
    <3>3. p.name = q.name
      <4>1. e.id = <<"pulse", q.name>> /\ e.id = IF p.hasId THEN <<"pulse", p.name>> ELSE None
        BY <1>2, <3>1, <3>2, PulseFacts
      <4>2. None # <<"pulse", q.name>>
        BY <1>2, DispatcherAssumption
      <4>. QED  BY <4>1, <4>2
    <3>4. p = q
      BY <1>2, <3>3, DispatcherAssumption
    <3>. QED  BY <2>2, <3>2, <3>4
  <2>3. CASE f.relayed /\ \E j \in Instance, g \in Handler : f.id = RelayId(j, g, q.name)
    <3>1. e # BroadcastEvent(p)
      BY <1>2, <2>3, PulsesAreNoRelays
    <3>2. e.relayed /\ e.name = f.name
      BY <1>4, <2>1, <2>3, <3>1, IdFacts DEF RelayOf
    <3>3. \A g \in Copies(i)' : ~Same(g, e)
      BY <3>1 DEF TakenOf
    <3>. QED  BY <1>1, <1>4, <2>3, <3>2, <3>3 DEF Same
  <2>. QED  BY <1>5, <2>2, <2>3
<1>8. f.id # None /\ f.id \notin seen[k] => f.id \notin seen'[k]
  BY <1>6, <1>7
<1>. QED  BY <1>1, <1>8, ReadsStays

LEMMA RelayingOwed ==
  ASSUME Inv, CopiesInv, OwedComes, NEW i \in Instance, NEW h \in Handler, NEW e \in Event,
         HandleBroadcast(i, h, e), Took(i, h, e), UNCHANGED asked,
         work[i][h] = Idle, Relays(e, Matched(i, e))
  PROVE  OwedComes'
<1> USE DEF CopiesInv, PulsesOnly
<1> DEFINE here == Matched(i, e)
           rid == RelayId(i, h, e.name)
           reached == {i} \cup {k \in Instance : Global \in heard[k]}
<1>1. /\ UNCHANGED <<published, got, active, mapped, heard>> /\ e.type = "broadcast"
      /\ Remember(i, e, {rid}) /\ Await(i, h, [at |-> "relay", event |-> e, to |-> here])
      /\ e.targets # {} /\ ~e.relayed /\ owed' = owed \cup Owes(e, reached)
  BY DEF HandleBroadcast, Marked, Relays, asked, links
<1>2. published \subseteq Pulse /\ work \in [Instance -> [Handler -> Awaited]]
  BY DEF Inv, TypeOK, WireOK, SessionsOK
<1>3. PICK p \in published : TakenOf(i, h, e, p)
  BY <1>1, TakenBroadcast
<1>4. e = BroadcastEvent(p) /\ e.name = p.name
  BY <1>1, <1>3 DEF TakenOf, Original, RelayOf
<1>5. p \in Pulse /\ p.from = "client"
  <2>1. p \in Pulse /\ p.targets # {}
    BY <1>1, <1>2, <1>4, PulseFacts
  <2>. QED  BY <2>1, DispatcherAssumption
<1>6. /\ \A k \in Instance : k # i => seen'[k] = seen[k]
      /\ seen'[i] \subseteq seen[i] \cup {e.id} \cup {rid}
  <2>1. {rid} \in SUBSET EventId
    <3>1. RelayId(i, h, p.name) \in EventId
      BY <1>5, IdFacts
    <3>. QED  BY <1>4, <3>1
  <2> HIDE DEF rid
  <2>2. HistoryOK
    OBVIOUS
  <2>3. /\ \A k \in Instance : k # i => seen'[k] = seen[k]
        /\ seen'[i] \subseteq seen[i] \cup ({e.id} \ {None}) \cup {rid}
    BY <1>1, <2>1, <2>2, RememberIs
  <2>. QED  BY <2>3
<1>7. /\ work'[i][h] = [at |-> "relay", event |-> e, to |-> here]
      /\ \A j \in Instance, g \in Handler : j # i \/ g # h => work'[j][g] = work[j][g]
  BY <1>1, <1>2 DEF Await
<1> HIDE DEF rid, here
<1>8. ~Reads(i, e)
  <2>1. ASSUME NEW q \in published, e = BroadcastEvent(q)
        PROVE  q.from = "client"
    <3>1. q.name = p.name
      BY <1>4, <2>1 DEF BroadcastEvent
    <3>. QED  BY <1>2, <1>5, <3>1, DispatcherAssumption
  <2>. QED  BY <1>1, <2>1 DEF Reads
<1>9. \A k \in Instance, f \in Event : Matched(k, f)' = Matched(k, f)
  BY <1>1 DEF Matched, Of
<1>10. ASSUME NEW s, NEW n, Coming(s, n)
       PROVE  Coming(s, n)'
  <2>1. \A j \in Instance, g \in Handler : Relaying(j, g, n) => work'[j][g] = work[j][g]
    BY <1>7 DEF Relaying, Idle
  <2>2. \A k \in Instance : \A f \in Copies(k) : Reads(k, f) => f \in Copies(k)' /\ Reads(k, f)'
    BY <1>1, <1>3, <1>6, <1>8, StillReads DEF rid
  <2>. QED  BY <1>1, <1>9, <1>10, <2>1, <2>2, ComingStays
<1>11. ASSUME NEW k \in reached, NEW s \in Matched(k, e)
       PROVE  Coming(s, e.name)'
  <2>1. Relaying(i, h, e.name)'
    BY <1>7 DEF Relaying
  <2>2. Brings(i, h, s)'
    <3>1. work'[i][h].event = e /\ work'[i][h].to = here
      BY <1>7
    <3>2. CASE s \in here
      BY <3>1, <3>2 DEF Brings
    <3>3. CASE s \notin here
      <4>1. k \in Instance /\ k # i /\ Global \in heard'[k]
        BY <1>1, <1>11, <3>3 DEF here
      <4>2. s \in Matched(k, e)'
        BY <1>9, <1>11, <4>1
      <4>3. ASSUME NEW f, f = e, NEW T, T = here
            PROVE  s \in Matched(k, f)' \ T
        BY <3>3, <4>2, <4>3
      <4>. QED  BY <3>1, <4>1, <4>3 DEF Brings
    <3>. QED  BY <3>2, <3>3
  <2>. QED  BY <2>1, <2>2 DEF Coming
<1> SUFFICES ASSUME NEW o \in owed'
             PROVE  Coming(o[1], o[2])'
  BY DEF OwedComes
<1>12. CASE o \in owed
  BY <1>10, <1>12 DEF OwedComes
<1>13. CASE o \in Owes(e, reached)
  <2>1. PICK k \in reached : \E s \in Matched(k, e) : o = <<s, e.name>>
    BY <1>13 DEF Owes
  <2>2. PICK s \in Matched(k, e) : o = <<s, e.name>>
    BY <2>1
  <2>. QED  BY <1>11, <2>2
<1>. QED  BY <1>1, <1>12, <1>13

LEMMA TriggeringOwed ==
  ASSUME Inv, CopiesInv, OwedComes, NEW i \in Instance, NEW h \in Handler, NEW e \in Event,
         HandleBroadcast(i, h, e), Took(i, h, e), UNCHANGED asked,
         ~Relays(e, Matched(i, e))
  PROVE  OwedComes'
<1> USE DEF CopiesInv, PulsesOnly
<1> DEFINE here == Matched(i, e)
           reached == {i} \cup {k \in Instance : Global \in heard[k]}
<1>1. /\ UNCHANGED <<published, work, active, mapped, heard>> /\ e.type = "broadcast"
      /\ Remember(i, e, {}) /\ Trigger(i, here, e)
      /\ owed' = IF e.targets = {} \/ e.relayed THEN owed ELSE owed \cup Owes(e, reached)
  BY DEF HandleBroadcast, Marked, asked, links
<1>2. published \subseteq Pulse /\ here \in SUBSET Session
  BY MatchedAre DEF Inv, TypeOK, WireOK
<1>3. PICK p \in published : TakenOf(i, h, e, p)
  BY <1>1, TakenBroadcast
<1>4. e.name = p.name
  BY <1>3 DEF TakenOf
<1>5. /\ \A k \in Instance : k # i => seen'[k] = seen[k]
      /\ seen'[i] \subseteq seen[i] \cup {e.id} \cup {RelayId(i, h, e.name)}
  <2>1. {} \in SUBSET EventId /\ HistoryOK
    OBVIOUS
  <2>2. /\ \A k \in Instance : k # i => seen'[k] = seen[k]
        /\ seen'[i] \subseteq seen[i] \cup ({e.id} \ {None}) \cup {}
    BY <1>1, <2>1, RememberIs
  <2>. QED  BY <2>2
<1>6. /\ \A k \in Instance : got[k] \subseteq got'[k]
      /\ \A s \in here : <<s, e.name>> \in got'[i]
  BY <1>1 DEF Trigger, HistoryOK
<1> HIDE DEF here
<1>7. \A k \in Instance, f \in Event : Matched(k, f)' = Matched(k, f)
  BY <1>1 DEF Matched, Of
<1>8. \A s \in here : Coming(s, e.name)'
  BY <1>6 DEF Coming
<1>9. ASSUME NEW s, NEW n, Coming(s, n)
      PROVE  Coming(s, n)'
  <2>1. \A k \in Instance : \A f \in Copies(k) : f.name = n /\ Reads(k, f) /\ s \in Matched(k, f) =>
          (f \in Copies(k)' /\ Reads(k, f)') \/ Coming(s, n)'
    <3> SUFFICES ASSUME NEW k \in Instance, NEW f \in Copies(k), f.name = n, Reads(k, f),
                        s \in Matched(k, f)
                 PROVE  (f \in Copies(k)' /\ Reads(k, f)') \/ Coming(s, n)'
      OBVIOUS
    <3>1. CASE k = i /\ f = e
      BY <1>8, <3>1 DEF here
    <3>2. CASE k # i \/ f # e
      BY <1>1, <1>3, <1>5, <3>2, StillReads
    <3>. QED  BY <3>1, <3>2
  <2>. QED  BY <1>1, <1>6, <1>7, <1>9, <2>1, ComingStays
\* If all its targets are here, it owes nothing to others.
<1>10. ASSUME e.targets # {}, ~e.relayed, NEW k \in Instance, NEW s \in Matched(k, e)
       PROVE  s \in here
  <2>1. e = BroadcastEvent(p)
    BY <1>3, <1>10 DEF TakenOf, Original, RelayOf
  <2>2. p \in Pulse /\ p.targets # {}
    BY <1>2, <1>10, <2>1, PulseFacts
  <2>3. e.sim = None
    BY <2>1, <2>2, DispatcherAssumption DEF BroadcastEvent
  <2>4. e.targets \subseteq here
    BY <1>10 DEF Relays, here
  <2>5. AgentType \notin e.targets
    BY <1>2, <2>4, DispatcherAssumption
  <2>. QED  BY <1>10, <2>3, <2>4, <2>5 DEF Matched
<1> SUFFICES ASSUME NEW o \in owed'
             PROVE  Coming(o[1], o[2])'
  BY DEF OwedComes
<1>11. CASE o \in owed
  BY <1>9, <1>11 DEF OwedComes
<1>12. CASE e.targets # {} /\ ~e.relayed /\ o \in Owes(e, reached)
  <2>1. PICK k \in Instance : \E s \in Matched(k, e) : o = <<s, e.name>>
    BY <1>12 DEF Owes
  <2>2. PICK s \in Matched(k, e) : o = <<s, e.name>>
    BY <2>1
  <2>. QED  BY <1>8, <1>10, <1>12, <2>2
<1>. QED  BY <1>1, <1>11, <1>12

\* What a relay brings when it is published; what it brought is owed no longer when it failed.
LEMMA RelayedOwed ==
  ASSUME Inv, CopiesInv, OwedComes, NEW i \in Instance, NEW h \in Handler, Relayed(i, h)
  PROVE  OwedComes'
<1> USE DEF CopiesInv, PulsesOnly
<1> DEFINE w == work[i][h]
           r == Relay(i, h, w.event, w.event.targets \ w.to)
<1>1. /\ UNCHANGED <<published, seen, active, mapped, heard>>
      /\ w.at = "relay" /\ Trigger(i, w.to, w.event) /\ Await(i, h, Idle)
      /\ \/ Publish(ChannelOf(w.event), r) /\ UNCHANGED owed
         \/ UNCHANGED mail /\ owed' = {o \in owed : o[2] # w.event.name}
  BY DEF Relayed, asked, sessions, links
<1>2. /\ published \subseteq Pulse /\ work \in [Instance -> [Handler -> Awaited]]
      /\ mail \in [Instance -> Seq(Event)]
  BY DEF Inv, TypeOK, WireOK, SessionsOK
<1>3. w.event \in BroadcastEvents /\ w.to \in SUBSET Session
  <2>1. w \in Awaited
    BY <1>2
  <2>. QED  BY <1>1, <2>1 DEF Awaited
<1>4. PICK p \in published : p.from = "client" /\ p.targets # {} /\ w.event = BroadcastEvent(p)
  BY <1>1 DEF Origin
<1>5. /\ w.event.name = p.name /\ w.event.sim = None /\ w.event.targets # {}
      /\ Relaying(i, h, p.name)
  <2>1. p \in Pulse /\ p.sim = None
    BY <1>2, <1>4, DispatcherAssumption
  <2>. QED  BY <1>1, <1>4, <2>1, PulseFacts DEF Relaying
<1>6. /\ r \in Event /\ r.type = "broadcast" /\ r.name = p.name /\ r.relayed
      /\ r.id = RelayId(i, h, p.name) /\ r.sim = None /\ r.targets = w.event.targets \ w.to
      /\ r.excluded = w.event.excluded
  <2>1. r \in BroadcastEvents
    <3>1. w.event.targets \ w.to \in SUBSET (Session \cup {AgentType})
      BY <1>3 DEF BroadcastEvents
    <3>. QED  BY <1>3, <3>1, RelayIs
  <2>2. /\ r.name = p.name /\ r.relayed /\ r.id = RelayId(i, h, p.name) /\ r.sim = None
        /\ r.targets = w.event.targets \ w.to /\ r.excluded = w.event.excluded
    BY <1>3, <1>5 DEF Relay, BroadcastEvents
  <2>. QED  BY <2>1, <2>2 DEF Event, BroadcastEvents
<1>7. /\ \A k \in Instance : got[k] \subseteq got'[k]
      /\ \A s \in w.to : <<s, p.name>> \in got'[i]
  BY <1>1, <1>5 DEF Trigger, HistoryOK
<1>8. \A j \in Instance, g \in Handler : j # i \/ g # h => work'[j][g] = work[j][g]
  BY <1>1, <1>2 DEF Await
<1>9. Publish(ChannelOf(w.event), r) =>
        \A k \in Instance : Letters(k)' = Letters(k) \cup IF Global \in heard[k] THEN {r} ELSE {}
  <2> HIDE DEF r
  <2> SUFFICES ASSUME Publish(ChannelOf(w.event), r)
               PROVE  \A k \in Instance :
                        Letters(k)' = Letters(k) \cup IF Global \in heard[k] THEN {r} ELSE {}
    OBVIOUS
  <2>1. ChannelOf(w.event) = Global
    BY <1>5 DEF ChannelOf
  <2>2. Publish(Global, r)
    BY <2>1
  <2>. QED  BY <1>2, <1>6, <2>2, PublishMail
<1>10. Unused(i, h, p.name)
  BY <1>2, <1>5 DEF RelaysOnce
<1>11. \A k \in Instance : Letters(k) \subseteq Letters(k)'
  BY <1>1, <1>9, SameMail
<1>12. \A k \in Instance, f \in Event : Matched(k, f)' = Matched(k, f)
  BY <1>1 DEF Matched, Of
\* Who reads the relay runs the sessions that the relaying instance has not.
<1>13. ASSUME NEW k \in Instance, NEW s \in Matched(k, w.event) \ w.to
       PROVE  s \in Matched(k, r)
  <2>1. CASE AgentType \in w.event.targets
    <3>1. AgentType \in r.targets
      BY <1>3, <1>6, <2>1, DispatcherAssumption
    <3>. QED  BY <1>5, <1>6, <1>13, <2>1, <3>1 DEF Matched
  <2>2. CASE AgentType \notin w.event.targets
    <3>1. s \in active[k] \cap w.event.targets /\ s \notin w.event.excluded
      BY <1>5, <1>13, <2>2 DEF Matched
    <3>2. s \in r.targets /\ AgentType \notin r.targets
      BY <1>6, <1>13, <2>2, <3>1
    <3>. QED  BY <1>6, <3>1, <3>2 DEF Matched
  <2>. QED  BY <2>1, <2>2
<1> HIDE DEF r, w
<1>14. ASSUME Publish(ChannelOf(w.event), r), NEW s, Brings(i, h, s)
       PROVE  Coming(s, p.name)'
  <2>1. CASE s \in w.to
    BY <1>7, <2>1 DEF Coming
  <2>2. CASE s \notin w.to
    <3>1. PICK k \in Instance : k # i /\ Global \in heard[k] /\ s \in Matched(k, w.event) \ w.to
      BY <1>14, <2>2 DEF Brings, w
    <3>2. r \in Copies(k)'
      BY <1>6, <1>9, <1>14, <3>1 DEF Copies
    <3>3. s \in Matched(k, r)
      BY <1>13, <3>1
    <3>4. ASSUME NEW f \in Event, f = r
          PROVE  f \in Copies(k)' /\ f.name = p.name /\ Reads(k, f)' /\ s \in Matched(k, f)'
      <4>1. f.id \notin seen'[k]
        BY <1>1, <1>6, <1>10, <3>1, <3>4 DEF Unused
      <4>2. f.relayed /\ \A g \in Handler : f.id # RelayId(k, g, f.name)
        BY <1>6, <3>1, <3>4, IdFacts
      <4>3. f \in Copies(k)'
        BY <3>2, <3>4
      <4>4. Reads(k, f)'
        BY <4>1, <4>2, <4>3 DEF Reads, Duplicate, RelayId
      <4>. QED  BY <1>6, <1>12, <3>3, <3>4, <4>3, <4>4
    <3>5. PICK f \in Event : f = r
      BY <1>6
    <3>. QED  BY <3>4, <3>5 DEF Coming
  <2>. QED  BY <2>1, <2>2
<1> SUFFICES ASSUME NEW o \in owed', NEW s, NEW n, s = o[1], n = o[2]
             PROVE  Coming(s, n)'
  BY DEF OwedComes
<1>15. Coming(s, n) /\ o \in owed /\ (n = p.name => Publish(ChannelOf(w.event), r))
  BY <1>1, <1>5 DEF OwedComes
<1>16. \A j \in Instance, g \in Handler : Relaying(j, g, n) /\ Brings(j, g, s) =>
         work'[j][g] = work[j][g] \/ Coming(s, n)'
  <2> SUFFICES ASSUME NEW j \in Instance, NEW g \in Handler, Relaying(j, g, n), Brings(j, g, s)
               PROVE  work'[j][g] = work[j][g] \/ Coming(s, n)'
    OBVIOUS
  <2>1. CASE j # i \/ g # h
    BY <1>8, <2>1
  <2>2. CASE j = i /\ g = h
    <3>1. n = p.name
      BY <1>5, <2>2 DEF Relaying
    <3>. QED  BY <1>14, <1>15, <2>2, <3>1
  <2>. QED  BY <2>1, <2>2
<1>17. \A k \in Instance : \A f \in Copies(k) : Reads(k, f) => f \in Copies(k)' /\ Reads(k, f)'
  <2> SUFFICES ASSUME NEW k \in Instance, NEW f \in Copies(k), Reads(k, f)
               PROVE  f \in Copies(k)' /\ Reads(k, f)'
    OBVIOUS
  <2>1. f \in Copies(k)'
    BY <1>11 DEF Copies
  <2>. QED  BY <1>1, <2>1, ReadsStays
<1>18. \A k \in Instance, f \in Event : s \in Matched(k, f) => s \in Matched(k, f)'
  BY <1>12
<1>. QED  BY <1>1, <1>7, <1>15, <1>16, <1>17, <1>18, ComingStays

\* What is owed is a session and a name.
OwedPairs == \A o \in owed : o = <<o[1], o[2]>>

LEMMA PairsStay == OwedPairs /\ [Next]_vars => OwedPairs'
<1> SUFFICES ASSUME OwedPairs, [Next]_vars PROVE OwedPairs'
  OBVIOUS
<1>1. ASSUME NEW e, NEW reached, NEW o \in Owes(e, reached)
      PROVE  \E s, n : o = <<s, n>>
  BY <1>1 DEF Owes
<1>2. ASSUME NEW i \in Instance, NEW h \in Handler, NEW e, ProcessEvent(i, h, e), NEW o \in owed'
      PROVE  o \in owed \/ \E s, n : o = <<s, n>>
  <2>1. CASE HandleBroadcast(i, h, e)
    BY <1>1, <1>2, <2>1 DEF HandleBroadcast
  <2>2. CASE owed' \subseteq owed
    BY <1>2, <2>2
  <2>3. HandleBroadcast(i, h, e) \/ owed' \subseteq owed
    BY <1>2 DEF ProcessEvent, HandleReset, HandleSpawn, HandleEnd, HandleAction, delivered
  <2>. QED  BY <2>1, <2>2, <2>3
<1>3. ASSUME NEW i \in Instance, NEW o \in owed', TakeMail(i) \/ TakeSpawn(i) \/ TakePoke(i)
      PROVE  o \in owed \/ \E s, n : o = <<s, n>>
  BY <1>2, <1>3 DEF TakeMail, TakeSpawn, TakePoke, Handler
<1>4. ASSUME NEW p \in Pulse, PublishPulse(p), NEW o \in owed'
      PROVE  o \in owed \/ \E s, n : o = <<s, n>>
  BY <1>1, <1>4 DEF PublishPulse
<1>5. ASSUME NEW i \in Instance,
             \/ \E h \in Handler : \/ Registered(i, h) \/ Subscribed(i, h)
                                   \/ Relayed(i, h) \/ Cleared(i, h) \/ Break(i, h)
             \/ Chore(i) \/ \E r \in runs[i] : Begin(i, r) \/ Finish(i, r)
             \/ Connect(i) \/ Rejoin(i)
      PROVE  owed' \subseteq owed
  BY <1>5 DEF Registered, Subscribed, Relayed, Cleared, Break, Chore, Begin, Finish, Connect,
              Rejoin, delivered
<1>6. ASSUME \/ \E S \in SUBSET Session : \E poked \in SUBSET S : Spawn(S, poked)
             \/ \E p \in Pulse : SendPulse(p)
             \/ \E s \in Session : SendAction(s)
             \/ \E x \in Simulation : EndSimulation(x)
             \/ ResetEnvironment
      PROVE  owed' \subseteq owed
  BY <1>6 DEF Spawn, SendPulse, SendAction, EndSimulation, ResetEnvironment, delivered
<1>7. ASSUME NEW o \in owed'
      PROVE  o \in owed \/ \E s, n : o = <<s, n>>
  <2>1. CASE ClientNext
    BY <1>4, <1>6, <1>7, <2>1 DEF ClientNext
  <2>2. CASE \E i \in Instance : InstanceNext(i)
    BY <1>3, <1>5, <1>7, <2>2 DEF InstanceNext
  <2>3. CASE UNCHANGED vars
    BY <1>7, <2>3 DEF vars, delivered
  <2>. QED  BY <2>1, <2>2, <2>3 DEF Next
<1>. QED  BY <1>7 DEF OwedPairs

LEMMA InitOwed == Init => OwedComes /\ OwedPairs
BY DEF Init, OwedComes, OwedPairs

LEMMA NextOwed == Inv /\ CopiesInv /\ OwedComes /\ [Next]_vars => OwedComes'
<1> SUFFICES ASSUME Inv, CopiesInv, OwedComes, [Next]_vars PROVE OwedComes'
  OBVIOUS
<1>1. ASSUME NEW i \in Instance, TakeMail(i) \/ TakeSpawn(i) \/ TakePoke(i)
      PROVE  OwedComes'
  <2>1. PICK h \in Handler, e \in Event :
          /\ ProcessEvent(i, h, e) /\ Took(i, h, e) /\ work[i][h] = Idle /\ UNCHANGED asked
    BY <1>1, ReadsTake DEF CopiesInv, PulsesOnly
  <2>2. CASE e.type # "broadcast" \/ Duplicate(i, e)
    BY <2>1, <2>2, ReadOwed
  <2>3. CASE e.type = "broadcast" /\ ~Duplicate(i, e)
    <3>1. HandleBroadcast(i, h, e)
      BY <2>1, <2>3 DEF ProcessEvent, HandleReset, HandleSpawn, HandleEnd, HandleAction
    <3>. QED  BY <2>1, <2>3, <3>1, RelayingOwed, TriggeringOwed
  <2>. QED  BY <2>2, <2>3
<1>2. CASE Next
  BY <1>1, <1>2, LoopOwed, BreakOwed, RequestsOwed, RelayedOwed, PublishOwed
     DEF Next, ClientNext, InstanceNext
<1>3. CASE UNCHANGED vars
  <2>1. UNCHANGED <<published, seen, got, owed, mail, work, active, mapped, heard>>
    BY <1>3 DEF vars, asked, wire, sessions, delivered, links
  <2>2. \A k \in Instance : Copies(k)' = Copies(k)
    BY <2>1, SameMail DEF Copies
  <2>. QED  BY <2>1, <2>2, QuietOwed
<1>. QED  BY <1>2, <1>3

(* Where every broadcast is that may still run a session, and that whatever
   session it is owed to has been run, or is to be (dispatcher.py:333-341, 430-498). *)
THEOREM PulsesInvariant == Spec => [](Inv /\ CopiesInv /\ OwedComes /\ OwedPairs)
<1>1. Init => Inv /\ CopiesInv /\ OwedComes /\ OwedPairs
  BY InitInv, InitCopies, InitOwed
<1>2. Inv /\ CopiesInv /\ OwedComes /\ OwedPairs /\ [Next]_vars
      => (Inv /\ CopiesInv /\ OwedComes /\ OwedPairs)'
  BY NextInv, NextCopies, NextOwed, PairsStay
<1>. QED  BY <1>1, <1>2, PTL DEF Spec

(* A broadcast runs a session again in an instance only when an id of it was forgotten, when its
   targets name the session twice, or when it was published as well as poked and has no id or is
   relayed; and when all is at rest every session it is owed to has been run (dispatcher.py:333-341, 430-440, 458-498). *)
THEOREM PulsesOnce == Spec => []EachPulseOnce
<1>1. CopiesInv /\ OwedComes /\ OwedPairs => EachPulseOnce
  <2> SUFFICES ASSUME CopiesInv, OwedComes, OwedPairs PROVE EachPulseOnce
    OBVIOUS
  <2>1. \A i \in Instance : \A t \in twice[i] : Excused(i, t[2]) \/ NamedTwice(t)
    BY DEF CopiesInv, NotTwice
  <2>2. ASSUME Quiet, NEW o \in owed
        PROVE  o \in UNION {got[i] : i \in Instance}
    <3>1. \A k \in Instance : Copies(k) = {} /\ \A n : \A h \in Handler : ~Relaying(k, h, n)
      BY <2>2 DEF Quiet, Copies, Letters, Relaying, Idle
    <3>2. Coming(o[1], o[2]) /\ o = <<o[1], o[2]>>
      BY <2>2 DEF OwedComes, OwedPairs
    <3>3. PICK k \in Instance : <<o[1], o[2]>> \in got[k]
      BY <3>1, <3>2 DEF Coming
    <3>. QED  BY <3>2, <3>3
  <2>. QED  BY <2>1, <2>2 DEF EachPulseOnce, Excused, NamedTwice
<1>. QED  BY PulsesInvariant, <1>1, PTL
=============================================================================
