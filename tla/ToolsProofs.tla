---------------------------- MODULE ToolsProofs ----------------------------
(***************************************************************************)
(* Proofs about the tools around the gateway and the traffic on a map,     *)
(* each by itself: an inductive invariant of the part, a lemma for its     *)
(* steps, and the theorem, which says of MCTools' specification what       *)
(* MCTools checks of it.  A step of another part leaves this one's         *)
(* variables alone.                                                        *)
(*                                                                         *)
(* A recursive function is shown to exist, and an induction over numbers   *)
(* is done, with the least number at which it would fail (LeastNat).       *)
(***************************************************************************)
EXTENDS MCTools, TLAPS, WellFoundedInduction, FiniteSetTheorems

LEMMA LeastNat ==
    ASSUME NEW T \in SUBSET Nat, T # {}
    PROVE  \E n \in T : \A m \in T : n <= m
<1>1. \E x \in T : \A y \in T : ~ (<<y, x>> \in OpToRel(<, Nat))
  BY NatLessThanWellFounded, WFMin
<1>2. PICK x \in T : \A y \in T : ~ (<<y, x>> \in OpToRel(<, Nat))
  BY <1>1
<1>3. \A y \in T : ~(y < x)
  BY <1>2 DEF OpToRel
<1>. QED  BY <1>3

(***************************************************************************)
(* The tester's console.                                                   *)
(***************************************************************************)
\* A message that is no pulse is only an event.
Messages == [event : {"environment_reset", "other"}]
            \cup [event : {"pulse"}, session : Shown, surfaces : Tester!Surfaces]

ResetOnTheWay(messages) == "environment_reset" \in {messages[i].event : i \in DOMAIN messages}

FlushAnswered(answers) == TRUE \in {answers[i] : i \in DOMAIN answers}

ConsoleInv ==
    /\ wire \in Seq(Messages) /\ resetting \in Seq(BOOLEAN) /\ live \subseteq Shown
    /\ Tester!RowsShowTracked /\ Tester!GhostsHaveACause

LEMMA ResetStays ==
    ASSUME NEW messages \in Seq(Messages), NEW m \in Messages, ResetOnTheWay(messages)
    PROVE  /\ ResetOnTheWay(Append(messages, m))
           /\ Head(messages).event # "environment_reset" => ResetOnTheWay(Tail(messages))
<1>1. PICK i \in DOMAIN messages : messages[i].event = "environment_reset"
  BY DEF ResetOnTheWay
<1>2. i \in 1 .. Len(messages) /\ Len(messages) \in Nat /\ messages # <<>>
  BY <1>1
<1>3. i \in DOMAIN Append(messages, m) /\ Append(messages, m)[i] = messages[i]
  BY <1>2
<1>4. ResetOnTheWay(Append(messages, m))
  BY <1>1, <1>3 DEF ResetOnTheWay
<1>5. ASSUME Head(messages).event # "environment_reset"
      PROVE  ResetOnTheWay(Tail(messages))
  <2>1. i # 1
    <3>1. Head(messages) = messages[1]
      BY <1>2
    <3>. QED  BY <1>1, <1>5, <3>1
  <2>2. i - 1 \in DOMAIN Tail(messages) /\ Tail(messages)[i - 1] = messages[i]
    BY <1>2, <2>1
  <2>. QED  BY <1>1, <2>2 DEF ResetOnTheWay
<1>. QED  BY <1>4, <1>5

LEMMA ResetSent ==
    ASSUME NEW messages \in Seq(Messages)
    PROVE  ResetOnTheWay(Append(messages, [event |-> "environment_reset"]))
<1> DEFINE m == [event |-> "environment_reset"]
           u == Append(messages, m)
<1>1. m \in Messages /\ m.event = "environment_reset"
  BY DEF Messages
<1> HIDE DEF m
<1>2. Len(messages) + 1 \in DOMAIN u /\ u[Len(messages) + 1] = m
  BY <1>1
<1>3. ResetOnTheWay(u)
  <2> HIDE DEF u
  <2>. QED  BY <1>1, <1>2 DEF ResetOnTheWay
<1>. QED  BY <1>3 DEF m

LEMMA FlushStays ==
    ASSUME NEW answers \in Seq(BOOLEAN), NEW b \in BOOLEAN, FlushAnswered(answers)
    PROVE  /\ FlushAnswered(Append(answers, b))
           /\ answers # <<>> /\ (~Head(answers) => FlushAnswered(Tail(answers)))
<1>1. PICK i \in DOMAIN answers : answers[i] = TRUE
  BY DEF FlushAnswered
<1>2. i \in 1 .. Len(answers) /\ Len(answers) \in Nat /\ answers # <<>>
  BY <1>1
<1>3. i \in DOMAIN Append(answers, b) /\ Append(answers, b)[i] = answers[i]
  BY <1>2
<1>4. FlushAnswered(Append(answers, b))
  BY <1>1, <1>3 DEF FlushAnswered
<1>5. ASSUME ~Head(answers)
      PROVE  FlushAnswered(Tail(answers))
  <2>1. i # 1
    <3>1. Head(answers) = answers[1]
      BY <1>2
    <3>. QED  BY <1>1, <1>5, <3>1
  <2>2. i - 1 \in DOMAIN Tail(answers) /\ Tail(answers)[i - 1] = answers[i]
    BY <1>2, <2>1
  <2>. QED  BY <1>1, <2>2 DEF FlushAnswered
<1>. QED  BY <1>2, <1>4, <1>5

\* What the page shows and what excuses it, of the primed variables alone.
LEMMA ConsoleKept ==
    ASSUME ConsoleInv,
           wire' \in Seq(Messages), resetting' \in Seq(BOOLEAN), live' \subseteq Shown,
           rows' = tracked' \cap search', ticked' \subseteq rows',
           \/ tracked' \ live' \subseteq excused'
           \/ ResetOnTheWay(wire')
           \/ FlushAnswered(resetting')
    PROVE  ConsoleInv'
BY DEF ConsoleInv, Tester!RowsShowTracked, Tester!GhostsHaveACause, ResetOnTheWay, FlushAnswered

LEMMA ConsoleStep ==
    ASSUME ConsoleInv, Tester!Next
    PROVE  ConsoleInv'
<1>1. /\ wire \in Seq(Messages) /\ resetting \in Seq(BOOLEAN) /\ live \subseteq Shown
      /\ rows = tracked \cap search /\ ticked \subseteq rows
      /\ \/ tracked \ live \subseteq excused
         \/ ResetOnTheWay(wire)
         \/ FlushAnswered(resetting)
  BY DEF ConsoleInv, Tester!RowsShowTracked, Tester!GhostsHaveACause, ResetOnTheWay, FlushAnswered
<1>2. CASE Tester!Open \/ Tester!Connect \/ Tester!Broadcast \/ Tester!Tick
  BY <1>1, <1>2, ConsoleKept DEF Tester!Open, Tester!Connect, Tester!Broadcast, Tester!Tick
<1>3. CASE Tester!Close
  <2>1. /\ wire' = <<>> /\ UNCHANGED <<tracked, search, rows, ticked, resetting, live>>
        /\ ResetOnTheWay(wire) => tracked \ live \subseteq excused'
        /\ excused \subseteq excused'
    BY <1>3 DEF Tester!Close, ResetOnTheWay
  <2>2. wire' \in Seq(Messages)
    BY <2>1
  <2>. QED  BY <1>1, <2>1, <2>2, ConsoleKept
<1>4. CASE Tester!Hear
  <2>1. /\ wire # <<>> /\ wire' = Tail(wire) /\ UNCHANGED <<search, resetting, live, excused>>
        /\ \/ Tester!HearPulse(Head(wire))
           \/ Tester!HearReset(Head(wire))
           \/ Tester!HearOther(Head(wire))
    BY <1>4 DEF Tester!Hear
  <2>2. wire' \in Seq(Messages)
    BY <1>1, <2>1
  <2>3. CASE Tester!HearReset(Head(wire))
    <3>1. tracked' = {} /\ rows' = {} \cap search /\ ticked' = {} \cap search
      BY <2>3 DEF Tester!HearReset, Tester!Clear, Tester!Render
    <3>. QED  BY <1>1, <2>1, <2>2, <3>1, ConsoleKept
  <2>4. CASE Tester!HearPulse(Head(wire)) \/ Tester!HearOther(Head(wire))
    <3>1. UNCHANGED <<tracked, rows, ticked>> /\ Head(wire).event # "environment_reset"
      BY <2>4 DEF Tester!HearPulse, Tester!HearOther
    <3>2. ResetOnTheWay(wire) => ResetOnTheWay(wire')
      <4>1. [event |-> "other"] \in Messages
        BY DEF Messages
      <4>. QED  BY <1>1, <2>1, <3>1, <4>1, ResetStays
    <3>. QED  BY <1>1, <2>1, <2>2, <3>1, <3>2, ConsoleKept
  <2>. QED  BY <2>1, <2>3, <2>4
<1>5. ASSUME NEW new \in SUBSET Shown, Tester!Serve(new)
      PROVE  ConsoleInv'
  BY <1>1, <1>5, ConsoleKept DEF Tester!Serve
<1>6. ASSUME NEW new \in SUBSET Shown, Tester!Spawned(new)
      PROVE  ConsoleInv'
  BY <1>1, <1>6, ConsoleKept DEF Tester!Spawned, Tester!Render
<1>7. ASSUME NEW filter, Tester!Search(filter)
      PROVE  ConsoleInv'
  BY <1>1, <1>7, ConsoleKept DEF Tester!Search, Tester!Render
<1>8. CASE Tester!StopSelected
  BY <1>1, <1>8, ConsoleKept DEF Tester!StopSelected, Tester!Render
<1>9. ASSUME NEW flush \in BOOLEAN, NEW mine \in BOOLEAN, Tester!ServeReset(flush, mine)
      PROVE  ConsoleInv'
  <2>1. /\ UNCHANGED <<tracked, search, rows, ticked>> /\ live' \subseteq Shown
        /\ resetting' = resetting \/ resetting' = Append(resetting, flush)
    BY <1>1, <1>9 DEF Tester!ServeReset, Tester!Answered
  <2>2. resetting' \in Seq(BOOLEAN)
    BY <1>1, <2>1
  <2>3. CASE wire' = Append(wire, [event |-> "environment_reset"])
    <3>1. [event |-> "environment_reset"] \in Messages
      BY DEF Messages
    <3>2. wire' \in Seq(Messages)
      BY <1>1, <2>3, <3>1
    <3>. QED  BY <1>1, <2>1, <2>2, <2>3, <3>2, ResetSent, ConsoleKept
  <2>4. CASE wire' = wire /\ excused' = excused \cup (tracked \ live')
    BY <1>1, <2>1, <2>2, <2>4, ConsoleKept
  <2>. QED  BY <1>9, <2>3, <2>4 DEF Tester!ServeReset
<1>10. CASE Tester!ResetDone
  <2>1. /\ resetting # <<>> /\ resetting' = Tail(resetting)
        /\ UNCHANGED <<wire, search, live, excused>>
    BY <1>10 DEF Tester!ResetDone
  <2>2. resetting' \in Seq(BOOLEAN)
    BY <1>1, <2>1
  <2>3. CASE Tester!Clear
    BY <1>1, <2>1, <2>2, <2>3, ConsoleKept DEF Tester!Clear, Tester!Render
  <2>4. CASE ~Head(resetting) /\ UNCHANGED <<tracked, rows, ticked>>
    <3>1. FlushAnswered(resetting) => FlushAnswered(resetting')
      BY <1>1, <2>1, <2>4, FlushStays
    <3>. QED  BY <1>1, <2>1, <2>2, <2>4, <3>1, ConsoleKept
  <2>. QED  BY <1>10, <2>3, <2>4 DEF Tester!ResetDone
<1>11. ASSUME NEW i, Tester!Press(i)
       PROVE  ConsoleInv'
  BY <1>1, <1>11, ConsoleKept DEF Tester!Press
<1>12. ASSUME NEW m \in Messages, Tester!AgentSays(m)
       PROVE  ConsoleInv'
  <2>1. /\ wire' = Append(wire, m)
        /\ UNCHANGED <<tracked, search, rows, ticked, resetting, live, excused>>
    BY <1>12 DEF Tester!AgentSays
  <2>2. wire' \in Seq(Messages)
    BY <1>1, <2>1
  <2>3. ResetOnTheWay(wire) => ResetOnTheWay(wire')
    BY <1>1, <2>1, ResetStays
  <2>. QED  BY <1>1, <2>1, <2>2, <2>3, ConsoleKept
<1>13. ASSUME NEW s \in live, NEW b \in Tester!Surfaces
       PROVE  [event |-> "pulse", session |-> s, surfaces |-> b] \in Messages
  BY <1>1 DEF Messages
<1>14. [event |-> "other"] \in Messages
  BY DEF Messages
<1>15. ASSUME NEW left \in SUBSET live, NEW mine \in BOOLEAN, Tester!ResetFails(left, mine)
       PROVE  ConsoleInv'
  <2>1. /\ UNCHANGED <<wire, tracked, search, rows, ticked>> /\ live' \subseteq Shown
        /\ excused' = excused \cup (tracked \ live')
        /\ resetting' = resetting \/ resetting' = Append(resetting, FALSE)
    BY <1>1, <1>15 DEF Tester!ResetFails, Tester!Answered
  <2>2. resetting' \in Seq(BOOLEAN)
    <3>1. ASSUME NEW b \in BOOLEAN
          PROVE  Append(resetting, b) \in Seq(BOOLEAN)
      BY <1>1
    <3>. QED  BY <1>1, <2>1, <3>1
  <2>. QED  BY <1>1, <2>1, <2>2, ConsoleKept
<1>16. ASSUME NEW gone \in SUBSET live, Tester!EndUnheard(gone)
       PROVE  ConsoleInv'
  <2>1. /\ UNCHANGED <<wire, tracked, search, rows, ticked, resetting>> /\ live' \subseteq Shown
        /\ tracked' \ live' \subseteq (tracked \ live) \cup (tracked \cap gone)
        /\ excused' = excused \cup (tracked \cap gone)
    BY <1>1, <1>16 DEF Tester!EndUnheard
  <2>. QED  BY <1>1, <2>1, ConsoleKept
<1>. QED  BY <1>2, <1>3, <1>4, <1>5, <1>6, <1>7, <1>8, <1>9, <1>10, <1>11, <1>12, <1>13, <1>14,
             <1>15, <1>16
          DEF Tester!Next

(***************************************************************************)
(* The log of the tester.                                                  *)
(***************************************************************************)
LogPage ==
    /\ shown \in Seq(Int) /\ queue \in Seq(Int)
    /\ first \in Int /\ appended \in Int /\ dropped \in Nat
    /\ first + dropped <= appended + 1
    /\ Len(shown) + Len(queue) = appended - (first + dropped) + 1
    /\ \A i \in 1 .. Len(shown) : shown[i] = first + dropped + i - 1
    /\ \A i \in 1 .. Len(queue) : queue[i] = first + dropped + Len(shown) + i - 1

LogInv ==
    /\ LogPage
    /\ frame \in BOOLEAN /\ (rafId => frame) /\ (queue # <<>> => frame)
    /\ badge \in {Log!Hidden, dropped}

LEMMA LogInvIsWhole ==
    ASSUME LogInv
    PROVE  Log!LogIsWhole
<1> DEFINE page == shown \o queue
           n == appended - (first + dropped) + 1
           whole == [i \in 1 .. n |-> first + dropped + i - 1]
<1>1. /\ shown \in Seq(Int) /\ queue \in Seq(Int)
      /\ first \in Int /\ appended \in Int /\ dropped \in Nat
      /\ Len(shown) + Len(queue) = n
      /\ \A i \in 1 .. Len(shown) : shown[i] = first + dropped + i - 1
      /\ \A i \in 1 .. Len(queue) : queue[i] = first + dropped + Len(shown) + i - 1
      /\ Len(shown) \in Nat /\ Len(queue) \in Nat /\ n \in Nat
  BY DEF LogInv, LogPage
<1>2. page \in Seq(Int) /\ Len(page) = n
  <2>1. page \in Seq(Int) /\ Len(page) = Len(shown) + Len(queue)
    BY <1>1
  <2> HIDE DEF page
  <2>. QED  BY <1>1, <2>1
<1>3. ASSUME NEW i \in 1 .. n
      PROVE  page[i] = first + dropped + i - 1
  <2>1. CASE i <= Len(shown)
    <3>1. page[i] = shown[i]
      BY <1>1, <2>1
    <3>. QED  BY <1>1, <2>1, <3>1
  <2>2. CASE i > Len(shown)
    <3>1. page[i] = queue[i - Len(shown)] /\ i - Len(shown) \in 1 .. Len(queue)
      BY <1>1, <2>2
    <3> HIDE DEF page
    <3>. QED  BY <1>1, <3>1
  <2>. QED  BY <1>1, <2>1, <2>2
<1>4. page = whole
  <2>1. n = Len(page) /\ page \in Seq(Int) /\ n \in Nat
    BY <1>1, <1>2
  <2> HIDE DEF page, n
  <2>. QED  BY <1>1, <1>3, <2>1
<1>. QED  BY <1>4 DEF LogInv, Log!LogIsWhole

LEMMA LogStep ==
    ASSUME LogInv, Log!Next
    PROVE  LogInv'
<1>1. CASE Log!Add
  <2>1. /\ appended' = appended + 1 /\ queue' = Append(queue, appended + 1) /\ rafId' = TRUE
        /\ frame' = (frame \/ ~rafId) /\ UNCHANGED <<shown, dropped, badge, first>>
    BY <1>1 DEF Log!Add
  <2>2. /\ queue' \in Seq(Int) /\ Len(queue') = Len(queue) + 1 /\ Len(queue) \in Nat
        /\ \A i \in 1 .. Len(queue) : queue'[i] = queue[i]
        /\ queue'[Len(queue) + 1] = appended + 1
    BY <2>1 DEF LogInv, LogPage
  <2>3. frame' = TRUE
    BY <2>1 DEF LogInv
  <2>4. /\ first \in Int /\ appended \in Int /\ dropped \in Nat /\ Len(shown) \in Nat
        /\ Len(shown) + Len(queue) = appended - (first + dropped) + 1
        /\ \A i \in 1 .. Len(queue) : queue[i] = first + dropped + Len(shown) + i - 1
    BY DEF LogInv, LogPage
  <2>5. \A i \in 1 .. Len(queue') : queue'[i] = first + dropped + Len(shown) + i - 1
    BY <2>2, <2>4
  <2>6. /\ first' \in Int /\ appended' \in Int /\ dropped' \in Nat
        /\ first' + dropped' <= appended' + 1
        /\ Len(shown') + Len(queue') = appended' - (first' + dropped') + 1
    BY <2>1, <2>2, <2>4 DEF LogInv, LogPage
  <2>7. /\ shown' \in Seq(Int) /\ \A i \in 1 .. Len(shown') : shown'[i] = first' + dropped' + i - 1
        /\ \A i \in 1 .. Len(queue') : queue'[i] = first' + dropped' + Len(shown') + i - 1
    <3>1. shown' = shown /\ first' = first /\ dropped' = dropped
      BY <2>1
    <3>. QED  BY <2>5, <3>1, Zenon DEF LogInv, LogPage
  <2>8. LogPage'
    BY <2>2, <2>6, <2>7 DEF LogPage
  <2>. QED  BY <2>1, <2>3, <2>8 DEF LogInv
<1>2. CASE Log!Flush
  <2> DEFINE page == shown \o queue
             n == Len(page)
             evicted == IF n <= MaxEntries THEN 0
                        ELSE IF EvictionBatch < n THEN EvictionBatch ELSE n
  <2>1. /\ rafId' = FALSE /\ frame' = FALSE /\ queue' = <<>>
        /\ shown' = SubSeq(page, evicted + 1, n) /\ dropped' = dropped + evicted
        /\ badge' = IF evicted > 0 THEN dropped' ELSE badge
        /\ UNCHANGED <<first, appended>>
    BY <1>2 DEF Log!Flush
  <2>2. Log!LogIsWhole
    BY LogInvIsWhole
  <2>3. /\ page \in Seq(Int) /\ n = appended - (first + dropped) + 1
        /\ \A i \in 1 .. n : page[i] = first + dropped + i - 1
    BY <2>2 DEF LogInv, LogPage, Log!LogIsWhole
  <2>4. n \in Nat
    BY <2>3
  <2> HIDE DEF page
  <2>5. evicted \in 0 .. n
    BY <2>4, LogAssumption
  <2> HIDE DEF evicted, n
  <2>6. /\ shown' \in Seq(Int) /\ Len(shown') = n - evicted
        /\ \A i \in 1 .. n - evicted : shown'[i] = page[evicted + i]
    BY <2>1, <2>3, <2>4, <2>5 DEF n
  <2>7. \A i \in 1 .. Len(shown') : shown'[i] = first' + dropped' + i - 1
    <3> SUFFICES ASSUME NEW i \in 1 .. n - evicted
                 PROVE  shown'[i] = first + dropped + evicted + i - 1
      BY <2>1, <2>3, <2>5, <2>6 DEF LogInv, LogPage
    <3>1. evicted + i \in 1 .. n
      BY <2>4, <2>5
    <3>. QED  BY <2>3, <2>5, <2>6, <3>1 DEF LogInv, LogPage
  <2>8. queue' \in Seq(Int) /\ Len(queue') = 0
    BY <2>1
  <2>9. badge' \in {Log!Hidden, dropped'}
    BY <2>1, <2>5, <2>4 DEF LogInv
  <2>10. /\ first' \in Int /\ appended' \in Int /\ dropped' \in Nat
         /\ first' + dropped' <= appended' + 1
         /\ Len(shown') + Len(queue') = appended' - (first' + dropped') + 1
    BY <2>1, <2>3, <2>4, <2>5, <2>6, <2>8 DEF LogInv, LogPage
  <2>11. \A i \in 1 .. Len(queue') : queue'[i] = first' + dropped' + Len(shown') + i - 1
    BY <2>8
  <2>12. LogPage'
    BY <2>6, <2>7, <2>8, <2>10, <2>11, Zenon DEF LogPage
  <2>. QED  BY <2>1, <2>9, <2>12 DEF LogInv
<1>3. CASE Log!Clear
  <2>1. /\ shown' = <<>> /\ queue' = <<>> /\ dropped' = 0 /\ badge' = Log!Hidden
        /\ rafId' = FALSE /\ frame' = FALSE /\ first' = appended + 1 /\ appended' = appended
    BY <1>3 DEF Log!Clear
  <2>2. shown' \in Seq(Int) /\ queue' \in Seq(Int) /\ Len(shown') = 0 /\ Len(queue') = 0
    BY <2>1
  <2>3. appended \in Int
    BY DEF LogInv, LogPage
  <2>4. LogPage'
    BY <2>1, <2>2, <2>3 DEF LogPage
  <2>. QED  BY <2>1, <2>4 DEF LogInv
<1>4. CASE Log!Scroll
  BY <1>4 DEF Log!Scroll, LogInv, LogPage
<1>. QED  BY <1>1, <1>2, <1>3, <1>4 DEF Log!Next

(* Console, LogBuffer: whatever happens to the socket, the sessions and the
   requests on the way, the page lists the tracked sessions the search lets
   through, and one that is gone was lost by a missed message; and however
   entries, frames and clearing interleave, the log is whole. *)
THEOREM PageTrue == MCSpec => []PageIsTrue
<1>1. MCInit => ConsoleInv /\ LogInv
  <2>1. Tester!Init => ConsoleInv
    BY DEF Tester!Init, ConsoleInv, Tester!RowsShowTracked, Tester!GhostsHaveACause
  <2>2. Log!Init => LogInv
    <3> SUFFICES ASSUME Log!Init PROVE LogInv
      OBVIOUS
    <3>1. /\ queue = <<>> /\ shown = <<>> /\ rafId = FALSE /\ frame = FALSE
          /\ dropped = 0 /\ badge = Log!Hidden /\ first = 1 /\ appended = 0
      BY DEF Log!Init
    <3>2. shown \in Seq(Int) /\ queue \in Seq(Int) /\ Len(shown) = 0 /\ Len(queue) = 0
      BY <3>1
    <3>3. LogPage
      BY <3>1, <3>2 DEF LogPage
    <3>. QED  BY <3>1, <3>3 DEF LogInv
  <2>. QED  BY <2>1, <2>2 DEF MCInit
<1>2. ConsoleInv /\ LogInv /\ [MCNext]_allVars => ConsoleInv' /\ LogInv'
  <2> SUFFICES ASSUME ConsoleInv, LogInv, [MCNext]_allVars PROVE ConsoleInv' /\ LogInv'
    OBVIOUS
  <2>1. ASSUME UNCHANGED testerVars PROVE ConsoleInv'
    BY <2>1 DEF testerVars, ConsoleInv, Tester!RowsShowTracked, Tester!GhostsHaveACause
  <2>2. ASSUME UNCHANGED logVars PROVE LogInv'
    BY <2>2 DEF logVars, LogInv, LogPage
  <2>3. Tester!Next \/ UNCHANGED testerVars
    BY DEF MCNext, PlayerStep, TesterStep, allVars, toolVars
  <2>4. Log!Next \/ UNCHANGED logVars
    BY DEF MCNext, PlayerStep, TesterStep, allVars, toolVars
  <2>. QED  BY <2>1, <2>2, <2>3, <2>4, ConsoleStep, LogStep
<1>3. ConsoleInv /\ LogInv => PageIsTrue
  BY LogInvIsWhole DEF ConsoleInv, PageIsTrue
<1>. QED  BY <1>1, <1>2, <1>3, PTL DEF MCSpec

(***************************************************************************)
(* The gateway's twin.                                                     *)
(***************************************************************************)
\* What is computed step by step, each step a function of the last result, is a function.
Iterates(f, S, start, L, F) ==
    f \in [0 .. L -> S] /\ f[0] = start /\ \A n \in 1 .. L : f[n] = F[n][f[n - 1]]

StepsOf(S, L) == [1 .. L -> [S -> S]]

LEMMA Iteration ==
    ASSUME NEW S, NEW start \in S, NEW L \in Nat, NEW F \in StepsOf(S, L)
    PROVE  \E f : Iterates(f, S, start, L, F)
<1> USE DEF StepsOf
<1> DEFINE Upto(f, k) == /\ f \in [0 .. k -> S] /\ f[0] = start
                         /\ \A n \in 1 .. k : f[n] = F[n][f[n - 1]]
           T == {k \in 0 .. L : ~ \E f : Upto(f, k)}
<1> SUFFICES ASSUME T # {} PROVE FALSE
  BY DEF Iterates
<1>1. PICK k \in T : \A m \in T : k <= m
  <2>1. T \in SUBSET Nat
    OBVIOUS
  <2> HIDE DEF T
  <2>. QED  BY <2>1, LeastNat
<1>2. CASE k = 0
  <2> DEFINE f == [n \in 0 .. 0 |-> start]
  <2>1. Upto(f, 0)
    OBVIOUS
  <2>. QED  BY <1>1, <1>2, <2>1
<1>3. CASE k # 0
  <2>1. k \in 1 .. L /\ k - 1 \in 0 .. L /\ k - 1 \notin T
    <3> HIDE DEF Upto
    <3>1. k \in 0 .. L
      BY <1>1
    <3>2. k - 1 \notin T
      <4> HIDE DEF T
      <4>. QED  BY <1>1, <3>1
    <3>. QED  BY <1>3, <3>1, <3>2
  <2>2. PICK f : Upto(f, k - 1)
    <3> HIDE DEF Upto
    <3>. QED  BY <2>1
  <2> DEFINE g == [n \in 0 .. k |-> IF n = k THEN F[k][f[k - 1]] ELSE f[n]]
  <2>3. f[k - 1] \in S /\ F[k] \in [S -> S]
    BY <2>1, <2>2
  <2>4. F[k][f[k - 1]] \in S
    BY <2>3
  <2>5. /\ \A n \in 0 .. k - 1 : f[n] \in S /\ g[n] = f[n]
        /\ g[k] = F[k][f[k - 1]] /\ g[k - 1] = f[k - 1]
    BY <2>1, <2>2
  <2>6. \A n \in 0 .. k : g[n] \in S
    <3>1. \A n \in 0 .. k : n = k \/ n \in 0 .. k - 1
      BY <2>1
    <3> HIDE DEF g
    <3>. QED  BY <2>4, <2>5, <3>1
  <2>7. g \in [0 .. k -> S]
    BY <2>6
  <2>8. g[0] = start
    BY <2>1, <2>2, <2>5
  <2>9. \A n \in 1 .. k : g[n] = F[n][g[n - 1]]
    <3> SUFFICES ASSUME NEW n \in 1 .. k
                 PROVE  g[n] = F[n][g[n - 1]]
      OBVIOUS
    <3>1. CASE n = k
      BY <2>5, <3>1
    <3>2. CASE n # k
      <4>1. n \in 1 .. k - 1 /\ n \in 0 .. k - 1 /\ n - 1 \in 0 .. k - 1
        BY <2>1, <3>2
      <4> HIDE DEF g
      <4>. QED  BY <2>2, <2>5, <4>1
    <3>. QED  BY <3>1, <3>2
  <2> HIDE DEF g
  <2>10. Upto(g, k)
    BY <2>7, <2>8, <2>9
  <2>. QED  BY <1>1, <2>10
<1>. QED  BY <1>2, <1>3

LEMMA NotNegative == \A n \in 5 .. 15 : ~(n < 0)
OBVIOUS

\* A runner is never slower than half of a tick's even share, and stops at the end.
LEMMA TrailIsARace ==
    ASSUME NEW ticks \in Nat \ {0}, NEW base \in Twin!Bases, NEW jitter \in [1 .. ticks -> Twin!Jitters]
    PROVE  LET trail == Twin!Trail(base, jitter, ticks)
           IN  /\ \A t \in 1 .. ticks : trail[t] <= Twin!Course(ticks)
                                        /\ (t > 1 => trail[t - 1] <= trail[t])
               /\ 2 * trail[ticks] >= Twin!Course(ticks)
<1> DEFINE S == 0 .. 10 * ticks
           at[t \in 0 .. ticks] ==
               IF t = 0 THEN 0
               ELSE LET pace == base + jitter[t]
                    IN  Twin!Ahead(at[t - 1], IF pace < 0 THEN 0 ELSE pace, ticks)
           Body(f) == [t \in 0 .. ticks |->
               IF t = 0 THEN 0
               ELSE LET pace == base + jitter[t]
                    IN  Twin!Ahead(f[t - 1], IF pace < 0 THEN 0 ELSE pace, ticks)]
           F == [t \in 1 .. ticks |-> [p \in S |-> Twin!Ahead(p, base + jitter[t], ticks)]]
<1>1. \A t \in 1 .. ticks : base + jitter[t] \in 5 .. 15
  BY DEF Twin!Bases, Twin!Jitters
<1>2. ASSUME NEW p \in S, NEW pace \in 5 .. 15
      PROVE  LET q == Twin!Ahead(p, pace, ticks)
             IN  q \in S /\ p <= q /\ (q >= p + 5 \/ q = 10 * ticks)
  BY DEF Twin!Ahead, Twin!Course
<1>3. PICK f \in [0 .. ticks -> S] : f[0] = 0 /\ \A t \in 1 .. ticks : f[t] = F[t][f[t - 1]]
  <2>1. F \in StepsOf(S, ticks)
    BY <1>1, <1>2 DEF StepsOf
  <2>2. 0 \in S /\ ticks \in Nat
    OBVIOUS
  <2> HIDE DEF F, S
  <2>3. PICK f : Iterates(f, S, 0, ticks, F)
    BY <2>1, <2>2, Iteration
  <2>. QED  BY <2>3 DEF Iterates
<1>4. \A t \in 1 .. ticks : f[t] = Twin!Ahead(f[t - 1], base + jitter[t], ticks)
  <2> SUFFICES ASSUME NEW t \in 1 .. ticks
               PROVE  f[t] = Twin!Ahead(f[t - 1], base + jitter[t], ticks)
    OBVIOUS
  <2>1. f[t - 1] \in S
    BY <1>3
  <2>. QED  BY <1>3, <2>1
<1>5. f = Body(f)
  <2>1. \A t \in 0 .. ticks : f[t] = Body(f)[t]
    <3> SUFFICES ASSUME NEW t \in 0 .. ticks
                 PROVE  f[t] = Body(f)[t]
      OBVIOUS
    <3>1. CASE t = 0
      BY <1>3, <3>1
    <3>2. CASE t # 0
      <4>1. t \in 1 .. ticks
        BY <3>2
      <4>2. ~(base + jitter[t] < 0)
        BY <1>1, <4>1, NotNegative
      <4>3. Body(f)[t] = Twin!Ahead(f[t - 1], base + jitter[t], ticks)
        BY <3>2, <4>1, <4>2
      <4>. QED  BY <1>4, <4>1, <4>3
    <3>. QED  BY <3>1, <3>2
  <2>2. f = [t \in 0 .. ticks |-> f[t]]
    BY <1>3
  <2>. QED  BY <2>1, <2>2
<1>6. at = Body(at)
  BY <1>5, Zenon
<1>7. \A t \in 1 .. ticks : Twin!Trail(base, jitter, ticks)[t] = at[t]
  BY DEF Twin!Trail
<1> HIDE DEF at
<1>8. at[0] = 0 /\ \A t \in 1 .. ticks : at[t] = Twin!Ahead(at[t - 1], base + jitter[t], ticks)
  <2>1. at[0] = 0
    <3>1. Body(at)[0] = 0
      OBVIOUS
    <3>. QED  BY <1>6, <3>1, Zenon
  <2>2. ASSUME NEW t \in 1 .. ticks
        PROVE  at[t] = Twin!Ahead(at[t - 1], base + jitter[t], ticks)
    <3>1. ~(base + jitter[t] < 0)
      BY <1>1, NotNegative
    <3>2. Body(at)[t] = Twin!Ahead(at[t - 1], base + jitter[t], ticks)
      BY <3>1
    <3>. QED  BY <1>6, <3>2, Zenon
  <2>. QED  BY <2>1, <2>2
<1> HIDE DEF Body, F
<1>9. \A t \in 0 .. ticks : at[t] \in S /\ (at[t] >= 5 * t \/ at[t] = 10 * ticks)
  <2> DEFINE T == {t \in 0 .. ticks : ~(at[t] \in S /\ (at[t] >= 5 * t \/ at[t] = 10 * ticks))}
  <2> SUFFICES ASSUME T # {} PROVE FALSE
    OBVIOUS
  <2>1. PICK t \in T : \A m \in T : t <= m
    <3>1. T \in SUBSET Nat
      OBVIOUS
    <3> HIDE DEF T
    <3>. QED  BY <3>1, LeastNat
  <2>2. t # 0
    BY <1>8, <2>1
  <2>3. t \in 1 .. ticks /\ t - 1 \in 0 .. ticks /\ t - 1 \notin T
    BY <2>1, <2>2
  <2>4. at[t - 1] \in S /\ (at[t - 1] >= 5 * (t - 1) \/ at[t - 1] = 10 * ticks)
    BY <2>3
  <2>5. at[t] \in S /\ at[t - 1] <= at[t] /\ (at[t] >= at[t - 1] + 5 \/ at[t] = 10 * ticks)
    BY <1>1, <1>2, <1>8, <2>3, <2>4
  <2>6. ~(at[t] \in S /\ (at[t] >= 5 * t \/ at[t] = 10 * ticks))
    BY <2>1
  <2> DEFINE p == at[t - 1]
             q == at[t]
             end == 10 * ticks
  <2>7. /\ t \in Int /\ end \in Int /\ p \in Int /\ q \in Int
        /\ p >= 5 * (t - 1) \/ p = end
        /\ p <= q /\ q <= end /\ (q >= p + 5 \/ q = end)
        /\ ~(q >= 5 * t \/ q = end)
    <3> HIDE DEF T
    <3>. QED  BY <2>3, <2>4, <2>5, <2>6
  <2> HIDE DEF T, p, q, end
  <2>. QED  BY <2>7
<1>10. ASSUME NEW t \in 1 .. ticks
       PROVE  at[t - 1] <= at[t] /\ at[t] <= 10 * ticks
  <2>1. at[t - 1] \in S /\ at[t] \in S
    BY <1>9
  <2>2. at[t - 1] <= Twin!Ahead(at[t - 1], base + jitter[t], ticks)
    BY <1>1, <1>2, <2>1
  <2>. QED  BY <1>8, <2>1, <2>2
<1>11. ticks \in 1 .. ticks /\ 2 * at[ticks] >= 10 * ticks
  BY <1>9
<1> DEFINE trail == Twin!Trail(base, jitter, ticks)
<1>12. \A t \in 1 .. ticks : trail[t] = at[t]
  BY <1>7
<1> HIDE DEF trail
<1>13. \A t \in 1 .. ticks : t > 1 => trail[t - 1] <= trail[t]
  <2> SUFFICES ASSUME NEW t \in 1 .. ticks, t > 1
               PROVE  trail[t - 1] <= trail[t]
    OBVIOUS
  <2>1. t - 1 \in 1 .. ticks
    OBVIOUS
  <2>. QED  BY <1>10, <1>12, <2>1
<1>14. /\ \A t \in 1 .. ticks : trail[t] <= Twin!Course(ticks) /\ (t > 1 => trail[t - 1] <= trail[t])
       /\ 2 * trail[ticks] >= Twin!Course(ticks)
  BY <1>10, <1>11, <1>12, <1>13 DEF Twin!Course
<1>. QED  BY <1>14 DEF trail

LEMMA TwinCardinality == \A S : Twin!Cardinality(S) = Cardinality(S)
BY DEF Twin!Cardinality, Cardinality

TwinInv ==
    /\ counter \in Nat
    /\ given \in [1 .. MaxIds -> {0, 1}] /\ \A n \in 1 .. MaxIds : n > counter => given[n] = 0
    /\ DOMAIN stored \subseteq 1 .. counter
    /\ \A n \in DOMAIN stored : stored[n].simulation \in simulations \cup {None}
    /\ Twin!ReplayIsARace

\* Sessions are created with the numbers that come next.
LEMMA SessionsCreated ==
    ASSUME TwinInv, NEW k \in Nat, counter' = counter + k, counter + k <= MaxIds,
           given' = Twin!Given(counter + 1 .. counter + k),
           DOMAIN stored' = DOMAIN stored \cup (counter + 1 .. counter + k),
           \A n \in DOMAIN stored' : stored'[n].simulation \in simulations' \cup {None},
           "trail" \notin DOMAIN answer'
    PROVE  TwinInv'
<1>1. \A n \in 1 .. MaxIds : given'[n] = IF n \in counter + 1 .. counter + k THEN given[n] + 1 ELSE given[n]
  BY DEF Twin!Given
<1>2. given' = [n \in 1 .. MaxIds |-> given'[n]]
  BY DEF Twin!Given
<1>3. \A n \in 1 .. MaxIds : given'[n] \in {0, 1} /\ (n > counter' => given'[n] = 0)
  BY <1>1 DEF TwinInv
<1>4. given' \in [1 .. MaxIds -> {0, 1}]
  BY <1>2, <1>3
<1>. QED  BY <1>3, <1>4 DEF TwinInv, Twin!ReplayIsARace

\* The numbers of one or two kinds of agents, one after the other.
LEMMA SpawnedAre ==
    ASSUME NEW c \in Nat, NEW a \in Nat, NEW b \in Nat
    PROVE  /\ (c + 1 .. c + 1 + a - 1) \cup (c + 1 + a .. c + 1 + a + b - 1) = c + 1 .. c + (a + b)
           /\ Cardinality(c + 1 .. c + a) = a
<1>1. Cardinality(c + 1 .. c + a) = IF c + 1 > c + a THEN 0 ELSE (c + a) - (c + 1) + 1
  BY FS_Interval
<1>. QED  BY <1>1

LEMMA SpawnStep ==
    ASSUME TwinInv, NEW agents \in Twin!Batches, NEW name, Twin!Spawn(agents, name), ~Twin!Refuse
    PROVE  TwinInv'
<1> DEFINE simulation == IF name = None THEN counter + 1 ELSE name
           from(i) == counter + 1 + (IF i = 1 THEN 0 ELSE agents[1].count)
           ids(i) == from(i) .. from(i) + agents[i].count - 1
           all == UNION {ids(i) : i \in DOMAIN agents}
           record(n) == [type |-> agents[CHOOSE i \in DOMAIN agents : n \in ids(i)].type,
                         simulation |-> simulation]
<1>1. /\ agents # <<>> /\ counter + Cardinality(all) <= MaxIds
      /\ stored' = [n \in DOMAIN stored \cup all |-> IF n \notin all THEN stored[n] ELSE record(n)]
      /\ simulations' = simulations \cup {simulation}
      /\ counter' = counter + Cardinality(all) /\ given' = Twin!Given(all)
      /\ answer' = [status |-> 201, ids |-> all]
  <2>1. ~(agents = <<>> \/ \E i \in DOMAIN agents : agents[i].type = None)
    BY Zenon DEF Twin!Spawn
  <2>. QED  BY <2>1, TwinCardinality, Zenon DEF Twin!Spawn
<1>2. PICK k \in Nat : all = counter + 1 .. counter + k /\ Cardinality(all) = k
  <2> DEFINE Agent_ == [type : Types \cup {None}, count : 0 .. 2]
  <2>1. \/ \E a \in Agent_ : agents = <<a>>
        \/ \E a \in Agent_, b \in Agent_ : agents = <<a, b>>
    BY <1>1 DEF Twin!Batches
  <2>2. counter \in Nat
    BY DEF TwinInv
  <2>3. ASSUME NEW a \in Agent_, agents = <<a>>
        PROVE  all = counter + 1 .. counter + a.count /\ a.count \in Nat
    <3>1. DOMAIN agents = {1} /\ agents[1] = a /\ a.count \in Nat
      BY <2>3
    <3>2. ids(1) = counter + 1 .. counter + a.count
      BY <2>2, <3>1
    <3>3. all = ids(1)
      <4> HIDE DEF ids
      <4>. QED  BY <3>1
    <3>. QED  BY <3>1, <3>2, <3>3
  <2>4. ASSUME NEW a \in Agent_, NEW b \in Agent_, agents = <<a, b>>
        PROVE  all = counter + 1 .. counter + (a.count + b.count) /\ a.count + b.count \in Nat
    <3>1. DOMAIN agents = {1, 2} /\ agents[1] = a /\ agents[2] = b /\ a.count \in Nat /\ b.count \in Nat
      BY <2>4
    <3>2. /\ ids(1) = counter + 1 .. counter + 1 + a.count - 1
          /\ ids(2) = counter + 1 + a.count .. counter + 1 + a.count + b.count - 1
      BY <2>2, <3>1
    <3>3. all = ids(1) \cup ids(2)
      <4> HIDE DEF ids
      <4>. QED  BY <3>1
    <3>4. /\ counter + 1 + a.count - 1 = counter + a.count
          /\ counter + 1 + a.count = counter + a.count + 1
          /\ counter + 1 + a.count + b.count - 1 = counter + a.count + b.count
      BY <2>2, <3>1
    <3>5. all = (counter + 1 .. counter + a.count)
                \cup (counter + a.count + 1 .. counter + a.count + b.count)
      <4> HIDE DEF ids, all
      <4>. QED  BY <3>2, <3>3, <3>4
    <3> HIDE DEF ids, all
    <3>6. all = counter + 1 .. counter + (a.count + b.count)
      BY <2>2, <3>1, <3>5
    <3>. QED  BY <3>1, <3>6
  <2> HIDE DEF all, Agent_
  <2>5. \A k \in Nat : Cardinality(counter + 1 .. counter + k) = k
    BY <2>2, SpawnedAre
  <2>6. \E k \in Nat : all = counter + 1 .. counter + k
    BY <2>1, <2>3, <2>4
  <2>. QED  BY <2>5, <2>6
<1>3. simulation \in simulations'
  BY <1>1
<1>4. \A n \in DOMAIN stored' : IF n \in all THEN stored'[n].simulation = simulation
                                ELSE n \in DOMAIN stored /\ stored'[n] = stored[n]
  <2> HIDE DEF all, simulation
  <2>. QED  BY <1>1
<1>5. \A n \in DOMAIN stored' : stored'[n].simulation \in simulations' \cup {None}
  <2> HIDE DEF all, simulation
  <2>. QED  BY <1>1, <1>3, <1>4 DEF TwinInv
<1>6. "trail" \notin DOMAIN answer' /\ DOMAIN stored' = DOMAIN stored \cup all
  <2> HIDE DEF all
  <2>. QED  BY <1>1
<1> HIDE DEF all, simulation
<1>. QED  BY <1>1, <1>2, <1>5, <1>6, SessionsCreated

\* The first `want` of the sessions are sessions, and some.
LEMMA SomeAreFirst ==
    ASSUME NEW c \in Nat, NEW known \in SUBSET (1 .. c), known # {}, NEW want \in Nat \ {0}
    PROVE  \E n \in known : Cardinality({k \in known : k <= n}) <= want
<1>1. PICK n \in known : \A m \in known : n <= m
  BY LeastNat
<1>2. {k \in known : k <= n} = {n}
  <2>1. \A k \in known : k <= n <=> k = n
    BY <1>1
  <2>. QED  BY <2>1
<1>. QED  BY <1>2, FS_Singleton

LEMMA ReplayStep ==
    ASSUME TwinInv, NEW runners \in 0 .. 1, NEW ticks \in 1 .. MaxTicks, NEW base \in Twin!Bases,
           NEW jitter \in [1 .. ticks -> Twin!Jitters], Twin!Replay(runners, ticks, base, jitter)
    PROVE  TwinInv'
<1> DEFINE known == DOMAIN stored
           want == IF runners > 0 THEN runners
                   ELSE IF known # {} THEN Cardinality(known) ELSE Twin!DefaultField
           ids == IF known = {} THEN 1 .. want
                  ELSE {n \in known : Cardinality({k \in known : k <= n}) <= want}
           trail == Twin!Trail(base, jitter, ticks)
<1>1. /\ answer' = [status |-> 200, ticks |-> ticks, of |-> ids, trail |-> trail]
      /\ UNCHANGED <<stored, simulations, counter, given>>
  BY TwinCardinality DEF Twin!Replay
<1>2. counter \in Nat /\ known \in SUBSET (1 .. counter)
  BY DEF TwinInv
<1>3. want \in Nat \ {0}
  <2>1. known # {} => Cardinality(known) \in Nat \ {0}
    <3> HIDE DEF known
    <3>1. IsFiniteSet(1 .. counter)
      BY <1>2, FS_Interval
    <3>2. IsFiniteSet(known)
      BY <1>2, <3>1, FS_Subset
    <3>. QED  BY <3>2, FS_EmptySet, FS_CardinalityType
  <2>. QED  BY <2>1 DEF Twin!DefaultField
<1>4. ids # {} /\ (known # {} => ids \subseteq known)
  <2> HIDE DEF want, known
  <2>1. CASE known = {}
    <3>1. ids = 1 .. want /\ 1 \in 1 .. want
      BY <1>3, <2>1
    <3>. QED  BY <2>1, <3>1
  <2>2. CASE known # {}
    <3>1. \E n \in known : Cardinality({k \in known : k <= n}) <= want
      BY <1>2, <1>3, <2>2, SomeAreFirst
    <3>2. ids = {n \in known : Cardinality({k \in known : k <= n}) <= want}
      BY <2>2
    <3> HIDE DEF ids
    <3>. QED  BY <3>1, <3>2
  <2>. QED  BY <2>1, <2>2
<1>5. ticks \in Nat \ {0}
  OBVIOUS
<1>6. /\ \A t \in 1 .. ticks : trail[t] <= Twin!Course(ticks) /\ (t > 1 => trail[t - 1] <= trail[t])
      /\ 2 * trail[ticks] >= Twin!Course(ticks)
  BY <1>5, TrailIsARace
<1> HIDE DEF ids, trail, known
<1>7. /\ answer'.trail = trail /\ answer'.of = ids /\ answer'.ticks = ticks
      /\ DOMAIN stored' = known
  BY <1>1 DEF known
<1>8. Twin!ReplayIsARace'
  BY <1>4, <1>6, <1>7 DEF Twin!ReplayIsARace
<1>. QED  BY <1>1, <1>8 DEF TwinInv

LEMMA TwinStep ==
    ASSUME TwinInv, Twin!Next
    PROVE  TwinInv'
<1>1. ASSUME Twin!Refuse
      PROVE  TwinInv'
  BY <1>1 DEF Twin!Refuse, TwinInv, Twin!ReplayIsARace
<1>2. ASSUME NEW type, NEW user, NEW s, Twin!PostSession(type, user, s)
      PROVE  TwinInv'
  <2>1. CASE type = None \/ ~user
    BY <1>1, <1>2, <2>1 DEF Twin!PostSession
  <2>2. CASE ~(type = None \/ ~user)
    <3> DEFINE record == [type |-> type, simulation |-> s]
    <3>1. /\ counter < MaxIds /\ counter' = counter + 1
          /\ stored' = Twin!With(stored, {counter'}, record)
          /\ simulations' = simulations \cup ({s} \ {None})
          /\ given' = Twin!Given({counter'}) /\ "trail" \notin DOMAIN answer'
      BY <1>2, <2>2 DEF Twin!PostSession
    <3>2. counter \in Nat /\ {counter + 1} = counter + 1 .. counter + 1
      BY DEF TwinInv
    <3>3. record.simulation \in simulations' \cup {None}
      BY <3>1
    <3> HIDE DEF record
    <3>4. /\ DOMAIN stored' = DOMAIN stored \cup {counter + 1}
          /\ \A n \in DOMAIN stored' : IF n = counter + 1 THEN stored'[n] = record
                                       ELSE n \in DOMAIN stored /\ stored'[n] = stored[n]
      BY <3>1 DEF Twin!With
    <3>5. \A n \in DOMAIN stored' : stored'[n].simulation \in simulations' \cup {None}
      BY <3>1, <3>3, <3>4 DEF TwinInv
    <3>6. counter + 1 <= MaxIds
      BY <3>1, <3>2, TwinAssumption
    <3>. QED  BY <3>1, <3>2, <3>4, <3>5, <3>6, SessionsCreated
  <2>. QED  BY <2>1, <2>2
<1>3. CASE Twin!FlushSessions
  BY <1>3 DEF Twin!FlushSessions, TwinInv, Twin!ReplayIsARace
<1>4. ASSUME NEW agents \in Twin!Batches, NEW s, Twin!Spawn(agents, s)
      PROVE  TwinInv'
  BY <1>1, <1>4, SpawnStep
<1>5. ASSUME NEW targets, Twin!Reset(targets)
      PROVE  TwinInv'
  <2>1. CASE Unknown \in targets
    BY <1>1, <1>5, <2>1 DEF Twin!Reset
  <2>2. CASE Unknown \notin targets
    BY <1>5, <2>2 DEF Twin!Reset, TwinInv, Twin!ReplayIsARace
  <2>. QED  BY <2>1, <2>2
<1>. QED  BY <1>2, <1>3, <1>4, <1>5, ReplayStep DEF Twin!Next

(* GatewayTwin: no id is ever given twice and every session's simulation is
   listed, through every order of spawns, flushes and resets; and whatever
   replay is asked for, of any length and with any pace, is of sessions there
   are, never backwards or beyond the end, and brings each half way. *)
THEOREM TwinTrue == MCSpec => []TwinIsTrue
<1>1. MCInit => TwinInv
  <2>1. Twin!Init => TwinInv
    BY DEF Twin!Init, TwinInv, Twin!ReplayIsARace
  <2>. QED  BY <2>1 DEF MCInit
<1>2. TwinInv /\ [MCNext]_allVars => TwinInv'
  <2>1. ASSUME TwinInv, UNCHANGED twinVars PROVE TwinInv'
    BY <2>1 DEF twinVars, TwinInv, Twin!ReplayIsARace
  <2>2. [MCNext]_allVars => Twin!Next \/ UNCHANGED twinVars
    BY DEF MCNext, PlayerStep, TesterStep, allVars, toolVars
  <2>. QED  BY <2>1, <2>2, TwinStep
<1>3. TwinInv => TwinIsTrue
  <2> SUFFICES ASSUME TwinInv PROVE Twin!BooksAgree
    BY DEF TwinInv, TwinIsTrue
  <2>1. \A n \in 1 .. MaxIds : given[n] <= 1
    BY DEF TwinInv
  <2>2. \A n \in DOMAIN stored : n <= counter
    BY DEF TwinInv
  <2>. QED  BY <2>1, <2>2 DEF Twin!BooksAgree, TwinInv
<1>. QED  BY <1>1, <1>2, <1>3, PTL DEF MCSpec

(***************************************************************************)
(* The lights of a junction.                                               *)
(***************************************************************************)
LampColours == {"red", "yellow", "green"}

Facing(n, phase) == \A e, f \in phase : e # f => Opposite(n, e, f) \/ Opposite(n, f, e)

LEMMA EdgesAreFinite ==
    ASSUME NEW n
    PROVE  IsFiniteSet(EdgesAt(n)) /\ Cardinality(EdgesAt(n)) \in Nat
<1>1. IsFiniteSet(1 .. Len(Edges))
  BY EdgesAssumption, FS_Interval
<1>2. EdgesAt(n) \subseteq 1 .. Len(Edges)
  BY EdgesAssumption DEF EdgesAt, EdgeIds
<1>3. IsFiniteSet(EdgesAt(n))
  BY <1>1, <1>2, FS_Subset
<1>. QED  BY <1>3, FS_CardinalityType

\* What the rounds of the pairing keep.
FacingPhases(n) == Seq({phase \in SUBSET (EdgesAt(n) \cup {FirstClockwise(n, left) :
                            left \in SUBSET EdgesAt(n)}) : Facing(n, phase)})

LEMMA PairFaces ==
    ASSUME NEW n, NEW phases \in FacingPhases(n)
    PROVE  /\ NextPhases(n, phases) \in FacingPhases(n)
           /\ phases # <<>> => NextPhases(n, phases) # <<>>
           /\ phases = <<>> /\ EdgesAt(n) # {} => NextPhases(n, phases) # <<>>
<1> DEFINE left == EdgesAt(n) \ UNION ToSet(phases)
           e == FirstClockwise(n, left)
           best == Partners(n, e, left \ {e})
           other == CHOOSE f \in best : TRUE
           phase == {e} \cup IF best = {} THEN {} ELSE {other}
           All == EdgesAt(n) \cup {FirstClockwise(n, open_) : open_ \in SUBSET EdgesAt(n)}
           Good == {p \in SUBSET All : Facing(n, p)}
<1>1. NextPhases(n, phases) = IF left = {} THEN phases ELSE Append(phases, phase)
  BY DEF NextPhases, NextPhase, Chosen
<1>2. phases \in Seq(Good)
  BY DEF FacingPhases
<1>3. best # {} => other \in EdgesAt(n) /\ Opposite(n, e, other)
  <2>1. best # {} => other \in best
    <3> HIDE DEF best
    <3>. QED  OBVIOUS
  <2>. QED  BY <2>1 DEF Partners
<1>4. e \in All
  <2> HIDE DEF e
  <2>1. left \in SUBSET EdgesAt(n)
    OBVIOUS
  <2>. QED  BY <2>1 DEF e
<1> HIDE DEF e, best, other
<1>5. phase \in SUBSET All
  BY <1>3, <1>4
<1>6. Facing(n, phase)
  BY <1>3 DEF Facing
<1>7. phase \in Good
  BY <1>5, <1>6
<1> HIDE DEF phase, Good
<1>8. NextPhases(n, phases) \in Seq(Good)
  BY <1>1, <1>2, <1>7
<1>9. Append(phases, phase) # <<>>
  <2> DEFINE u == Append(phases, phase)
  <2>1. Len(u) = Len(phases) + 1 /\ Len(phases) \in Nat
    BY <1>2, <1>7
  <2>2. Len(<<>>) = 0
    OBVIOUS
  <2> HIDE DEF u
  <2>3. u # <<>>
    BY <2>1, <2>2
  <2>. QED  BY <2>3 DEF u
<1>10. ASSUME phases = <<>>, EdgesAt(n) # {}
       PROVE  left # {}
  <2>1. UNION ToSet(<<>>) = {}
    BY DEF ToSet
  <2>. QED  BY <1>10, <2>1
<1> HIDE DEF left
<1>. QED  BY <1>1, <1>8, <1>9, <1>10 DEF FacingPhases, Good

\* The phases of a junction: there is one, and its edges, when they are not all of the
\* junction's two, face each other.
LEMMA PhasesFace ==
    ASSUME NEW n \in Junctions
    PROVE  /\ Len(Phases[n]) \in Nat \ {0}
           /\ \A k \in 1 .. Len(Phases[n]) :
                 Cardinality(EdgesAt(n)) = 2 \/ Facing(n, Phases[n][k])
<1> DEFINE L == Cardinality(EdgesAt(n))
           S == FacingPhases(n)
           F == [k \in 1 .. L |-> [phases \in S |-> NextPhases(n, phases)]]
           Body(u) == [k \in 0 .. L |-> IF k = 0 THEN <<>> ELSE NextPhases(n, u[k - 1])]
           upto[k \in 0 .. L] == IF k = 0 THEN <<>> ELSE NextPhases(n, upto[k - 1])
<1>1. L \in Nat /\ L >= 2 /\ EdgesAt(n) # {}
  BY EdgesAreFinite, FS_EmptySet DEF Junctions
<1>2. PICK f : Iterates(f, S, <<>>, L, F)
  <2>1. <<>> \in S
    BY DEF FacingPhases
  <2>2. F \in StepsOf(S, L)
    <3> HIDE DEF S, L
    <3>1. \A phases \in S : NextPhases(n, phases) \in S
      BY PairFaces DEF S
    <3>. QED  BY <3>1 DEF StepsOf
  <2> HIDE DEF F, S, L
  <2>. QED  BY <1>1, <2>1, <2>2, Iteration
<1>3. /\ f \in [0 .. L -> S] /\ f[0] = <<>>
      /\ \A k \in 1 .. L : f[k - 1] \in S /\ f[k] = NextPhases(n, f[k - 1])
  <2>1. /\ f \in [0 .. L -> S] /\ f[0] = <<>>
        /\ \A k \in 1 .. L : f[k] = F[k][f[k - 1]]
    BY <1>2 DEF Iterates
  <2>2. ASSUME NEW k \in 1 .. L
        PROVE  f[k - 1] \in S /\ f[k] = NextPhases(n, f[k - 1])
    <3>1. f[k - 1] \in S
      BY <1>1, <2>1
    <3>. QED  BY <2>1, <3>1
  <2>. QED  BY <2>1, <2>2
<1>4. f = Body(f)
  <2>1. ASSUME NEW k \in 0 .. L
        PROVE  f[k] = Body(f)[k]
    <3>1. CASE k = 0
      BY <1>1, <1>3, <3>1
    <3>2. CASE k # 0
      <4>1. k \in 1 .. L
        BY <1>1, <3>2
      <4>2. f[k] = NextPhases(n, f[k - 1])
        BY <1>3, <4>1
      <4>3. Body(f)[k] = NextPhases(n, f[k - 1])
        BY <3>2
      <4>. QED  BY <4>2, <4>3
    <3>. QED  BY <3>1, <3>2
  <2>2. f = [k \in 0 .. L |-> f[k]]
    BY <1>3
  <2>3. Body(f) = [k \in 0 .. L |-> Body(f)[k]]
    OBVIOUS
  <2> HIDE DEF Body
  <2>. QED  BY <2>1, <2>2, <2>3, Zenon
<1>5. upto = Body(upto)
  BY <1>4, Zenon
<1>6. Paired(n) = upto[L]
  BY DEF Paired
<1> HIDE DEF upto
<1>7. upto[0] = <<>> /\ \A k \in 1 .. L : upto[k] = NextPhases(n, upto[k - 1])
  <2>1. upto[0] = <<>>
    <3>1. Body(upto)[0] = <<>>
      BY <1>1
    <3>. QED  BY <1>5, <3>1, Zenon
  <2>2. ASSUME NEW k \in 1 .. L
        PROVE  upto[k] = NextPhases(n, upto[k - 1])
    <3>1. k \in 0 .. L /\ k # 0
      BY <1>1
    <3>2. Body(upto)[k] = NextPhases(n, upto[k - 1])
      BY <3>1
    <3>. QED  BY <1>5, <3>2, Zenon
  <2>. QED  BY <2>1, <2>2
<1> HIDE DEF Body, F, S
<1>8. \A k \in 0 .. L : upto[k] \in S /\ (k # 0 => upto[k] # <<>>)
  <2> DEFINE T == {k \in 0 .. L : ~(upto[k] \in S /\ (k # 0 => upto[k] # <<>>))}
  <2> SUFFICES ASSUME T # {} PROVE FALSE
    OBVIOUS
  <2>1. PICK k \in T : \A m \in T : k <= m
    <3>1. T \in SUBSET Nat
      BY <1>1
    <3> HIDE DEF T
    <3>. QED  BY <3>1, LeastNat
  <2>2. <<>> \in S
    BY DEF S, FacingPhases
  <2>3. k \in 1 .. L /\ k - 1 \in 0 .. L /\ k - 1 \notin T
    <3>1. k # 0
      BY <1>7, <2>1, <2>2
    <3>. QED  BY <1>1, <2>1, <3>1
  <2>4. upto[k - 1] \in S /\ (k - 1 # 0 => upto[k - 1] # <<>>)
    BY <2>3
  <2>5. upto[k] = NextPhases(n, upto[k - 1])
    BY <1>7, <2>3
  <2>6. upto[k] \in S /\ upto[k] # <<>>
    BY <1>1, <2>4, <2>5, PairFaces DEF S
  <2>. QED  BY <2>1, <2>6
<1>9. Paired(n) \in FacingPhases(n) /\ Paired(n) # <<>>
  <2>1. L \in 0 .. L /\ L # 0
    BY <1>1
  <2> HIDE DEF L
  <2>. QED  BY <1>6, <1>8, <2>1 DEF S
<1>10. CASE Cardinality(EdgesAt(n)) = 2
  <2>1. Phases[n] = <<EdgesAt(n)>>
    BY <1>10 DEF Phases
  <2>2. <<EdgesAt(n)>> \in Seq({EdgesAt(n)}) /\ Len(<<EdgesAt(n)>>) = 1
    OBVIOUS
  <2>. QED  BY <1>10, <2>1, <2>2
<1>11. CASE Cardinality(EdgesAt(n)) # 2
  <2> DEFINE Good == {p \in SUBSET (EdgesAt(n) \cup {FirstClockwise(n, left) :
                                        left \in SUBSET EdgesAt(n)}) : Facing(n, p)}
             ps == Paired(n)
  <2>1. Phases[n] = ps
    BY <1>11 DEF Phases
  <2>2. ps \in Seq(Good) /\ ps # <<>>
    BY <1>9 DEF FacingPhases
  <2>3. \A p \in Good : Facing(n, p)
    OBVIOUS
  <2> HIDE DEF Good, ps
  <2>4. Len(ps) \in Nat \ {0} /\ \A k \in 1 .. Len(ps) : ps[k] \in Good
    BY <2>2
  <2>. QED  BY <2>1, <2>3, <2>4
<1>. QED  BY <1>10, <1>11

\* A controller, of which a lamp that is not red is one of its phase's, and not while
\* everything is red.
LampsAt(n) == [EdgesAt(n) -> LampColours]

Controllers(n) ==
    [phase : 1 .. Len(Phases[n]), state : {"green", "yellow", "red"}, timer : Int,
     lamps : LampsAt(n)]

Controlled(n, c) ==
    /\ c \in Controllers(n)
    /\ \A e \in EdgesAt(n) :
           c.lamps[e] # "red" => c.state # "red" /\ e \in Phases[n][c.phase]

LEMMA LitIs ==
    ASSUME NEW n, NEW phase, NEW colour \in LampColours, NEW lamps \in LampsAt(n)
    PROVE  Lit(n, lamps, phase, colour) \in LampsAt(n)
BY DEF Lit, LampsAt

LEMMA NotLit ==
    \A n, phase, colour, lamps : \A e \in EdgesAt(n) : e \notin Phases[n][phase] =>
        Lit(n, lamps, phase, colour)[e] = lamps[e]
BY DEF Lit

LEMMA AllAreRed == \A n : /\ AllRed(n) \in LampsAt(n)
                          /\ \A e \in EdgesAt(n) : AllRed(n)[e] = "red"
BY DEF AllRed, LampColours, LampsAt

LEMMA LampColoursAre == "red" \in LampColours /\ "yellow" \in LampColours /\ "green" \in LampColours
BY DEF LampColours

LEMMA TurnedIsControlled ==
    ASSUME NEW n \in Junctions, NEW c, Controlled(n, c)
    PROVE  Controlled(n, Turned(n, c))
<1> DEFINE t == c.timer + 1
           next == (c.phase % Len(Phases[n])) + 1
           d == Turned(n, c)
<1>1. /\ c \in Controllers(n) /\ Len(Phases[n]) \in Nat \ {0}
      /\ c.phase \in 1 .. Len(Phases[n]) /\ c.lamps \in LampsAt(n) /\ c.timer \in Int
      /\ \A e \in EdgesAt(n) : c.lamps[e] # "red" => c.state # "red" /\ e \in Phases[n][c.phase]
  BY PhasesFace DEF Controlled, Controllers
<1>2. next \in 1 .. Len(Phases[n]) /\ t \in Int
  BY <1>1
<1> HIDE DEF next, t
<1> DEFINE c1 == [c EXCEPT !.timer = 0]
<1>7. c1 \in Controllers(n) /\ c1.phase = c.phase /\ c1.lamps = c.lamps
  BY <1>1 DEF Controllers
<1>3. CASE c.state = "green" /\ t >= Green
  <2> DEFINE lamps == Lit(n, c.lamps, c.phase, "yellow")
             c2 == [c1 EXCEPT !.state = "yellow"]
             c3 == [c2 EXCEPT !.lamps = lamps]
  <2>1. d = c3
    BY <1>3, Zenon DEF Turned, t
  <2>2. lamps \in LampsAt(n)
    BY <1>1, LampColoursAre, LitIs
  <2>3. \A e \in EdgesAt(n) : e \notin Phases[n][c.phase] => lamps[e] = c.lamps[e]
    BY NotLit
  <2> HIDE DEF lamps, d, c1
  <2>4. c2 \in Controllers(n) /\ c2.phase = c.phase /\ c2.state = "yellow"
    BY <1>7 DEF Controllers
  <2> HIDE DEF c2
  <2>5. c3 \in Controllers(n) /\ c3.lamps = lamps /\ c3.phase = c.phase /\ c3.state = "yellow"
    BY <2>2, <2>4 DEF Controllers
  <2> HIDE DEF c3
  <2>. QED  BY <1>1, <2>1, <2>3, <2>5 DEF Controlled, d
<1>4. CASE c.state = "yellow" /\ t >= Yellow
  <2> DEFINE c2 == [c1 EXCEPT !.state = "red"]
             c3 == [c2 EXCEPT !.lamps = AllRed(n)]
  <2>1. d = c3
    BY <1>4, Zenon DEF Turned, t
  <2> HIDE DEF d, c1
  <2>2. c2 \in Controllers(n)
    BY <1>7 DEF Controllers
  <2> HIDE DEF c2
  <2>3. c3 \in Controllers(n) /\ c3.lamps = AllRed(n)
    BY <2>2, AllAreRed DEF Controllers
  <2> HIDE DEF c3
  <2>. QED  BY <2>1, <2>3, AllAreRed DEF Controlled, d
<1>5. CASE c.state = "red" /\ t >= RedGap
  <2> DEFINE lamps == Lit(n, c.lamps, next, "green")
             c2 == [c1 EXCEPT !.state = "green"]
             c3 == [c2 EXCEPT !.phase = next]
             c4 == [c3 EXCEPT !.lamps = lamps]
  <2>1. d = c4
    BY <1>5, Zenon DEF Turned, t, next
  <2>2. lamps \in LampsAt(n)
    BY <1>1, LampColoursAre, LitIs
  <2>3. \A e \in EdgesAt(n) : e \notin Phases[n][next] => lamps[e] = c.lamps[e]
    BY NotLit
  <2>4. \A e \in EdgesAt(n) : c.lamps[e] = "red"
    BY <1>1, <1>5
  <2> HIDE DEF lamps, d, c1
  <2>5. c2 \in Controllers(n) /\ c2.state = "green"
    BY <1>7 DEF Controllers
  <2> HIDE DEF c2
  <2>6. c3 \in Controllers(n) /\ c3.phase = next /\ c3.state = "green"
    BY <1>2, <2>5 DEF Controllers
  <2> HIDE DEF c3
  <2>7. c4 \in Controllers(n) /\ c4.lamps = lamps /\ c4.phase = next /\ c4.state = "green"
    BY <2>2, <2>6 DEF Controllers
  <2> HIDE DEF c4
  <2>. QED  BY <2>1, <2>3, <2>4, <2>7 DEF Controlled, d
<1>6. CASE ~(c.state = "green" /\ t >= Green) /\ ~(c.state = "yellow" /\ t >= Yellow)
           /\ ~(c.state = "red" /\ t >= RedGap)
  <2>1. d = [c EXCEPT !.timer = t]
    BY <1>6, Zenon DEF Turned, t
  <2> HIDE DEF d
  <2>2. d \in Controllers(n) /\ d.lamps = c.lamps /\ d.phase = c.phase /\ d.state = c.state
    BY <1>1, <1>2, <2>1 DEF Controllers
  <2>. QED  BY <1>1, <2>2 DEF Controlled, d
<1>. QED  BY <1>3, <1>4, <1>5, <1>6

LEMMA NewLightsAre ==
    ASSUME NEW c \in NewLights
    PROVE  DOMAIN c = Junctions /\ \A n \in Junctions : Controlled(n, c[n])
<1> SUFFICES ASSUME NEW n \in Junctions PROVE Controlled(n, c[n])
  BY DEF NewLights
<1>1. /\ c[n] \in [phase : {1}, state : {"green"}, timer : 0 .. Green - 1,
                   lamps : {Lit(m, AllRed(m), 1, "green") : m \in Junctions}]
      /\ c[n].lamps = Lit(n, AllRed(n), 1, "green")
  BY DEF NewLights
<1>2. c[n].lamps \in LampsAt(n)
  BY <1>1, LitIs, AllAreRed, LampColoursAre
<1>4. \A e \in EdgesAt(n) : e \notin Phases[n][1] => c[n].lamps[e] = "red"
  BY <1>1, NotLit, AllAreRed
<1>3. c[n] \in Controllers(n) /\ c[n].phase = 1 /\ c[n].state = "green"
  <2>1. Len(Phases[n]) \in Nat \ {0}
    BY PhasesFace
  <2>. QED  BY <1>1, <1>2, <2>1, TrafficAssumption DEF Controllers
<1>. QED  BY <1>3, <1>4 DEF Controlled

LightsInv ==
    /\ lights # <<>> => DOMAIN lights = Junctions
    /\ scene => DOMAIN lights = Junctions
    /\ scene \in BOOLEAN
    /\ \A n \in DOMAIN lights : n \in Junctions /\ Controlled(n, lights[n])

LEMMA LightsGiveWay == LightsInv => OneWayAtATime
<1> SUFFICES ASSUME LightsInv, NEW n \in DOMAIN lights, NEW e \in EdgesAt(n),
                    NEW f \in EdgesAt(n), e # f,
                    lights[n].lamps[e] # "red", lights[n].lamps[f] # "red"
             PROVE  Cardinality(EdgesAt(n)) = 2 \/ Opposite(n, e, f) \/ Opposite(n, f, e)
  BY DEF OneWayAtATime
<1>1. n \in Junctions /\ Controlled(n, lights[n])
  BY DEF LightsInv
<1>2. /\ lights[n].phase \in 1 .. Len(Phases[n])
      /\ {e, f} \subseteq Phases[n][lights[n].phase]
  BY <1>1 DEF Controlled, Controllers
<1>. QED  BY <1>1, <1>2, PhasesFace DEF Facing

(***************************************************************************)
(* The ways of the cars.                                                   *)
(***************************************************************************)
Joined(way) == \A k \in 1 .. Len(way) - 1 : EndOf(way[k]) = StartOf(way[k + 1])

WaysFrom(a) == {way \in Seq(Steps) : Joined(way) /\ (way # <<>> => StartOf(way[1]) = a)}

LEMMA StepsLead ==
    ASSUME NEW s \in Steps
    PROVE  /\ s.edge \in EdgeIds /\ StartOf(s) \in NodeIds /\ EndOf(s) \in NodeIds
           /\ LengthOf(s) \in Nat \ {0} /\ s.edge \in EdgesAt(EndOf(s))
<1>1. s.edge \in EdgeIds /\ s.forward \in BOOLEAN
  BY DEF Steps
<1>2. {Edges[s.edge].from, Edges[s.edge].to} \subseteq NodeIds
  BY <1>1, EdgesAssumption DEF EdgeIds, NodeIds
<1>3. LengthOf(s) \in Nat \ {0}
  BY <1>1, EdgesAssumption DEF EdgeIds, LengthOf
<1>. QED  BY <1>1, <1>2, <1>3 DEF StartOf, EndOf, EdgesAt

LEMMA LongerJoins ==
    ASSUME NEW open, NEW a, NEW ways \in SUBSET WaysFrom(a)
    PROVE  Longer(open, a, ways) \in SUBSET WaysFrom(a)
<1> SUFFICES ASSUME NEW way \in ways, NEW s \in Steps,
                    StartOf(s) = IF way = <<>> THEN a ELSE EndOf(Last(way))
             PROVE  Append(way, s) \in WaysFrom(a)
  <2> SUFFICES ASSUME NEW longer \in Longer(open, a, ways) PROVE longer \in WaysFrom(a)
    OBVIOUS
  <2>1. PICK way \in ways, s \in Steps :
            longer = Append(way, s) /\ StartOf(s) = IF way = <<>> THEN a ELSE EndOf(Last(way))
    BY Zenon DEF Longer
  <2>. QED  BY <2>1
<1> DEFINE further == Append(way, s)
<1>1. way \in Seq(Steps) /\ Joined(way) /\ (way # <<>> => StartOf(way[1]) = a)
  BY DEF WaysFrom
<1>2. /\ further \in Seq(Steps) /\ Len(further) = Len(way) + 1 /\ Len(way) \in Nat
      /\ \A k \in 1 .. Len(way) : further[k] = way[k]
      /\ further[Len(way) + 1] = s
  BY <1>1
<1>3. way = <<>> <=> Len(way) = 0
  BY <1>1
<1>4. Last(way) = way[Len(way)]
  BY DEF Last
<1> HIDE DEF further
<1>5. ASSUME NEW k \in 1 .. Len(further) - 1
      PROVE  EndOf(further[k]) = StartOf(further[k + 1])
  <2>1. CASE k = Len(way)
    BY <1>2, <1>3, <1>4, <2>1
  <2>2. CASE k # Len(way)
    <3>1. k \in 1 .. Len(way) - 1 /\ k \in 1 .. Len(way) /\ k + 1 \in 1 .. Len(way)
      BY <1>2, <2>2
    <3>. QED  BY <1>1, <1>2, <3>1 DEF Joined
  <2>. QED  BY <2>1, <2>2
<1>6. StartOf(further[1]) = a
  <2>1. CASE Len(way) = 0
    BY <1>2, <1>3, <2>1
  <2>2. CASE Len(way) # 0
    <3>1. 1 \in 1 .. Len(way)
      BY <1>2, <2>2
    <3>. QED  BY <1>1, <1>2, <1>3, <2>2, <3>1
  <2>. QED  BY <2>1, <2>2
<1>7. Joined(further)
  BY <1>5 DEF Joined
<1>8. further \in WaysFrom(a)
  BY <1>2, <1>6, <1>7 DEF WaysFrom
<1>. QED  BY <1>8 DEF further

\* However roads are closed, every way that is looked at joins.
LEMMA WaysJoin ==
    ASSUME NEW open, NEW a \in NodeIds
    PROVE  Ways(open, a) \subseteq WaysFrom(a)
<1> DEFINE L == Len(Nodes) - 1
           S == SUBSET WaysFrom(a)
           F == [k \in 1 .. L |-> [ways \in S |-> Longer(open, a, ways)]]
           Body(u) == [k \in 0 .. L |-> IF k = 0 THEN {<<>>} ELSE Longer(open, a, u[k - 1])]
           upto[k \in 0 .. L] == IF k = 0 THEN {<<>>} ELSE Longer(open, a, upto[k - 1])
<1>1. L \in Nat
  BY EdgesAssumption DEF NodeIds
<1>2. {<<>>} \in S
  <2>1. <<>> \in Seq(Steps) /\ Joined(<<>>)
    BY DEF Joined
  <2>. QED  BY <2>1 DEF WaysFrom
<1>3. PICK f : Iterates(f, S, {<<>>}, L, F)
  <2>1. F \in StepsOf(S, L)
    <3> HIDE DEF S, L
    <3>1. \A ways \in S : Longer(open, a, ways) \in S
      BY LongerJoins DEF S
    <3>. QED  BY <3>1 DEF StepsOf
  <2> HIDE DEF F, S, L
  <2>. QED  BY <1>1, <1>2, <2>1, Iteration
<1>4. /\ f \in [0 .. L -> S] /\ f[0] = {<<>>}
      /\ \A k \in 1 .. L : f[k - 1] \in S /\ f[k] = Longer(open, a, f[k - 1])
  <2>1. /\ f \in [0 .. L -> S] /\ f[0] = {<<>>}
        /\ \A k \in 1 .. L : f[k] = F[k][f[k - 1]]
    BY <1>3 DEF Iterates
  <2>2. ASSUME NEW k \in 1 .. L
        PROVE  f[k - 1] \in S /\ f[k] = Longer(open, a, f[k - 1])
    <3>1. f[k - 1] \in S
      BY <1>1, <2>1
    <3>. QED  BY <2>1, <3>1
  <2>. QED  BY <2>1, <2>2
<1>5. f = Body(f)
  <2>1. ASSUME NEW k \in 0 .. L
        PROVE  f[k] = Body(f)[k]
    <3>1. CASE k = 0
      BY <1>1, <1>4, <3>1
    <3>2. CASE k # 0
      <4>1. k \in 1 .. L
        BY <1>1, <3>2
      <4>2. f[k] = Longer(open, a, f[k - 1])
        BY <1>4, <4>1
      <4>3. Body(f)[k] = Longer(open, a, f[k - 1])
        BY <3>2
      <4>. QED  BY <4>2, <4>3
    <3>. QED  BY <3>1, <3>2
  <2>2. f = [k \in 0 .. L |-> f[k]]
    BY <1>4
  <2>3. Body(f) = [k \in 0 .. L |-> Body(f)[k]]
    OBVIOUS
  <2> HIDE DEF Body
  <2>. QED  BY <2>1, <2>2, <2>3, Zenon
<1>6. upto = Body(upto)
  BY <1>5, Zenon
<1>7. Ways(open, a) = UNION {upto[k] : k \in 0 .. L}
  BY DEF Ways
<1> HIDE DEF upto
<1>8. upto[0] = {<<>>} /\ \A k \in 1 .. L : upto[k] = Longer(open, a, upto[k - 1])
  <2>1. upto[0] = {<<>>}
    <3>1. Body(upto)[0] = {<<>>}
      BY <1>1
    <3>. QED  BY <1>6, <3>1, Zenon
  <2>2. ASSUME NEW k \in 1 .. L
        PROVE  upto[k] = Longer(open, a, upto[k - 1])
    <3>1. k \in 0 .. L /\ k # 0
      BY <1>1
    <3>2. Body(upto)[k] = Longer(open, a, upto[k - 1])
      BY <3>1
    <3>. QED  BY <1>6, <3>2, Zenon
  <2>. QED  BY <2>1, <2>2
<1> HIDE DEF Body, F, S
<1>9. \A k \in 0 .. L : upto[k] \in S
  <2> DEFINE T == {k \in 0 .. L : upto[k] \notin S}
  <2> SUFFICES ASSUME T # {} PROVE FALSE
    OBVIOUS
  <2>1. PICK k \in T : \A m \in T : k <= m
    <3>1. T \in SUBSET Nat
      BY <1>1
    <3> HIDE DEF T
    <3>. QED  BY <3>1, LeastNat
  <2>2. k \in 1 .. L /\ k - 1 \in 0 .. L /\ k - 1 \notin T
    <3>1. k # 0
      BY <1>2, <1>8, <2>1
    <3>. QED  BY <1>1, <2>1, <3>1
  <2>3. upto[k] = Longer(open, a, upto[k - 1]) /\ upto[k - 1] \in S
    BY <1>8, <2>2
  <2>4. upto[k] \in S
    BY <2>3, LongerJoins DEF S
  <2>. QED  BY <2>1, <2>4
<1>. QED  BY <1>7, <1>9 DEF S

(***************************************************************************)
(* The cars.                                                               *)
(***************************************************************************)
Cars == [route : Seq(Steps), idx : Nat, step : Steps, dist : Nat]

\* It is at a step of its route, which joins.
Placed(car) ==
    /\ Joined(car.route)
    /\ car.route = <<>> => car.idx = 1
    /\ car.route # <<>> => car.idx \in 1 .. Len(car.route) /\ car.step = car.route[car.idx]

OnCourse(car) == car \in Cars /\ Placed(car) /\ car.dist < LengthOf(car.step)

Closings == {{}} \cup {Crossing(path) : path \in Paths}

LEMMA CarsAre ==
    \A car \in Cars : /\ car.route \in Seq(Steps) /\ Len(car.route) \in Nat
                      /\ car.idx \in Nat /\ car.step \in Steps /\ car.dist \in Nat
                      /\ car.route = <<>> <=> Len(car.route) = 0
BY DEF Cars

LEMMA StepsToCome ==
    ASSUME NEW car \in Cars, Placed(car)
    PROVE  /\ car.idx \in Nat \ {0} /\ LastStep(car) \in Nat /\ car.idx <= LastStep(car)
           /\ \A i \in car.idx .. LastStep(car) :
                 /\ StepAt(car, i) \in Steps /\ LengthOf(StepAt(car, i)) \in Nat \ {0}
                 /\ car.route # <<>> => i \in 1 .. Len(car.route) /\ StepAt(car, i) = car.route[i]
                 /\ car.route = <<>> => i = 1
<1>1. CASE car.route = <<>>
  BY <1>1, CarsAre, StepsLead DEF Placed, LastStep, StepAt
<1>2. CASE car.route # <<>>
  <2>1. /\ LastStep(car) = Len(car.route) /\ Len(car.route) \in Nat
        /\ car.idx \in 1 .. Len(car.route) /\ car.step = car.route[car.idx]
    BY <1>2, CarsAre DEF Placed, LastStep
  <2>2. ASSUME NEW i \in car.idx .. LastStep(car)
        PROVE  i \in 1 .. Len(car.route) /\ StepAt(car, i) = car.route[i]
    BY <2>1 DEF StepAt
  <2>3. \A i \in 1 .. Len(car.route) : car.route[i] \in Steps
    BY CarsAre
  <2>. QED  BY <1>2, <2>1, <2>2, <2>3, StepsLead
<1>. QED  BY <1>1, <1>2

LEMMA DrivenIs ==
    ASSUME NEW car \in Cars, Placed(car)
    PROVE  /\ Driven(car)[car.idx] = car.dist
           /\ \A i \in car.idx .. LastStep(car) :
                 /\ Driven(car)[i] \in Int
                 /\ i # car.idx =>
                       Driven(car)[i] = Driven(car)[i - 1] - LengthOf(StepAt(car, i - 1))
<1> DEFINE from == car.idx
           last == LastStep(car)
           length(i) == LengthOf(StepAt(car, i))
           L == last - from
           F == [k \in 1 .. L |-> [x \in Int |-> x - length(from + k - 1)]]
           Body(u) == [i \in from .. last |-> IF i = from THEN car.dist ELSE u[i - 1] - length(i - 1)]
           d[i \in from .. last] == IF i = from THEN car.dist ELSE d[i - 1] - length(i - 1)
<1>1. /\ from \in Nat /\ last \in Nat /\ from <= last /\ car.dist \in Int
      /\ \A i \in from .. last : length(i) \in Int
  BY StepsToCome, CarsAre
<1>2. Driven(car) = d
  BY DEF Driven
<1> HIDE DEF from, last, length
<1>3. PICK f : Iterates(f, Int, car.dist, L, F)
  <2>1. F \in StepsOf(Int, L)
    <3>1. \A k \in 1 .. L : length(from + k - 1) \in Int
      <4>1. \A k \in 1 .. L : from + k - 1 \in from .. last
        BY <1>1
      <4>. QED  BY <1>1, <4>1
    <3>. QED  BY <3>1 DEF StepsOf
  <2>2. L \in Nat
    BY <1>1
  <2> HIDE DEF F, L
  <2>. QED  BY <1>1, <2>1, <2>2, Iteration
<1>4. /\ f \in [0 .. L -> Int] /\ f[0] = car.dist
      /\ \A k \in 1 .. L : f[k - 1] \in Int /\ f[k] = f[k - 1] - length(from + k - 1)
  <2>1. /\ f \in [0 .. L -> Int] /\ f[0] = car.dist
        /\ \A k \in 1 .. L : f[k] = F[k][f[k - 1]]
    BY <1>3 DEF Iterates
  <2>2. ASSUME NEW k \in 1 .. L
        PROVE  f[k - 1] \in Int /\ f[k] = f[k - 1] - length(from + k - 1)
    <3>1. f[k - 1] \in Int
      BY <1>1, <2>1
    <3>. QED  BY <2>1, <3>1
  <2>. QED  BY <2>1, <2>2
<1> DEFINE g == [i \in from .. last |-> f[i - from]]
<1>5. g = Body(g)
  <2>1. ASSUME NEW i \in from .. last
        PROVE  g[i] = Body(g)[i]
    <3>1. CASE i = from
      BY <1>1, <1>4, <3>1
    <3>2. CASE i # from
      <4>1. /\ i - from \in 1 .. L /\ i - 1 \in from .. last
            /\ (i - from) - 1 = (i - 1) - from /\ from + (i - from) - 1 = i - 1
        BY <1>1, <3>2
      <4>2. f[i - from] = f[(i - 1) - from] - length(i - 1)
        BY <1>4, <4>1
      <4>3. g[i] = f[i - from] /\ g[i - 1] = f[(i - 1) - from]
        BY <4>1
      <4>. QED  BY <3>2, <4>2, <4>3
    <3>. QED  BY <3>1, <3>2
  <2>2. g = [i \in from .. last |-> g[i]]
    OBVIOUS
  <2>3. Body(g) = [i \in from .. last |-> Body(g)[i]]
    OBVIOUS
  <2> HIDE DEF Body, g
  <2>. QED  BY <2>1, <2>2, <2>3, Zenon
<1>6. d = Body(d)
  <2> HIDE DEF g
  <2>. QED  BY <1>5, Zenon
<1> HIDE DEF d, g, F, L
<1>7. d[from] = car.dist
  <2>1. Body(d)[from] = car.dist
    BY <1>1
  <2>. QED  BY <1>6, <2>1, Zenon
<1>8. ASSUME NEW i \in from .. last, i # from
      PROVE  d[i] = d[i - 1] - length(i - 1)
  <2>1. Body(d)[i] = d[i - 1] - length(i - 1)
    BY <1>8
  <2>. QED  BY <1>6, <2>1, Zenon
<1> HIDE DEF Body
<1>9. \A i \in from .. last : d[i] \in Int
  <2> DEFINE T == {i \in from .. last : d[i] \notin Int}
  <2> SUFFICES ASSUME T # {} PROVE FALSE
    OBVIOUS
  <2>1. PICK i \in T : \A m \in T : i <= m
    <3>1. T \in SUBSET Nat
      BY <1>1
    <3> HIDE DEF T
    <3>. QED  BY <3>1, LeastNat
  <2>2. i \in from .. last /\ i # from /\ i - 1 \in from .. last /\ i - 1 \notin T
    <3>1. i # from
      BY <1>1, <1>7, <2>1
    <3>. QED  BY <1>1, <2>1, <3>1
  <2>3. d[i] = d[i - 1] - length(i - 1)
    BY <1>8, <2>2
  <2>. QED  BY <1>1, <2>1, <2>2, <2>3
<1>. QED  BY <1>2, <1>7, <1>8, <1>9 DEF from, last, length

LEMMA MovedIs ==
    ASSUME NEW car \in Cars, Placed(car), NEW i \in car.idx .. LastStep(car), Driven(car)[i] \in Nat
    PROVE  /\ MovedTo(car, i) \in Cars /\ Placed(MovedTo(car, i))
           /\ MovedTo(car, i).step = StepAt(car, i) /\ MovedTo(car, i).dist = Driven(car)[i]
           /\ MovedTo(car, i).route = car.route /\ MovedTo(car, i).idx = i
<1> DEFINE c1 == [car EXCEPT !.idx = i]
           c2 == [c1 EXCEPT !.dist = Driven(car)[i]]
           c3 == [c2 EXCEPT !.step = StepAt(car, i)]
<1>1. MovedTo(car, i) = c3
  BY Zenon DEF MovedTo
<1>2. i \in Nat /\ StepAt(car, i) \in Steps
  BY StepsToCome
<1>3. c1 \in Cars /\ c1.idx = i /\ c1.route = car.route
  BY <1>2 DEF Cars
<1> HIDE DEF c1
<1>4. c2 \in Cars /\ c2.idx = i /\ c2.route = car.route /\ c2.dist = Driven(car)[i]
  BY <1>3 DEF Cars
<1> HIDE DEF c2
<1>5. /\ c3 \in Cars /\ c3.idx = i /\ c3.route = car.route /\ c3.dist = Driven(car)[i]
      /\ c3.step = StepAt(car, i)
  BY <1>2, <1>4 DEF Cars
<1> HIDE DEF c3
<1>6. Placed(c3)
  BY <1>5, StepsToCome DEF Placed
<1>. QED  BY <1>1, <1>5, <1>6

\* Wherever it is held or not, a moved car keeps its route until it is sent along another.
LEMMA StoppedStays ==
    ASSUME NEW car \in Cars, Placed(car), NEW x \in Nat, x < LengthOf(car.step)
    PROVE  /\ OnCourse([car EXCEPT !.dist = x]) /\ [car EXCEPT !.dist = x].step = car.step
           /\ [car EXCEPT !.dist = x].route = car.route /\ [car EXCEPT !.dist = x].idx = car.idx
<1> DEFINE c == [car EXCEPT !.dist = x]
<1>1. /\ c \in Cars /\ c.dist = x /\ c.route = car.route /\ c.step = car.step
      /\ c.idx = car.idx
  BY DEF Cars
<1> HIDE DEF c
<1>2. OnCourse(c)
  BY <1>1 DEF OnCourse, Placed
<1>. QED  BY <1>1, <1>2 DEF c

LEMMA RoutesAre ==
    ASSUME NEW closing \in Closings, NEW a \in NodeIds, NEW b \in NodeIds,
           NEW way \in Routes[closing][a][b]
    PROVE  way \in WaysFrom(a)
<1>1. Routes[closing][a][b] = ShortestWays(EdgeIds \ closing, a, b)
  BY DEF Routes, Closings
<1>2. way \in Ways(EdgeIds \ closing, a)
  BY <1>1 DEF ShortestWays
<1>. QED  BY <1>2, WaysJoin

LEMMA SentIs ==
    ASSUME NEW car \in Cars, NEW a, NEW route \in WaysFrom(a)
    PROVE  /\ OnCourse(SentAlong(car, route)) /\ SentAlong(car, route).route = route
           /\ route = <<>> => SentAlong(car, route).step = car.step /\ SentAlong(car, route).dist = 0
           /\ route # <<>> => StartOf(SentAlong(car, route).step) = a
<1> DEFINE step == IF route = <<>> THEN car.step ELSE route[1]
           c1 == [car EXCEPT !.route = route]
           c2 == [c1 EXCEPT !.idx = 1]
           c3 == [c2 EXCEPT !.dist = 0]
           c4 == [c3 EXCEPT !.step = step]
<1>1. SentAlong(car, route) = c4
  BY Zenon DEF SentAlong
<1>2. /\ route \in Seq(Steps) /\ Joined(route) /\ Len(route) \in Nat
      /\ route = <<>> <=> Len(route) = 0
  BY DEF WaysFrom
<1>3. step \in Steps
  BY <1>2, CarsAre
<1> HIDE DEF step
<1>4. c1 \in Cars /\ c1.route = route
  BY <1>2 DEF Cars
<1> HIDE DEF c1
<1>5. c2 \in Cars /\ c2.route = route /\ c2.idx = 1
  BY <1>4 DEF Cars
<1> HIDE DEF c2
<1>6. c3 \in Cars /\ c3.route = route /\ c3.idx = 1 /\ c3.dist = 0
  BY <1>5 DEF Cars
<1> HIDE DEF c3
<1>7. c4 \in Cars /\ c4.route = route /\ c4.idx = 1 /\ c4.dist = 0 /\ c4.step = step
  BY <1>3, <1>6 DEF Cars
<1> HIDE DEF c4
<1>8. Placed(c4)
  BY <1>2, <1>7 DEF Placed, step
<1>9. LengthOf(step) \in Nat \ {0}
  BY <1>3, StepsLead
<1>10. /\ route = <<>> => step = car.step
       /\ route # <<>> => StartOf(step) = a
  BY DEF WaysFrom, step
<1>11. OnCourse(c4)
  BY <1>7, <1>8, <1>9 DEF OnCourse
<1>. QED  BY <1>1, <1>7, <1>10, <1>11

\* The step a car is on is the last of its route, or it has none.
AtLastStep(car) ==
    IF car.route = <<>> THEN TRUE ELSE car.step = Last(car.route)

LEMMA DestinedIs ==
    ASSUME shut \in Closings, NEW car \in Cars, AtLastStep(car), NEW sent \in Destined(car)
    PROVE  OnCourse(sent) /\ GoesOn(car, sent)
<1> DEFINE a == IF car.route = <<>> THEN StartOf(car.step) ELSE EndOf(Last(car.route))
<1>1. a \in NodeIds
  <2>1. CASE car.route = <<>>
    BY <2>1, CarsAre, StepsLead
  <2>2. CASE car.route # <<>>
    <3>1. Last(car.route) \in Steps
      BY <2>2, CarsAre DEF Last
    <3>. QED  BY <2>2, <3>1, StepsLead
  <2>. QED  BY <2>1, <2>2
<1>2. PICK b, route : /\ b \in NodeIds /\ route \in Routes[shut][a][b] \cup {<<>>}
                      /\ sent = SentAlong(car, route)
  BY DEF Destined
<1>3. route \in WaysFrom(a)
  <2>1. <<>> \in WaysFrom(a)
    BY DEF WaysFrom, Joined
  <2>. QED  BY <1>1, <1>2, <2>1, RoutesAre
<1>4. /\ OnCourse(sent) /\ sent.route = route
      /\ route = <<>> => sent.step = car.step /\ sent.dist = 0
      /\ route # <<>> => StartOf(sent.step) = a
  BY <1>2, <1>3, SentIs
<1>5. CASE car.route = <<>>
  BY <1>4, <1>5 DEF GoesOn
<1>6. CASE car.route # <<>>
  BY <1>4, <1>6 DEF GoesOn, AtLastStep
<1>. QED  BY <1>4, <1>5, <1>6

LEMMA MaxIs == \A x \in Int : Max({x, 0}) \in Nat /\ Max({x, 0}) \in {x, 0}
<1> SUFFICES ASSUME NEW x \in Int PROVE Max({x, 0}) \in Nat /\ Max({x, 0}) \in {x, 0}
  OBVIOUS
<1>1. \E m \in {x, 0} : \A y \in {x, 0} : m >= y
  OBVIOUS
<1>2. Max({x, 0}) \in {x, 0} /\ \A y \in {x, 0} : Max({x, 0}) >= y
  BY <1>1, Zenon DEF Max
<1>. QED  BY <1>2

\* Of the steps to come, the first that a car does not leave is one of them, and what it
\* has driven beyond its beginning is not negative; a car that is stopped leaves none.
LEMMA ArrivedIs ==
    ASSUME shut \in Closings, NEW junctions, NEW car \in Cars, Placed(car),
           NEW c \in Arrived(junctions, car)
    PROVE  OnCourse(c) /\ GoesOn(car, c) /\ (Stops(junctions, car) => c.step = car.step)
<1> DEFINE from == car.idx
           last == LastStep(car)
           length(i) == LengthOf(StepAt(car, i))
           Leaves(i) == i < LastStep(car) /\ Passes(junctions, MovedTo(car, i))
           First(i) == ~Leaves(i) /\ \A k \in car.idx .. i - 1 : Leaves(k)
           at == CHOOSE i \in car.idx .. LastStep(car) : First(i)
           moved == MovedTo(car, at)
<1>1. /\ from \in Nat /\ last \in Nat /\ from <= last
      /\ \A i \in from .. last : length(i) \in Nat \ {0}
  BY StepsToCome
<1>2. \E i \in from .. last : First(i)
  <2> DEFINE T == {i \in from .. last : ~Leaves(i)}
  <2>1. last \in T
    BY <1>1
  <2>2. T \in SUBSET Nat
    BY <1>1
  <2>3. PICK i \in T : \A m \in T : i <= m
    <3> HIDE DEF T
    <3>. QED  BY <2>1, <2>2, LeastNat
  <2>4. i \in from .. last /\ ~Leaves(i)
    BY <2>3
  <2>5. ASSUME NEW k \in from .. i - 1
        PROVE  Leaves(k)
    <3>1. k \in from .. last /\ ~(i <= k)
      BY <1>1, <2>4
    <3> HIDE DEF Leaves
    <3>. QED  BY <2>3, <3>1
  <2>. QED  BY <2>4, <2>5
<1>3. at \in from .. last /\ First(at)
  <2> HIDE DEF First
  <2>. QED  BY <1>2, Zenon
<1>4. c \in Halted(junctions, moved)
  BY Zenon DEF Arrived
<1> HIDE DEF at, moved
<1>5. Driven(car)[at] \in Nat
  <2>1. CASE at = from
    BY <2>1, DrivenIs, CarsAre
  <2>2. CASE at # from
    <3>1. at - 1 \in from .. at - 1 /\ at - 1 \in from .. last
      BY <1>1, <1>3, <2>2
    <3>2. Driven(car)[at - 1] >= length(at - 1)
      <4>1. AtEnd(MovedTo(car, at - 1))
        BY <1>3, <3>1 DEF Passes
      <4>. QED  BY <4>1 DEF AtEnd, MovedTo, Cars
    <3>3. /\ Driven(car)[at] = Driven(car)[at - 1] - length(at - 1)
          /\ Driven(car)[at - 1] \in Int
      BY <1>3, <2>2, <3>1, DrivenIs
    <3>. QED  BY <1>1, <3>1, <3>2, <3>3
  <2>. QED  BY <2>1, <2>2
<1>6. /\ moved \in Cars /\ Placed(moved) /\ moved.step = StepAt(car, at)
      /\ moved.dist = Driven(car)[at] /\ moved.route = car.route
      /\ moved.idx = at /\ moved.idx >= car.idx
  <2>1. at >= car.idx
    BY <1>1, <1>3
  <2>. QED  BY <1>3, <1>5, <2>1, MovedIs DEF moved
<1>7. ASSUME Stops(junctions, car)
      PROVE  at = from /\ Stops(junctions, moved)
  <2>1. from \in from .. last /\ Driven(car)[from] \in Nat
    BY <1>1, DrivenIs, CarsAre
  <2>2. /\ MovedTo(car, from).step = car.step /\ MovedTo(car, from).route = car.route
    BY <2>1, MovedIs DEF StepAt
  <2>3. Stops(junctions, MovedTo(car, from))
    BY <1>7, <2>2 DEF Stops
  <2>4. at = from
    <3> SUFFICES ASSUME at # from PROVE FALSE
      OBVIOUS
    <3>1. from \in from .. at - 1
      BY <1>1, <1>3
    <3>. QED  BY <1>3, <2>3, <3>1 DEF Passes
  <2>. QED  BY <2>3, <2>4 DEF moved
<1>8. StepAt(car, from) = car.step
  BY DEF StepAt
<1>9. CASE ~AtEnd(moved)
  <2>1. c = moved
    BY <1>4, <1>9, Zenon DEF Halted, Passes
  <2>2. moved.dist < LengthOf(moved.step)
    BY <1>1, <1>3, <1>5, <1>6, <1>9 DEF AtEnd
  <2>3. GoesOn(car, c)
    BY <1>6, <2>1 DEF GoesOn
  <2>. QED  BY <1>6, <1>7, <1>8, <2>1, <2>2, <2>3 DEF OnCourse
<1>10. CASE AtEnd(moved) /\ Stops(junctions, moved)
  <2> DEFINE x == Max({LengthOf(moved.step) - StopLine, 0})
  <2>1. c = [moved EXCEPT !.dist = x]
    BY <1>4, <1>10, Zenon DEF Halted, Passes
  <2>2. x \in Nat /\ x < LengthOf(moved.step)
    BY <1>1, <1>3, <1>6, MaxIs, TrafficAssumption
  <2> HIDE DEF x
  <2>3. /\ OnCourse([moved EXCEPT !.dist = x]) /\ [moved EXCEPT !.dist = x].step = moved.step
        /\ [moved EXCEPT !.dist = x].route = moved.route /\ [moved EXCEPT !.dist = x].idx = moved.idx
    BY <1>6, <2>2, StoppedStays
  <2>4. GoesOn(car, c)
    BY <1>6, <2>1, <2>3 DEF GoesOn
  <2>. QED  BY <1>6, <1>7, <1>8, <2>1, <2>3, <2>4
<1>11. CASE AtEnd(moved) /\ ~Stops(junctions, moved)
  <2>1. c \in Destined(moved)
    BY <1>4, <1>11, Zenon DEF Halted, Passes
  <2>2. at = last
    BY <1>1, <1>3, <1>11 DEF Passes, moved
  <2>3. /\ AtLastStep(moved)
        /\ car.route = <<>> => moved.step = car.step
    <3>1. CASE car.route = <<>>
      <4>1. at = from
        BY <2>2, <3>1 DEF LastStep
      <4>. QED  BY <1>6, <1>8, <3>1, <4>1 DEF AtLastStep
    <3>2. CASE car.route # <<>>
      <4>1. StepAt(car, at) = car.route[at] /\ at = Len(car.route)
        BY <1>3, <2>2, <3>2, StepsToCome DEF LastStep
      <4>. QED  BY <1>6, <3>2, <4>1 DEF AtLastStep, Last
    <3>. QED  BY <3>1, <3>2
  <2>4. OnCourse(c) /\ GoesOn(moved, c)
    BY <1>6, <2>1, <2>3, DestinedIs
  <2>5. ASSUME c.route = moved.route, c.idx >= moved.idx
        PROVE  c.idx >= car.idx
    BY <1>6, <2>4, <2>5 DEF Cars, OnCourse
  <2>6. GoesOn(car, c)
    BY <1>6, <2>3, <2>4, <2>5 DEF GoesOn
  <2>. QED  BY <1>7, <1>11, <2>4, <2>6
<1>. QED  BY <1>9, <1>10, <1>11

LEMMA UpdatedIs ==
    ASSUME shut \in Closings, NEW junctions, NEW car, OnCourse(car),
           NEW c \in Updated(junctions, car)
    PROVE  OnCourse(c) /\ GoesOn(car, c) /\ (Stops(junctions, car) => c.step = car.step)
<1>1. PICK x : /\ x \in Nat /\ c \in Arrived(junctions, [car EXCEPT !.dist = x])
  <2>1. PICK move \in Moves :
            LET moved == car.dist + move
                line == LengthOf(car.step) - StopLine
                held == Stops(junctions, car) /\ line > 0 /\ moved >= line
            IN  c \in Arrived(junctions, [car EXCEPT !.dist = IF held THEN line ELSE moved])
    BY Zenon DEF Updated
  <2> DEFINE moved == car.dist + move
             line == LengthOf(car.step) - StopLine
             held == Stops(junctions, car) /\ line > 0 /\ moved >= line
             x == IF held THEN line ELSE moved
  <2>2. moved \in Nat /\ line \in Int
    BY TrafficAssumption, CarsAre, StepsLead DEF OnCourse
  <2>3. x \in Nat
    BY <2>2
  <2>. QED  BY <2>1, <2>3
<1> DEFINE d == [car EXCEPT !.dist = x]
<1>2. /\ car \in Cars /\ Placed(car) /\ d \in Cars /\ d.route = car.route /\ d.step = car.step
      /\ d.idx = car.idx
  BY <1>1 DEF OnCourse, Cars
<1>3. c \in Arrived(junctions, d)
  BY <1>1
<1> HIDE DEF d
<1>4. Placed(d)
  BY <1>2 DEF Placed
<1>5. Stops(junctions, d) <=> Stops(junctions, car)
  BY <1>2 DEF Stops
<1>6. GoesOn(d, c) <=> GoesOn(car, c)
  BY <1>2 DEF GoesOn
<1>. QED  BY <1>2, <1>3, <1>4, <1>5, <1>6, ArrivedIs

(***************************************************************************)
(* The whole of the traffic.                                               *)
(***************************************************************************)
\* What the cars are kept off is closed, and painted so.
ClosedInv ==
    /\ closed \in Closings /\ shut \in Closings /\ shut \subseteq closed
    /\ ~scene => shut = {}
    /\ DOMAIN paint = EdgeIds /\ \A e \in shut : paint[e] = "closed"

OnTheRoad == {car \in Cars : OnCourse(car)}

CarsInv == cars \in Seq(OnTheRoad)

TrafficInv == LightsInv /\ ClosedInv /\ CarsInv

LEMMA RoutesAreJoined == CarsInv => RoutesJoin
<1> SUFFICES ASSUME CarsInv, NEW i \in DOMAIN cars
             PROVE  /\ Joined(cars[i].route)
                    /\ cars[i].route # <<>> => cars[i].step = cars[i].route[cars[i].idx]
                    /\ 0 <= cars[i].dist /\ cars[i].dist < LengthOf(cars[i].step)
  BY DEF RoutesJoin, Joined
<1>1. OnCourse(cars[i])
  BY DEF CarsInv, OnTheRoad
<1>. QED  BY <1>1, CarsAre DEF OnCourse, Placed

LEMMA ClosingsAre ==
    /\ {} \in Closings /\ \A path \in Paths : Crossing(path) \in Closings
    /\ \A closing \in Closings : closing \subseteq EdgeIds
BY DEF Closings, Crossing

LEMMA SpawnedIs ==
    ASSUME shut \in Closings, CarsInv, SpawnCar
    PROVE  CarsInv'
<1>1. PICK s, d, b, way :
          /\ s \in Steps /\ d \in Starts /\ d < LengthOf(s) /\ b \in NodeIds
          /\ way \in IF Routes[shut][EndOf(s)][b] = {} THEN {<<>>} ELSE Routes[shut][EndOf(s)][b]
          /\ cars' = Append(cars, [route |-> <<s>> \o way, idx |-> 1, step |-> s, dist |-> d])
  BY Zenon DEF SpawnCar
<1>2. way \in WaysFrom(EndOf(s))
  <2>1. <<>> \in WaysFrom(EndOf(s))
    BY DEF WaysFrom, Joined
  <2>2. EndOf(s) \in NodeIds
    BY <1>1, StepsLead
  <2>. QED  BY <1>1, <2>1, <2>2, RoutesAre
<1> DEFINE route == <<s>> \o way
           car == [route |-> route, idx |-> 1, step |-> s, dist |-> d]
<1>3. /\ way \in Seq(Steps) /\ Joined(way) /\ Len(way) \in Nat
      /\ way # <<>> => StartOf(way[1]) = EndOf(s)
      /\ Len(way) # 0 => way # <<>>
  BY <1>2 DEF WaysFrom
<1>4. /\ route \in Seq(Steps) /\ Len(route) = Len(way) + 1 /\ route[1] = s
      /\ \A k \in 1 .. Len(way) : route[k + 1] = way[k]
  BY <1>1, <1>3
<1> HIDE DEF route
<1>5. Joined(route)
  <2> SUFFICES ASSUME NEW k \in 1 .. Len(route) - 1
               PROVE  EndOf(route[k]) = StartOf(route[k + 1])
    BY DEF Joined
  <2>1. k \in 1 .. Len(way) /\ route[k + 1] = way[k] /\ Len(way) # 0
    BY <1>3, <1>4
  <2>2. CASE k = 1
    BY <1>3, <1>4, <2>1, <2>2
  <2>3. CASE k # 1
    <3>1. k - 1 \in 1 .. Len(way) - 1 /\ k - 1 \in 1 .. Len(way) /\ (k - 1) + 1 = k
      BY <1>3, <2>1, <2>3
    <3>2. route[k] = way[k - 1]
      BY <1>4, <3>1
    <3>. QED  BY <1>3, <2>1, <3>1, <3>2 DEF Joined
  <2>. QED  BY <2>2, <2>3
<1>6. car \in Cars
  BY <1>1, <1>4, TrafficAssumption DEF Cars
<1>7. car.route = route /\ car.idx = 1 /\ car.step = s /\ car.dist = d
  OBVIOUS
<1>8. cars' = Append(cars, car)
  BY <1>1 DEF route
<1> HIDE DEF car
<1>9. Len(route) # 0 /\ 1 \in 1 .. Len(route)
  BY <1>3, <1>4
<1>10. OnCourse(car)
  BY <1>1, <1>4, <1>5, <1>6, <1>7, <1>9 DEF OnCourse, Placed
<1>. QED  BY <1>6, <1>8, <1>10 DEF CarsInv, OnTheRoad

\* A frame, for the lights and for the cars.
LEMMA TickIs ==
    ASSUME TrafficInv, Tick
    PROVE  TrafficInv'
<1>1. /\ scene /\ DOMAIN lights = Junctions
      /\ lights' = [n \in Junctions |-> Turned(n, lights[n])]
      /\ UNCHANGED <<scene, adds, closed, barriers, shut, mode, paint>>
  BY DEF TrafficInv, LightsInv, Tick
<1>2. LightsInv'
  <2>1. DOMAIN lights' = Junctions
    BY <1>1
  <2>2. ASSUME NEW n \in Junctions
        PROVE  Controlled(n, lights'[n])
    <3>1. Controlled(n, lights[n])
      BY <1>1 DEF TrafficInv, LightsInv
    <3>2. lights'[n] = Turned(n, lights[n])
      BY <1>1
    <3>. QED  BY <3>1, <3>2, TurnedIsControlled
  <2>. QED  BY <1>1, <2>1, <2>2 DEF TrafficInv, LightsInv
<1>3. ClosedInv'
  BY <1>1 DEF TrafficInv, ClosedInv
<1>4. /\ DOMAIN cars' = DOMAIN cars
      /\ \A i \in DOMAIN cars : cars'[i] \in Updated(lights', cars[i])
      /\ cars' = [i \in DOMAIN cars |-> cars'[i]]
  <2>1. PICK T : cars' \in [DOMAIN cars -> T] /\ \A i \in DOMAIN cars : cars'[i] \in Updated(lights', cars[i])
    BY DEF Tick
  <2>. QED  BY <2>1
<1>5. \A i \in DOMAIN cars : cars'[i] \in OnTheRoad
  <2> SUFFICES ASSUME NEW i \in DOMAIN cars PROVE cars'[i] \in OnTheRoad
    OBVIOUS
  <2>1. OnCourse(cars[i]) /\ shut \in Closings
    BY DEF TrafficInv, CarsInv, ClosedInv, OnTheRoad
  <2>2. OnCourse(cars'[i])
    BY <1>4, <2>1, UpdatedIs
  <2>. QED  BY <2>2 DEF OnTheRoad, OnCourse
<1>6. CarsInv'
  <2>1. DOMAIN cars = 1 .. Len(cars) /\ Len(cars) \in Nat
    BY DEF TrafficInv, CarsInv
  <2>. QED  BY <1>4, <1>5, <2>1 DEF CarsInv
<1>. QED  BY <1>2, <1>3, <1>6 DEF TrafficInv

LEMMA TrafficStep == TrafficInv /\ [Next]_vars => TrafficInv'
<1> SUFFICES ASSUME TrafficInv, [Next]_vars PROVE TrafficInv'
  OBVIOUS
<1> USE DEF TrafficInv
<1>1. <<>> \in Seq(OnTheRoad)
  OBVIOUS
<1>2. CASE AddToScene
  <2>1. DOMAIN lights' = Junctions /\ \A n \in Junctions : Controlled(n, lights'[n])
    BY <1>2, NewLightsAre DEF AddToScene
  <2>2. LightsInv'
    BY <1>2, <2>1 DEF AddToScene, LightsInv
  <2>3. ClosedInv'
    BY <1>2, ClosingsAre DEF AddToScene, ClosedInv
  <2>. QED  BY <1>1, <1>2, <2>2, <2>3 DEF AddToScene, CarsInv
<1>3. CASE RemoveFromScene
  <2>1. LightsInv'
    <3>1. DOMAIN <<>> = {}
      OBVIOUS
    <3>2. lights' = <<>> /\ scene' = FALSE
      BY <1>3 DEF RemoveFromScene
    <3>. QED  BY <3>1, <3>2 DEF LightsInv
  <2>2. ClosedInv'
    BY <1>3, ClosingsAre DEF RemoveFromScene, ClosedInv
  <2>. QED  BY <1>1, <1>3, <2>1, <2>2 DEF RemoveFromScene, CarsInv
<1>4. ASSUME NEW path \in Paths, CloseEdges(path)
      PROVE  TrafficInv'
  <2>1. LightsInv' /\ CarsInv'
    BY <1>4 DEF CloseEdges, LightsInv, CarsInv
  <2>2. closed' \in Closings /\ shut' \in Closings /\ shut' \subseteq closed' /\ (~scene' => shut' = {})
    BY <1>4, ClosingsAre DEF CloseEdges, ClosedInv, LightsInv
  <2>3. DOMAIN paint' = EdgeIds /\ \A e \in EdgeIds : e \in closed' => paint'[e] = "closed"
    BY <1>4 DEF CloseEdges
  <2>4. closed' \subseteq EdgeIds
    BY <2>2, ClosingsAre
  <2>. QED  BY <2>1, <2>2, <2>3, <2>4 DEF ClosedInv
<1>5. CASE ClearClosures
  <2>1. LightsInv' /\ CarsInv'
    BY <1>5 DEF ClearClosures, LightsInv, CarsInv
  <2>2. ClosedInv'
    BY <1>5, ClosingsAre DEF ClearClosures, ClosedInv
  <2>. QED  BY <2>1, <2>2
<1>6. ASSUME NEW m, SetRoadDisplayMode(m)
      PROVE  TrafficInv'
  <2>1. LightsInv' /\ CarsInv'
    BY <1>6 DEF SetRoadDisplayMode, LightsInv, CarsInv
  <2>2. DOMAIN paint' = EdgeIds /\ \A e \in EdgeIds : e \in closed => paint'[e] = paint[e]
    <3>1. CASE m = "off"
      BY <1>6, <3>1 DEF SetRoadDisplayMode, ClosedInv
    <3>2. CASE m # "off"
      BY <1>6, <3>2 DEF SetRoadDisplayMode
    <3>. QED  BY <3>1, <3>2
  <2>3. UNCHANGED <<closed, shut, scene>> /\ closed \subseteq EdgeIds
    BY <1>6, ClosingsAre DEF SetRoadDisplayMode, ClosedInv
  <2>4. ClosedInv'
    BY <2>2, <2>3 DEF ClosedInv
  <2>. QED  BY <2>1, <2>4
<1>7. CASE SpawnCar
  <2>1. LightsInv' /\ ClosedInv'
    BY <1>7 DEF SpawnCar, LightsInv, ClosedInv
  <2>2. CarsInv'
    BY <1>7, SpawnedIs DEF ClosedInv
  <2>. QED  BY <2>1, <2>2
<1>8. CASE RemoveCar
  <2>1. LightsInv' /\ ClosedInv'
    BY <1>8 DEF RemoveCar, LightsInv, ClosedInv
  <2>2. cars \in Seq(OnTheRoad) /\ cars # <<>> /\ cars' = SubSeq(cars, 1, Len(cars) - 1)
    BY <1>8 DEF RemoveCar, CarsInv, Front
  <2>3. cars' \in Seq(OnTheRoad)
    BY <2>2
  <2>. QED  BY <2>1, <2>3 DEF CarsInv
<1>9. CASE RemoveAllCars
  BY <1>1, <1>9 DEF RemoveAllCars, LightsInv, ClosedInv, CarsInv
<1>10. CASE Tick
  BY <1>10, TickIs
<1>11. CASE UNCHANGED vars
  BY <1>11 DEF vars, LightsInv, ClosedInv, CarsInv
<1>. QED  BY <1>2, <1>3, <1>4, <1>5, <1>6, <1>7, <1>8, <1>9, <1>10, <1>11 DEF Next

LEMMA TrafficHolds == MCSpec => []TrafficInv
<1>1. MCInit => TrafficInv
  <2> SUFFICES ASSUME Init PROVE TrafficInv
    BY DEF MCInit
  <2>1. LightsInv
    <3>1. DOMAIN <<>> = {}
      OBVIOUS
    <3>. QED  BY <3>1 DEF Init, LightsInv
  <2>2. ClosedInv
    BY ClosingsAre DEF Init, ClosedInv
  <2>. QED  BY <2>1, <2>2 DEF Init, CarsInv, TrafficInv
<1>2. [MCNext]_allVars => [Next]_vars
  BY DEF MCNext, PlayerStep, TesterStep, allVars, roadVars
<1>3. TrafficInv /\ [MCNext]_allVars => TrafficInv'
  BY <1>2, TrafficStep
<1>. QED  BY <1>1, <1>3, PTL DEF MCSpec

(* RoadTraffic: on every map, with any number of cars and any durations of the lights, and
   in every order of closing and opening roads, of showing the network and of frames, cars
   drive along routes that join, within the length of their edges; two approaches of a
   junction that are not both red face each other; and what cars are kept off is shown
   closed. *)
THEOREM RoadsKept == MCSpec => []RoadsAreKept
<1>1. TrafficInv => RoadsAreKept
  BY LightsGiveWay, RoutesAreJoined DEF TrafficInv, ClosedInv, RoadsAreKept, ShutIsShown
<1>. QED  BY <1>1, TrafficHolds, PTL

\* The lamp of an edge at a junction has one of the three colours.
LEMMA LampIs ==
    ASSUME NEW junctions, \A n \in Junctions : Controlled(n, junctions[n]), NEW s \in Steps
    PROVE  Lamp(junctions, s) \in {"red", "yellow", "green", "none"}
<1>1. CASE EndOf(s) \in Junctions
  <2>1. junctions[EndOf(s)].lamps \in [EdgesAt(EndOf(s)) -> LampColours]
    BY <1>1 DEF Controlled, Controllers, LampsAt
  <2>. QED  BY <1>1, <2>1, StepsLead DEF Lamp, LampColours
<1>2. CASE EndOf(s) \notin Junctions
  BY <1>2 DEF Lamp
<1>. QED  BY <1>1, <1>2

\* Where a car is not the same after a step, the step is a frame.
LEMMA CarsOfAStep ==
    ASSUME TrafficInv, Next, NEW i \in DOMAIN cars \cap DOMAIN cars'
    PROVE  \/ cars'[i] = cars[i]
           \/ Tick /\ cars'[i] \in Updated(lights', cars[i])
<1>1. cars \in Seq(OnTheRoad) /\ Len(cars) \in Nat
  BY DEF TrafficInv, CarsInv
<1>2. CASE SpawnCar
  <2>1. PICK car : cars' = Append(cars, car)
    BY <1>2, Zenon DEF SpawnCar
  <2>. QED  BY <1>1, <2>1
<1>3. CASE RemoveCar
  <2>1. cars' = SubSeq(cars, 1, Len(cars) - 1)
    BY <1>3 DEF RemoveCar, Front
  <2>. QED  BY <1>1, <2>1
<1>4. CASE Tick
  BY <1>4 DEF Tick
<1>5. CASE AddToScene \/ RemoveFromScene \/ RemoveAllCars
  <2>1. DOMAIN cars' = {}
    BY <1>5 DEF AddToScene, RemoveFromScene, RemoveAllCars
  <2>. QED  BY <2>1
<1>. QED  BY <1>2, <1>3, <1>4, <1>5 DEF Next, CloseEdges, ClearClosures, SetRoadDisplayMode

(* RoadTraffic: no car on a route leaves an edge while its lamp is red or yellow, in
   whatever frame the lamp turned and however far the car moves in one; and a car drives on
   along its route and from the end of one to the next, or, where no open road leads on,
   goes back to the beginning of its last step. *)
THEOREM CarsDrive == MCSpec => CarsDriveOn
<1> DEFINE Obeys == \A i \in DOMAIN cars \cap DOMAIN cars' :
                        cars[i].route # <<>> /\ cars'[i].step # cars[i].step =>
                            Lamp(lights', cars[i].step) \in {"green", "none"}
           Drives == \A i \in DOMAIN cars \cap DOMAIN cars' : GoesOn(cars[i], cars'[i])
<1>1. ASSUME TrafficInv, Next, NEW i \in DOMAIN cars \cap DOMAIN cars'
      PROVE  /\ GoesOn(cars[i], cars'[i])
             /\ cars[i].route # <<>> /\ cars'[i].step # cars[i].step =>
                    Lamp(lights', cars[i].step) \in {"green", "none"}
  <2>1. /\ OnCourse(cars[i]) /\ cars[i].step \in Steps /\ cars[i].idx \in Nat
        /\ shut \in Closings
    BY <1>1, CarsAre DEF TrafficInv, CarsInv, ClosedInv, OnTheRoad, OnCourse, Cars
  <2>2. CASE cars'[i] = cars[i]
    BY <2>1, <2>2 DEF GoesOn
  <2>3. CASE Tick /\ cars'[i] \in Updated(lights', cars[i])
    <3>1. /\ GoesOn(cars[i], cars'[i])
          /\ Stops(lights', cars[i]) => cars'[i].step = cars[i].step
      BY <2>1, <2>3, UpdatedIs
    <3>2. Lamp(lights', cars[i].step) \in {"red", "yellow", "green", "none"}
      <4>1. \A n \in Junctions : Controlled(n, lights'[n])
        BY <1>1, <2>3, TickIs DEF TrafficInv, LightsInv, Tick
      <4>. QED  BY <2>1, <4>1, LampIs
    <3>. QED  BY <3>1, <3>2 DEF Stops
  <2>. QED  BY <1>1, <2>2, <2>3, CarsOfAStep
<1>2. TrafficInv /\ [Next]_vars => [Obeys]_vars /\ [Drives]_vars
  BY <1>1
<1>3. [MCNext]_allVars => [Next]_vars
  BY DEF MCNext, PlayerStep, TesterStep, allVars, roadVars
<1>. QED  BY <1>2, <1>3, TrafficHolds, PTL DEF MCSpec, StopsAtRed, RoutesGoOn, CarsDriveOn

(***************************************************************************)
(* The player of recorded messages.                                        *)
(***************************************************************************)
\* The larger of nothing and a number.
LEMMA PlayerMaxIs == \A x \in Int : /\ Player!Max({0, x}) \in Nat
                                    /\ Player!Max({0, x}) = IF x > 0 THEN x ELSE 0
<1> SUFFICES ASSUME NEW x \in Int
             PROVE  /\ Player!Max({0, x}) \in Nat
                    /\ Player!Max({0, x}) = IF x > 0 THEN x ELSE 0
  OBVIOUS
<1>1. \E m \in {0, x} : \A y \in {0, x} : m >= y
  OBVIOUS
<1>2. Player!Max({0, x}) \in {0, x} /\ \A y \in {0, x} : Player!Max({0, x}) >= y
  BY <1>1, Zenon DEF Player!Max
<1>. QED  BY <1>2

\* A set of numbers up to n has a largest one,
LEMMA PlayerMaxOf ==
    ASSUME NEW n \in Nat, NEW T \in SUBSET (1 .. n), T # {}
    PROVE  Player!Max(T) \in T /\ \A y \in T : Player!Max(T) >= y
<1> DEFINE U == {n - x : x \in T}
<1>1. U \in SUBSET Nat /\ U # {}
  <2>1. \A x \in T : n - x \in Nat
    <3> SUFFICES ASSUME NEW x \in T PROVE n - x \in Nat
      OBVIOUS
    <3>1. x \in 1 .. n
      OBVIOUS
    <3>. QED  BY <3>1
  <2>2. PICK x : x \in T
    OBVIOUS
  <2>3. n - x \in U
    BY <2>2
  <2>4. U \in SUBSET Nat
    BY <2>1, Zenon
  <2>. QED  BY <2>3, <2>4
<1>2. PICK u \in U : \A v \in U : u <= v
  <2> HIDE DEF U
  <2>. QED  BY <1>1, LeastNat
<1>3. PICK x \in T : u = n - x
  BY <1>2
<1>4. \A y \in T : x >= y
  <2> SUFFICES ASSUME NEW y \in T PROVE x >= y
    OBVIOUS
  <2>1. n - y \in U
    OBVIOUS
  <2> HIDE DEF U
  <2>2. n - x <= n - y
    BY <1>2, <1>3, <2>1
  <2>. QED  BY <2>2
<1>. QED  BY <1>4, Zenon DEF Player!Max

\* and one of naturals a smallest.
LEMMA PlayerMinOf ==
    ASSUME NEW T \in SUBSET Nat, T # {}
    PROVE  Player!Min(T) \in T /\ \A y \in T : Player!Min(T) <= y
<1>1. \E x \in T : \A y \in T : x <= y
  BY LeastNat
<1>. QED  BY <1>1, Zenon DEF Player!Min

\* The numbers up to n can be put in the order of their keys, those of one key in theirs.
Sorted(f, n, key) ==
    /\ f \in [1 .. n -> 1 .. n]
    /\ \A k, l \in 1 .. n : k < l =>
          key[f[k]] < key[f[l]] \/ (key[f[k]] = key[f[l]] /\ f[k] < f[l])

\* Numbers in order stay so when the next one is inserted where it belongs,
LEMMA Inserted ==
    ASSUME NEW m \in Nat \ {0}, NEW key, \A i \in 1 .. m : key[i] \in Int,
           NEW f, Sorted(f, m - 1, key)
    PROVE  \E g : Sorted(g, m, key)
<1> DEFINE T == {k \in 1 .. m : k = m \/ key[f[k]] > key[m]}
<1>0. /\ \A k \in 1 .. m - 1 : f[k] \in 1 .. m - 1 /\ f[k] \in 1 .. m /\ key[f[k]] \in Int
      /\ key[m] \in Int
      /\ \A k, l \in 1 .. m - 1 : k < l =>
            key[f[k]] < key[f[l]] \/ (key[f[k]] = key[f[l]] /\ f[k] < f[l])
  BY DEF Sorted
<1>1. PICK p \in T : \A k \in T : p <= k
  <2>1. T \in SUBSET Nat /\ m \in T
    OBVIOUS
  <2> HIDE DEF T
  <2>. QED  BY <2>1, LeastNat
<1>2. /\ p \in 1 .. m
      /\ p # m => key[f[p]] > key[m]
      /\ \A k \in 1 .. m : k < p => k \in 1 .. m - 1 /\ key[f[k]] <= key[m]
  <2>1. p \in 1 .. m /\ (p # m => key[f[p]] > key[m])
    BY <1>1
  <2>2. ASSUME NEW k \in 1 .. m, k < p
        PROVE  k \in 1 .. m - 1 /\ key[f[k]] <= key[m]
    <3>1. k \notin T /\ k \in 1 .. m - 1
      BY <1>1, <2>1, <2>2
    <3>2. ~(key[f[k]] > key[m])
      BY <3>1
    <3>. QED  BY <1>0, <3>1, <3>2
  <2>. QED  BY <2>1, <2>2
<1> HIDE DEF T
<1> DEFINE g == [k \in 1 .. m |-> IF k < p THEN f[k] ELSE IF k = p THEN m ELSE f[k - 1]]
<1>3. \A k \in 1 .. m : /\ k < p => k \in 1 .. m - 1 /\ g[k] = f[k]
                        /\ k = p => g[k] = m
                        /\ k > p => k - 1 \in 1 .. m - 1 /\ g[k] = f[k - 1]
  BY <1>2
<1>4. g \in [1 .. m -> 1 .. m]
  <2>1. \A k \in 1 .. m : g[k] \in 1 .. m
    <3> HIDE DEF g
    <3>. QED  BY <1>0, <1>2, <1>3
  <2>. QED  BY <2>1
<1> HIDE DEF g
<1>5. ASSUME NEW k \in 1 .. m, NEW l \in 1 .. m, k < l
      PROVE  key[g[k]] < key[g[l]] \/ (key[g[k]] = key[g[l]] /\ g[k] < g[l])
  <2>1. CASE l < p
    <3>1. /\ k \in 1 .. m - 1 /\ l \in 1 .. m - 1 /\ g[k] = f[k] /\ g[l] = f[l]
      BY <1>2, <1>3, <1>5, <2>1
    <3>. QED  BY <1>0, <1>5, <3>1
  <2>2. CASE k < p /\ l = p
    <3>1. k \in 1 .. m - 1 /\ g[k] = f[k] /\ g[l] = m /\ key[f[k]] <= key[m]
      BY <1>2, <1>3, <2>2
    <3>2. f[k] < m /\ key[f[k]] \in Int /\ key[m] \in Int
      BY <1>0, <3>1
    <3>. QED  BY <3>1, <3>2
  <2>3. CASE k < p /\ l > p
    <3>1. /\ k \in 1 .. m - 1 /\ l - 1 \in 1 .. m - 1 /\ g[k] = f[k] /\ g[l] = f[l - 1]
          /\ k < l - 1
      BY <1>2, <1>3, <2>3
    <3>. QED  BY <1>0, <3>1
  <2>4. CASE k = p
    <3>1. /\ l - 1 \in 1 .. m - 1 /\ g[k] = m /\ g[l] = f[l - 1] /\ p \in 1 .. m - 1 /\ p <= l - 1
          /\ key[f[p]] > key[m]
      BY <1>2, <1>3, <1>5, <2>4
    <3>2. key[f[p]] <= key[f[l - 1]]
      <4>1. CASE p = l - 1
        BY <1>0, <3>1, <4>1
      <4>2. CASE p # l - 1
        <5>1. p < l - 1
          BY <3>1, <4>2
        <5>. QED  BY <1>0, <3>1, <5>1
      <4>. QED  BY <4>1, <4>2
    <3>3. key[m] \in Int /\ key[f[p]] \in Int /\ key[f[l - 1]] \in Int
      BY <1>0, <3>1
    <3>. QED  BY <3>1, <3>2, <3>3
  <2>5. CASE k > p
    <3>1. /\ k - 1 \in 1 .. m - 1 /\ l - 1 \in 1 .. m - 1 /\ g[k] = f[k - 1] /\ g[l] = f[l - 1]
          /\ k - 1 < l - 1
      BY <1>2, <1>3, <1>5, <2>5
    <3>. QED  BY <1>0, <3>1
  <2>. QED  BY <1>2, <1>5, <2>1, <2>2, <2>3, <2>4, <2>5
<1>. QED  BY <1>4, <1>5 DEF Sorted

\* so that a stable order exists, which the sort of the records chooses.
LEMMA SortExists ==
    ASSUME NEW n \in Nat, NEW key, \A i \in 1 .. n : key[i] \in Int
    PROVE  \E f : Sorted(f, n, key)
<1> DEFINE T == {m \in 0 .. n : ~ \E f : Sorted(f, m, key)}
<1> SUFFICES ASSUME T # {} PROVE FALSE
  OBVIOUS
<1>1. PICK m \in T : \A k \in T : m <= k
  <2>1. T \in SUBSET Nat
    OBVIOUS
  <2> HIDE DEF T
  <2>. QED  BY <2>1, LeastNat
<1>2. CASE m = 0
  <2>1. Sorted(<<>>, 0, key)
    BY DEF Sorted
  <2>. QED  BY <1>1, <1>2, <2>1
<1>3. CASE m # 0
  <2>1. m \in 1 .. n /\ m \in Nat \ {0} /\ m - 1 \in 0 .. n /\ m - 1 \notin T
    <3>1. m \in 0 .. n
      BY <1>1
    <3>2. m - 1 \notin T
      <4> HIDE DEF T
      <4>. QED  BY <1>1, <3>1
    <3>. QED  BY <1>3, <3>1, <3>2
  <2>2. PICK f : Sorted(f, m - 1, key)
    BY <2>1
  <2>3. \A i \in 1 .. m : key[i] \in Int
    BY <2>1
  <2>4. \E g : Sorted(g, m, key)
    <3> HIDE DEF T
    <3>. QED  BY <2>1, <2>2, <2>3, Inserted
  <2>. QED  BY <1>1, <2>4
<1>. QED  BY <1>2, <1>3

\* What a dump's rows are, and those picked of them.
LEMMA RowsAre ==
    \A r \in Rows : /\ r.tick \in Int \cup {Absent} /\ r.wall \in Int \cup {Absent}
                    /\ r.perf \in Int \cup {Absent}
BY DEF Rows

\* The rows of some kinds are rows: each step of the scan adds one or none.
LEMMA OfKindsAre ==
    ASSUME NEW rs \in Seq(Rows), NEW kinds
    PROVE  Player!OfKinds(rs, kinds) \in Seq(Rows)
<1> DEFINE L == Len(rs)
           S == Seq(Rows)
           Kept(n, x) == IF rs[n].kind \in kinds THEN Append(x, rs[n]) ELSE x
           F == [n \in 1 .. L |-> [x \in S |-> Kept(n, x)]]
           Body(u) == [n \in 0 .. L |->
               IF n = 0 THEN <<>>
               ELSE IF rs[n].kind \in kinds THEN Append(u[n - 1], rs[n]) ELSE u[n - 1]]
           upto[n \in 0 .. L] ==
               IF n = 0 THEN <<>>
               ELSE IF rs[n].kind \in kinds THEN Append(upto[n - 1], rs[n]) ELSE upto[n - 1]
<1>1. L \in Nat /\ \A n \in 1 .. L : rs[n] \in Rows
  OBVIOUS
<1>2. \A n \in 1 .. L : \A x \in S : Kept(n, x) \in S
  BY <1>1
<1>3. PICK f : Iterates(f, S, <<>>, L, F)
  <2>1. F \in StepsOf(S, L)
    <3> HIDE DEF S, L, Kept
    <3>. QED  BY <1>2 DEF StepsOf
  <2>2. <<>> \in S
    OBVIOUS
  <2> HIDE DEF F, S, L
  <2>. QED  BY <1>1, <2>1, <2>2, Iteration
<1>4. /\ f \in [0 .. L -> S] /\ f[0] = <<>>
      /\ \A n \in 1 .. L : f[n - 1] \in S /\ f[n] = Kept(n, f[n - 1])
  <2> HIDE DEF Kept
  <2>1. /\ f \in [0 .. L -> S] /\ f[0] = <<>>
        /\ \A n \in 1 .. L : f[n] = F[n][f[n - 1]]
    BY <1>3 DEF Iterates
  <2>2. ASSUME NEW n \in 1 .. L
        PROVE  f[n - 1] \in S /\ f[n] = Kept(n, f[n - 1])
    <3>1. f[n - 1] \in S
      BY <1>1, <2>1
    <3> HIDE DEF S
    <3>. QED  BY <2>1, <3>1
  <2>. QED  BY <2>1, <2>2
<1>5. f = Body(f)
  <2>1. ASSUME NEW n \in 0 .. L
        PROVE  f[n] = Body(f)[n]
    <3>1. CASE n = 0
      BY <1>1, <1>4, <3>1
    <3>2. CASE n # 0
      <4>1. n \in 1 .. L
        BY <1>1, <3>2
      <4>2. f[n] = Kept(n, f[n - 1])
        BY <1>4, <4>1
      <4>3. Body(f)[n] = Kept(n, f[n - 1])
        BY <3>2
      <4> HIDE DEF Body, Kept
      <4>. QED  BY <4>2, <4>3
    <3>. QED  BY <3>1, <3>2
  <2>2. f = [n \in 0 .. L |-> f[n]]
    BY <1>4
  <2>3. Body(f) = [n \in 0 .. L |-> Body(f)[n]]
    OBVIOUS
  <2> HIDE DEF Body
  <2>. QED  BY <2>1, <2>2, <2>3, Zenon
<1>6. upto = Body(upto)
  BY <1>5, Zenon
<1>7. Player!OfKinds(rs, kinds) = upto[L]
  BY Zenon DEF Player!OfKinds
<1> HIDE DEF upto
<1>8. upto[0] = <<>> /\ \A n \in 1 .. L : upto[n] = Kept(n, upto[n - 1])
  <2>1. upto[0] = <<>>
    <3>1. Body(upto)[0] = <<>>
      BY <1>1
    <3>. QED  BY <1>6, <3>1, Zenon
  <2>2. ASSUME NEW n \in 1 .. L
        PROVE  upto[n] = Kept(n, upto[n - 1])
    <3>1. n \in 0 .. L /\ n # 0
      BY <1>1
    <3>2. Body(upto)[n] = Kept(n, upto[n - 1])
      BY <3>1
    <3>. QED  BY <1>6, <3>2, Zenon
  <2>. QED  BY <2>1, <2>2
<1> HIDE DEF Body, F, Kept
<1>9. \A n \in 0 .. L : upto[n] \in S
  <2> DEFINE T == {n \in 0 .. L : upto[n] \notin S}
  <2> SUFFICES ASSUME T # {} PROVE FALSE
    OBVIOUS
  <2>1. PICK n \in T : \A m \in T : n <= m
    <3>1. T \in SUBSET Nat
      BY <1>1
    <3> HIDE DEF T
    <3>. QED  BY <3>1, LeastNat
  <2>2. n \in 1 .. L /\ n - 1 \in 0 .. L /\ n - 1 \notin T
    <3>1. n # 0
      <4>1. <<>> \in S
        OBVIOUS
      <4> HIDE DEF S
      <4>. QED  BY <1>8, <2>1, <4>1
    <3>. QED  BY <1>1, <2>1, <3>1
  <2>3. upto[n] \in S
    BY <1>2, <1>8, <2>2
  <2>. QED  BY <2>1, <2>3
<1>. QED  BY <1>1, <1>7, <1>9

\* What is waited after a row is recorded, or may be had of what is; it is never negative.
LEMMA GapsAre ==
    ASSUME NEW rs \in Seq(Rows)
    PROVE  /\ Len(Player!RecordedGaps(rs)) \in Nat
           /\ \A i \in 1 .. Len(Player!RecordedGaps(rs)) : Player!RecordedGaps(rs)[i].ms \in Nat
<1> DEFINE stamps == Player!StampedRows(rs)
           n == IF Len(stamps) = 0 THEN 0 ELSE Len(stamps) - 1
           gaps == Player!RecordedGaps(rs)
<1>1. stamps \in Seq(Rows) /\ Len(stamps) \in Nat
  BY OfKindsAre DEF Player!StampedRows
<1>2. gaps = [i \in 1 .. Len(stamps) - 1 |-> Player!ReplayGap(stamps, i)]
  BY DEF Player!RecordedGaps
<1> HIDE DEF stamps
<1>3. 1 .. Len(stamps) - 1 = 1 .. n /\ n \in Nat
  BY <1>1
<1>4. ASSUME NEW i \in 1 .. n
      PROVE  Player!ReplayGap(stamps, i).ms \in Nat
  <2> DEFINE a == stamps[i]
             b == stamps[i + 1]
             gap == IF Player!InOneBurst(a, b) THEN 0 ELSE Player!RecordedGap(a, b)
  <2>1. a \in Rows /\ b \in Rows
    BY <1>1
  <2> HIDE DEF a, b
  <2>2. Player!RecordedGap(a, b) \in Nat
    <3>1. CASE a.wall # Absent /\ b.wall # Absent
      <4>1. Player!RecordedGap(a, b) = Player!Max({0, b.wall - a.wall})
        BY <3>1, Zenon DEF Player!RecordedGap
      <4>2. b.wall - a.wall \in Int
        BY <2>1, <3>1, RowsAre
      <4>. QED  BY <4>1, <4>2, PlayerMaxIs, Zenon
    <3>2. CASE ~(a.wall # Absent /\ b.wall # Absent) /\ a.perf # Absent /\ b.perf # Absent
      <4>1. Player!RecordedGap(a, b) = Player!Max({0, b.perf - a.perf})
        BY <3>2, Zenon DEF Player!RecordedGap
      <4>2. a.perf \in Int /\ b.perf \in Int
        <5>1. a.perf \in Int \cup {Absent} /\ b.perf \in Int \cup {Absent}
          BY <2>1, RowsAre
        <5>. QED  BY <3>2, <5>1
      <4>3. b.perf - a.perf \in Int
        BY <4>2
      <4>. QED  BY <4>1, <4>3, PlayerMaxIs
    <3>3. CASE ~(a.wall # Absent /\ b.wall # Absent) /\ ~(a.perf # Absent /\ b.perf # Absent)
      <4>1. Player!RecordedGap(a, b) = Interval
        BY <3>3, Zenon DEF Player!RecordedGap
      <4>. QED  BY <4>1, ReplayAssumption
    <3>. QED  BY <3>1, <3>2, <3>3
  <2>3. gap \in Nat
    BY <2>2
  <2>4. Player!ReplayGap(stamps, i).ms \in {TickInterval, gap}
    <3> HIDE DEF gap
    <3>1. \E x, y : Player!ReplayGap(stamps, i) \in
              {[ms |-> TickInterval, scaled |-> x], [ms |-> gap, scaled |-> y]}
      BY Zenon DEF Player!ReplayGap, gap, a, b
    <3>. QED  BY <3>1
  <2>. QED  BY <2>3, <2>4, ReplayAssumption
<1>5. DOMAIN gaps = 1 .. n /\ \A i \in 1 .. n : gaps[i] = Player!ReplayGap(stamps, i)
  BY <1>2, <1>3
<1>6. Len(gaps) = n
  <2> DEFINE g == [i \in 1 .. n |-> Player!ReplayGap(stamps, i)]
  <2> HIDE DEF n
  <2>1. Len(g) = n
    BY <1>3
  <2>. QED  BY <1>2, <1>3, <2>1
<1>. QED  BY <1>3, <1>4, <1>5, <1>6

\* The segments of the records, and of one race that of a record that sets a tick.
LEMMA BucketsAre ==
    ASSUME NEW records \in Seq(Rows), NEW i \in 1 .. Len(records)
    PROVE  /\ Player!Bucket(records, i) \in Int
           /\ Player!OneRace(records) /\ Player!SetsTick(records[i]) =>
                  Player!Bucket(records, i) = records[i].tick /\ records[i].tick \in 0 .. 11
<1> DEFINE set == {j \in 1 .. i : Player!SetsTick(records[j])}
           over == \E j \in 1 .. i : Player!IsCompileResults(records[j])
<1>1. Player!Bucket(records, i) =
          IF over THEN Player!PostRace
          ELSE IF set = {} THEN Player!PreRace ELSE records[Player!Max(set)].tick
  BY DEF Player!Bucket
<1>2. \A j \in 1 .. i : j \in 1 .. Len(records) /\ records[j] \in Rows
  OBVIOUS
<1>3. i \in Nat /\ set \in SUBSET (1 .. i)
  OBVIOUS
<1>4. set # {} => Player!Max(set) \in set /\ \A j \in set : Player!Max(set) >= j
  <2> HIDE DEF set
  <2>. QED  BY <1>3, PlayerMaxOf
<1>5. ASSUME NEW j \in set
      PROVE  j \in 1 .. i /\ Player!SetsTick(records[j]) /\ records[j].tick \in Int
  <2>1. j \in 1 .. i /\ Player!SetsTick(records[j])
    OBVIOUS
  <2>2. records[j].tick \in Int \cup {Absent} /\ records[j].tick # Absent
    BY <1>2, <2>1, RowsAre DEF Player!SetsTick
  <2>. QED  BY <2>1, <2>2
<1>6. Player!Bucket(records, i) \in Int
  <2> HIDE DEF set
  <2>. QED  BY <1>1, <1>4, <1>5 DEF Player!PostRace, Player!PreRace
<1>7. ASSUME Player!OneRace(records), Player!SetsTick(records[i])
      PROVE  Player!Bucket(records, i) = records[i].tick /\ records[i].tick \in 0 .. 11
  <2>1. DOMAIN records = 1 .. Len(records) /\ i \in DOMAIN records
    OBVIOUS
  <2>2. records[i].tick \in 0 .. 11
    BY <1>7, <2>1 DEF Player!OneRace
  <2>3. ~over
    <3> SUFFICES ASSUME NEW j \in 1 .. i, Player!IsCompileResults(records[j])
                 PROVE  FALSE
      OBVIOUS
    <3>1. CASE j = i
      BY <1>7, <3>1 DEF Player!IsCompileResults, Player!SetsTick
    <3>2. CASE j # i
      <4>1. j \in DOMAIN records /\ j < i
        BY <2>1, <3>2
      <4>. QED  BY <1>7, <2>1, <4>1 DEF Player!OneRace
    <3>. QED  BY <3>1, <3>2
  <2>4. i \in set
    BY <1>7
  <2> HIDE DEF over, set
  <2>5. Player!Max(set) = i
    <3>1. Player!Max(set) \in 1 .. i /\ Player!Max(set) >= i
      BY <1>4, <1>5, <2>4
    <3>. QED  BY <3>1
  <2>. QED  BY <1>1, <2>2, <2>3, <2>4, <2>5
<1>. QED  BY <1>6, <1>7

\* So it is of the segments themselves.
LEMMA SegmentsAre ==
    ASSUME NEW records \in Seq(Rows), NEW i \in 1 .. Len(records)
    PROVE  /\ Player!Segment(records, i) \in Int
           /\ Player!OneRace(records) /\ Player!SetsTick(records[i]) =>
                  /\ Player!Segment(records, i) = records[i].tick + 1
                  /\ records[i].tick \in 0 .. 11
<1> DEFINE b == Player!Bucket(records, i)
<1>1. b \in Int
  BY BucketsAre
<1>2. Player!OneRace(records) /\ Player!SetsTick(records[i]) =>
          b = records[i].tick /\ records[i].tick \in 0 .. 11
  BY BucketsAre
<1>3. Player!Segment(records, i) = Player!SegmentId(b)
  BY DEF Player!Segment
<1> HIDE DEF b
<1>4. Player!SegmentId(b) = CASE b = -1 -> 0 [] b = -2 -> 13 [] OTHER -> b + 1
  BY Zenon DEF Player!SegmentId, Player!PreRace, Player!PostRace, Player!PostSegment
<1>5. /\ b = -1 => Player!SegmentId(b) = 0
      /\ b = -2 => Player!SegmentId(b) = 13
      /\ b # -1 /\ b # -2 => Player!SegmentId(b) = b + 1
  <2>1. CASE b = -1  BY <1>4, <2>1
  <2>2. CASE b = -2  BY <1>4, <2>2
  <2>3. CASE b # -1 /\ b # -2  BY <1>4, <2>3
  <2>. QED  BY <2>1, <2>2, <2>3
<1>. QED  BY <1>1, <1>2, <1>3, <1>5

\* The time from one segment to another.
Span(s, t) == (t - s) * TickInterval

\* Spans are added end to end.
LEMMA SpansAre ==
    \A a, b, c \in Int : /\ Span(a, b) \in Int /\ (a <= b => Span(a, b) \in Nat)
                         /\ Span(a, a) = 0 /\ Span(b, a) = 0 - Span(a, b)
                         /\ Span(a, b) + Span(b, c) = Span(a, c)
BY ReplayAssumption DEF Span

\* What is waited between two segments; between ticks it is their span.
LEMMA SegmentGapIs ==
    ASSUME NEW s \in Int, NEW t \in Int
    PROVE  /\ Player!SegmentGap(s, t) \in Nat
           /\ 1 <= s /\ s <= t /\ t <= 12 => Player!SegmentGap(s, t) = Span(s, t)
<1>1. CASE s = t \/ (s = 0 /\ t = 1) \/ (s = 12 /\ t = 13) \/ t < s
  <2>1. Player!SegmentGap(s, t) = 0
    BY <1>1, Zenon DEF Player!SegmentGap, Player!PostSegment
  <2>2. 1 <= s /\ s <= t /\ t <= 12 => s = t
    BY <1>1
  <2>. QED  BY <2>1, <2>2, SpansAre
<1>2. CASE ~(s = t \/ (s = 0 /\ t = 1) \/ (s = 12 /\ t = 13) \/ t < s)
  <2>1. Player!SegmentGap(s, t) = Span(s, t)
    BY <1>2, Zenon DEF Player!SegmentGap, Player!PostSegment, Span
  <2>2. s <= t
    BY <1>2
  <2>. QED  BY <2>1, <2>2, SpansAre
<1>. QED  BY <1>1, <1>2

\* The order of a tick-aligned replay is one of the records by their segments.
LEMMA OrderIs ==
    ASSUME NEW records \in Seq(Rows)
    PROVE  /\ Player!TickOrder(records) \in [1 .. Len(records) -> 1 .. Len(records)]
           /\ \A k, l \in 1 .. Len(records) : k < l =>
                 Player!Segment(records, Player!TickOrder(records)[k])
                     <= Player!Segment(records, Player!TickOrder(records)[l])
<1> DEFINE n == Len(records)
           key == [i \in 1 .. n |-> Player!Segment(records, i)]
           Before(i, j) == \/ Player!Segment(records, i) < Player!Segment(records, j)
                           \/ Player!Segment(records, i) = Player!Segment(records, j) /\ i < j
           Ordered(f) == /\ f \in [DOMAIN records -> DOMAIN records]
                         /\ \A k, l \in DOMAIN records : k < l => Before(f[k], f[l])
           order == CHOOSE f \in [DOMAIN records -> DOMAIN records] :
                        \A k, l \in DOMAIN records : k < l => Before(f[k], f[l])
<1>1. n \in Nat /\ DOMAIN records = 1 .. n
  OBVIOUS
<1>2. \A i \in 1 .. n : key[i] = Player!Segment(records, i) /\ key[i] \in Int
  BY SegmentsAre
<1>3. PICK f : Sorted(f, n, key)
  <2> HIDE DEF key, n
  <2>. QED  BY <1>1, <1>2, SortExists
<1>4. Ordered(f)
  <2>1. f \in [1 .. n -> 1 .. n]
    BY <1>3 DEF Sorted
  <2>2. ASSUME NEW k \in 1 .. n, NEW l \in 1 .. n, k < l
        PROVE  Before(f[k], f[l])
    <3>1. f[k] \in 1 .. n /\ f[l] \in 1 .. n
      BY <2>1
    <3>2. key[f[k]] < key[f[l]] \/ (key[f[k]] = key[f[l]] /\ f[k] < f[l])
      BY <1>3, <2>2 DEF Sorted
    <3> HIDE DEF key, n
    <3>. QED  BY <1>2, <3>1, <3>2
  <2> HIDE DEF Before, n
  <2>. QED  BY <1>1, <2>1, <2>2
<1>5. Ordered(order)
  <2> HIDE DEF Before
  <2>. QED  BY <1>4, Zenon
<1>6. Player!TickOrder(records) = order
  BY Zenon DEF Player!TickOrder
<1> HIDE DEF order, key
<1>7. ASSUME NEW k \in 1 .. n, NEW l \in 1 .. n, k < l
      PROVE  Player!Segment(records, order[k]) <= Player!Segment(records, order[l])
  <2>1. order[k] \in 1 .. n /\ order[l] \in 1 .. n
    BY <1>1, <1>5
  <2>2. Before(order[k], order[l])
    BY <1>1, <1>5, <1>7
  <2>3. /\ Player!Segment(records, order[k]) \in Int
        /\ Player!Segment(records, order[l]) \in Int
    BY <1>2, <2>1
  <2>. QED  BY <2>2, <2>3
<1>. QED  BY <1>1, <1>5, <1>6, <1>7

\* What is played: rows, with a gap that is not negative after each but the last.
Playable(p) ==
    /\ p.frames \in Seq(Rows)
    /\ \A k \in 1 .. Len(p.frames) - 1 : p.gaps[k].ms \in Nat

\* The recorded pace has a gap that is no less than nothing between any two frames.
LEMMA RecordedIs ==
    ASSUME NEW rs \in Seq(Rows)
    PROVE  Playable(Player!RecordedPlan(rs))
<1> DEFINE raw == Player!RawFrames(rs)
           frames == IF raw = <<>> THEN Player!InboundRecords(rs) ELSE raw
           recorded == Player!RecordedGaps(rs)
           gaps == IF Len(recorded) = Len(frames) - 1 THEN recorded ELSE Player!Constant(Len(frames))
<1>1. frames \in Seq(Rows)
  BY OfKindsAre DEF Player!RawFrames, Player!InboundRecords
<1>2. /\ Player!RecordedPlan(rs).frames = frames
      /\ Player!RecordedPlan(rs).gaps = gaps
  BY Zenon DEF Player!RecordedPlan
<1> HIDE DEF raw, frames
<1>3. ASSUME NEW k \in 1 .. Len(frames) - 1
      PROVE  gaps[k].ms \in Nat
  <2>1. CASE Len(recorded) = Len(frames) - 1
    <3>1. k \in 1 .. Len(recorded)
      BY <2>1
    <3>2. recorded[k].ms \in Nat
      <4> HIDE DEF recorded
      <4>. QED  BY <3>1, GapsAre DEF recorded
    <3>. QED  BY <2>1, <3>2
  <2>2. CASE Len(recorded) # Len(frames) - 1
    <3>1. gaps[k] = [ms |-> Interval, scaled |-> TRUE]
      BY <2>2 DEF Player!Constant
    <3>. QED  BY <3>1, ReplayAssumption
  <2>. QED  BY <2>1, <2>2
<1> HIDE DEF gaps
<1>. QED  BY <1>1, <1>2, <1>3 DEF Playable

\* In a tick-aligned replay the records leave in the order of their segments, and what is
\* waited between two is what their segments are apart.
LEMMA AlignedIs ==
    ASSUME NEW rs \in Seq(Rows)
    PROVE  LET records == Player!InboundRecords(rs)
               order == Player!TickOrder(records)
               p == Player!AlignedPlan(rs)
           IN  /\ Playable(p) /\ Len(p.frames) = Len(records)
               /\ \A k \in 1 .. Len(records) : p.frames[k] = records[order[k]]
               /\ \A k \in 1 .. Len(records) - 1 :
                      p.gaps[k].ms = Player!SegmentGap(Player!Segment(records, order[k]),
                                                       Player!Segment(records, order[k + 1]))
<1> DEFINE records == Player!InboundRecords(rs)
           order == Player!TickOrder(records)
           p == Player!AlignedPlan(rs)
           n == Len(records)
           Apart(k) == Player!SegmentGap(Player!Segment(records, order[k]),
                                         Player!Segment(records, order[k + 1]))
<1>1. records \in Seq(Rows)
  BY OfKindsAre DEF Player!InboundRecords
<1>2. /\ p.frames = [k \in DOMAIN order |-> records[order[k]]]
      /\ p.gaps = Player!AlignedGaps(records, order)
  BY Zenon DEF Player!AlignedPlan
<1> HIDE DEF records, p
<1>3. order \in [1 .. n -> 1 .. n] /\ n \in Nat
  BY <1>1, OrderIs
<1> HIDE DEF order
<1>4. p.frames \in Seq(Rows) /\ Len(p.frames) = n
  <2> DEFINE frames == [k \in 1 .. n |-> records[order[k]]]
  <2>1. \A k \in 1 .. n : records[order[k]] \in Rows
    BY <1>1, <1>3
  <2>2. p.frames = frames
    BY <1>2, <1>3
  <2>3. frames \in Seq(Rows) /\ Len(frames) = n
    <3> HIDE DEF n
    <3>. QED  BY <1>3, <2>1
  <2>. QED  BY <2>2, <2>3
<1>5. \A k \in 1 .. n : p.frames[k] = records[order[k]]
  BY <1>2, <1>3
<1>6. Len(order) = n
  BY <1>3
<1>7. ASSUME NEW k \in 1 .. n - 1
      PROVE  p.gaps[k].ms = Apart(k) /\ Apart(k) \in Nat
  <2>1. k \in 1 .. Len(order) - 1
    BY <1>6
  <2> HIDE DEF n
  <2>2. p.gaps[k] = LET ms == Apart(k) IN [ms |-> ms, scaled |-> ms > 0]
    BY <1>2, <2>1 DEF Player!AlignedGaps
  <2>3. p.gaps[k].ms = Apart(k)
    <3> HIDE DEF Apart
    <3>. QED  BY <2>2
  <2>4. k \in 1 .. n /\ k + 1 \in 1 .. n
    BY <1>3
  <2>5. order[k] \in 1 .. Len(records) /\ order[k + 1] \in 1 .. Len(records)
    BY <1>3, <2>4 DEF n
  <2>6. Apart(k) \in Nat
    BY <1>1, <2>5, SegmentsAre, SegmentGapIs
  <2>. QED  BY <2>3, <2>6
<1>8. Playable(p)
  <2> HIDE DEF Apart
  <2>1. \A k \in 1 .. Len(p.frames) - 1 : p.gaps[k].ms \in Nat
    BY <1>4, <1>7
  <2>. QED  BY <1>4, <2>1 DEF Playable
<1>. QED  BY <1>4, <1>5, <1>7, <1>8 DEF records, order, p

\* So has any replay.
LEMMA PlanIs ==
    ASSUME NEW rs \in Seq(Rows), NEW byTick \in BOOLEAN
    PROVE  Playable(Player!Plan(rs, byTick))
BY RecordedIs, AlignedIs DEF Player!Plan

\* A wait is no less than nothing, nothing where the gap is, and at speed 1 the gap itself.
LEMMA WaitIs ==
    ASSUME NEW gap, gap.ms \in Nat, NEW speed \in Scales
    PROVE  /\ Player!Wait(gap, speed) \in Nat
           /\ gap.ms = 0 => Player!Wait(gap, speed) = 0
           /\ speed = 1 => Player!Wait(gap, speed) = gap.ms
<1> DEFINE ms == gap.ms
<1>1. speed \in Nat \ {0} /\ ms \in Nat
  BY ReplayAssumption
<1>2. Player!Wait(gap, speed) \in {ms, ms \div speed}
  BY DEF Player!Wait
<1> HIDE DEF ms
<1>3. /\ ms \div speed \in Nat
      /\ 0 \div speed = 0
      /\ ms \div 1 = ms
  BY <1>1
<1>. QED  BY <1>1, <1>2, <1>3 DEF ms

\* Rows leave at these times, each a wait after the one before it.
Leaves(times, gaps, start, speed) ==
    /\ times[1] = 0
    /\ \A n \in 1 .. start - 1 :
           gaps[n].ms \in Nat /\ times[n + 1] = times[n] + Player!Wait(gaps[n], speed)

\* Then the waits before a row are the time it leaves.
LEMMA WaitsAre ==
    ASSUME NEW gaps, NEW start \in Nat \ {0}, NEW speed \in Scales, NEW times,
           Leaves(times, gaps, start, speed)
    PROVE  Player!WaitsBefore(gaps, start, speed) = times[start]
<1> USE DEF Leaves
<1> DEFINE L == start - 1
           W(n) == Player!Wait(gaps[n], speed)
           F == [n \in 1 .. L |-> [x \in Int |-> x + W(n)]]
           Body(u) == [n \in 0 .. L |-> IF n = 0 THEN 0 ELSE u[n - 1] + W(n)]
           upto[n \in 0 .. L] == IF n = 0 THEN 0 ELSE upto[n - 1] + W(n)
<1>1. L \in Nat /\ \A n \in 1 .. L : W(n) \in Int
  BY WaitIs
<1>2. \A n \in 1 .. L : times[n + 1] = times[n] + W(n)
  OBVIOUS
<1>3. Player!WaitsBefore(gaps, start, speed) = upto[L]
  BY Zenon DEF Player!WaitsBefore
<1> HIDE DEF upto, W
<1>4. PICK f : Iterates(f, Int, 0, L, F)
  <2>1. F \in StepsOf(Int, L)
    <3>1. \A n \in 1 .. L : \A x \in Int : x + W(n) \in Int
      BY <1>1
    <3> HIDE DEF L
    <3>. QED  BY <3>1 DEF StepsOf
  <2>2. 0 \in Int
    OBVIOUS
  <2> HIDE DEF F, L
  <2>. QED  BY <1>1, <2>1, <2>2, Iteration, Zenon
<1>5. /\ f \in [0 .. L -> Int] /\ f[0] = 0
      /\ \A n \in 1 .. L : f[n] = f[n - 1] + W(n)
  <2>1. /\ f \in [0 .. L -> Int] /\ f[0] = 0
        /\ \A n \in 1 .. L : f[n] = F[n][f[n - 1]]
    BY <1>4 DEF Iterates
  <2>2. ASSUME NEW n \in 1 .. L
        PROVE  f[n] = f[n - 1] + W(n)
    <3>1. f[n - 1] \in Int
      BY <1>1, <2>1
    <3> HIDE DEF L
    <3>. QED  BY <2>1, <3>1
  <2>. QED  BY <2>1, <2>2
<1> HIDE DEF L
<1>6. f = Body(f)
  <2>1. ASSUME NEW n \in 0 .. L
        PROVE  f[n] = Body(f)[n]
    <3>1. CASE n = 0
      BY <1>1, <1>5, <3>1
    <3>2. CASE n # 0
      <4>1. n \in 1 .. L
        BY <1>1, <3>2
      <4>. QED  BY <1>5, <3>2, <4>1
    <3>. QED  BY <3>1, <3>2
  <2>2. f = [n \in 0 .. L |-> f[n]]
    BY <1>5
  <2>3. Body(f) = [n \in 0 .. L |-> Body(f)[n]]
    OBVIOUS
  <2> HIDE DEF Body
  <2>. QED  BY <2>1, <2>2, <2>3, Zenon
<1>7. upto = Body(upto)
  BY <1>6, Zenon DEF upto
<1>8. upto[0] = 0 /\ \A n \in 1 .. L : upto[n] = upto[n - 1] + W(n)
  <2>1. upto[0] = 0
    <3>1. Body(upto)[0] = 0
      BY <1>1
    <3>. QED  BY <1>7, <3>1, Zenon
  <2>2. ASSUME NEW n \in 1 .. L
        PROVE  upto[n] = upto[n - 1] + W(n)
    <3>1. n \in 0 .. L /\ n # 0
      BY <1>1
    <3>2. Body(upto)[n] = upto[n - 1] + W(n)
      BY <3>1
    <3>. QED  BY <1>7, <3>2, Zenon
  <2>. QED  BY <2>1, <2>2
<1> HIDE DEF Body, F
<1>9. \A n \in 0 .. L : upto[n] = times[n + 1]
  <2> DEFINE T == {n \in 0 .. L : upto[n] # times[n + 1]}
  <2> SUFFICES ASSUME T # {} PROVE FALSE
    OBVIOUS
  <2>1. PICK n \in T : \A m \in T : n <= m
    <3>1. T \in SUBSET Nat
      BY <1>1
    <3> HIDE DEF T
    <3>. QED  BY <3>1, LeastNat
  <2>2. n \in 1 .. L /\ n - 1 \in 0 .. L /\ n - 1 \notin T
    <3>1. n # 0
      BY <1>8, <2>1
    <3>. QED  BY <1>1, <2>1, <3>1
  <2>3. upto[n - 1] = times[n]
    BY <2>2
  <2>4. upto[n] = times[n] + W(n) /\ times[n + 1] = times[n] + W(n)
    BY <1>2, <1>8, <2>2, <2>3
  <2>. QED  BY <2>1, <2>4
<1>10. L \in 0 .. L /\ L + 1 = start
  BY <1>1 DEF L
<1>. QED  BY <1>3, <1>9, <1>10

(* While the speed is the one it began with, each frame left a wait after the one
   before it, and the timer that runs will fire a wait after the last; and the
   countdown, while it is to come, is the one computed for this speed. *)
PlayerTypes ==
    /\ dump \in Dumps /\ aligned \in BOOLEAN /\ plan = Player!Plan(dump, aligned)
    /\ scale \in Scales /\ steady \in BOOLEAN
    /\ stamp \in Seq(Int) /\ Len(stamp) <= Len(plan.frames)
    /\ due # Absent => due \in Int /\ 0 < Len(stamp) /\ Len(stamp) < Len(plan.frames)

Paced ==
    /\ Len(stamp) > 0 => stamp[1] = 0
    /\ \A k \in 1 .. Len(stamp) - 1 :
           stamp[k + 1] = stamp[k] + Player!Wait(plan.gaps[k], scale)
    /\ due # Absent =>
           due = stamp[Len(stamp)] + Player!Wait(plan.gaps[Len(stamp)], scale)

PlayerInv ==
    /\ PlayerTypes
    /\ steady => Paced /\ countdownDue \in {Absent, Player!CountdownAt(dump, scale)}

\* A turn plays frames up to one with a gap after it, or to the last.
LEMMA TurnIs ==
    ASSUME PlayerTypes, NEW now \in Int, Player!Turn(now), Len(stamp) < Len(plan.frames)
    PROVE  /\ stamp' \in Seq(Int) /\ Len(stamp) < Len(stamp')
           /\ Len(stamp') <= Len(plan.frames)
           /\ \A k \in 1 .. Len(stamp) : stamp'[k] = stamp[k]
           /\ \A k \in Len(stamp) + 1 .. Len(stamp') : stamp'[k] = now
           /\ \A k \in Len(stamp) + 1 .. Len(stamp') - 1 : plan.gaps[k].ms = 0
           /\ due' # Absent =>
                  /\ Len(stamp') < Len(plan.frames)
                  /\ due' = now + Player!Wait(plan.gaps[Len(stamp')], scale)
<1> DEFINE at == Len(stamp)
           L == Len(plan.frames)
           T == {k \in at + 1 .. L : k = L \/ k = plan.split \/ plan.gaps[k].ms > 0}
           end == Player!TurnEnd(at + 1)
           turn == [k \in 1 .. end - at |-> now]
<1>1. at \in Nat /\ L \in Nat /\ at < L /\ stamp \in Seq(Int)
  BY PlanIs, DumpsAssumption DEF PlayerTypes, Playable
<1>2. \A k \in 1 .. L - 1 : plan.gaps[k].ms \in Nat
  BY PlanIs, DumpsAssumption DEF PlayerTypes, Playable
<1>3. /\ stamp' = stamp \o turn
      /\ due' = IF end = L THEN Absent ELSE now + Player!Wait(plan.gaps[end], scale)
  BY Zenon DEF Player!Turn, Player!At
<1>4. end = Player!Min(T)
  BY Zenon DEF Player!TurnEnd
<1> HIDE DEF end, L, at
<1>5. end \in T /\ \A k \in T : end <= k
  <2>1. T \in SUBSET Nat /\ L \in T
    BY <1>1
  <2> HIDE DEF T
  <2>. QED  BY <1>4, <2>1, PlayerMinOf
<1>6. end \in at + 1 .. L
  BY <1>5
<1>7. ASSUME NEW k \in at + 1 .. end - 1
      PROVE  plan.gaps[k].ms = 0
  <2>1. k \in at + 1 .. L /\ k \in 1 .. L - 1 /\ ~(end <= k)
    BY <1>1, <1>6
  <2>2. k \notin T
    <3> HIDE DEF T
    <3>. QED  BY <1>5, <2>1
  <2>. QED  BY <1>2, <2>1, <2>2
<1>8. turn \in Seq(Int) /\ Len(turn) = end - at /\ \A k \in 1 .. end - at : turn[k] = now
  <2>1. end - at \in Nat
    BY <1>1, <1>6
  <2>. QED  BY <2>1
<1> HIDE DEF turn
<1>9. /\ stamp' \in Seq(Int) /\ Len(stamp') = end
      /\ \A k \in 1 .. at : stamp'[k] = stamp[k]
      /\ \A k \in at + 1 .. end : stamp'[k] = turn[k - at]
  BY <1>1, <1>3, <1>6, <1>8 DEF at
<1>10. ASSUME NEW k \in at + 1 .. end
       PROVE  stamp'[k] = now
  <2>1. k - at \in 1 .. end - at
    BY <1>1, <1>6
  <2>. QED  BY <1>8, <1>9, <2>1
<1>11. end # L => end < L
  BY <1>1, <1>6
<1>. QED  BY <1>1, <1>3, <1>6, <1>7, <1>9, <1>10, <1>11 DEF at, L

\* A turn keeps the types, and the pace while the speed is unchanged.
LEMMA TurnKeepsPace ==
    ASSUME PlayerTypes, NEW now \in Int, Player!Turn(now), Len(stamp) < Len(plan.frames),
           UNCHANGED <<dump, aligned, plan, scale, steady>>,
           IF Len(stamp) = 0 THEN now = 0 ELSE now = due /\ due # Absent
    PROVE  PlayerTypes' /\ (Paced => Paced')
<1>1. /\ stamp' \in Seq(Int) /\ Len(stamp) < Len(stamp')
      /\ Len(stamp') <= Len(plan.frames)
      /\ \A k \in 1 .. Len(stamp) : stamp'[k] = stamp[k]
      /\ \A k \in Len(stamp) + 1 .. Len(stamp') : stamp'[k] = now
      /\ \A k \in Len(stamp) + 1 .. Len(stamp') - 1 : plan.gaps[k].ms = 0
      /\ due' # Absent =>
             /\ Len(stamp') < Len(plan.frames)
             /\ due' = now + Player!Wait(plan.gaps[Len(stamp')], scale)
  BY TurnIs
<1>2. /\ Len(stamp) \in Nat /\ Len(stamp') \in Nat /\ Len(plan.frames) \in Nat
      /\ stamp \in Seq(Int)
  BY <1>1, PlanIs, DumpsAssumption DEF PlayerTypes, Playable
<1>3. \A k \in 1 .. Len(plan.frames) - 1 :
          /\ Player!Wait(plan.gaps[k], scale) \in Nat
          /\ plan.gaps[k].ms = 0 => Player!Wait(plan.gaps[k], scale) = 0
  <2> SUFFICES ASSUME NEW k \in 1 .. Len(plan.frames) - 1
               PROVE  /\ Player!Wait(plan.gaps[k], scale) \in Nat
                      /\ plan.gaps[k].ms = 0 => Player!Wait(plan.gaps[k], scale) = 0
    OBVIOUS
  <2>1. plan.gaps[k].ms \in Nat /\ scale \in Scales
    BY PlanIs, DumpsAssumption DEF PlayerTypes, Playable
  <2>. QED  BY <2>1, WaitIs
<1>4. due' # Absent => due' \in Int
  <2> SUFFICES ASSUME due' # Absent PROVE due' \in Int
    OBVIOUS
  <2>1. Len(stamp') \in 1 .. Len(plan.frames) - 1
    BY <1>1, <1>2
  <2>. QED  BY <1>1, <1>3, <2>1
<1>5. PlayerTypes'
  BY <1>1, <1>2, <1>4 DEF PlayerTypes
<1>6. ASSUME Paced PROVE Paced'
  <2>1. stamp'[1] = 0
    <3>1. CASE Len(stamp) = 0
      BY <1>1, <1>2, <3>1
    <3>2. CASE Len(stamp) # 0
      <4>1. 1 \in 1 .. Len(stamp)
        BY <1>2, <3>2
      <4>. QED  BY <1>1, <1>2, <1>6, <4>1 DEF Paced
    <3>. QED  BY <3>1, <3>2
  <2>2. ASSUME NEW k \in 1 .. Len(stamp') - 1
        PROVE  stamp'[k + 1] = stamp'[k] + Player!Wait(plan.gaps[k], scale)
    <3>1. k \in 1 .. Len(plan.frames) - 1
      BY <1>1, <1>2
    <3>2. CASE k < Len(stamp)
      <4>1. k \in 1 .. Len(stamp) - 1 /\ k \in 1 .. Len(stamp) /\ k + 1 \in 1 .. Len(stamp)
        BY <1>2, <3>2
      <4>2. stamp[k + 1] = stamp[k] + Player!Wait(plan.gaps[k], scale)
        BY <1>6, <4>1 DEF Paced
      <4>. QED  BY <1>1, <4>1, <4>2
    <3>3. CASE k = Len(stamp)
      <4>1. k \in 1 .. Len(stamp) /\ k + 1 \in Len(stamp) + 1 .. Len(stamp')
        BY <1>1, <1>2, <3>3
      <4>2. now = stamp[k] + Player!Wait(plan.gaps[k], scale)
        <5>1. Len(stamp) # 0 /\ due # Absent /\ now = due
          BY <1>2, <4>1
        <5>. QED  BY <1>6, <3>3, <5>1 DEF Paced
      <4>. QED  BY <1>1, <4>1, <4>2
    <3>4. CASE k > Len(stamp)
      <4>1. /\ k \in Len(stamp) + 1 .. Len(stamp') - 1 /\ k \in Len(stamp) + 1 .. Len(stamp')
            /\ k + 1 \in Len(stamp) + 1 .. Len(stamp')
        BY <1>2, <3>4
      <4>2. stamp'[k] = now /\ stamp'[k + 1] = now /\ plan.gaps[k].ms = 0
        BY <1>1, <4>1
      <4>3. Player!Wait(plan.gaps[k], scale) = 0
        BY <1>3, <3>1, <4>2
      <4>. QED  BY <4>2, <4>3
    <3>. QED  BY <1>2, <3>2, <3>3, <3>4
  <2>3. ASSUME due' # Absent
        PROVE  due' = stamp'[Len(stamp')] + Player!Wait(plan.gaps[Len(stamp')], scale)
    <3>1. Len(stamp') \in Len(stamp) + 1 .. Len(stamp')
      BY <1>1, <1>2
    <3>. QED  BY <1>1, <2>3, <3>1
  <2>. QED  BY <2>1, <2>2, <2>3 DEF Paced
<1>. QED  BY <1>5, <1>6

\* Every step of the player keeps its invariant.
LEMMA PlayerKept == PlayerInv /\ (Player!Next \/ UNCHANGED playerVars) => PlayerInv'
<1> SUFFICES ASSUME PlayerInv, Player!Next \/ UNCHANGED playerVars
             PROVE  PlayerInv'
  OBVIOUS
<1>1. PlayerTypes /\ Len(stamp) \in Nat /\ Len(plan.frames) \in Nat
  BY PlanIs, DumpsAssumption DEF PlayerInv, PlayerTypes, Playable
<1>2. CASE Player!Start
  <2>1. /\ Len(stamp) = 0 /\ plan.frames # <<>> /\ Player!Turn(0)
        /\ UNCHANGED <<dump, aligned, plan, scale, steady, countdownDue>>
    BY <1>1, <1>2 DEF Player!Start, Player!Started, Player!At
  <2>2. Len(plan.frames) # 0
    <3>1. plan.frames \in Seq(Rows)
      BY PlanIs, <1>1, DumpsAssumption DEF PlayerTypes, Playable
    <3>. QED  BY <2>1, <3>1
  <2>3. PlayerTypes' /\ (Paced => Paced')
    BY <1>1, <2>1, <2>2, TurnKeepsPace
  <2>. QED  BY <2>1, <2>3 DEF PlayerInv
<1>3. CASE Player!Fire
  <2>1. /\ due # Absent /\ Player!Turn(due)
        /\ UNCHANGED <<dump, aligned, plan, scale, steady, countdownDue>>
    BY <1>3 DEF Player!Fire
  <2>2. due \in Int /\ 0 < Len(stamp) /\ Len(stamp) < Len(plan.frames)
    BY <1>1, <2>1 DEF PlayerTypes
  <2>3. Len(stamp) # 0
    BY <1>1, <2>2
  <2>4. PlayerTypes' /\ (Paced => Paced')
    BY <1>1, <2>1, <2>2, <2>3, TurnKeepsPace
  <2>. QED  BY <2>1, <2>4 DEF PlayerInv
<1>4. ASSUME NEW speed \in Scales, Player!SetScale(speed)
      PROVE  PlayerInv'
  BY <1>1, <1>4 DEF Player!SetScale, PlayerInv, PlayerTypes
<1>5. CASE Player!Cancel
  <2>1. /\ due' = Absent /\ countdownDue' = Absent
        /\ UNCHANGED <<dump, aligned, plan, scale, steady, stamp>>
    BY <1>5 DEF Player!Cancel
  <2>. QED  BY <1>1, <2>1 DEF PlayerInv, PlayerTypes, Paced
<1>6. CASE UNCHANGED playerVars
  BY <1>6 DEF playerVars, PlayerInv, PlayerTypes, Paced
<1>. QED  BY <1>2, <1>3, <1>4, <1>5, <1>6 DEF Player!Next

\* The pace so far, and one wait more.
LEMMA PaceBegins == \A s, a \in Int : s - s = Span(a, a)
BY SpansAre

\* Two frames of ticks leave as many intervals apart as their segments are.
LEMMA TicksArePaced ==
    ASSUME PlayerInv, aligned, steady, scale = 1, Player!RawFrames(dump) = <<>>,
           Len(plan.frames) > 1, Player!OneRace(Player!InboundRecords(dump)),
           NEW j \in 1 .. Len(stamp), NEW k \in 1 .. Len(stamp), j <= k,
           Player!SetsTick(plan.frames[j]), Player!SetsTick(plan.frames[k])
    PROVE  /\ plan.frames[j].tick \in Int /\ plan.frames[k].tick \in Int
           /\ stamp[k] - stamp[j] = Span(plan.frames[j].tick, plan.frames[k].tick)
<1> DEFINE records == Player!InboundRecords(dump)
           order == Player!TickOrder(records)
           n == Len(records)
           seg == [m \in 1 .. n |-> Player!Segment(records, order[m])]
<1>1. dump \in Seq(Rows) /\ records \in Seq(Rows) /\ n \in Nat
  BY OfKindsAre, DumpsAssumption DEF Player!InboundRecords, PlayerInv, PlayerTypes
<1>2. plan = Player!AlignedPlan(dump)
  <2>1. plan = Player!Plan(dump, TRUE)
    BY DEF PlayerInv, PlayerTypes
  <2>2. n >= 2
    <3> SUFFICES ASSUME ~(n >= 2) PROVE FALSE
      OBVIOUS
    <3>1. plan = Player!RecordedPlan(dump)
      BY <2>1 DEF Player!Plan
    <3>2. plan.frames = records
      BY <3>1 DEF Player!RecordedPlan
    <3>. QED  BY <1>1, <3>2
  <2>. QED  BY <2>1, <2>2 DEF Player!Plan
<1>3. /\ Len(plan.frames) = n
      /\ \A m \in 1 .. n : plan.frames[m] = records[order[m]]
      /\ \A m \in 1 .. n - 1 : plan.gaps[m].ms = Player!SegmentGap(seg[m], seg[m + 1])
  BY <1>1, <1>2, AlignedIs
<1>4. order \in [1 .. n -> 1 .. n] /\ \A m, l \in 1 .. n : m < l => seg[m] <= seg[l]
  BY <1>1, OrderIs
<1>5. ASSUME NEW m \in 1 .. n
      PROVE  /\ seg[m] \in Int
             /\ Player!SetsTick(plan.frames[m]) =>
                    seg[m] = plan.frames[m].tick + 1 /\ plan.frames[m].tick \in 0 .. 11
  <2>1. order[m] \in 1 .. Len(records) /\ plan.frames[m] = records[order[m]]
    BY <1>3, <1>4
  <2>. QED  BY <1>1, <2>1, SegmentsAre
<1>6. /\ stamp \in Seq(Int) /\ Len(stamp) <= n /\ Len(stamp) \in Nat /\ scale \in Scales
      /\ \A m \in 1 .. Len(stamp) - 1 :
             stamp[m + 1] = stamp[m] + Player!Wait(plan.gaps[m], scale)
  <2>1. PlayerTypes /\ Paced /\ Len(plan.frames) = n
    BY <1>3 DEF PlayerInv
  <2> HIDE DEF n
  <2>2. /\ stamp \in Seq(Int) /\ Len(stamp) <= n /\ scale \in Scales
        /\ \A m \in 1 .. Len(stamp) - 1 :
               stamp[m + 1] = stamp[m] + Player!Wait(plan.gaps[m], scale)
    BY <2>1 DEF PlayerTypes, Paced
  <2>. QED  BY <2>2
<1> HIDE DEF seg, n, records
<1>7. j \in 1 .. n /\ k \in 1 .. n
  BY <1>1, <1>6
<1> DEFINE from == plan.frames[j].tick
           to == plan.frames[k].tick
<1>8. /\ seg[j] = from + 1 /\ from \in 0 .. 11
      /\ seg[k] = to + 1 /\ to \in 0 .. 11
  BY <1>5, <1>7
<1> HIDE DEF from, to
<1>9. ASSUME NEW m \in j .. k
      PROVE  m \in 1 .. n /\ 1 <= seg[m] /\ seg[m] <= 12 /\ seg[m] \in Int
  <2>1. m \in 1 .. n
    BY <1>1, <1>7
  <2>2. seg[m] \in Int /\ seg[j] <= seg[m] /\ seg[m] <= seg[k]
    <3>1. m = j \/ j < m
      BY <1>7
    <3>2. m = k \/ m < k
      BY <1>7
    <3>3. seg[m] \in Int
      BY <1>5, <2>1
    <3>4. seg[j] <= seg[m]
      BY <1>4, <1>7, <2>1, <3>1, <3>3
    <3>5. seg[m] <= seg[k]
      BY <1>4, <1>7, <2>1, <3>2, <3>3
    <3>. QED  BY <3>3, <3>4, <3>5
  <2>. QED  BY <1>8, <2>1, <2>2
<1> DEFINE Far(m) == stamp[m] - stamp[j] = Span(seg[j], seg[m])
<1>10. \A m \in j .. k : Far(m)
  <2> DEFINE T == {m \in j .. k : ~Far(m)}
  <2> SUFFICES ASSUME T # {} PROVE FALSE
    OBVIOUS
  <2>1. PICK m \in T : \A l \in T : m <= l
    <3>1. T \in SUBSET Nat
      BY <1>7
    <3> HIDE DEF T
    <3>. QED  BY <3>1, LeastNat
  <2>2. m \in j .. k /\ ~Far(m)
    BY <2>1
  <2>3. CASE m = j
    <3>1. stamp[j] \in Int /\ seg[j] \in Int
      BY <1>6, <1>8
    <3>2. stamp[j] - stamp[j] = Span(seg[j], seg[j])
      BY <3>1, PaceBegins, Zenon
    <3>. QED  BY <2>2, <2>3, <3>2
  <2>4. CASE m # j
    <3>1. /\ m - 1 \in j .. k /\ ~(m <= m - 1) /\ m - 1 \in 1 .. Len(stamp) - 1
          /\ m \in 1 .. Len(stamp) /\ m - 1 \in 1 .. Len(stamp) /\ m - 1 \in 1 .. n - 1
          /\ (m - 1) + 1 = m
      <4> HIDE DEF T, Far
      <4>1. m \in Int /\ j < m /\ m <= k /\ 1 <= j /\ k <= Len(stamp) /\ k <= n
        BY <1>7, <2>2, <2>4
      <4> DEFINE at == Len(stamp)
      <4>2. at \in Nat /\ n \in Nat /\ j \in Nat /\ k \in Nat /\ k <= at
        BY <1>1, <1>6, <1>7, <4>1
      <4> HIDE DEF at
      <4>3. /\ m - 1 \in j .. k /\ ~(m <= m - 1) /\ (m - 1) + 1 = m
            /\ m - 1 \in 1 .. at - 1 /\ m \in 1 .. at /\ m - 1 \in 1 .. at
            /\ m - 1 \in 1 .. n - 1
        BY <4>1, <4>2
      <4>. QED  BY <4>3 DEF at
    <3>2. Far(m - 1)
      <4>1. m - 1 \notin T
        <5> HIDE DEF T
        <5>. QED  BY <2>1, <3>1
      <4>. QED  BY <3>1, <4>1
    <3>3. /\ seg[m - 1] \in Int /\ 1 <= seg[m - 1] /\ seg[m - 1] <= 12
          /\ seg[m] \in Int /\ 1 <= seg[m] /\ seg[m] <= 12 /\ m - 1 \in 1 .. n /\ m \in 1 .. n
      BY <1>9, <2>2, <3>1
    <3>4. seg[m - 1] <= seg[m]
      <4>1. m - 1 < m
        BY <3>1
      <4>. QED  BY <1>4, <3>3, <4>1 
    <3>5. plan.gaps[m - 1].ms = Player!SegmentGap(seg[m - 1], seg[m])
      BY <1>3, <3>1
    <3>6. /\ plan.gaps[m - 1].ms \in Nat
          /\ plan.gaps[m - 1].ms = Span(seg[m - 1], seg[m])
      BY <3>3, <3>4, <3>5, SegmentGapIs
    <3>7. Player!Wait(plan.gaps[m - 1], scale) = plan.gaps[m - 1].ms
      BY <1>6, <3>6, WaitIs, Zenon
    <3>8. stamp[m] = stamp[m - 1] + Span(seg[m - 1], seg[m])
      <4>1. stamp[(m - 1) + 1] = stamp[m - 1] + Player!Wait(plan.gaps[m - 1], scale)
        BY <1>6, <3>1, Zenon
      <4>2. stamp[(m - 1) + 1] = stamp[m]
        BY <3>1, Zenon
      <4>3. Player!Wait(plan.gaps[m - 1], scale) = Span(seg[m - 1], seg[m])
        BY <3>6, <3>7, Zenon
      <4>. QED  BY <4>1, <4>2, <4>3, Zenon
    <3>9. /\ stamp[m - 1] \in Int /\ stamp[j] \in Int /\ stamp[m] \in Int
      <4>1. \A i \in 1 .. Len(stamp) : stamp[i] \in Int
        BY <1>6
      <4>. QED  BY <3>1, <4>1, Zenon
    <3>10. seg[j] \in Int /\ stamp[m - 1] - stamp[j] = Span(seg[j], seg[m - 1])
      <4>1. stamp[m - 1] - stamp[j] = Span(seg[j], seg[m - 1])
        BY <3>2, Zenon
      <4>2. seg[j] \in Int
        <5> HIDE DEF T, Far
        <5>. QED  BY <1>8
      <4>. QED  BY <4>1, <4>2, Zenon
    <3>11. stamp[m] - stamp[j] = Span(seg[j], seg[m])
      <4> DEFINE s == stamp[j]
                 t == stamp[m - 1]
                 u == stamp[m]
                 a == seg[j]
                 b == seg[m - 1]
                 c == seg[m]
      <4>1. /\ s \in Int /\ t \in Int /\ u \in Int /\ a \in Int /\ b \in Int /\ c \in Int
            /\ t - s = Span(a, b) /\ u = t + Span(b, c)
        BY <3>3, <3>8, <3>9, <3>10
      <4> HIDE DEF s, t, u, a, b, c
      <4>2. Span(a, b) \in Int /\ Span(b, c) \in Int /\ Span(a, b) + Span(b, c) = Span(a, c)
        BY <4>1, SpansAre
      <4>3. u - s = Span(a, c)
        <5> DEFINE x == Span(a, b)
                   y == Span(b, c)
                   z == Span(a, c)
        <5>1. /\ s \in Int /\ t \in Int /\ u \in Int /\ x \in Int /\ y \in Int
              /\ t - s = x /\ u = t + y /\ z = x + y
          BY <4>1, <4>2, Zenon
        <5> HIDE DEF T, Far, x, y, z
        <5>2. u - s = z
          BY <5>1
        <5>. QED  BY <5>2 DEF z
      <4>. QED  BY <4>3 DEF s, u, a, c
    <3>. QED  BY <2>2, <3>11
  <2>. QED  BY <2>3, <2>4
<1>11. stamp[k] - stamp[j] = Span(seg[j], seg[k])
  <2>1. k \in j .. k
    BY <1>7
  <2>. QED  BY <1>10, <2>1
<1>12. Span(seg[j], seg[k]) = Span(from, to)
  <2>1. to \in Int /\ from \in Int
    BY <1>8
  <2>2. seg[k] - seg[j] = (to + 1) - (from + 1)
    BY <1>8
  <2>3. (to + 1) - (from + 1) = to - from
    BY <2>1
  <2>. QED  BY <2>2, <2>3 DEF Span
<1>13. to \in Int /\ from \in Int
  BY <1>8
<1>. QED  BY <1>11, <1>12, <1>13 DEF from, to

\* The race starts with a record of the dump, or with the first.
LEMMA RaceStartIs ==
    ASSUME NEW rs \in Seq(Rows)
    PROVE  Player!RaceStart(rs) \in Nat \ {0}
<1> DEFINE records == Player!InboundRecords(rs)
           ticks == {i \in DOMAIN records : Player!IsEndOf(records[i], "process_tick")}
           guns == {i \in DOMAIN records : Player!IsEndOf(records[i], "fire_start_gun")}
<1>1. Player!RaceStart(rs) = IF ticks # {} THEN Player!Min(ticks)
                             ELSE IF guns # {} THEN Player!Min(guns) ELSE 1
  BY Zenon DEF Player!RaceStart
<1>2. DOMAIN records \in SUBSET (Nat \ {0})
  <2>1. records \in Seq(Rows)
    BY OfKindsAre DEF Player!InboundRecords
  <2>. QED  BY <2>1
<1>3. /\ ticks \in SUBSET (Nat \ {0}) /\ guns \in SUBSET (Nat \ {0})
      /\ ticks \in SUBSET Nat /\ guns \in SUBSET Nat
  BY <1>2
<1> HIDE DEF ticks, guns
<1>4. /\ ticks # {} => Player!Min(ticks) \in ticks
      /\ guns # {} => Player!Min(guns) \in guns
  BY <1>3, PlayerMinOf
<1>5. CASE ticks # {}
  BY <1>1, <1>3, <1>4, <1>5, Zenon
<1>6. CASE ticks = {} /\ guns # {}
  BY <1>1, <1>3, <1>4, <1>6, Zenon
<1>7. CASE ticks = {} /\ guns = {}
  <2>1. Player!RaceStart(rs) = 1
    BY <1>1, <1>7, Zenon
  <2>. QED  BY <2>1
<1>. QED  BY <1>5, <1>6, <1>7

\* The countdown that is to come was computed from the waits that the frames keep.
LEMMA CountdownIsTrue == PlayerInv => Player!CountdownMeetsTheRace
<1> DEFINE start == Player!RaceStart(dump)
           gaps == Player!RecordedGaps(dump)
           lead == Player!WaitsBefore(gaps, start, scale)
<1> SUFFICES ASSUME PlayerInv, ~aligned, steady, countdownDue # Absent,
                    Player!RawFrames(dump) = <<>>, Len(gaps) = Len(plan.frames) - 1,
                    Len(stamp) >= start
             PROVE  countdownDue = Player!Max({0, stamp[start] - CountdownLead})
  BY Zenon DEF Player!CountdownMeetsTheRace, Player!At
<1>1. dump \in Seq(Rows) /\ scale \in Scales /\ Paced
  BY DumpsAssumption DEF PlayerInv, PlayerTypes
<1>2. countdownDue = Player!CountdownAt(dump, scale)
  BY DEF PlayerInv
<1>3. /\ countdownDue = Player!Max({0, lead - CountdownLead})
      /\ ~(Len(gaps) < start - 1)
  <2>1. Player!CountdownAt(dump, scale) =
            IF start = 1 \/ Len(gaps) < start - 1 THEN Absent
            ELSE Player!Max({0, lead - CountdownLead})
    BY Zenon DEF Player!CountdownAt
  <2> HIDE DEF start, gaps, lead
  <2>. QED  BY <1>2, <2>1
<1>4. plan.gaps = gaps
  <2>1. plan = Player!RecordedPlan(dump)
    BY DEF PlayerInv, PlayerTypes, Player!Plan
  <2>2. Len(gaps) = Len(plan.frames) - 1
    OBVIOUS
  <2>. QED  BY <2>1, <2>2 DEF Player!RecordedPlan
<1>5. start \in Nat \ {0}
  BY <1>1, RaceStartIs
<1>6. Len(gaps) \in Nat /\ \A i \in 1 .. Len(gaps) : gaps[i].ms \in Nat
  BY <1>1, GapsAre
<1>7. Len(stamp) >= start /\ Len(stamp) \in Nat
  BY DEF PlayerInv, PlayerTypes
<1> HIDE DEF start, gaps
<1>8. \A i \in 1 .. start - 1 : gaps[i].ms \in Nat
  BY <1>3, <1>5, <1>6
<1>9. /\ stamp[1] = 0
      /\ \A i \in 1 .. start - 1 : stamp[i + 1] = stamp[i] + Player!Wait(gaps[i], scale)
  BY <1>1, <1>4, <1>5, <1>7 DEF Paced
<1>10. lead = stamp[start]
  <2>1. Leaves(stamp, gaps, start, scale)
    BY <1>8, <1>9 DEF Leaves
  <2>. QED  BY <1>1, <1>5, <2>1, WaitsAre, Zenon DEF lead
<1>. QED  BY <1>3, <1>10 DEF start

\* So do the frames of any two ticks, whichever left first.
LEMMA TicksAreTrue == PlayerInv => Player!TicksKeepTheirPace
<1> SUFFICES ASSUME PlayerInv, aligned, steady, scale = 1, Player!RawFrames(dump) = <<>>,
                    Len(plan.frames) > 1, Player!OneRace(Player!InboundRecords(dump)),
                    NEW j \in 1 .. Len(stamp), NEW k \in 1 .. Len(stamp),
                    Player!Tick(plan.frames[j]) # Absent, Player!Tick(plan.frames[k]) # Absent
             PROVE  stamp[k] - stamp[j] =
                        (Player!Tick(plan.frames[k]) - Player!Tick(plan.frames[j])) * TickInterval
  BY Zenon DEF Player!TicksKeepTheirPace, Player!At
<1> DEFINE a == plan.frames[j]
           b == plan.frames[k]
<1>1. /\ Player!SetsTick(a) /\ Player!Tick(a) = a.tick
      /\ Player!SetsTick(b) /\ Player!Tick(b) = b.tick
  BY Zenon DEF Player!Tick
<1> DEFINE from == a.tick
           to == b.tick
           s == stamp[j]
           t == stamp[k]
<1>2. CASE j <= k
  <2>1. t - s = Span(from, to)
    BY <1>1, <1>2, TicksArePaced
  <2>. QED  BY <1>1, <2>1 DEF Span
<1>3. CASE k <= j
  <2>1. from \in Int /\ to \in Int /\ s - t = Span(to, from)
    BY <1>1, <1>3, TicksArePaced
  <2>2. s \in Int /\ t \in Int
    BY DEF PlayerInv, PlayerTypes
  <2> HIDE DEF from, to, s, t
  <2>3. Span(from, to) \in Int /\ Span(to, from) = 0 - Span(from, to)
    BY <2>1, SpansAre
  <2>4. t - s = Span(from, to)
    BY <2>1, <2>2, <2>3
  <2>. QED  BY <1>1, <2>4 DEF Span, from, to, s, t
<1>4. j <= k \/ k <= j
  OBVIOUS
<1>. QED  BY <1>2, <1>3, <1>4

(* ReplayDump: of one race, the frames of two ticks leave as many tick intervals
   apart as the ticks are, and the countdown computed before the replay ends when
   the race begins, for every set of dumps and speeds
   (buildTickAlignedReplaySchedule, replayAgentGatewayMessages). *)
THEOREM ReplayKept == MCSpec => []ReplayKeepsTime
<1>1. MCInit => PlayerInv
  <2> SUFFICES ASSUME MCInit PROVE PlayerInv
    OBVIOUS
  <2>1. /\ dump \in Dumps /\ aligned \in BOOLEAN /\ plan = Player!Plan(dump, aligned)
        /\ scale \in Scales /\ steady = TRUE /\ stamp = <<>> /\ due = Absent
        /\ countdownDue = Player!CountdownAt(dump, scale)
    BY DEF MCInit, Player!Init
  <2>2. plan.frames \in Seq(Rows)
    BY <2>1, PlanIs, DumpsAssumption DEF Playable
  <2>3. Len(plan.frames) \in Nat /\ Len(stamp) = 0 /\ stamp \in Seq(Int)
    BY <2>1, <2>2
  <2>4. PlayerTypes
    BY <2>1, <2>3 DEF PlayerTypes
  <2>5. Paced
    BY <2>1, <2>3 DEF Paced
  <2>. QED  BY <2>1, <2>4, <2>5 DEF PlayerInv
<1>2. PlayerInv /\ [MCNext]_allVars => PlayerInv'
  <2> SUFFICES ASSUME PlayerInv, [MCNext]_allVars PROVE PlayerInv'
    OBVIOUS
  <2>1. Player!Next \/ UNCHANGED playerVars
    BY DEF MCNext, PlayerStep, TesterStep, allVars, toolVars
  <2>. QED  BY <2>1, PlayerKept
<1>3. PlayerInv => ReplayKeepsTime
  BY CountdownIsTrue, TicksAreTrue DEF ReplayKeepsTime
<1>. QED  BY <1>1, <1>2, <1>3, PTL DEF MCSpec

=============================================================================
