--------------------------- MODULE RaceEngineProofs ---------------------------
(***************************************************************************)
(* Proofs about RaceEngine for any number of simulations, runners and      *)
(* ticks, with any faults and any number of results in flight.             *)
(***************************************************************************)
EXTENDS RaceEngine, FiniteSetTheorems, TLAPS

\* Every result on its way to an aggregation.
Wire == events \cup UNION {buffer[s] \cup messages[s] : s \in Sim}

\* A result tells the truth about a runner that exists and has processed that
\* tick, and there is one truth for each tick.
WireInv ==
  /\ \A m \in Wire :
       /\ m.runner \in spawned
       /\ m.tick \in handled[m.runner]
       /\ m.status # "running" => status[m.runner] = m.status
  /\ \A m, n \in Wire : m.runner = n.runner /\ m.tick = n.tick => m.status = n.status

\* The list and the window of a simulation hold results of its own runners.
LocatedInv == \A s \in Sim : \A m \in buffer[s] \cup messages[s] : m.runner \in RunnersOf[s]

\* A runner gets the ticks in order and each of them once.
OrderInv ==
  \A r \in Runner :
    /\ inbox[r] # <<>> => r \in spawned
    /\ \A i \in DOMAIN inbox[r] :
         /\ \A t \in handled[r] : t < inbox[r][i]
         /\ \A j \in DOMAIN inbox[r] : i < j => inbox[r][i] < inbox[r][j]

\* No runner is ahead of its simulation, and who is out of the race does not
\* get the tick of the open window.
Reached(s, r, t) ==
  \/ t < state[s].current_tick
  \/ /\ t = state[s].current_tick
     /\ phase[s] = "window"
     /\ r \notin state[s].finished_runner_ids \cup state[s].collapsed_runner_ids

TickInv ==
  \A s \in Sim : \A r \in RunnersOf[s] :
    /\ \A t \in handled[r] : Reached(s, r, t)
    /\ \A i \in DOMAIN inbox[r] : Reached(s, r, inbox[r][i])

\* The session state knows no runner or all those that were made.
FieldOf(s) ==
  /\ state[s].runner_session_ids \in {{}, spawned \cap RunnersOf[s]}
  /\ Cardinality(spawned \cap RunnersOf[s]) <= state[s].runner_count
  /\ phase[s] = "prepare" => state[s].current_tick = 0 /\ ~state[s].simulation_ready
  /\ phase[s] \in {"prepare", "spawn"} =>
       /\ spawned \cap RunnersOf[s] = {}
       /\ snapshot[s] = NoSnapshot
  /\ phase[s] = "spawn" /\ state[s].simulation_ready =>
       state[s].runner_count = Cardinality(RunnersOf[s])

FieldInv == \A s \in Sim : FieldOf(s)

ActiveInv ==
  \A s \in Sim : phase[s] = "window" =>
    active[s] = state[s].runner_session_ids
                  \ (state[s].finished_runner_ids \cup state[s].collapsed_runner_ids)

\* FinishersAreReal, and they were made by the gateway.
OutInv ==
  \A s \in Sim :
    /\ state[s].finished_runner_ids
         \subseteq {r \in spawned \cap RunnersOf[s] : status[r] = "finished"}
    /\ state[s].collapsed_runner_ids
         \subseteq {r \in spawned \cap RunnersOf[s] : status[r] = "collapsed"}

\* Before the race is over at least one tick was aggregated, and its snapshot
\* has the finishers of the session state unless a new tick has begun.
LoopOf(s) ==
  /\ phase[s] \in {"prepare", "spawn", "collect", "start", "configure"} => looped[s] = 0
  /\ escalate[s] => looped[s] > 0
  /\ (\/ phase[s] \in {"check", "compile", "stop", "done"}
      \/ phase[s] = "loop" /\ looped[s] > 0)
       => snapshot[s].finished = Cardinality(state[s].finished_runner_ids)
  /\ phase[s] \in {"stop", "done"} =>
       /\ results[s].finished = Cardinality(state[s].finished_runner_ids)
       /\ results[s].finished + results[s].dnf = state[s].runner_count

LoopInv == maxIterations >= 1 /\ \A s \in Sim : LoopOf(s)

\* A finish that came outside a window is known or still in the list.
RescueOf(s) ==
  /\ phase[s] = "window" => late[s] \subseteq state[s].finished_runner_ids
  /\ phase[s] # "done" =>
       late[s] \subseteq state[s].finished_runner_ids \cup Finishers(buffer[s])

RescueInv == \A s \in Sim : RescueOf(s)

RaceInv ==
  /\ TypeOK
  /\ WireInv
  /\ LocatedInv
  /\ OrderInv
  /\ TickInv
  /\ FieldInv
  /\ ActiveInv
  /\ OutInv
  /\ LoopInv
  /\ RescueInv
  /\ TelemetryIsCurrent
  /\ RunnersCountedOnce

-----------------------------------------------------------------------------
\* The shape of Next as one flat disjunction, for the case splits. The two
\* ways to close a window and to start the collector differ in their guards.
LEMMA NextCases ==
  ASSUME Next
  PROVE \/ \E s \in Sim : Prepare(s)
        \/ \E s \in Sim : Spawn(s)
        \/ \E s \in Sim : StartCollector(s, "collect", "start")
        \/ \E s \in Sim : StartCollector(s, "start", "configure")
        \/ \E s \in Sim : Configure(s)
        \/ \E s \in Sim : Iterate(s)
        \/ \E s \in Sim : BeginTick(s)
        \/ \E s \in Sim : Drain(s)
        \/ \E s \in Sim : WindowTimeout(s)
        \/ \E s \in Sim : CheckRaceComplete(s)
        \/ \E s \in Sim : CompileResults(s)
        \/ \E s \in Sim : StopRaceCollector(s)
        \/ \E r \in Runner : Subscribe(r)
        \/ \E r \in Runner : ProcessTick(r)
        \/ \E m \in events : EventArrives(m)
  <1>1. ASSUME NEW s \in Sim, AllReported(s) PROVE WindowTimeout(s)
    BY <1>1 DEF AllReported, WindowTimeout
  <1> QED BY <1>1 DEF Next, PreRace, Race, PostRace, StartRaceCollector, FireStartGun

\* Sets of runners are finite.
LEMMA RunnerSets ==
  ASSUME NEW A \in SUBSET Runner, NEW B \in SUBSET A
  PROVE /\ IsFiniteSet(A)
        /\ Cardinality(A) \in Nat
        /\ Cardinality(B) \in Nat
        /\ Cardinality(B) <= Cardinality(A)
        /\ Cardinality(A) = Cardinality(B) => A = B
  <1>1. IsFiniteSet(A)
    BY RaceAssumption, FS_Subset DEF RaceAssumption
  <1>2. IsFiniteSet(B) /\ Cardinality(B) <= Cardinality(A) /\ (Cardinality(A) = Cardinality(B) => A = B)
    BY <1>1, FS_Subset
  <1> QED BY <1>1, <1>2, FS_CardinalityType

-----------------------------------------------------------------------------
(* Type correctness                                                        *)

LEMMA InitTypeOK == Init => TypeOK
  <1>1. NewSession \in Session
    BY DEF NewSession, Session
  <1>2. NoSnapshot \in Snapshot /\ NoResults \in [finished : Nat \cup {-1}, dnf : Nat \cup {-1}]
    BY DEF NoSnapshot, Snapshot, NoResults
  <1> QED BY <1>1, <1>2 DEF Init, TypeOK, Phases, Status

\* The sets of runners that the aggregation computes.
LEMMA ReportTypes ==
  ASSUME TypeOK, NEW s \in Sim
  PROVE /\ Current(s) \subseteq Message
        /\ Reported(s) \subseteq Runner
        /\ \A st \in Status : Reporting(s, st) \subseteq Reported(s)
        /\ FinishedNow(s) \subseteq Runner
        /\ \A ms \in SUBSET Message : Finishers(ms) \subseteq Runner
        /\ Rescued(s) \subseteq Runner
        /\ TickSnapshot(s) \in Snapshot
  <1>1. Current(s) \subseteq Message
    BY DEF TypeOK, Current
  <1>2. Reported(s) \subseteq Runner
    BY <1>1 DEF Reported, Message
  <1>3. \A st : Reporting(s, st) \subseteq Reported(s)
    BY DEF Reporting
  <1>4. state[s] \in Session
    BY DEF TypeOK
  <1>5. FinishedNow(s) \subseteq Runner
    BY <1>2, <1>3, <1>4 DEF FinishedNow, Session
  <1>6. \A ms \in SUBSET Message : Finishers(ms) \subseteq Runner
    BY DEF Finishers, Message
  <1>7. Rescued(s) \subseteq Runner
    BY <1>4, <1>6 DEF Rescued, TypeOK, Session
  <1>8. /\ Cardinality(Reported(s)) \in Nat
        /\ Cardinality(Reporting(s, "running")) \in Nat
        /\ Cardinality(Reporting(s, "collapsed")) \in Nat
        /\ Cardinality(FinishedNow(s)) \in Nat
    BY <1>2, <1>3, <1>5, RunnerSets
  <1>9. state[s].current_tick \in Nat
    BY <1>4 DEF Session
  <1>10. TickSnapshot(s) \in Snapshot
    BY <1>8, <1>9 DEF TickSnapshot, Snapshot
  <1> QED BY <1>1, <1>2, <1>3, <1>5, <1>6, <1>7, <1>10

\* What each tool leaves in the session states.
Others(s) == \A t \in Sim : t # s => state'[t] = state[t]

LEMMA PrepareState ==
  ASSUME TypeOK, NEW s \in Sim, Prepare(s)
  PROVE /\ state' \in [Sim -> Session] /\ Others(s)
        /\ \/ state' = state
           \/ /\ state'[s].simulation_ready
              /\ state'[s].current_tick = 0
              /\ state'[s].runner_session_ids = state[s].runner_session_ids
              /\ state'[s].runner_count = Cardinality(RunnersOf[s])
              /\ state'[s].finished_runner_ids = state[s].finished_runner_ids
              /\ state'[s].collapsed_runner_ids = state[s].collapsed_runner_ids
  <1> DEFINE n == Cardinality(RunnersOf[s])
             new == [state[s] EXCEPT !.simulation_ready = TRUE, !.current_tick = 0,
                                     !.runner_count = n]
  <1>1. n \in Nat
    BY RaceAssumption, RunnerSets DEF RaceAssumption
  <1>2. state \in [Sim -> Session] /\ state[s] \in Session
    BY DEF TypeOK
  <1>3. CASE state' = [state EXCEPT ![s] = new]
    <2> HIDE DEF n
    <2>1. new \in Session
      BY <1>1, <1>2 DEF Session
    <2>2. /\ new.simulation_ready
          /\ new.current_tick = 0
          /\ new.runner_session_ids = state[s].runner_session_ids
          /\ new.runner_count = n
          /\ new.finished_runner_ids = state[s].finished_runner_ids
          /\ new.collapsed_runner_ids = state[s].collapsed_runner_ids
      BY <1>1, <1>2 DEF Session
    <2> HIDE DEF new
    <2> QED BY <1>2, <1>3, <2>1, <2>2 DEF Others, n
  <1>4. CASE state' = state
    BY <1>2, <1>4 DEF Others
  <1> QED BY <1>3, <1>4 DEF Prepare

LEMMA SpawnState ==
  ASSUME TypeOK, NEW s \in Sim, NEW made \in SUBSET RunnersOf[s],
         state' = [state EXCEPT ![s].runner_session_ids = made,
                                ![s].runner_count = Cardinality(made)]
  PROVE /\ state' \in [Sim -> Session] /\ Others(s)
        /\ state'[s].simulation_ready = state[s].simulation_ready
        /\ state'[s].current_tick = state[s].current_tick
        /\ state'[s].runner_session_ids = made
        /\ state'[s].runner_count = Cardinality(made)
        /\ state'[s].finished_runner_ids = state[s].finished_runner_ids
        /\ state'[s].collapsed_runner_ids = state[s].collapsed_runner_ids
  <1> DEFINE n == Cardinality(made)
             new == [state[s] EXCEPT !.runner_session_ids = made, !.runner_count = n]
  <1>1. made \subseteq Runner /\ n \in Nat
    BY RaceAssumption, RunnerSets DEF RaceAssumption
  <1>2. state \in [Sim -> Session] /\ state[s] \in Session
    BY DEF TypeOK
  <1>3. state' = [state EXCEPT ![s] = new]
    OBVIOUS
  <1> HIDE DEF n
  <1>4. new \in Session
    BY <1>1, <1>2 DEF Session
  <1>5. /\ new.simulation_ready = state[s].simulation_ready
        /\ new.current_tick = state[s].current_tick
        /\ new.runner_session_ids = made
        /\ new.runner_count = n
        /\ new.finished_runner_ids = state[s].finished_runner_ids
        /\ new.collapsed_runner_ids = state[s].collapsed_runner_ids
    BY <1>1, <1>2 DEF Session
  <1> HIDE DEF new
  <1> QED BY <1>2, <1>3, <1>4, <1>5 DEF Others, n

LEMMA BeginTickState ==
  ASSUME TypeOK, NEW s \in Sim, BeginTick(s)
  PROVE /\ state' \in [Sim -> Session] /\ Others(s)
        /\ state'[s].simulation_ready = state[s].simulation_ready
        /\ state'[s].current_tick = state[s].current_tick
        /\ state'[s].runner_session_ids = state[s].runner_session_ids
        /\ state'[s].runner_count = state[s].runner_count
        /\ state'[s].finished_runner_ids = Rescued(s)
        /\ state'[s].collapsed_runner_ids = state[s].collapsed_runner_ids
  <1> DEFINE new == [state[s] EXCEPT !.finished_runner_ids = Rescued(s)]
  <1>1. Rescued(s) \subseteq Runner
    BY ReportTypes
  <1>2. state \in [Sim -> Session] /\ state[s] \in Session
    BY DEF TypeOK
  <1>3. state' = [state EXCEPT ![s] = new]
    BY DEF BeginTick
  <1>4. new \in Session
    BY <1>1, <1>2 DEF Session
  <1>5. /\ new.simulation_ready = state[s].simulation_ready
        /\ new.current_tick = state[s].current_tick
        /\ new.runner_session_ids = state[s].runner_session_ids
        /\ new.runner_count = state[s].runner_count
        /\ new.finished_runner_ids = Rescued(s)
        /\ new.collapsed_runner_ids = state[s].collapsed_runner_ids
    BY <1>2 DEF Session
  <1> HIDE DEF new
  <1> QED BY <1>2, <1>3, <1>4, <1>5 DEF Others

LEMMA AggregateState ==
  ASSUME TypeOK, NEW s \in Sim, Aggregate(s)
  PROVE /\ state' \in [Sim -> Session] /\ Others(s)
        /\ state'[s].simulation_ready = state[s].simulation_ready
        /\ state'[s].current_tick = state[s].current_tick + 1
        /\ state'[s].runner_session_ids = state[s].runner_session_ids
        /\ state'[s].runner_count = state[s].runner_count
        /\ state'[s].finished_runner_ids = FinishedNow(s)
        /\ state'[s].collapsed_runner_ids
             = state[s].collapsed_runner_ids \cup Reporting(s, "collapsed")
  <1> DEFINE out == state[s].collapsed_runner_ids \cup Reporting(s, "collapsed")
             tick == state[s].current_tick + 1
             new == [state[s] EXCEPT !.finished_runner_ids = FinishedNow(s),
                                     !.collapsed_runner_ids = out,
                                     !.current_tick = tick]
  <1>1. state \in [Sim -> Session] /\ state[s] \in Session
    BY DEF TypeOK
  <1>2. FinishedNow(s) \subseteq Runner /\ out \subseteq Runner /\ tick \in Nat
    BY <1>1, ReportTypes DEF Status, Session
  <1>3. state' = [state EXCEPT ![s] = new]
    BY <1>1 DEF Aggregate, Session
  <1> HIDE DEF out, tick
  <1>4. new \in Session
    BY <1>1, <1>2 DEF Session
  <1>5. /\ new.simulation_ready = state[s].simulation_ready
        /\ new.current_tick = tick
        /\ new.runner_session_ids = state[s].runner_session_ids
        /\ new.runner_count = state[s].runner_count
        /\ new.finished_runner_ids = FinishedNow(s)
        /\ new.collapsed_runner_ids = out
    BY <1>1 DEF Session
  <1> HIDE DEF new
  <1> QED BY <1>1, <1>3, <1>4, <1>5 DEF Others, out, tick

LEMMA StopState ==
  ASSUME TypeOK, NEW s \in Sim, StopRaceCollector(s)
  PROVE /\ state' \in [Sim -> Session] /\ Others(s)
        /\ state'[s].current_tick = state[s].current_tick
        /\ state'[s].runner_session_ids = state[s].runner_session_ids
        /\ state'[s].runner_count = state[s].runner_count
        /\ state'[s].finished_runner_ids = state[s].finished_runner_ids
        /\ state'[s].collapsed_runner_ids = state[s].collapsed_runner_ids
  <1> DEFINE new == [state[s] EXCEPT !.simulation_ready = FALSE]
  <1>1. state \in [Sim -> Session] /\ state[s] \in Session
    BY DEF TypeOK
  <1>2. state' = [state EXCEPT ![s] = new]
    BY DEF StopRaceCollector
  <1>3. new \in Session
    BY <1>1 DEF Session
  <1>4. /\ new.current_tick = state[s].current_tick
        /\ new.runner_session_ids = state[s].runner_session_ids
        /\ new.runner_count = state[s].runner_count
        /\ new.finished_runner_ids = state[s].finished_runner_ids
        /\ new.collapsed_runner_ids = state[s].collapsed_runner_ids
    BY <1>1 DEF Session
  <1> HIDE DEF new
  <1> QED BY <1>1, <1>2, <1>3, <1>4 DEF Others

LEMMA ArriveType ==
  ASSUME TypeOK, NEW s \in Sim, NEW m \in Message, Arrive(s, m)
  PROVE buffer' \in [Sim -> SUBSET Message] /\ late' \in [Sim -> SUBSET Runner]
  <1>1. buffer' \in [Sim -> SUBSET Message]
    BY DEF Arrive, TypeOK
  <1>2. m.runner \in Runner
    BY DEF Message
  <1>3. late' \in [Sim -> SUBSET Runner]
    BY <1>2 DEF Arrive, TypeOK
  <1> QED BY <1>1, <1>3

LEMMA NextTypeOK == TypeOK /\ [Next]_vars => TypeOK'
  <1> SUFFICES ASSUME TypeOK, [Next]_vars PROVE TypeOK'
    OBVIOUS
  <1> USE DEF engineVars, tickVars, wireVars, runnerVars
  <1>1. ASSUME NEW s \in Sim, Prepare(s) PROVE TypeOK'
    <2>1. state' \in [Sim -> Session]
      BY <1>1, PrepareState
    <2> QED BY <1>1, <2>1 DEF Prepare, Step, TypeOK, Phases
  <1>2. ASSUME NEW s \in Sim, Spawn(s) PROVE TypeOK'
    <2>1. RunnersOf[s] \subseteq Runner
      BY RaceAssumption DEF RaceAssumption
    <2>2. state' \in [Sim -> Session] /\ spawned' \in SUBSET Runner /\ spawned \subseteq spawned'
      <3>1. CASE UNCHANGED <<state, spawned>>
        BY <3>1 DEF TypeOK
      <3>2. ASSUME NEW made \in SUBSET RunnersOf[s], spawned' = spawned \cup made,
                   \/ UNCHANGED state
                   \/ state' = [state EXCEPT ![s].runner_session_ids = made,
                                             ![s].runner_count = Cardinality(made)]
            PROVE /\ state' \in [Sim -> Session]
                  /\ spawned' \in SUBSET Runner /\ spawned \subseteq spawned'
        <4>1. state' \in [Sim -> Session]
          <5>1. CASE UNCHANGED state
            BY <5>1 DEF TypeOK
          <5>2. CASE state' = [state EXCEPT ![s].runner_session_ids = made,
                                            ![s].runner_count = Cardinality(made)]
            BY <5>2, SpawnState
          <5> QED BY <3>2, <5>1, <5>2
        <4> QED BY <2>1, <3>2, <4>1 DEF TypeOK
      <3> QED BY <1>2, <3>1, <3>2 DEF Spawn
    <2> QED BY <1>2, <2>2 DEF Spawn, Step, TypeOK, Phases
  <1>3. ASSUME NEW s \in Sim, StartCollector(s, "collect", "start") PROVE TypeOK'
    BY <1>3 DEF StartCollector, Step, TypeOK, Phases
  <1>4. ASSUME NEW s \in Sim, StartCollector(s, "start", "configure") PROVE TypeOK'
    BY <1>4 DEF StartCollector, Step, TypeOK, Phases
  <1>5. ASSUME NEW s \in Sim, Configure(s) PROVE TypeOK'
    <2>1. MaxTicks[s] + 1 \in Nat
      BY RaceAssumption DEF RaceAssumption
    <2> QED BY <1>5, <2>1 DEF Configure, Step, TypeOK, Phases
  <1>6. ASSUME NEW s \in Sim, Iterate(s) PROVE TypeOK'
    BY <1>6 DEF Iterate, Step, TypeOK, Phases
  <1>7. ASSUME NEW s \in Sim, BeginTick(s) PROVE TypeOK'
    <2>1. Rescued(s) \subseteq Runner /\ state[s].runner_session_ids \subseteq Runner
      BY ReportTypes DEF TypeOK, Session
    <2>2. state' \in [Sim -> Session] /\ active' \in [Sim -> SUBSET Runner]
      BY <1>7, <2>1, BeginTickState DEF BeginTick, TypeOK
    <2>3. inbox' \in [Runner -> Seq(Nat)]
      <3>1. state[s].current_tick \in Nat
        BY DEF TypeOK, Session
      <3> QED BY <1>7, <3>1 DEF BeginTick, TypeOK
    <2> QED BY <1>7, <2>2, <2>3 DEF BeginTick, Step, TypeOK, Phases
  <1>8. ASSUME NEW s \in Sim, Drain(s) PROVE TypeOK'
    BY <1>8 DEF Drain, TypeOK
  <1>9. ASSUME NEW s \in Sim, WindowTimeout(s) PROVE TypeOK'
    <2>1. state' \in [Sim -> Session]
      BY <1>9, AggregateState DEF WindowTimeout
    <2>2. snapshot' \in [Sim -> Snapshot]
      BY <1>9, ReportTypes DEF WindowTimeout, Aggregate, TypeOK
    <2> QED BY <1>9, <2>1, <2>2 DEF WindowTimeout, Aggregate, Step, TypeOK, Phases
  <1>10. ASSUME NEW s \in Sim, CheckRaceComplete(s) PROVE TypeOK'
    <2>1. Complete(s) \in BOOLEAN
      BY DEF Complete
    <2> QED BY <1>10, <2>1 DEF CheckRaceComplete, Step, TypeOK, Phases
  <1>11. ASSUME NEW s \in Sim, CompileResults(s) PROVE TypeOK'
    <2>1. /\ Cardinality(state[s].finished_runner_ids) \in Nat
          /\ state[s].runner_count \in Nat
      BY RunnerSets DEF TypeOK, Session
    <2>2. results' \in [Sim -> [finished : Nat \cup {-1}, dnf : Nat \cup {-1}]]
      BY <1>11, <2>1 DEF CompileResults, TypeOK
    <2> QED BY <1>11, <2>2 DEF CompileResults, Step, TypeOK, Phases
  <1>12. ASSUME NEW s \in Sim, StopRaceCollector(s) PROVE TypeOK'
    <2>1. state' \in [Sim -> Session]
      BY <1>12, StopState
    <2> QED BY <1>12, <2>1 DEF StopRaceCollector, Step, TypeOK, Phases
  <1>13. ASSUME NEW r \in Runner, Subscribe(r) PROVE TypeOK'
    BY <1>13 DEF Subscribe, TypeOK
  <1>14. ASSUME NEW r \in Runner, ProcessTick(r) PROVE TypeOK'
    <2>1. Head(inbox[r]) \in Nat /\ Tail(inbox[r]) \in Seq(Nat)
      BY <1>14 DEF ProcessTick, TypeOK
    <2>2. PICK st \in Outcomes(r, Head(inbox[r])), s \in Sim : Answer(s, r, st)
      BY <1>14 DEF ProcessTick
    <2>3. st \in Status
      BY DEF Outcomes, TypeOK, Status
    <2>4. Result(r, st, "rpush") \in Message /\ Result(r, st, "event") \in Message
      BY <2>1, <2>3 DEF Result, Message
    <2>5. buffer' \in [Sim -> SUBSET Message] /\ late' \in [Sim -> SUBSET Runner]
      BY <2>2, <2>4, ArriveType DEF Answer, TypeOK
    <2>6. events' \in SUBSET Message /\ status' \in [Runner -> Status]
      BY <2>2, <2>3, <2>4 DEF Answer, TypeOK
    <2>7. inbox' \in [Runner -> Seq(Nat)] /\ handled' \in [Runner -> SUBSET Nat]
      BY <1>14, <2>1 DEF ProcessTick, TypeOK
    <2> QED BY <1>14, <2>5, <2>6, <2>7 DEF ProcessTick, TypeOK
  <1>15. ASSUME NEW m \in events, EventArrives(m) PROVE TypeOK'
    <2>1. m \in Message /\ m.runner \in Runner
      BY DEF TypeOK, Message
    <2>2. buffer' \in [Sim -> SUBSET Message] /\ late' \in [Sim -> SUBSET Runner]
      BY <1>15, <2>1, ArriveType DEF EventArrives, TypeOK
    <2> QED BY <1>15, <2>2 DEF EventArrives, TypeOK
  <1>16. CASE UNCHANGED vars
    BY <1>16 DEF vars, TypeOK
  <1> QED BY <1>1, <1>2, <1>3, <1>4, <1>5, <1>6, <1>7, <1>8, <1>9, <1>10, <1>11, <1>12, <1>13,
             <1>14, <1>15, <1>16, NextCases

\* The variables always have their types: whatever the gateway, the network
\* and the runners do, the pipelines and their session states stay well formed.
THEOREM TypeCorrect == Spec => []TypeOK
  <1> QED BY InitTypeOK, NextTypeOK, PTL DEF Spec

-----------------------------------------------------------------------------
(* Results on the wire                                                     *)

LEMMA WireType ==
  ASSUME TypeOK
  PROVE Wire \subseteq Message /\ \A m \in Message : m.runner \in Runner /\ m.tick \in Nat
  BY DEF TypeOK, Wire, Message

\* One result arrives in one list, or none does.
LEMMA ArriveAdds ==
  ASSUME TypeOK, NEW s \in Sim, NEW m, Arrive(s, m)
  PROVE \A t \in Sim :
          /\ buffer'[t] = IF t = s THEN buffer[t] \cup {m} ELSE buffer[t]
          /\ late'[t] = IF t = s /\ m.status = "finished" /\ phase[t] # "window"
                        THEN late[t] \cup {m.runner} ELSE late[t]
  BY DEF Arrive, TypeOK

LEMMA AnswerAdds ==
  ASSUME TypeOK, NEW s \in Sim, NEW r, NEW st, Answer(s, r, st)
  PROVE \/ Arrive(s, Result(r, st, "rpush"))
        \/ UNCHANGED <<buffer, late>>
  BY DEF Answer

\* What one process_tick does: it takes the oldest tick, which is new to the
\* runner, and a runner that is out of the race keeps its status.
LEMMA ProcessTickFacts ==
  ASSUME TypeOK, OrderInv, NEW r \in Runner, ProcessTick(r)
  PROVE /\ DOMAIN inbox[r] = 1 .. Len(inbox[r]) /\ 1 \in DOMAIN inbox[r]
        /\ Head(inbox[r]) = inbox[r][1] /\ Head(inbox[r]) \in Nat
        /\ Head(inbox[r]) \notin handled[r]
        /\ r \in spawned
        /\ handled' \in [Runner -> SUBSET Nat]
        /\ handled'[r] = handled[r] \cup {Head(inbox[r])}
        /\ inbox'[r] = Tail(inbox[r])
        /\ \A q \in Runner : q # r => handled'[q] = handled[q] /\ inbox'[q] = inbox[q]
        /\ \E s \in Sim, st \in Status :
             /\ r \in RunnersOf[s]
             /\ Answer(s, r, st)
             /\ status[r] # "running" => st = status[r]
             /\ status' = [status EXCEPT ![r] = st]
  <1>1. inbox[r] \in Seq(Nat) /\ inbox[r] # <<>>
    BY DEF TypeOK, ProcessTick
  <1>2. /\ DOMAIN inbox[r] = 1 .. Len(inbox[r]) /\ 1 \in DOMAIN inbox[r]
        /\ Head(inbox[r]) = inbox[r][1] /\ Head(inbox[r]) \in Nat
    BY <1>1
  <1>3. \A t \in handled[r] : t < inbox[r][1]
    BY <1>2 DEF OrderInv
  <1>4. Head(inbox[r]) \notin handled[r]
    BY <1>2, <1>3
  <1>5. r \in spawned
    BY <1>1 DEF OrderInv
  <1>6. /\ handled' \in [Runner -> SUBSET Nat]
        /\ handled'[r] = handled[r] \cup {Head(inbox[r])}
        /\ inbox'[r] = Tail(inbox[r])
        /\ \A q \in Runner : q # r => handled'[q] = handled[q] /\ inbox'[q] = inbox[q]
    BY <1>2 DEF ProcessTick, TypeOK
  <1>7. PICK st \in Outcomes(r, Head(inbox[r])), s \in Sim : r \in RunnersOf[s] /\ Answer(s, r, st)
    BY DEF ProcessTick
  <1>8. st \in Status /\ (status[r] # "running" => st = status[r])
    BY DEF Outcomes, TypeOK, Status
  <1>9. status' = [status EXCEPT ![r] = st]
    BY <1>7 DEF Answer
  <1> QED BY <1>2, <1>4, <1>5, <1>6, <1>7, <1>8, <1>9

\* Results leave the wire, more runners are made: nothing else changes.
LEMMA WireKept ==
  ASSUME WireInv, Wire' \subseteq Wire, spawned \subseteq spawned', UNCHANGED <<handled, status>>
  PROVE WireInv'
  BY DEF WireInv

LEMMA WireStep == RaceInv /\ Next => WireInv'
  <1> SUFFICES ASSUME RaceInv, Next PROVE WireInv'
    OBVIOUS
  <1> USE DEF engineVars, tickVars, wireVars, runnerVars
  <1>0. TypeOK /\ WireInv /\ OrderInv /\ Wire \subseteq Message
    BY WireType DEF RaceInv
  <1>1. CASE UNCHANGED <<events, buffer, messages, handled, status>> /\ spawned \subseteq spawned'
    BY <1>0, <1>1, WireKept DEF Wire
  <1>2. ASSUME NEW s \in Sim,
               \/ BeginTick(s) \/ Drain(s) \/ WindowTimeout(s) \/ StopRaceCollector(s)
        PROVE WireInv'
    <2>1. \A t \in Sim : buffer'[t] \cup messages'[t] \subseteq buffer[t] \cup messages[t]
      BY <1>0, <1>2 DEF BeginTick, Drain, WindowTimeout, Aggregate, StopRaceCollector, TypeOK
    <2>2. UNCHANGED <<events, spawned, handled, status>>
      BY <1>2 DEF BeginTick, Drain, WindowTimeout, Aggregate, StopRaceCollector
    <2>3. Wire' \subseteq Wire
      BY <2>1, <2>2 DEF Wire
    <2> QED BY <1>0, <2>2, <2>3, WireKept
  <1>3. ASSUME NEW m \in events, EventArrives(m) PROVE WireInv'
    <2>1. \A t \in Sim : buffer'[t] \subseteq buffer[t] \cup {m}
      BY <1>0, <1>3 DEF EventArrives, Arrive, TypeOK
    <2>2. events' \subseteq events /\ UNCHANGED <<messages, spawned, handled, status>>
      BY <1>3 DEF EventArrives
    <2>3. Wire' \subseteq Wire
      BY <2>1, <2>2 DEF Wire
    <2> QED BY <1>0, <2>2, <2>3, WireKept
  <1>4. ASSUME NEW r \in Runner, ProcessTick(r) PROVE WireInv'
    <2> DEFINE h == Head(inbox[r])
    <2>1. PICK s \in Sim, st \in Status :
            /\ Answer(s, r, st)
            /\ status[r] # "running" => st = status[r]
            /\ status' = [status EXCEPT ![r] = st]
      BY <1>0, <1>4, ProcessTickFacts
    <2>2. /\ h \notin handled[r] /\ r \in spawned
          /\ handled'[r] = handled[r] \cup {h}
          /\ \A q \in Runner : q # r => handled'[q] = handled[q]
      BY <1>0, <1>4, ProcessTickFacts
    <2>3. UNCHANGED <<messages, spawned>>
      BY <1>4 DEF ProcessTick
    <2> DEFINE New(m) == m.runner = r /\ m.tick = h /\ m.status = st
    <2>4. \A m \in Wire' : m \in Wire \/ New(m)
      <3>1. New(Result(r, st, "rpush")) /\ New(Result(r, st, "event"))
        BY DEF Result
      <3>2. \A t \in Sim : buffer'[t] \subseteq buffer[t] \cup {Result(r, st, "rpush")}
        BY <1>0, <2>1, AnswerAdds, ArriveAdds
      <3>3. events' = events \cup {Result(r, st, "event")}
        BY <2>1 DEF Answer
      <3> HIDE DEF New
      <3> QED BY <2>3, <3>1, <3>2, <3>3 DEF Wire
    <2>5. ASSUME NEW m \in Wire
          PROVE /\ m.runner \in Runner
                /\ m.runner \in spawned /\ m.tick \in handled'[m.runner]
                /\ m.status # "running" => status'[m.runner] = m.status
                /\ ~(m.runner = r /\ m.tick = h)
      <3>1. m.runner \in Runner
        BY <1>0, WireType
      <3>2. /\ m.runner \in spawned /\ m.tick \in handled[m.runner]
            /\ m.status # "running" => status[m.runner] = m.status
        BY <1>0 DEF WireInv
      <3> QED BY <1>0, <2>1, <2>2, <3>1, <3>2 DEF TypeOK
    <2>6. status'[r] = st
      BY <1>0, <2>1 DEF TypeOK
    <2>7. \A m, n \in Wire : m.runner = n.runner /\ m.tick = n.tick => m.status = n.status
      BY <1>0 DEF WireInv
    <2> HIDE DEF h
    <2> QED BY <2>2, <2>3, <2>4, <2>5, <2>6, <2>7 DEF WireInv
  <1>5. ASSUME NEW s \in Sim, Prepare(s) PROVE WireInv'
    BY <1>1, <1>5 DEF Prepare
  <1>6. ASSUME NEW s \in Sim, Spawn(s) PROVE WireInv'
    BY <1>1, <1>6 DEF Spawn
  <1>7. ASSUME NEW s \in Sim,
               \/ StartCollector(s, "collect", "start") \/ StartCollector(s, "start", "configure")
        PROVE WireInv'
    BY <1>1, <1>7 DEF StartCollector
  <1>8. ASSUME NEW s \in Sim,
               \/ Configure(s) \/ Iterate(s) \/ CheckRaceComplete(s) \/ CompileResults(s)
        PROVE WireInv'
    BY <1>1, <1>8 DEF Configure, Iterate, CheckRaceComplete, CompileResults
  <1>9. ASSUME NEW r \in Runner, Subscribe(r) PROVE WireInv'
    BY <1>1, <1>9 DEF Subscribe
  <1> QED BY <1>2, <1>3, <1>4, <1>5, <1>6, <1>7, <1>8, <1>9, NextCases

LEMMA LocatedStep == RaceInv /\ Next => LocatedInv'
  <1> SUFFICES ASSUME RaceInv, Next PROVE LocatedInv'
    OBVIOUS
  <1> USE DEF engineVars, tickVars, wireVars, runnerVars
  <1>0. TypeOK /\ LocatedInv /\ OrderInv /\ FieldInv
    BY DEF RaceInv
  <1>1. ASSUME \A t \in Sim : buffer'[t] \cup messages'[t] \subseteq buffer[t] \cup messages[t]
        PROVE LocatedInv'
    BY <1>0, <1>1 DEF LocatedInv
  <1>2. CASE UNCHANGED <<buffer, messages>>
    BY <1>1, <1>2
  <1>3. ASSUME NEW s \in Sim,
               \/ BeginTick(s) \/ Drain(s) \/ WindowTimeout(s) \/ StopRaceCollector(s)
        PROVE LocatedInv'
    <2>1. \A t \in Sim : buffer'[t] \cup messages'[t] \subseteq buffer[t] \cup messages[t]
      BY <1>0, <1>3 DEF BeginTick, Drain, WindowTimeout, Aggregate, StopRaceCollector, TypeOK
    <2> QED BY <1>1, <2>1
  <1>4. ASSUME NEW s \in Sim, NEW m, m.runner \in RunnersOf[s], Arrive(s, m), UNCHANGED messages
        PROVE LocatedInv'
    <2>1. ASSUME NEW t \in Sim, NEW n \in buffer'[t] \cup messages'[t] PROVE n.runner \in RunnersOf[t]
      <3>1. buffer'[t] = IF t = s THEN buffer[t] \cup {m} ELSE buffer[t]
        BY <1>0, <1>4, ArriveAdds
      <3>2. n \in buffer[t] \cup messages[t] \/ (t = s /\ n = m)
        BY <1>4, <2>1, <3>1
      <3> QED BY <1>0, <1>4, <3>2 DEF LocatedInv
    <2> QED BY <2>1 DEF LocatedInv
  <1>5. ASSUME NEW m \in events, EventArrives(m) PROVE LocatedInv'
    <2>1. UNCHANGED messages
      BY <1>5 DEF EventArrives
    <2>2. CASE UNCHANGED buffer
      BY <1>2, <2>1, <2>2
    <2>3. ASSUME NEW s \in Sim, Collects(s, m), Arrive(s, m) PROVE LocatedInv'
      <3>1. m.runner \in RunnersOf[s]
        BY <1>0, <2>3 DEF Collects, FieldInv, FieldOf
      <3> QED BY <1>4, <2>1, <2>3, <3>1
    <2> QED BY <1>5, <2>2, <2>3 DEF EventArrives
  <1>6. ASSUME NEW r \in Runner, ProcessTick(r) PROVE LocatedInv'
    <2>1. PICK s \in Sim, st \in Status : r \in RunnersOf[s] /\ Answer(s, r, st)
      BY <1>0, <1>6, ProcessTickFacts
    <2>2. UNCHANGED messages
      BY <1>6 DEF ProcessTick
    <2>3. Result(r, st, "rpush").runner = r
      BY DEF Result
    <2> QED BY <1>0, <1>2, <1>4, <2>1, <2>2, <2>3, AnswerAdds
  <1>7. ASSUME NEW s \in Sim, Prepare(s) \/ Spawn(s) PROVE LocatedInv'
    BY <1>2, <1>7 DEF Prepare, Spawn
  <1>8. ASSUME NEW s \in Sim,
               \/ StartCollector(s, "collect", "start") \/ StartCollector(s, "start", "configure")
        PROVE LocatedInv'
    BY <1>2, <1>8 DEF StartCollector
  <1>9. ASSUME NEW s \in Sim,
               \/ Configure(s) \/ Iterate(s) \/ CheckRaceComplete(s) \/ CompileResults(s)
        PROVE LocatedInv'
    BY <1>2, <1>9 DEF Configure, Iterate, CheckRaceComplete, CompileResults
  <1>10. ASSUME NEW r \in Runner, Subscribe(r) PROVE LocatedInv'
    BY <1>2, <1>10 DEF Subscribe
  <1> QED BY <1>3, <1>5, <1>6, <1>7, <1>8, <1>9, <1>10, NextCases

-----------------------------------------------------------------------------
(* Ticks and runners                                                       *)

\* What one broadcast of a tick adds to the inboxes.
LEMMA BeginTickInbox ==
  ASSUME TypeOK, NEW s \in Sim, BeginTick(s)
  PROVE /\ UNCHANGED <<handled, spawned, status>>
        /\ state[s].current_tick \in Nat
        /\ \A r \in Runner :
             \/ inbox'[r] = inbox[r]
             \/ /\ inbox'[r] = Append(inbox[r], state[s].current_tick)
                /\ r \in RunnersOf[s] /\ r \in spawned
                /\ r \notin Rescued(s) \cup state[s].collapsed_runner_ids
  <1>1. state[s].current_tick \in Nat
    BY DEF TypeOK, Session
  <1>2. PICK reached \in SUBSET ((subscribed \cap RunnersOf[s])
                                   \ (Rescued(s) \cup state[s].collapsed_runner_ids)) :
          inbox' = [r \in Runner |-> IF r \in reached
                                     THEN Append(inbox[r], state[s].current_tick) ELSE inbox[r]]
    BY DEF BeginTick
  <1>3. subscribed \subseteq spawned
    BY DEF TypeOK
  <1> QED BY <1>1, <1>2, <1>3 DEF BeginTick, runnerVars

LEMMA OrderStep == RaceInv /\ Next => OrderInv'
  <1> SUFFICES ASSUME RaceInv, Next PROVE OrderInv'
    OBVIOUS
  <1> USE DEF engineVars, tickVars, wireVars, runnerVars
  <1>0. TypeOK /\ OrderInv /\ TickInv
    BY DEF RaceInv
  <1>1. CASE UNCHANGED <<inbox, handled>> /\ spawned \subseteq spawned'
    BY <1>0, <1>1 DEF OrderInv
  <1>2. ASSUME NEW s \in Sim, BeginTick(s) PROVE OrderInv'
    <2>1. SUFFICES ASSUME NEW r \in Runner,
                          inbox'[r] = Append(inbox[r], state[s].current_tick),
                          r \in RunnersOf[s], r \in spawned
                   PROVE \A i \in DOMAIN inbox'[r] :
                           /\ \A t \in handled[r] : t < inbox'[r][i]
                           /\ \A j \in DOMAIN inbox'[r] : i < j => inbox'[r][i] < inbox'[r][j]
      BY <1>0, <1>2, BeginTickInbox DEF OrderInv
    <2> DEFINE k == state[s].current_tick
    <2>2. phase[s] = "tick" /\ k \in Nat
      BY <1>2, <1>0, BeginTickInbox DEF BeginTick, Step
    <2>3. /\ \A t \in handled[r] : t < k
          /\ \A i \in DOMAIN inbox[r] : inbox[r][i] < k
      BY <1>0, <2>1, <2>2 DEF TickInv, Reached
    <2>4. \A i \in DOMAIN inbox[r] :
            /\ \A t \in handled[r] : t < inbox[r][i]
            /\ \A j \in DOMAIN inbox[r] : i < j => inbox[r][i] < inbox[r][j]
      BY <1>0 DEF OrderInv
    <2>5. inbox[r] \in Seq(Nat)
      BY <1>0 DEF TypeOK
    <2> HIDE DEF k
    <2>6. inbox'[r] = Append(inbox[r], k)
      BY <2>1 DEF k
    <2>7. /\ DOMAIN inbox[r] = 1 .. Len(inbox[r])
          /\ DOMAIN inbox'[r] = 1 .. Len(inbox[r]) + 1
          /\ inbox'[r][Len(inbox[r]) + 1] = k
          /\ \A i \in 1 .. Len(inbox[r]) : inbox'[r][i] = inbox[r][i]
          /\ Len(inbox[r]) \in Nat
      BY <2>2, <2>5, <2>6
    <2> QED BY <2>3, <2>4, <2>7
  <1>3. ASSUME NEW r \in Runner, ProcessTick(r) PROVE OrderInv'
    <2>1. /\ inbox[r] \in Seq(Nat) /\ inbox[r] # <<>>
          /\ UNCHANGED spawned /\ r \in spawned
          /\ inbox'[r] = Tail(inbox[r])
          /\ handled'[r] = handled[r] \cup {inbox[r][1]}
          /\ \A q \in Runner : q # r => handled'[q] = handled[q] /\ inbox'[q] = inbox[q]
      BY <1>0, <1>3, ProcessTickFacts DEF ProcessTick, TypeOK
    <2>2. /\ DOMAIN inbox[r] = 1 .. Len(inbox[r])
          /\ Len(inbox[r]) \in Nat /\ Len(inbox[r]) > 0
          /\ DOMAIN inbox'[r] = 1 .. Len(inbox[r]) - 1
          /\ \A i \in DOMAIN inbox'[r] : inbox'[r][i] = inbox[r][i + 1]
      BY <2>1
    <2>3. \A i \in DOMAIN inbox[r] :
            /\ \A t \in handled[r] : t < inbox[r][i]
            /\ \A j \in DOMAIN inbox[r] : i < j => inbox[r][i] < inbox[r][j]
      BY <1>0 DEF OrderInv
    <2>4. ASSUME NEW i \in DOMAIN inbox'[r]
          PROVE /\ \A t \in handled'[r] : t < inbox'[r][i]
                /\ \A j \in DOMAIN inbox'[r] : i < j => inbox'[r][i] < inbox'[r][j]
      <3>1. i + 1 \in DOMAIN inbox[r] /\ 1 \in DOMAIN inbox[r] /\ 1 < i + 1
        BY <2>2
      <3>2. \A t \in handled'[r] : t < inbox'[r][i]
        BY <2>1, <2>2, <2>3, <3>1
      <3>3. ASSUME NEW j \in DOMAIN inbox'[r], i < j PROVE inbox'[r][i] < inbox'[r][j]
        <4>1. j + 1 \in DOMAIN inbox[r] /\ i + 1 < j + 1
          BY <2>2, <3>3
        <4> QED BY <2>2, <2>3, <3>1, <4>1
      <3> QED BY <3>2, <3>3
    <2>5. ASSUME NEW q \in Runner, q # r
          PROVE /\ inbox'[q] # <<>> => q \in spawned'
                /\ \A i \in DOMAIN inbox'[q] :
                     /\ \A t \in handled'[q] : t < inbox'[q][i]
                     /\ \A j \in DOMAIN inbox'[q] : i < j => inbox'[q][i] < inbox'[q][j]
      BY <1>0, <2>1, <2>5 DEF OrderInv
    <2> QED BY <2>1, <2>4, <2>5 DEF OrderInv
  <1>4. ASSUME NEW s \in Sim, Prepare(s) \/ Spawn(s) PROVE OrderInv'
    BY <1>1, <1>4 DEF Prepare, Spawn
  <1>5. ASSUME NEW s \in Sim,
               \/ StartCollector(s, "collect", "start") \/ StartCollector(s, "start", "configure")
        PROVE OrderInv'
    BY <1>1, <1>5 DEF StartCollector
  <1>6. ASSUME NEW s \in Sim,
               \/ Configure(s) \/ Iterate(s) \/ CheckRaceComplete(s) \/ CompileResults(s)
        PROVE OrderInv'
    BY <1>1, <1>6 DEF Configure, Iterate, CheckRaceComplete, CompileResults
  <1>7. ASSUME NEW s \in Sim, Drain(s) \/ WindowTimeout(s) \/ StopRaceCollector(s) PROVE OrderInv'
    BY <1>1, <1>7 DEF Drain, WindowTimeout, Aggregate, StopRaceCollector
  <1>8. ASSUME NEW r \in Runner, Subscribe(r) PROVE OrderInv'
    BY <1>1, <1>8 DEF Subscribe
  <1>9. ASSUME NEW m \in events, EventArrives(m) PROVE OrderInv'
    BY <1>1, <1>9 DEF EventArrives
  <1> QED BY <1>2, <1>3, <1>4, <1>5, <1>6, <1>7, <1>8, <1>9, NextCases

\* A pipeline that moves on leaves the others where they are.
LEMMA StepPhase ==
  ASSUME TypeOK, NEW s \in Sim, NEW from, NEW to, Step(s, from, to)
  PROVE /\ phase[s] = from /\ phase'[s] = to
        /\ \A t \in Sim : t # s => phase'[t] = phase[t]
  BY DEF Step, TypeOK

LEMMA TickKept ==
  ASSUME TickInv, UNCHANGED <<handled, inbox>>,
         \A s \in Sim :
           /\ state'[s].current_tick = state[s].current_tick
           /\ state'[s].finished_runner_ids = state[s].finished_runner_ids
           /\ state'[s].collapsed_runner_ids = state[s].collapsed_runner_ids
           /\ phase[s] = "window" => phase'[s] = "window"
  PROVE TickInv'
  BY DEF TickInv, Reached

LEMMA TickStep == RaceInv /\ Next => TickInv'
  <1> SUFFICES ASSUME RaceInv, Next PROVE TickInv'
    OBVIOUS
  <1> USE DEF engineVars, tickVars, wireVars, runnerVars
  <1>0. TypeOK /\ TickInv /\ FieldInv /\ OrderInv
    BY DEF RaceInv
  <1>1. CASE UNCHANGED <<handled, inbox, state, phase>>
    BY <1>0, <1>1, TickKept
  <1>2. ASSUME UNCHANGED <<handled, inbox, state>>, NEW s \in Sim, NEW from, NEW to,
               Step(s, from, to), from # "window"
        PROVE TickInv'
    <2>1. \A t \in Sim : phase[t] = "window" => phase'[t] = "window"
      BY <1>0, <1>2, StepPhase
    <2> QED BY <1>0, <1>2, <2>1, TickKept
  <1>3. ASSUME NEW s \in Sim, Prepare(s) PROVE TickInv'
    <2>1. UNCHANGED <<handled, inbox>> /\ Step(s, "prepare", "spawn")
      BY <1>3 DEF Prepare
    <2>2. \A t \in Sim : phase[t] = "window" => phase'[t] = "window"
      BY <1>0, <2>1, StepPhase
    <2>3. state[s].current_tick = 0
      BY <1>0, <2>1 DEF FieldInv, FieldOf, Step
    <2> QED BY <1>0, <1>3, <2>1, <2>2, <2>3, PrepareState, TickKept DEF Others
  <1>4. ASSUME NEW s \in Sim, Spawn(s) PROVE TickInv'
    <2>1. UNCHANGED <<handled, inbox>> /\ Step(s, "spawn", "collect")
      BY <1>4 DEF Spawn
    <2>2. \A t \in Sim : phase[t] = "window" => phase'[t] = "window"
      BY <1>0, <2>1, StepPhase
    <2>3. CASE UNCHANGED state
      BY <1>2, <2>1, <2>3
    <2>4. ASSUME NEW made \in SUBSET RunnersOf[s],
                 state' = [state EXCEPT ![s].runner_session_ids = made,
                                        ![s].runner_count = Cardinality(made)]
          PROVE TickInv'
      BY <1>0, <2>1, <2>2, <2>4, SpawnState, TickKept DEF Others
    <2> QED BY <1>4, <2>3, <2>4 DEF Spawn
  <1>5. ASSUME NEW s \in Sim,
               \/ StartCollector(s, "collect", "start") \/ StartCollector(s, "start", "configure")
        PROVE TickInv'
    BY <1>2, <1>5 DEF StartCollector
  <1>6. ASSUME NEW s \in Sim,
               \/ Configure(s) \/ Iterate(s) \/ CheckRaceComplete(s) \/ CompileResults(s)
        PROVE TickInv'
    BY <1>2, <1>6 DEF Configure, Iterate, CheckRaceComplete, CompileResults
  <1>7. ASSUME NEW s \in Sim, BeginTick(s) PROVE TickInv'
    <2>1. /\ phase[s] = "tick" /\ phase'[s] = "window"
          /\ \A t \in Sim : t # s => phase'[t] = phase[t]
      BY <1>0, <1>7, StepPhase DEF BeginTick
    <2>2. ASSUME NEW t \in Sim, NEW r \in RunnersOf[t], t # s
          PROVE inbox'[r] = inbox[r] /\ handled'[r] = handled[r] /\ r \in Runner
      <3>1. r \in Runner /\ r \notin RunnersOf[s]
        BY <2>2, RaceAssumption DEF RaceAssumption
      <3> QED BY <1>0, <1>7, <3>1, BeginTickInbox
    <2>3. ASSUME NEW t \in Sim, NEW r \in RunnersOf[t], t # s
          PROVE /\ \A k \in handled'[r] : Reached(t, r, k)'
                /\ \A i \in DOMAIN inbox'[r] : Reached(t, r, inbox[r][i])'
      BY <1>0, <1>7, <2>1, <2>2, <2>3, BeginTickState DEF TickInv, Reached, Others
    <2>4. ASSUME NEW r \in RunnersOf[s]
          PROVE /\ \A k \in handled'[r] : Reached(s, r, k)'
                /\ \A i \in DOMAIN inbox'[r] : Reached(s, r, inbox[r][i])'
      <3> DEFINE now == state[s].current_tick
      <3>1. r \in Runner
        BY RaceAssumption DEF RaceAssumption
      <3>2. /\ \A k \in handled[r] : k < now
            /\ \A i \in DOMAIN inbox[r] : inbox[r][i] < now
        BY <1>0, <2>1 DEF TickInv, Reached
      <3>3. /\ state'[s].current_tick = now
            /\ state'[s].finished_runner_ids = Rescued(s)
            /\ state'[s].collapsed_runner_ids = state[s].collapsed_runner_ids
        BY <1>0, <1>7, BeginTickState
      <3>4. handled' = handled
        BY <1>0, <1>7, BeginTickInbox
      <3>5. CASE inbox'[r] = inbox[r]
        BY <3>2, <3>3, <3>4, <3>5 DEF Reached
      <3>6. CASE /\ inbox'[r] = Append(inbox[r], now)
                 /\ r \notin Rescued(s) \cup state[s].collapsed_runner_ids
        <4>1. inbox[r] \in Seq(Nat)
          BY <1>0, <3>1 DEF TypeOK
        <4>2. ASSUME NEW i \in DOMAIN inbox'[r] PROVE inbox'[r][i] < now \/ inbox'[r][i] = now
          BY <3>2, <3>6, <4>1
        <4> QED BY <2>1, <3>2, <3>3, <3>4, <3>6, <4>2 DEF Reached
      <3> QED BY <1>0, <1>7, <3>1, <3>5, <3>6, BeginTickInbox
    <2> QED BY <2>3, <2>4 DEF TickInv
  <1>8. ASSUME NEW s \in Sim, WindowTimeout(s) PROVE TickInv'
    <2>1. /\ \A t \in Sim : t # s => phase'[t] = phase[t]
          /\ UNCHANGED <<handled, inbox>>
          /\ Aggregate(s)
      BY <1>0, <1>8, StepPhase DEF WindowTimeout, Aggregate
    <2>2. state'[s].current_tick = state[s].current_tick + 1 /\ state[s].current_tick \in Nat
      BY <1>0, <2>1, AggregateState DEF TypeOK, Session
    <2>3. ASSUME NEW r \in RunnersOf[s], NEW k \in Nat, Reached(s, r, k) PROVE Reached(s, r, k)'
      BY <2>2, <2>3 DEF Reached
    <2>4. ASSUME NEW r \in RunnersOf[s]
          PROVE handled[r] \subseteq Nat /\ \A i \in DOMAIN inbox[r] : inbox[r][i] \in Nat
      BY <1>0, RaceAssumption DEF TypeOK, RaceAssumption
    <2>5. ASSUME NEW r \in RunnersOf[s]
          PROVE /\ \A k \in handled'[r] : Reached(s, r, k)'
                /\ \A i \in DOMAIN inbox'[r] : Reached(s, r, inbox[r][i])'
      BY <1>0, <2>1, <2>3, <2>4 DEF TickInv
    <2>6. ASSUME NEW t \in Sim, t # s, NEW r \in RunnersOf[t]
          PROVE /\ \A k \in handled'[r] : Reached(t, r, k)'
                /\ \A i \in DOMAIN inbox'[r] : Reached(t, r, inbox[r][i])'
      BY <1>0, <2>1, <2>6, AggregateState DEF TickInv, Reached, Others
    <2> QED BY <2>5, <2>6 DEF TickInv
  <1>9. ASSUME NEW s \in Sim, StopRaceCollector(s) PROVE TickInv'
    <2>1. UNCHANGED <<handled, inbox>> /\ Step(s, "stop", "done")
      BY <1>9 DEF StopRaceCollector
    <2>2. \A t \in Sim : phase[t] = "window" => phase'[t] = "window"
      BY <1>0, <2>1, StepPhase
    <2> QED BY <1>0, <1>9, <2>1, <2>2, StopState, TickKept DEF Others
  <1>10. ASSUME NEW r \in Runner, ProcessTick(r) PROVE TickInv'
    <2>1. /\ inbox[r] \in Seq(Nat) /\ inbox[r] # <<>>
          /\ UNCHANGED <<state, phase>>
          /\ inbox'[r] = Tail(inbox[r])
          /\ handled'[r] = handled[r] \cup {inbox[r][1]}
          /\ \A q \in Runner : q # r => handled'[q] = handled[q] /\ inbox'[q] = inbox[q]
      BY <1>0, <1>10, ProcessTickFacts DEF ProcessTick, TypeOK
    <2>2. /\ 1 \in DOMAIN inbox[r]
          /\ \A i \in DOMAIN inbox'[r] : i + 1 \in DOMAIN inbox[r] /\ inbox'[r][i] = inbox[r][i + 1]
      BY <2>1
    <2>3. ASSUME NEW t \in Sim, NEW q \in RunnersOf[t], NEW k, Reached(t, q, k)
          PROVE Reached(t, q, k)'
      BY <2>1, <2>3 DEF Reached
    <2>4. ASSUME NEW t \in Sim, r \in RunnersOf[t]
          PROVE /\ \A k \in handled'[r] : Reached(t, r, k)'
                /\ \A i \in DOMAIN inbox'[r] : Reached(t, r, inbox[r][i])'
      <3>1. /\ \A k \in handled[r] : Reached(t, r, k)
            /\ \A i \in DOMAIN inbox[r] : Reached(t, r, inbox[r][i])
        BY <1>0, <2>4 DEF TickInv
      <3>2. \A k \in handled'[r] : Reached(t, r, k)'
        BY <2>1, <2>2, <2>3, <2>4, <3>1
      <3>3. \A i \in DOMAIN inbox'[r] : Reached(t, r, inbox[r][i])'
        BY <2>1, <2>2, <3>1 DEF Reached
      <3> QED BY <3>2, <3>3
    <2>5. ASSUME NEW t \in Sim, NEW q \in RunnersOf[t], q # r
          PROVE /\ \A k \in handled'[q] : Reached(t, q, k)'
                /\ \A i \in DOMAIN inbox'[q] : Reached(t, q, inbox[q][i])'
      <3>1. q \in Runner
        BY RaceAssumption DEF RaceAssumption
      <3> QED BY <1>0, <2>1, <2>3, <2>5, <3>1 DEF TickInv
    <2> QED BY <2>4, <2>5 DEF TickInv
  <1>11. ASSUME NEW s \in Sim, Drain(s) PROVE TickInv'
    BY <1>1, <1>11 DEF Drain
  <1>12. ASSUME NEW r \in Runner, Subscribe(r) PROVE TickInv'
    BY <1>1, <1>12 DEF Subscribe
  <1>13. ASSUME NEW m \in events, EventArrives(m) PROVE TickInv'
    BY <1>1, <1>13 DEF EventArrives
  <1> QED BY <1>3, <1>4, <1>5, <1>6, <1>7, <1>8, <1>9, <1>10, <1>11, <1>12, <1>13, NextCases

-----------------------------------------------------------------------------
(* The field: who was made and who is out of the race                      *)

LEMMA FieldKept ==
  ASSUME FieldInv, UNCHANGED spawned,
         \A s \in Sim :
           /\ state'[s].runner_session_ids = state[s].runner_session_ids
           /\ state'[s].runner_count = state[s].runner_count
           /\ phase'[s] \in {"prepare", "spawn"} =>
                phase'[s] = phase[s] /\ state'[s] = state[s] /\ snapshot'[s] = snapshot[s]
  PROVE FieldInv'
  BY DEF FieldInv, FieldOf

LEMMA FieldStep == RaceInv /\ Next => FieldInv'
  <1> SUFFICES ASSUME RaceInv, Next PROVE FieldInv'
    OBVIOUS
  <1> USE DEF engineVars, tickVars, wireVars, runnerVars
  <1>0. TypeOK /\ FieldInv
    BY DEF RaceInv
  <1>1. CASE UNCHANGED <<spawned, state, snapshot, phase>>
    BY <1>0, <1>1, FieldKept
  <1>2. ASSUME UNCHANGED <<spawned, state, snapshot>>, NEW s \in Sim, NEW from, NEW to,
               Step(s, from, to), to \notin {"prepare", "spawn"}
        PROVE FieldInv'
    <2>1. \A t \in Sim : phase'[t] \in {"prepare", "spawn"} => phase'[t] = phase[t]
      BY <1>0, <1>2, StepPhase
    <2> QED BY <1>0, <1>2, <2>1, FieldKept
  <1>3. ASSUME NEW s \in Sim, Prepare(s) PROVE FieldInv'
    <2>1. UNCHANGED <<spawned, snapshot>> /\ Step(s, "prepare", "spawn")
      BY <1>3 DEF Prepare
    <2>2. /\ phase[s] = "prepare" /\ phase'[s] = "spawn"
          /\ \A t \in Sim : t # s => phase'[t] = phase[t]
      BY <1>0, <2>1, StepPhase
    <2>3. /\ state[s].runner_session_ids \in {{}, spawned \cap RunnersOf[s]}
          /\ Cardinality(spawned \cap RunnersOf[s]) <= state[s].runner_count
          /\ spawned \cap RunnersOf[s] = {} /\ snapshot[s] = NoSnapshot
          /\ ~state[s].simulation_ready
      BY <1>0, <2>2 DEF FieldInv, FieldOf
    <2>4. /\ Cardinality(RunnersOf[s]) \in Nat
          /\ Cardinality({}) = 0
      BY FS_EmptySet, RaceAssumption, RunnerSets DEF RaceAssumption
    <2>5. /\ state'[s].runner_session_ids = state[s].runner_session_ids
          /\ 0 <= state'[s].runner_count
          /\ state'[s].simulation_ready => state'[s].runner_count = Cardinality(RunnersOf[s])
      BY <1>0, <1>3, <2>3, <2>4, PrepareState
    <2>6. \A t \in Sim : t # s => state'[t] = state[t]
      BY <1>0, <1>3, PrepareState DEF Others
    <2> QED BY <1>0, <2>1, <2>2, <2>3, <2>4, <2>5, <2>6 DEF FieldInv, FieldOf
  <1>4. ASSUME NEW s \in Sim, Spawn(s) PROVE FieldInv'
    <2>1. UNCHANGED snapshot /\ Step(s, "spawn", "collect")
      BY <1>4 DEF Spawn
    <2>2. /\ phase[s] = "spawn" /\ phase'[s] = "collect"
          /\ \A t \in Sim : t # s => phase'[t] = phase[t]
      BY <1>0, <2>1, StepPhase
    <2>3. CASE UNCHANGED <<state, spawned>>
      BY <1>2, <2>1, <2>3
    <2>4. ASSUME state[s].simulation_ready, NEW made \in SUBSET RunnersOf[s],
                 spawned' = spawned \cup made,
                 \/ UNCHANGED state
                 \/ state' = [state EXCEPT ![s].runner_session_ids = made,
                                           ![s].runner_count = Cardinality(made)]
          PROVE FieldInv'
      <3>1. /\ spawned \cap RunnersOf[s] = {}
            /\ state[s].runner_count = Cardinality(RunnersOf[s])
            /\ state[s].runner_session_ids = {}
        BY <1>0, <2>2, <2>4 DEF FieldInv, FieldOf
      <3>2. spawned' \cap RunnersOf[s] = made
        BY <2>4, <3>1
      <3>3. /\ Cardinality(made) \in Nat
            /\ Cardinality(made) <= Cardinality(RunnersOf[s])
        BY RaceAssumption, RunnerSets DEF RaceAssumption
      <3>4. \A t \in Sim : t # s => spawned' \cap RunnersOf[t] = spawned \cap RunnersOf[t]
        BY <2>4, RaceAssumption DEF RaceAssumption
      <3>5. CASE UNCHANGED state
        <4>1. ASSUME NEW t \in Sim, t # s PROVE FieldOf(t)'
          BY <1>0, <2>1, <2>2, <3>4, <3>5, <4>1 DEF FieldInv, FieldOf
        <4>2. FieldOf(s)'
          BY <2>2, <3>1, <3>2, <3>3, <3>5 DEF FieldOf
        <4> QED BY <4>1, <4>2 DEF FieldInv, FieldOf
      <3>6. CASE state' = [state EXCEPT ![s].runner_session_ids = made,
                                        ![s].runner_count = Cardinality(made)]
        <4>1. /\ \A t \in Sim : t # s => state'[t] = state[t]
              /\ state'[s].runner_session_ids = made
              /\ state'[s].runner_count = Cardinality(made)
          BY <1>0, <3>6, SpawnState DEF Others
        <4>2. ASSUME NEW t \in Sim, t # s PROVE FieldOf(t)'
          BY <1>0, <2>1, <2>2, <3>4, <4>1, <4>2 DEF FieldInv, FieldOf
        <4>3. FieldOf(s)'
          BY <2>2, <3>2, <3>3, <4>1, SMTT(20) DEF FieldOf
        <4> QED BY <4>2, <4>3 DEF FieldInv, FieldOf
      <3> QED BY <2>4, <3>5, <3>6
    <2> QED BY <1>4, <2>3, <2>4 DEF Spawn
  <1>5. ASSUME NEW s \in Sim,
               \/ StartCollector(s, "collect", "start") \/ StartCollector(s, "start", "configure")
        PROVE FieldInv'
    BY <1>2, <1>5 DEF StartCollector
  <1>6. ASSUME NEW s \in Sim,
               \/ Configure(s) \/ Iterate(s) \/ CheckRaceComplete(s) \/ CompileResults(s)
        PROVE FieldInv'
    BY <1>2, <1>6 DEF Configure, Iterate, CheckRaceComplete, CompileResults
  <1>7. ASSUME NEW s \in Sim, BeginTick(s) PROVE FieldInv'
    <2>1. UNCHANGED <<spawned, snapshot>> /\ Step(s, "tick", "window")
      BY <1>7 DEF BeginTick
    <2>2. \A t \in Sim : phase'[t] \in {"prepare", "spawn"} => t # s /\ phase'[t] = phase[t]
      BY <1>0, <2>1, StepPhase
    <2> QED BY <1>0, <1>7, <2>1, <2>2, BeginTickState, FieldKept DEF Others
  <1>8. ASSUME NEW s \in Sim, WindowTimeout(s) PROVE FieldInv'
    <2>1. UNCHANGED spawned /\ Step(s, "window", "check") /\ Aggregate(s)
      BY <1>8 DEF WindowTimeout, Aggregate
    <2>2. \A t \in Sim : phase'[t] \in {"prepare", "spawn"} => t # s /\ phase'[t] = phase[t]
      BY <1>0, <2>1, StepPhase
    <2>3. \A t \in Sim : t # s => snapshot'[t] = snapshot[t]
      BY <1>0, <2>1 DEF Aggregate, TypeOK
    <2> QED BY <1>0, <2>1, <2>2, <2>3, AggregateState, FieldKept DEF Others
  <1>9. ASSUME NEW s \in Sim, StopRaceCollector(s) PROVE FieldInv'
    <2>1. UNCHANGED <<spawned, snapshot>> /\ Step(s, "stop", "done")
      BY <1>9 DEF StopRaceCollector
    <2>2. \A t \in Sim : phase'[t] \in {"prepare", "spawn"} => t # s /\ phase'[t] = phase[t]
      BY <1>0, <2>1, StepPhase
    <2> QED BY <1>0, <1>9, <2>1, <2>2, StopState, FieldKept DEF Others
  <1>10. ASSUME NEW s \in Sim, Drain(s) PROVE FieldInv'
    BY <1>1, <1>10 DEF Drain
  <1>11. ASSUME NEW r \in Runner, Subscribe(r) \/ ProcessTick(r) PROVE FieldInv'
    BY <1>1, <1>11 DEF Subscribe, ProcessTick
  <1>12. ASSUME NEW m \in events, EventArrives(m) PROVE FieldInv'
    BY <1>1, <1>12 DEF EventArrives
  <1> QED BY <1>3, <1>4, <1>5, <1>6, <1>7, <1>8, <1>9, <1>10, <1>11, <1>12, NextCases

LEMMA ActiveKept ==
  ASSUME ActiveInv,
         \A s \in Sim : phase'[s] = "window" =>
           phase[s] = "window" /\ active'[s] = active[s] /\ state'[s] = state[s]
  PROVE ActiveInv'
  BY DEF ActiveInv

LEMMA ActiveStep == RaceInv /\ Next => ActiveInv'
  <1> SUFFICES ASSUME RaceInv, Next PROVE ActiveInv'
    OBVIOUS
  <1> USE DEF engineVars, tickVars, wireVars, runnerVars
  <1>0. TypeOK /\ ActiveInv
    BY DEF RaceInv
  <1>1. CASE UNCHANGED <<active, state, phase>>
    BY <1>0, <1>1, ActiveKept
  <1>2. ASSUME NEW s \in Sim, NEW from, NEW to, Step(s, from, to), to # "window",
               \A t \in Sim : t # s => active'[t] = active[t] /\ state'[t] = state[t]
        PROVE ActiveInv'
    <2>1. \A t \in Sim : phase'[t] = "window" => t # s /\ phase'[t] = phase[t]
      BY <1>0, <1>2, StepPhase
    <2> QED BY <1>0, <1>2, <2>1, ActiveKept
  <1>3. ASSUME NEW s \in Sim, Prepare(s) PROVE ActiveInv'
    <2>1. UNCHANGED active /\ Step(s, "prepare", "spawn")
      BY <1>3 DEF Prepare
    <2> QED BY <1>0, <1>2, <1>3, <2>1, PrepareState DEF Others
  <1>4. ASSUME NEW s \in Sim, Spawn(s) PROVE ActiveInv'
    <2>1. UNCHANGED active /\ Step(s, "spawn", "collect")
      BY <1>4 DEF Spawn
    <2>2. \A t \in Sim : t # s => state'[t] = state[t]
      BY <1>0, <1>4 DEF Spawn, TypeOK
    <2> QED BY <1>2, <2>1, <2>2
  <1>5. ASSUME NEW s \in Sim,
               \/ StartCollector(s, "collect", "start") \/ StartCollector(s, "start", "configure")
        PROVE ActiveInv'
    BY <1>2, <1>5 DEF StartCollector
  <1>6. ASSUME NEW s \in Sim,
               \/ Configure(s) \/ Iterate(s) \/ CheckRaceComplete(s) \/ CompileResults(s)
        PROVE ActiveInv'
    BY <1>2, <1>6 DEF Configure, Iterate, CheckRaceComplete, CompileResults
  <1>7. ASSUME NEW s \in Sim, BeginTick(s) PROVE ActiveInv'
    <2>1. /\ phase'[s] = "window"
          /\ \A t \in Sim : t # s => phase'[t] = phase[t]
      BY <1>0, <1>7, StepPhase DEF BeginTick
    <2>2. /\ active'[s] = state[s].runner_session_ids
                            \ (Rescued(s) \cup state[s].collapsed_runner_ids)
          /\ \A t \in Sim : t # s => active'[t] = active[t]
      BY <1>0, <1>7 DEF BeginTick, TypeOK
    <2> QED BY <1>0, <1>7, <2>1, <2>2, BeginTickState DEF ActiveInv, Others
  <1>8. ASSUME NEW s \in Sim, WindowTimeout(s) PROVE ActiveInv'
    <2>1. Step(s, "window", "check") /\ Aggregate(s)
      BY <1>8 DEF WindowTimeout
    <2>2. \A t \in Sim : t # s => active'[t] = active[t] /\ state'[t] = state[t]
      BY <1>0, <2>1, AggregateState DEF Aggregate, TypeOK, Others
    <2> QED BY <1>2, <2>1, <2>2
  <1>9. ASSUME NEW s \in Sim, StopRaceCollector(s) PROVE ActiveInv'
    <2>1. UNCHANGED active /\ Step(s, "stop", "done")
      BY <1>9 DEF StopRaceCollector
    <2> QED BY <1>0, <1>2, <1>9, <2>1, StopState DEF Others
  <1>10. ASSUME NEW s \in Sim, Drain(s) PROVE ActiveInv'
    BY <1>1, <1>10 DEF Drain
  <1>11. ASSUME NEW r \in Runner, Subscribe(r) \/ ProcessTick(r) PROVE ActiveInv'
    BY <1>1, <1>11 DEF Subscribe, ProcessTick
  <1>12. ASSUME NEW m \in events, EventArrives(m) PROVE ActiveInv'
    BY <1>1, <1>12 DEF EventArrives
  <1> QED BY <1>3, <1>4, <1>5, <1>6, <1>7, <1>8, <1>9, <1>10, <1>11, <1>12, NextCases

LEMMA OutKept ==
  ASSUME TypeOK, OutInv, spawned \subseteq spawned',
         \A r \in Runner : status[r] # "running" => status'[r] = status[r],
         \A s \in Sim :
           /\ state'[s].finished_runner_ids = state[s].finished_runner_ids
           /\ state'[s].collapsed_runner_ids = state[s].collapsed_runner_ids
  PROVE OutInv'
  <1>1. spawned \subseteq Runner
    BY DEF TypeOK
  <1> QED BY <1>1 DEF OutInv

\* A result in the list or in the window of a simulation that says a runner is
\* out of the race is right.
LEMMA OutMessages ==
  ASSUME WireInv, LocatedInv, NEW s \in Sim, NEW m \in buffer[s] \cup messages[s],
         m.status # "running"
  PROVE m.runner \in spawned \cap RunnersOf[s] /\ status[m.runner] = m.status
  <1>1. m \in Wire
    BY DEF Wire
  <1> QED BY <1>1 DEF WireInv, LocatedInv

LEMMA OutStep == RaceInv /\ Next => OutInv'
  <1> SUFFICES ASSUME RaceInv, Next PROVE OutInv'
    OBVIOUS
  <1> USE DEF engineVars, tickVars, wireVars, runnerVars
  <1>0. TypeOK /\ OutInv /\ WireInv /\ LocatedInv /\ OrderInv
    BY DEF RaceInv
  <1>1. CASE UNCHANGED <<status, state, spawned>>
    BY <1>0, <1>1, OutKept
  <1>2. ASSUME NEW s \in Sim, Prepare(s) PROVE OutInv'
    <2>1. UNCHANGED <<status, spawned>>
      BY <1>2 DEF Prepare
    <2> QED BY <1>0, <1>2, <2>1, PrepareState, OutKept DEF Others
  <1>3. ASSUME NEW s \in Sim, Spawn(s) PROVE OutInv'
    <2>1. UNCHANGED status /\ spawned \subseteq spawned'
      BY <1>3 DEF Spawn
    <2>2. CASE UNCHANGED state
      BY <1>0, <2>1, <2>2, OutKept
    <2>3. ASSUME NEW made \in SUBSET RunnersOf[s],
                 state' = [state EXCEPT ![s].runner_session_ids = made,
                                        ![s].runner_count = Cardinality(made)]
          PROVE OutInv'
      BY <1>0, <2>1, <2>3, SpawnState, OutKept DEF Others
    <2> QED BY <1>3, <2>2, <2>3 DEF Spawn
  <1>4. ASSUME NEW s \in Sim,
               \/ StartCollector(s, "collect", "start") \/ StartCollector(s, "start", "configure")
        PROVE OutInv'
    BY <1>1, <1>4 DEF StartCollector
  <1>5. ASSUME NEW s \in Sim,
               \/ Configure(s) \/ Iterate(s) \/ CheckRaceComplete(s) \/ CompileResults(s)
        PROVE OutInv'
    BY <1>1, <1>5 DEF Configure, Iterate, CheckRaceComplete, CompileResults
  <1>6. ASSUME NEW s \in Sim, BeginTick(s) PROVE OutInv'
    <2>1. Rescued(s) \subseteq {r \in spawned \cap RunnersOf[s] : status[r] = "finished"}
      BY <1>0, OutMessages DEF Rescued, Finishers, OutInv
    <2>2. UNCHANGED <<status, spawned>>
      BY <1>6 DEF BeginTick
    <2> QED BY <1>0, <1>6, <2>1, <2>2, BeginTickState DEF OutInv, Others
  <1>7. ASSUME NEW s \in Sim, WindowTimeout(s) PROVE OutInv'
    <2>1. Aggregate(s) /\ UNCHANGED <<status, spawned>>
      BY <1>7 DEF WindowTimeout, Aggregate
    <2>2. ASSUME NEW st \in {"finished", "collapsed"}
          PROVE Reporting(s, st) \subseteq {r \in spawned \cap RunnersOf[s] : status[r] = st}
      BY <1>0, OutMessages DEF Reporting, Reported, Current
    <2>3. /\ FinishedNow(s) \subseteq {r \in spawned \cap RunnersOf[s] : status[r] = "finished"}
          /\ state[s].collapsed_runner_ids \cup Reporting(s, "collapsed")
               \subseteq {r \in spawned \cap RunnersOf[s] : status[r] = "collapsed"}
      BY <1>0, <2>2 DEF FinishedNow, OutInv
    <2> QED BY <1>0, <2>1, <2>3, AggregateState DEF OutInv, Others
  <1>8. ASSUME NEW s \in Sim, StopRaceCollector(s) PROVE OutInv'
    <2>1. UNCHANGED <<status, spawned>>
      BY <1>8 DEF StopRaceCollector
    <2> QED BY <1>0, <1>8, <2>1, StopState, OutKept DEF Others
  <1>9. ASSUME NEW r \in Runner, ProcessTick(r) PROVE OutInv'
    <2>1. UNCHANGED <<state, spawned>>
      BY <1>9 DEF ProcessTick
    <2>2. \A q \in Runner : status[q] # "running" => status'[q] = status[q]
      BY <1>0, <1>9, ProcessTickFacts DEF TypeOK
    <2> QED BY <1>0, <2>1, <2>2, OutKept
  <1>10. ASSUME NEW s \in Sim, Drain(s) PROVE OutInv'
    BY <1>1, <1>10 DEF Drain
  <1>11. ASSUME NEW r \in Runner, Subscribe(r) PROVE OutInv'
    BY <1>1, <1>11 DEF Subscribe
  <1>12. ASSUME NEW m \in events, EventArrives(m) PROVE OutInv'
    BY <1>1, <1>12 DEF EventArrives
  <1> QED BY <1>2, <1>3, <1>4, <1>5, <1>6, <1>7, <1>8, <1>9, <1>10, <1>11, <1>12, NextCases

-----------------------------------------------------------------------------
(* The counts of a tick                                                    *)

\* Who reports in a window was made, has processed that tick and was not out
\* of the race before; nobody reports two statuses.
LEMMA ReportsOfTick ==
  ASSUME RaceInv, NEW s \in Sim
  PROVE /\ Reported(s) \subseteq {r \in RunnersOf[s] : state[s].current_tick \in handled[r]}
        /\ Reported(s) \subseteq spawned
        /\ Reported(s) \cap (state[s].finished_runner_ids \cup state[s].collapsed_runner_ids) = {}
        /\ \A a, b \in Status : a # b => Reporting(s, a) \cap Reporting(s, b) = {}
  <1>0. WireInv /\ LocatedInv /\ TickInv
    BY DEF RaceInv
  <1>1. ASSUME NEW m \in Current(s)
        PROVE /\ m \in Wire /\ m.tick = state[s].current_tick
              /\ m.runner \in RunnersOf[s] /\ m.runner \in spawned
              /\ m.tick \in handled[m.runner]
    BY <1>0, <1>1 DEF Current, Wire, WireInv, LocatedInv
  <1>2. Reported(s) \subseteq {r \in RunnersOf[s] : state[s].current_tick \in handled[r]}
    BY <1>1 DEF Reported
  <1>3. Reported(s) \subseteq spawned
    BY <1>1 DEF Reported
  <1>4. ASSUME NEW r \in Reported(s)
        PROVE r \notin state[s].finished_runner_ids \cup state[s].collapsed_runner_ids
    <2>1. Reached(s, r, state[s].current_tick)
      BY <1>0, <1>2, <1>4 DEF TickInv
    <2>2. state[s].current_tick \in Nat
      BY DEF RaceInv, TypeOK, Session
    <2> QED BY <2>1, <2>2 DEF Reached
  <1>5. ASSUME NEW a \in Status, NEW b \in Status, a # b
        PROVE Reporting(s, a) \cap Reporting(s, b) = {}
    BY <1>0, <1>1, <1>5 DEF Reporting, WireInv
  <1> QED BY <1>2, <1>3, <1>4, <1>5

LEMMA ThreeSets ==
  ASSUME NEW U \in SUBSET Runner, NEW A \in SUBSET U, NEW B \in SUBSET U, NEW C \in SUBSET U,
         A \cap B = {}, A \cap C = {}, B \cap C = {}
  PROVE Cardinality(A) + Cardinality(B) + Cardinality(C) <= Cardinality(U)
  <1>1. /\ IsFiniteSet(A) /\ IsFiniteSet(B) /\ IsFiniteSet(C)
        /\ Cardinality(A) \in Nat /\ Cardinality(B) \in Nat /\ Cardinality(C) \in Nat
    BY RunnerSets
  <1>2. IsFiniteSet(A \cup B) /\ Cardinality(A \cup B) = Cardinality(A) + Cardinality(B)
    <2>1. IsFiniteSet(A \cup B)
          /\ Cardinality(A \cup B) = Cardinality(A) + Cardinality(B) - Cardinality(A \cap B)
      BY <1>1, FS_Union
    <2>2. Cardinality(A \cap B) = 0
      BY FS_EmptySet
    <2> QED BY <1>1, <2>1, <2>2
  <1>3. (A \cup B) \cap C = {}
    OBVIOUS
  <1>4. Cardinality((A \cup B) \cup C) = Cardinality(A) + Cardinality(B) + Cardinality(C)
    <2> DEFINE D == A \cup B
    <2>1. IsFiniteSet(D) /\ Cardinality(D) = Cardinality(A) + Cardinality(B) /\ D \cap C = {}
      BY <1>2, <1>3
    <2> HIDE DEF D
    <2>2. Cardinality(D \cup C) = Cardinality(D) + Cardinality(C) - Cardinality(D \cap C)
      BY <1>1, <2>1, FS_Union
    <2>3. Cardinality(D \cap C) = 0
      BY <2>1, FS_EmptySet
    <2> QED BY <1>1, <2>1, <2>2, <2>3 DEF D
  <1>5. (A \cup B) \cup C \in SUBSET U
    OBVIOUS
  <1>6. Cardinality((A \cup B) \cup C) <= Cardinality(U)
    BY <1>5, RunnerSets
  <1> QED BY <1>4, <1>6

\* The snapshot of a window counts no runner twice.
LEMMA SnapshotCounts ==
  ASSUME RaceInv, NEW s \in Sim
  PROVE TickSnapshot(s).running + TickSnapshot(s).collapsed + TickSnapshot(s).finished
          <= state[s].runner_count
  <1> DEFINE U == spawned \cap RunnersOf[s]
             A == Reporting(s, "running")
             B == Reporting(s, "collapsed")
             C == FinishedNow(s)
  <1>1. U \subseteq Runner
    BY DEF RaceInv, TypeOK
  <1>2. \A st : Reporting(s, st) \subseteq Reported(s)
    BY DEF Reporting
  <1>3. A \subseteq U /\ B \subseteq U /\ C \subseteq U
    BY <1>2, ReportsOfTick DEF FinishedNow, RaceInv, OutInv
  <1>4. A \cap B = {} /\ A \cap C = {} /\ B \cap C = {}
    <2>1. /\ A \cap B = {} /\ A \cap Reporting(s, "finished") = {}
          /\ B \cap Reporting(s, "finished") = {}
      BY ReportsOfTick DEF Status
    <2>2. /\ A \cap state[s].finished_runner_ids = {}
          /\ B \cap state[s].finished_runner_ids = {}
      BY <1>2, ReportsOfTick
    <2> QED BY <2>1, <2>2 DEF FinishedNow
  <1> HIDE DEF U, A, B, C
  <1>5. Cardinality(A) + Cardinality(B) + Cardinality(C) <= Cardinality(U)
    BY <1>1, <1>3, <1>4, ThreeSets
  <1>6. Cardinality(U) <= state[s].runner_count
    BY DEF RaceInv, FieldInv, FieldOf, U
  <1>7. /\ Cardinality(U) \in Nat /\ Cardinality(A) \in Nat
        /\ Cardinality(B) \in Nat /\ Cardinality(C) \in Nat
    BY <1>1, <1>3, RunnerSets
  <1>8. state[s].runner_count \in Nat
    BY DEF RaceInv, TypeOK, Session
  <1>9. /\ TickSnapshot(s).running = Cardinality(A)
        /\ TickSnapshot(s).collapsed = Cardinality(B)
        /\ TickSnapshot(s).finished = Cardinality(C)
    BY DEF TickSnapshot, A, B, C
  <1> QED BY <1>5, <1>6, <1>7, <1>8, <1>9

LEMMA CountsStep == RaceInv /\ Next => RunnersCountedOnce'
  <1> SUFFICES ASSUME RaceInv, Next PROVE RunnersCountedOnce'
    OBVIOUS
  <1> USE DEF engineVars, tickVars, wireVars, runnerVars
  <1>0. TypeOK /\ FieldInv /\ RunnersCountedOnce
    BY DEF RaceInv
  <1>1. ASSUME \A s \in Sim : /\ state'[s].runner_count = state[s].runner_count
                              /\ snapshot'[s] = snapshot[s]
        PROVE RunnersCountedOnce'
    BY <1>0, <1>1 DEF RunnersCountedOnce
  <1>2. CASE UNCHANGED <<state, snapshot>>
    BY <1>1, <1>2
  <1>3. ASSUME NEW s \in Sim, phase[s] \in {"prepare", "spawn"}, UNCHANGED snapshot,
               state'[s].runner_count \in Nat,
               \A t \in Sim : t # s => state'[t] = state[t]
        PROVE RunnersCountedOnce'
    <2>1. snapshot[s] = NoSnapshot
      BY <1>0, <1>3 DEF FieldInv, FieldOf
    <2> QED BY <1>0, <1>3, <2>1 DEF RunnersCountedOnce, NoSnapshot
  <1>4. ASSUME NEW s \in Sim, Prepare(s) PROVE RunnersCountedOnce'
    <2>1. /\ phase[s] = "prepare" /\ UNCHANGED snapshot
          /\ state'[s] \in Session
          /\ \A t \in Sim : t # s => state'[t] = state[t]
      BY <1>0, <1>4, PrepareState DEF Prepare, Step, Others
    <2> QED BY <1>3, <2>1 DEF Session
  <1>5. ASSUME NEW s \in Sim, Spawn(s) PROVE RunnersCountedOnce'
    <2>1. phase[s] = "spawn" /\ UNCHANGED snapshot
      BY <1>5 DEF Spawn, Step
    <2>2. state' \in [Sim -> Session]
      BY <1>0, <1>5, NextTypeOK DEF RaceInv, TypeOK
    <2>3. \A t \in Sim : t # s => state'[t] = state[t]
      BY <1>0, <1>5 DEF Spawn, TypeOK
    <2> QED BY <1>3, <2>1, <2>2, <2>3 DEF Session
  <1>6. ASSUME NEW s \in Sim,
               \/ StartCollector(s, "collect", "start") \/ StartCollector(s, "start", "configure")
        PROVE RunnersCountedOnce'
    BY <1>2, <1>6 DEF StartCollector
  <1>7. ASSUME NEW s \in Sim,
               \/ Configure(s) \/ Iterate(s) \/ CheckRaceComplete(s) \/ CompileResults(s)
        PROVE RunnersCountedOnce'
    BY <1>2, <1>7 DEF Configure, Iterate, CheckRaceComplete, CompileResults
  <1>8. ASSUME NEW s \in Sim, BeginTick(s) PROVE RunnersCountedOnce'
    <2>1. UNCHANGED snapshot
      BY <1>8 DEF BeginTick
    <2> QED BY <1>0, <1>1, <1>8, <2>1, BeginTickState DEF Others
  <1>9. ASSUME NEW s \in Sim, WindowTimeout(s) PROVE RunnersCountedOnce'
    <2>1. Aggregate(s)
      BY <1>9 DEF WindowTimeout
    <2>2. /\ snapshot'[s] = TickSnapshot(s)
          /\ \A t \in Sim : t # s => snapshot'[t] = snapshot[t]
      BY <1>0, <2>1 DEF Aggregate, TypeOK
    <2> QED BY <1>0, <2>1, <2>2, AggregateState, SnapshotCounts DEF RunnersCountedOnce, Others
  <1>10. ASSUME NEW s \in Sim, StopRaceCollector(s) PROVE RunnersCountedOnce'
    <2>1. UNCHANGED snapshot
      BY <1>10 DEF StopRaceCollector
    <2> QED BY <1>0, <1>1, <1>10, <2>1, StopState DEF Others
  <1>11. ASSUME NEW s \in Sim, Drain(s) PROVE RunnersCountedOnce'
    BY <1>2, <1>11 DEF Drain
  <1>12. ASSUME NEW r \in Runner, Subscribe(r) \/ ProcessTick(r) PROVE RunnersCountedOnce'
    BY <1>2, <1>12 DEF Subscribe, ProcessTick
  <1>13. ASSUME NEW m \in events, EventArrives(m) PROVE RunnersCountedOnce'
    BY <1>2, <1>13 DEF EventArrives
  <1> QED BY <1>4, <1>5, <1>6, <1>7, <1>8, <1>9, <1>10, <1>11, <1>12, <1>13, NextCases

LEMMA TelemetryStep == RaceInv /\ Next => TelemetryIsCurrent'
  <1> SUFFICES ASSUME RaceInv, Next PROVE TelemetryIsCurrent'
    OBVIOUS
  <1> USE DEF engineVars, tickVars, wireVars, runnerVars
  <1> DEFINE Had(s, t) == {r \in RunnersOf[s] : t \in handled[r]}
  <1>0. TypeOK /\ TelemetryIsCurrent
    BY DEF RaceInv
  <1>1. \A s \in Sim : RunnersOf[s] \subseteq Runner
    BY RaceAssumption DEF RaceAssumption
  <1>2. CASE UNCHANGED <<snapshot, handled>>
    BY <1>0, <1>2 DEF TelemetryIsCurrent
  <1>3. ASSUME NEW s \in Sim, WindowTimeout(s) PROVE TelemetryIsCurrent'
    <2>1. /\ snapshot'[s] = TickSnapshot(s) /\ UNCHANGED handled
          /\ \A t \in Sim : t # s => snapshot'[t] = snapshot[t]
      BY <1>0, <1>3 DEF WindowTimeout, Aggregate, TypeOK
    <2>2. Cardinality(Reported(s)) <= Cardinality(Had(s, state[s].current_tick))
      <3>1. Reported(s) \subseteq Had(s, state[s].current_tick)
        BY ReportsOfTick
      <3>2. Had(s, state[s].current_tick) \subseteq Runner
        BY <1>1
      <3> HIDE DEF Had
      <3> QED BY <3>1, <3>2, RunnerSets
    <2>3. /\ TickSnapshot(s).reporting = Cardinality(Reported(s))
          /\ TickSnapshot(s).tick = state[s].current_tick
      BY DEF TickSnapshot
    <2> QED BY <1>0, <2>1, <2>2, <2>3 DEF TelemetryIsCurrent
  <1>4. ASSUME NEW r \in Runner, ProcessTick(r) PROVE TelemetryIsCurrent'
    <2>1. UNCHANGED snapshot
      BY <1>4 DEF ProcessTick
    <2>2. \A q \in Runner : handled[q] \subseteq handled'[q]
      BY <1>0, <1>4, ProcessTickFacts DEF RaceInv
    <2>3. ASSUME NEW s \in Sim
          PROVE snapshot'[s].reporting
                  <= Cardinality({q \in RunnersOf[s] : snapshot'[s].tick \in handled'[q]})
      <3> DEFINE A == {q \in RunnersOf[s] : snapshot[s].tick \in handled[q]}
                 B == {q \in RunnersOf[s] : snapshot[s].tick \in handled'[q]}
      <3>1. A \subseteq B /\ B \subseteq Runner
        BY <1>1, <2>2
      <3>2. snapshot[s].reporting <= Cardinality(A) /\ snapshot[s].reporting \in Nat
        BY <1>0 DEF TelemetryIsCurrent, TypeOK, Snapshot
      <3>3. snapshot'[s] = snapshot[s]
        BY <2>1
      <3> HIDE DEF A, B
      <3>4. Cardinality(A) <= Cardinality(B) /\ Cardinality(A) \in Nat /\ Cardinality(B) \in Nat
        BY <3>1, RunnerSets
      <3>5. snapshot[s].reporting <= Cardinality(B)
        BY <3>2, <3>4
      <3> QED BY <3>3, <3>5 DEF B
    <2> QED BY <2>3 DEF TelemetryIsCurrent
  <1>5. ASSUME NEW s \in Sim, Prepare(s) \/ Spawn(s) PROVE TelemetryIsCurrent'
    BY <1>2, <1>5 DEF Prepare, Spawn
  <1>6. ASSUME NEW s \in Sim,
               \/ StartCollector(s, "collect", "start") \/ StartCollector(s, "start", "configure")
        PROVE TelemetryIsCurrent'
    BY <1>2, <1>6 DEF StartCollector
  <1>7. ASSUME NEW s \in Sim,
               \/ Configure(s) \/ Iterate(s) \/ CheckRaceComplete(s) \/ CompileResults(s)
        PROVE TelemetryIsCurrent'
    BY <1>2, <1>7 DEF Configure, Iterate, CheckRaceComplete, CompileResults
  <1>8. ASSUME NEW s \in Sim, BeginTick(s) \/ Drain(s) \/ StopRaceCollector(s)
        PROVE TelemetryIsCurrent'
    BY <1>2, <1>8 DEF BeginTick, Drain, StopRaceCollector
  <1>9. ASSUME NEW r \in Runner, Subscribe(r) PROVE TelemetryIsCurrent'
    BY <1>2, <1>9 DEF Subscribe
  <1>10. ASSUME NEW m \in events, EventArrives(m) PROVE TelemetryIsCurrent'
    BY <1>2, <1>10 DEF EventArrives
  <1> QED BY <1>3, <1>4, <1>5, <1>6, <1>7, <1>8, <1>9, <1>10, NextCases

-----------------------------------------------------------------------------
(* The loop and the results                                                *)

\* The finishers are no more than the runners of the results.
LEMMA FinishersFit ==
  ASSUME TypeOK, FieldInv, OutInv, NEW s \in Sim
  PROVE /\ Cardinality(state[s].finished_runner_ids) \in Nat
        /\ state[s].runner_count \in Nat
        /\ Cardinality(state[s].finished_runner_ids) <= state[s].runner_count
  <1> DEFINE U == spawned \cap RunnersOf[s]
             F == state[s].finished_runner_ids
  <1>1. U \subseteq Runner /\ F \subseteq U /\ state[s].runner_count \in Nat
    BY DEF TypeOK, Session, OutInv
  <1>2. Cardinality(U) <= state[s].runner_count
    BY DEF FieldInv, FieldOf
  <1> HIDE DEF U, F
  <1>3. Cardinality(F) \in Nat /\ Cardinality(U) \in Nat /\ Cardinality(F) <= Cardinality(U)
    BY <1>1, RunnerSets
  <1> QED BY <1>1, <1>2, <1>3 DEF F

LEMMA LoopStep == RaceInv /\ Next => LoopInv'
  <1> SUFFICES ASSUME RaceInv, Next PROVE LoopInv'
    OBVIOUS
  <1> USE DEF engineVars, tickVars, wireVars, runnerVars
  <1>0. TypeOK /\ LoopInv /\ FieldInv /\ OutInv
    BY DEF RaceInv
  <1>1. CASE UNCHANGED <<state, looped, escalate, results, phase, snapshot, maxIterations>>
    BY <1>0, <1>1 DEF LoopInv, LoopOf
  \* The other simulations stay where they are.
  <1>2. ASSUME NEW s \in Sim, NEW from, NEW to, Step(s, from, to), maxIterations' >= 1,
               \A t \in Sim : t # s =>
                 /\ looped'[t] = looped[t] /\ escalate'[t] = escalate[t]
                 /\ results'[t] = results[t] /\ snapshot'[t] = snapshot[t]
                 /\ state'[t] = state[t],
               LoopOf(s)'
        PROVE LoopInv'
    <2>1. ASSUME NEW t \in Sim, t # s PROVE LoopOf(t)'
      BY <1>0, <1>2, <2>1, StepPhase DEF LoopInv, LoopOf
    <2> QED BY <1>2, <2>1 DEF LoopInv
  <1>3. ASSUME NEW s \in Sim, Prepare(s) PROVE LoopInv'
    <2>1. /\ Step(s, "prepare", "spawn")
          /\ UNCHANGED <<looped, escalate, results, snapshot, maxIterations>>
      BY <1>3 DEF Prepare
    <2>2. LoopOf(s)'
      BY <1>0, <2>1, StepPhase DEF LoopInv, LoopOf
    <2> QED BY <1>0, <1>2, <1>3, <2>1, <2>2, PrepareState DEF LoopInv, Others
  <1>4. ASSUME NEW s \in Sim, Spawn(s) PROVE LoopInv'
    <2>1. /\ Step(s, "spawn", "collect")
          /\ UNCHANGED <<looped, escalate, results, snapshot, maxIterations>>
      BY <1>4 DEF Spawn
    <2>2. LoopOf(s)'
      BY <1>0, <2>1, StepPhase DEF LoopInv, LoopOf
    <2>3. \A t \in Sim : t # s => state'[t] = state[t]
      BY <1>0, <1>4 DEF Spawn, TypeOK
    <2> QED BY <1>0, <1>2, <2>1, <2>2, <2>3 DEF LoopInv
  <1>5. ASSUME NEW s \in Sim, NEW to \in {"start", "configure"},
               \E from \in {"collect", "start"} : StartCollector(s, from, to)
        PROVE LoopInv'
    <2>1. PICK from \in {"collect", "start"} :
            /\ Step(s, from, to)
            /\ UNCHANGED <<state, looped, escalate, results, snapshot, maxIterations>>
      BY <1>5 DEF StartCollector
    <2>2. LoopOf(s)'
      BY <1>0, <2>1, StepPhase DEF LoopInv, LoopOf
    <2> QED BY <1>0, <1>2, <2>1, <2>2 DEF LoopInv
  <1>6. ASSUME NEW s \in Sim, Configure(s) PROVE LoopInv'
    <2>1. PICK to \in {"loop", "skipped"} :
            /\ Step(s, "configure", to)
            /\ maxIterations' \in {maxIterations, MaxTicks[s] + 1}
            /\ UNCHANGED <<state, looped, escalate, results, snapshot>>
      BY <1>6 DEF Configure
    <2>2. maxIterations' >= 1
      <3>1. MaxTicks[s] \in Nat
        BY RaceAssumption DEF RaceAssumption
      <3> QED BY <1>0, <2>1, <3>1 DEF LoopInv
    <2>3. LoopOf(s)'
      BY <1>0, <2>1, StepPhase DEF LoopInv, LoopOf
    <2> QED BY <1>0, <1>2, <2>1, <2>2, <2>3
  <1>7. ASSUME NEW s \in Sim, Iterate(s) PROVE LoopInv'
    <2>1. UNCHANGED <<state, looped, escalate, results, snapshot, maxIterations>>
      BY <1>7 DEF Iterate
    <2>2. looped[s] \in Nat /\ maxIterations \in Nat /\ maxIterations >= 1
      BY <1>0 DEF TypeOK, LoopInv
    <2>3. CASE Step(s, "loop", "tick")
      <3>1. LoopOf(s)'
        BY <1>0, <2>1, <2>3, StepPhase DEF LoopInv, LoopOf
      <3> QED BY <1>2, <2>1, <2>2, <2>3, <3>1
    <2>4. CASE Step(s, "loop", "compile") /\ ~(~escalate[s] /\ looped[s] < maxIterations)
      <3>1. looped[s] > 0
        BY <1>0, <2>2, <2>4 DEF LoopInv, LoopOf
      <3>2. LoopOf(s)'
        BY <1>0, <2>1, <2>4, <3>1, StepPhase DEF LoopInv, LoopOf
      <3> QED BY <1>2, <2>1, <2>2, <2>4, <3>2
    <2> QED BY <1>7, <2>3, <2>4 DEF Iterate
  <1>8. ASSUME NEW s \in Sim, BeginTick(s) PROVE LoopInv'
    <2>1. /\ Step(s, "tick", "window")
          /\ UNCHANGED <<looped, escalate, results, snapshot, maxIterations>>
      BY <1>8 DEF BeginTick
    <2>2. LoopOf(s)'
      BY <1>0, <2>1, StepPhase DEF LoopInv, LoopOf
    <2> QED BY <1>0, <1>2, <1>8, <2>1, <2>2, BeginTickState DEF LoopInv, Others
  <1>9. ASSUME NEW s \in Sim, WindowTimeout(s) PROVE LoopInv'
    <2>1. /\ Step(s, "window", "check") /\ Aggregate(s)
          /\ UNCHANGED <<looped, escalate, results, maxIterations>>
          /\ snapshot'[s] = TickSnapshot(s)
          /\ \A t \in Sim : t # s => snapshot'[t] = snapshot[t]
      BY <1>0, <1>9 DEF WindowTimeout, Aggregate, TypeOK
    <2>2. snapshot'[s].finished = Cardinality(state'[s].finished_runner_ids)
      BY <1>0, <2>1, AggregateState DEF TickSnapshot
    <2>3. LoopOf(s)'
      BY <1>0, <2>1, <2>2, StepPhase DEF LoopInv, LoopOf
    <2> QED BY <1>0, <1>2, <2>1, <2>3, AggregateState DEF LoopInv, Others
  <1>10. ASSUME NEW s \in Sim, CheckRaceComplete(s) PROVE LoopInv'
    <2>1. /\ Step(s, "check", "loop")
          /\ UNCHANGED <<state, results, snapshot, maxIterations>>
          /\ looped'[s] = looped[s] + 1 /\ looped[s] \in Nat
          /\ \A t \in Sim : t # s => looped'[t] = looped[t] /\ escalate'[t] = escalate[t]
      BY <1>0, <1>10 DEF CheckRaceComplete, TypeOK
    <2>2. LoopOf(s)'
      BY <1>0, <2>1, StepPhase DEF LoopInv, LoopOf
    <2> QED BY <1>0, <1>2, <2>1, <2>2 DEF LoopInv
  <1>11. ASSUME NEW s \in Sim, CompileResults(s) PROVE LoopInv'
    <2> DEFINE finished == Cardinality(state[s].finished_runner_ids)
               missing  == state[s].runner_count - finished
    <2>1. /\ Step(s, "compile", "stop")
          /\ UNCHANGED <<state, looped, escalate, snapshot, maxIterations>>
          /\ results'[s] = [finished |-> finished, dnf |-> IF missing > 0 THEN missing ELSE 0]
          /\ \A t \in Sim : t # s => results'[t] = results[t]
      BY <1>0, <1>11 DEF CompileResults, TypeOK
    <2>2. finished \in Nat /\ state[s].runner_count \in Nat /\ finished <= state[s].runner_count
      BY <1>0, FinishersFit
    <2>3. /\ results'[s].finished = Cardinality(state'[s].finished_runner_ids)
          /\ results'[s].finished + results'[s].dnf = state'[s].runner_count
      BY <2>1, <2>2
    <2> HIDE DEF finished, missing
    <2>4. LoopOf(s)'
      BY <1>0, <2>1, <2>3, StepPhase DEF LoopInv, LoopOf
    <2> QED BY <1>0, <1>2, <2>1, <2>4 DEF LoopInv
  <1>12. ASSUME NEW s \in Sim, StopRaceCollector(s) PROVE LoopInv'
    <2>1. /\ Step(s, "stop", "done")
          /\ UNCHANGED <<looped, escalate, results, snapshot, maxIterations>>
      BY <1>12 DEF StopRaceCollector
    <2>2. LoopOf(s)'
      BY <1>0, <1>12, <2>1, StepPhase, StopState DEF LoopInv, LoopOf
    <2> QED BY <1>0, <1>2, <1>12, <2>1, <2>2, StopState DEF LoopInv, Others
  <1>13. ASSUME NEW s \in Sim, Drain(s) PROVE LoopInv'
    BY <1>1, <1>13 DEF Drain
  <1>14. ASSUME NEW r \in Runner, Subscribe(r) \/ ProcessTick(r) PROVE LoopInv'
    BY <1>1, <1>14 DEF Subscribe, ProcessTick
  <1>15. ASSUME NEW m \in events, EventArrives(m) PROVE LoopInv'
    BY <1>1, <1>15 DEF EventArrives
  <1> QED BY <1>3, <1>4, <1>5, <1>6, <1>7, <1>8, <1>9, <1>10, <1>11, <1>12, <1>13, <1>14, <1>15,
             NextCases

-----------------------------------------------------------------------------
(* Finishes between two ticks                                              *)

LEMMA RescueStep == RaceInv /\ Next => RescueInv'
  <1> SUFFICES ASSUME RaceInv, Next PROVE RescueInv'
    OBVIOUS
  <1> USE DEF engineVars, tickVars, wireVars, runnerVars
  <1>0. TypeOK /\ RescueInv /\ OrderInv
    BY DEF RaceInv
  <1>1. ASSUME \A s \in Sim :
                 /\ UNCHANGED <<late[s], buffer[s]>>
                 /\ state'[s].finished_runner_ids = state[s].finished_runner_ids
                 /\ phase'[s] = "window" => phase[s] = "window"
                 /\ phase'[s] # "done" => phase[s] # "done"
        PROVE RescueInv'
    BY <1>0, <1>1 DEF RescueInv, RescueOf, Finishers
  <1>2. CASE UNCHANGED <<late, buffer, state, phase>>
    BY <1>1, <1>2
  <1>3. ASSUME UNCHANGED <<late, buffer>>, NEW s \in Sim, NEW from, NEW to, Step(s, from, to),
               from # "done", to # "window",
               \A t \in Sim : state'[t].finished_runner_ids = state[t].finished_runner_ids
        PROVE RescueInv'
    BY <1>0, <1>1, <1>3, StepPhase
  <1>4. ASSUME NEW s \in Sim, Prepare(s) PROVE RescueInv'
    <2>1. UNCHANGED <<late, buffer>> /\ Step(s, "prepare", "spawn")
      BY <1>4 DEF Prepare
    <2> QED BY <1>0, <1>3, <1>4, <2>1, PrepareState DEF Others
  <1>5. ASSUME NEW s \in Sim, Spawn(s) PROVE RescueInv'
    <2>1. UNCHANGED <<late, buffer>> /\ Step(s, "spawn", "collect")
      BY <1>5 DEF Spawn
    <2>2. CASE UNCHANGED state
      BY <1>3, <2>1, <2>2
    <2>3. ASSUME NEW made \in SUBSET RunnersOf[s],
                 state' = [state EXCEPT ![s].runner_session_ids = made,
                                        ![s].runner_count = Cardinality(made)]
          PROVE RescueInv'
      BY <1>0, <1>3, <2>1, <2>3, SpawnState DEF Others
    <2> QED BY <1>5, <2>2, <2>3 DEF Spawn
  <1>6. ASSUME NEW s \in Sim,
               \/ StartCollector(s, "collect", "start") \/ StartCollector(s, "start", "configure")
        PROVE RescueInv'
    BY <1>3, <1>6 DEF StartCollector
  <1>7. ASSUME NEW s \in Sim,
               \/ Configure(s) \/ Iterate(s) \/ CheckRaceComplete(s) \/ CompileResults(s)
        PROVE RescueInv'
    BY <1>3, <1>7 DEF Configure, Iterate, CheckRaceComplete, CompileResults
  <1>8. ASSUME NEW s \in Sim, BeginTick(s) PROVE RescueInv'
    <2>1. /\ phase[s] = "tick" /\ phase'[s] = "window" /\ UNCHANGED late
          /\ \A t \in Sim : t # s => phase'[t] = phase[t] /\ buffer'[t] = buffer[t]
      BY <1>0, <1>8, StepPhase DEF BeginTick, TypeOK
    <2>2. late[s] \subseteq Rescued(s)
      BY <1>0, <2>1 DEF RescueInv, RescueOf, Rescued
    <2>3. RescueOf(s)'
      BY <1>0, <1>8, <2>1, <2>2, BeginTickState DEF RescueOf
    <2>4. ASSUME NEW t \in Sim, t # s PROVE RescueOf(t)'
      BY <1>0, <1>8, <2>1, <2>4, BeginTickState DEF RescueInv, RescueOf, Others, Finishers
    <2> QED BY <2>3, <2>4 DEF RescueInv, RescueOf
  <1>9. ASSUME NEW s \in Sim, Drain(s) PROVE RescueInv'
    <2>1. /\ phase[s] = "window" /\ UNCHANGED <<late, state, phase>>
          /\ \A t \in Sim : t # s => buffer'[t] = buffer[t]
      BY <1>0, <1>9 DEF Drain, TypeOK
    <2> QED BY <1>0, <2>1 DEF RescueInv, RescueOf, Finishers
  <1>10. ASSUME NEW s \in Sim, WindowTimeout(s) PROVE RescueInv'
    <2>1. /\ phase[s] = "window" /\ phase'[s] = "check" /\ Aggregate(s)
          /\ UNCHANGED <<late, buffer>>
          /\ \A t \in Sim : t # s => phase'[t] = phase[t]
      BY <1>0, <1>10, StepPhase DEF WindowTimeout, Aggregate
    <2>2. late[s] \subseteq FinishedNow(s)
      BY <1>0, <2>1 DEF RescueInv, RescueOf, FinishedNow
    <2>3. RescueOf(s)'
      BY <1>0, <2>1, <2>2, AggregateState DEF RescueOf
    <2>4. ASSUME NEW t \in Sim, t # s PROVE RescueOf(t)'
      BY <1>0, <2>1, <2>4, AggregateState DEF RescueInv, RescueOf, Others, Finishers
    <2> QED BY <2>3, <2>4 DEF RescueInv, RescueOf
  <1>11. ASSUME NEW s \in Sim, StopRaceCollector(s) PROVE RescueInv'
    <2>1. /\ phase'[s] = "done" /\ UNCHANGED late
          /\ \A t \in Sim : t # s => phase'[t] = phase[t] /\ buffer'[t] = buffer[t]
      BY <1>0, <1>11, StepPhase DEF StopRaceCollector, TypeOK
    <2> QED BY <1>0, <1>11, <2>1, StopState DEF RescueInv, RescueOf, Others, Finishers
  \* A finish that arrives outside a window is in the list.
  <1>12. ASSUME NEW s \in Sim, NEW m, Arrive(s, m), UNCHANGED <<state, phase>>
         PROVE RescueInv'
    <2>1. ASSUME NEW t \in Sim PROVE RescueOf(t)'
      <3>1. /\ buffer'[t] = IF t = s THEN buffer[t] \cup {m} ELSE buffer[t]
            /\ late'[t] = IF t = s /\ m.status = "finished" /\ phase[t] # "window"
                          THEN late[t] \cup {m.runner} ELSE late[t]
        BY <1>0, <1>12, ArriveAdds
      <3>2. phase[t] # "done" =>
              late'[t] \subseteq state[t].finished_runner_ids \cup Finishers(buffer'[t])
        BY <1>0, <3>1 DEF RescueInv, RescueOf, Finishers
      <3>3. phase[t] = "window" => late'[t] \subseteq state[t].finished_runner_ids
        BY <1>0, <3>1 DEF RescueInv, RescueOf
      <3> QED BY <1>12, <3>2, <3>3 DEF RescueOf, Finishers
    <2> QED BY <2>1 DEF RescueInv, RescueOf
  <1>13. ASSUME NEW r \in Runner, ProcessTick(r) PROVE RescueInv'
    <2>1. PICK s \in Sim, st \in Status : Answer(s, r, st)
      BY <1>0, <1>13, ProcessTickFacts
    <2>2. UNCHANGED <<state, phase>>
      BY <1>13 DEF ProcessTick
    <2> QED BY <1>0, <1>2, <1>12, <2>1, <2>2, AnswerAdds
  <1>14. ASSUME NEW m \in events, EventArrives(m) PROVE RescueInv'
    <2>1. UNCHANGED <<state, phase>>
      BY <1>14 DEF EventArrives
    <2> QED BY <1>2, <1>12, <1>14, <2>1 DEF EventArrives
  <1>15. ASSUME NEW r \in Runner, Subscribe(r) PROVE RescueInv'
    BY <1>2, <1>15 DEF Subscribe
  <1> QED BY <1>4, <1>5, <1>6, <1>7, <1>8, <1>9, <1>10, <1>11, <1>13, <1>14, <1>15, NextCases

-----------------------------------------------------------------------------
(* The theorems                                                            *)

LEMMA InitRaceInv == Init => RaceInv
  <1> SUFFICES ASSUME Init PROVE RaceInv
    OBVIOUS
  <1>1. TypeOK
    BY InitTypeOK
  <1>2. Wire = {} /\ \A s \in Sim : buffer[s] = {} /\ messages[s] = {}
    BY DEF Init, Wire
  <1>3. WireInv /\ LocatedInv
    BY <1>2 DEF WireInv, LocatedInv
  <1>4. \A r \in Runner : inbox[r] = <<>> /\ handled[r] = {}
    BY DEF Init
  <1>5. OrderInv
    BY <1>4 DEF OrderInv
  <1>6. TickInv
    <2>1. \A s \in Sim : RunnersOf[s] \subseteq Runner
      BY RaceAssumption DEF RaceAssumption
    <2> QED BY <1>4, <2>1 DEF TickInv
  <1>7. FieldInv
    <2>1. Cardinality({}) = 0
      BY FS_EmptySet
    <2> QED BY <2>1 DEF Init, FieldInv, FieldOf, NewSession
  <1>8. ActiveInv /\ OutInv
    BY DEF Init, ActiveInv, OutInv, NewSession
  <1>9. LoopInv
    BY DEF Init, LoopInv, LoopOf
  <1>10. RescueInv
    BY DEF Init, RescueInv, RescueOf
  <1>11. TelemetryIsCurrent
    <2>1. ASSUME NEW s \in Sim, NEW B \in SUBSET RunnersOf[s]
          PROVE Cardinality(B) \in Nat
      BY RaceAssumption, RunnerSets DEF RaceAssumption
    <2>2. \A s \in Sim : snapshot[s].reporting = 0
      BY DEF Init, NoSnapshot
    <2> QED BY <2>1, <2>2 DEF TelemetryIsCurrent
  <1>12. RunnersCountedOnce
    BY DEF Init, RunnersCountedOnce, NoSnapshot, NewSession
  <1> QED BY <1>1, <1>3, <1>5, <1>6, <1>7, <1>8, <1>9, <1>10, <1>11, <1>12 DEF RaceInv

LEMMA NextRaceInv == RaceInv /\ [Next]_vars => RaceInv'
  <1> SUFFICES ASSUME RaceInv, [Next]_vars PROVE RaceInv'
    OBVIOUS
  <1>1. TypeOK'
    BY NextTypeOK DEF RaceInv
  <1>2. CASE Next
    BY <1>1, <1>2, WireStep, LocatedStep, OrderStep, TickStep, FieldStep, ActiveStep, OutStep,
       LoopStep, RescueStep, TelemetryStep, CountsStep DEF RaceInv
  <1>3. CASE UNCHANGED vars
    <2> USE <1>3 DEF vars, engineVars, tickVars, wireVars, runnerVars, RaceInv
    <2>1. WireInv' /\ LocatedInv' /\ OrderInv'
      BY DEF WireInv, Wire, LocatedInv, OrderInv
    <2>2. TickInv' /\ FieldInv' /\ ActiveInv' /\ OutInv'
      BY DEF TickInv, Reached, FieldInv, FieldOf, ActiveInv, OutInv
    <2>3. LoopInv' /\ RescueInv'
      BY DEF LoopInv, LoopOf, RescueInv, RescueOf, Finishers
    <2>4. TelemetryIsCurrent' /\ RunnersCountedOnce'
      BY DEF TelemetryIsCurrent, RunnersCountedOnce
    <2> QED BY <1>1, <2>1, <2>2, <2>3, <2>4
  <1> QED BY <1>2, <1>3

\* The inductive invariant of the race: what is on its way, what the ticks have
\* reached and what the session states have counted agree.
THEOREM RaceInvariant == Spec => []RaceInv
  <1> QED BY InitRaceInv, NextRaceInv, PTL DEF Spec

\* advance_tick never counts a runner as finished or collapsed that is not.
THEOREM FinishersReal == Spec => []FinishersAreReal
  <1>1. RaceInv => FinishersAreReal
    BY DEF RaceInv, OutInv, FinishersAreReal
  <1> QED BY <1>1, RaceInvariant, PTL

\* The telemetry of a snapshot comes from runners that have processed the tick.
THEOREM TelemetryCurrent == Spec => []TelemetryIsCurrent
  <1>1. RaceInv => TelemetryIsCurrent
    BY DEF RaceInv
  <1> QED BY <1>1, RaceInvariant, PTL

\* The counts of a snapshot never exceed the field.
THEOREM CountedOnce == Spec => []RunnersCountedOnce
  <1>1. RaceInv => RunnersCountedOnce
    BY DEF RaceInv
  <1> QED BY <1>1, RaceInvariant, PTL

\* Comparing the numbers is enough to know that all active runners reported.
THEOREM EarlyWakeSound == Spec => []EarlyWakeMeansAll
  <1>1. ASSUME RaceInv, NEW s \in Sim, phase[s] = "window",
               Cardinality(Reported(s)) >= Cardinality(active[s])
        PROVE active[s] \subseteq Reported(s)
    <2>1. /\ active[s] = state[s].runner_session_ids
                           \ (state[s].finished_runner_ids \cup state[s].collapsed_runner_ids)
          /\ state[s].runner_session_ids \in {{}, spawned \cap RunnersOf[s]}
      BY <1>1 DEF RaceInv, ActiveInv, FieldInv, FieldOf
    <2>2. CASE state[s].runner_session_ids = {}
      BY <2>1, <2>2
    <2>3. CASE state[s].runner_session_ids = spawned \cap RunnersOf[s]
      <3>1. Reported(s) \subseteq active[s]
        BY <1>1, <2>1, <2>3, ReportsOfTick
      <3>2. active[s] \subseteq Runner
        BY <1>1 DEF RaceInv, TypeOK
      <3>3. /\ Cardinality(active[s]) \in Nat /\ Cardinality(Reported(s)) \in Nat
            /\ Cardinality(Reported(s)) <= Cardinality(active[s])
        BY <3>1, <3>2, RunnerSets
      <3>4. Cardinality(active[s]) = Cardinality(Reported(s))
        BY <1>1, <3>3
      <3> QED BY <3>1, <3>2, <3>4, RunnerSets
    <2> QED BY <2>1, <2>2, <2>3
  <1>2. RaceInv => EarlyWakeMeansAll
    BY <1>1 DEF EarlyWakeMeansAll
  <1> QED BY <1>2, RaceInvariant, PTL

\* compile_results agrees with the last snapshot and accounts for the field.
THEOREM ResultsSound == Spec => []ResultsAgree
  <1>1. RaceInv => ResultsAgree
    BY DEF RaceInv, LoopInv, LoopOf, ResultsAgree
  <1> QED BY <1>1, RaceInvariant, PTL

\* The stale drain of advance_tick keeps every finish that came before it.
THEOREM FinishRescued == Spec => []FinishIsRescued
  <1>1. RaceInv => FinishIsRescued
    BY DEF RaceInv, RescueInv, RescueOf, FinishIsRescued
  <1> QED BY <1>1, RaceInvariant, PTL

\* advance_tick and the drain before it record the finishers there are.
THEOREM FinishersTrue == Spec => []FinishersAreTrue
  <1>1. FinishersAreReal /\ FinishIsRescued <=> FinishersAreTrue
    BY DEF FinishersAreTrue
  <1> QED BY <1>1, FinishersReal, FinishRescued, PTL

\* The counts of a snapshot are sound: current, without doubles, and complete
\* when the window is closed early.
THEOREM CountsTrue == Spec => []CountsAreTrue
  <1>1. TelemetryIsCurrent /\ RunnersCountedOnce /\ EarlyWakeMeansAll <=> CountsAreTrue
    BY DEF CountsAreTrue
  <1> QED BY <1>1, TelemetryCurrent, CountedOnce, EarlyWakeSound, PTL
=============================================================================
