------------------------------ MODULE RaceEngine ------------------------------
(***************************************************************************)
(* The simulator's pipeline (agents/simulator): pre-race setup, the race   *)
(* engine's tick loop, post-race results, and the runners that answer the  *)
(* ticks.                                                                  *)
(*                                                                         *)
(* Several simulations run in one simulator process. Each has its own      *)
(* session state and its own Redis list of telemetry, but the race engine  *)
(* is one module-level LoopAgent: they share race_engine.max_iterations.   *)
(*                                                                         *)
(* A tick is a broadcast followed by a window in which the collector's     *)
(* Redis list is drained until all active runners have reported or time is *)
(* up. A runner's result reaches the list twice, by its own RPUSH and as a *)
(* gateway event that the collector's PubSub loop copies; either may be    *)
(* late or lost. Code between two awaits is one step.                      *)
(***************************************************************************)
EXTENDS Integers, Sequences, FiniteSets

CONSTANTS
  Sim,       \* simulations
  Runner,    \* runner sessions
  RunnersOf, \* the runners the plan of each simulation asks for
  MaxTicks,  \* duration_seconds // tick_interval_seconds of each plan
  Faults,    \* bound: what may go wrong around the pipeline
  InFlight   \* bound: events of one runner on their way at a time

ASSUME RaceAssumption ==
  /\ IsFiniteSet(Runner)
  /\ RunnersOf \in [Sim -> SUBSET Runner]
  /\ \A s, t \in Sim : s # t => RunnersOf[s] \cap RunnersOf[t] = {}
  /\ MaxTicks \in [Sim -> Nat]
  /\ Faults \subseteq {"plan", "spawn", "collector", "broadcast", "rpush", "event"}

Status  == {"running", "finished", "collapsed"}
Message == [runner : Runner, tick : Nat, status : Status, via : {"rpush", "event"}]

VARIABLES
  phase,         \* simulation -> where its pipeline stands
  maxIterations, \* race_engine.max_iterations, shared
  looped,        \* simulation -> times_looped of its LoopAgent run
  escalate,      \* simulation -> actions.escalate of the last iteration
  state,         \* simulation -> its session state
  active,        \* simulation -> active_runner_ids of the tick
  messages,      \* simulation -> messages drained in the tick's window
  snapshot,      \* simulation -> the last entry of tick_snapshots
  results,       \* simulation -> what compile_results returned
  collecting,    \* simulations whose _collect_loop runs
  buffer,        \* simulation -> its Redis list collector:buffer:{id}
  events,        \* runner results on their way through gateway:broadcast
  spawned,       \* runners the gateway has made
  subscribed,    \* runners whose dispatcher listens to the simulation
  inbox,         \* runner -> tick events it has not handled yet
  status,        \* runner -> its own state
  handled,       \* history: runner -> the ticks it has processed
  late           \* history: simulation -> the finishers whose result reached
                 \* the collector while no window was open

engineVars == <<phase, maxIterations, looped, escalate>>
tickVars   == <<state, active, messages, snapshot, results>>
wireVars   == <<collecting, buffer, events, spawned, subscribed, inbox>>
runnerVars == <<status, handled, late>>
vars       == <<engineVars, tickVars, wireVars, runnerVars>>

NoSnapshot == [tick |-> -1, reporting |-> 0, running |-> 0, collapsed |-> 0, finished |-> 0]
NoResults  == [finished |-> -1, dnf |-> -1]
NewSession ==
  [simulation_ready |-> FALSE, current_tick |-> 0, runner_session_ids |-> {},
   runner_count |-> 0, finished_runner_ids |-> {}, collapsed_runner_ids |-> {}]

Init ==
  /\ phase = [s \in Sim |-> "prepare"]
  /\ maxIterations = 200
  /\ looped = [s \in Sim |-> 0]
  /\ escalate = [s \in Sim |-> FALSE]
  /\ state = [s \in Sim |-> NewSession]
  /\ active = [s \in Sim |-> {}]
  /\ messages = [s \in Sim |-> {}]
  /\ snapshot = [s \in Sim |-> NoSnapshot]
  /\ results = [s \in Sim |-> NoResults]
  /\ collecting = {}
  /\ buffer = [s \in Sim |-> {}]
  /\ events = {}
  /\ spawned = {}
  /\ subscribed = {}
  /\ inbox = [r \in Runner |-> <<>>]
  /\ status = [r \in Runner |-> "running"]
  /\ handled = [r \in Runner |-> {}]
  /\ late = [s \in Sim |-> {}]

Step(s, from, to) == phase[s] = from /\ phase' = [phase EXCEPT ![s] = to]

-----------------------------------------------------------------------------
(* Pre-race: pre_race_callback calls the four tools in order, whatever the *)
(* previous one returned.                                                  *)

\* prepare_simulation accepts the plan or returns an error (bad JSON, corrupt
\* route).
Prepare(s) ==
  /\ Step(s, "prepare", "spawn")
  /\ \/ "plan" \in Faults /\ UNCHANGED state
     \/ state' = [state EXCEPT ![s].simulation_ready = TRUE,
                               ![s].current_tick = 0,
                               ![s].runner_count = Cardinality(RunnersOf[s])]
  /\ UNCHANGED <<maxIterations, looped, escalate, active, messages, snapshot, results,
                 wireVars, runnerVars>>

\* spawn_runners posts to the gateway, which may make fewer runners than
\* asked (it has a cap of its own). Nothing is stored when the request fails
\* or its answer is lost.
Spawn(s) ==
  /\ Step(s, "spawn", "collect")
  /\ \/ (~state[s].simulation_ready \/ "spawn" \in Faults) /\ UNCHANGED <<state, spawned>>
     \/ /\ state[s].simulation_ready
        /\ \E made \in SUBSET RunnersOf[s] \ {{}} :
             /\ made = RunnersOf[s] \/ "spawn" \in Faults
             /\ spawned' = spawned \cup made
             /\ \/ "spawn" \in Faults /\ UNCHANGED state
                \/ state' = [state EXCEPT ![s].runner_session_ids = made,
                                          ![s].runner_count = Cardinality(made)]
  /\ UNCHANGED <<maxIterations, looped, escalate, active, messages, snapshot, results,
                 collecting, buffer, events, subscribed, inbox, runnerVars>>

\* start_race_collector and, for a collector that does not run yet,
\* fire_start_gun start the PubSub loop; either may fail to. The start gun
\* waits for the runners to be registered, but for 60 seconds only.
StartCollector(s, from, to) ==
  /\ Step(s, from, to)
  /\ \/ /\ state[s].runner_session_ids = {} \/ "collector" \in Faults
        /\ UNCHANGED collecting
     \/ /\ state[s].runner_session_ids # {}
        /\ collecting' = collecting \cup {s}
  /\ UNCHANGED <<maxIterations, looped, escalate, tickVars, buffer, events, spawned,
                 subscribed, inbox, runnerVars>>

StartRaceCollector(s) == StartCollector(s, "collect", "start")
FireStartGun(s)       == StartCollector(s, "start", "configure")

-----------------------------------------------------------------------------
(* The race engine                                                         *)

\* _configure_race_engine, the before_agent_callback of the shared LoopAgent.
Configure(s) ==
  /\ \/ /\ state[s].simulation_ready
        /\ Step(s, "configure", "loop")
        /\ maxIterations' = MaxTicks[s] + 1
     \/ /\ ~state[s].simulation_ready
        /\ Step(s, "configure", "skipped")
        /\ UNCHANGED maxIterations
  /\ UNCHANGED <<looped, escalate, tickVars, wireVars, runnerVars>>

\* The while condition of the LoopAgent.
Iterate(s) ==
  /\ IF ~escalate[s] /\ looped[s] < maxIterations
     THEN Step(s, "loop", "tick") ELSE Step(s, "loop", "compile")
  /\ UNCHANGED <<maxIterations, looped, escalate, tickVars, wireVars, runnerVars>>

\* Slip: any stale result makes a finisher.
FinishersAnyStatus(ms) == {m.runner : m \in ms}

Finishers(ms) == {m.runner : m \in {n \in ms : n.status = "finished"}}

\* The finishers known when a tick begins: stale messages are drained, but a
\* finish among them is kept.
Rescued(s) == state[s].finished_runner_ids \cup Finishers(buffer[s])

\* advance_tick up to its broadcast: drain what is left of earlier ticks, then
\* send the tick to the runners that still race. The broadcast reaches the
\* dispatchers that listen, or some of them.
BeginTick(s) ==
  LET excluded == Rescued(s) \cup state[s].collapsed_runner_ids IN
  /\ Step(s, "tick", "window")
  /\ state' = [state EXCEPT ![s].finished_runner_ids = Rescued(s)]
  /\ active' = [active EXCEPT ![s] = state[s].runner_session_ids \ excluded]
  /\ buffer' = [buffer EXCEPT ![s] = {}]
  /\ \E reached \in SUBSET ((subscribed \cap RunnersOf[s]) \ excluded) :
       /\ reached = (subscribed \cap RunnersOf[s]) \ excluded \/ "broadcast" \in Faults
       /\ inbox' = [r \in Runner |-> IF r \in reached
                                     THEN Append(inbox[r], state[s].current_tick) ELSE inbox[r]]
  /\ UNCHANGED <<maxIterations, looped, escalate, messages, snapshot, results, collecting,
                 events, spawned, subscribed, runnerVars>>

\* One drain of the window, every 200 ms and then at each poll.
Drain(s) ==
  /\ phase[s] = "window"
  /\ buffer[s] # {}
  /\ messages' = [messages EXCEPT ![s] = @ \cup buffer[s]]
  /\ buffer' = [buffer EXCEPT ![s] = {}]
  /\ UNCHANGED <<engineVars, state, active, snapshot, results, collecting, events,
                 spawned, subscribed, inbox, runnerVars>>

\* Slip: results of earlier ticks count for this one.
CurrentOrStale(s) == messages[s]

\* The messages of this tick; the others are stale.
Current(s) == {m \in messages[s] : m.tick = state[s].current_tick}

Reported(s) == {m.runner : m \in Current(s)}

\* The runners whose report of this tick has status st.
Reporting(s, st) == {r \in Reported(s) : \E m \in Current(s) : m.runner = r /\ m.status = st}
FinishedNow(s) == state[s].finished_runner_ids \cup Reporting(s, "finished")

\* Each reporting runner is counted once, the finishers of all ticks.
TickSnapshot(s) ==
  [tick |-> state[s].current_tick,
   reporting |-> Cardinality(Reported(s)),
   running |-> Cardinality(Reporting(s, "running")),
   collapsed |-> Cardinality(Reporting(s, "collapsed")),
   finished |-> Cardinality(FinishedNow(s))]

\* Slip: the finishers of the tick are reported but not remembered.
AggregateForgets(s) ==
  /\ state' = [state EXCEPT ![s].collapsed_runner_ids = @ \cup Reporting(s, "collapsed"),
                            ![s].current_tick = @ + 1]
  /\ snapshot' = [snapshot EXCEPT ![s] = TickSnapshot(s)]
  /\ messages' = [messages EXCEPT ![s] = {}]
  /\ active' = [active EXCEPT ![s] = {}]
  /\ UNCHANGED <<maxIterations, looped, escalate, results, wireVars, runnerVars>>

\* The rest of advance_tick: remember who finished or collapsed, append the
\* snapshot and move to the next tick.
Aggregate(s) ==
  /\ state' = [state EXCEPT ![s].finished_runner_ids = FinishedNow(s),
                            ![s].collapsed_runner_ids = @ \cup Reporting(s, "collapsed"),
                            ![s].current_tick = @ + 1]
  /\ snapshot' = [snapshot EXCEPT ![s] = TickSnapshot(s)]
  /\ messages' = [messages EXCEPT ![s] = {}]
  /\ active' = [active EXCEPT ![s] = {}]
  /\ UNCHANGED <<maxIterations, looped, escalate, results, wireVars, runnerVars>>

\* The window ends when as many runners have reported as are active ...
AllReported(s) ==
  /\ Step(s, "window", "check")
  /\ Cardinality(Reported(s)) >= Cardinality(active[s])
  /\ Aggregate(s)

\* Slip: without max_collection_seconds the poll waits for a first report.
WindowTimeoutWaits(s) ==
  /\ Step(s, "window", "check")
  /\ Reported(s) # {}
  /\ Aggregate(s)

\* ... or when the interval and max_collection_seconds are over.
WindowTimeout(s) ==
  /\ Step(s, "window", "check")
  /\ Aggregate(s)

Complete(s) == state[s].current_tick >= MaxTicks[s]

\* check_race_complete, and the end of the iteration.
CheckRaceComplete(s) ==
  /\ Step(s, "check", "loop")
  /\ escalate' = [escalate EXCEPT ![s] = Complete(s)]
  /\ looped' = [looped EXCEPT ![s] = @ + 1]
  /\ UNCHANGED <<maxIterations, tickVars, wireVars, runnerVars>>

-----------------------------------------------------------------------------
(* Post-race: compile_results, then stop_race_collector                    *)

CompileResults(s) ==
  LET finished == Cardinality(state[s].finished_runner_ids)
      missing  == state[s].runner_count - finished IN
  /\ Step(s, "compile", "stop")
  /\ results' = [results EXCEPT ![s] =
       [finished |-> finished, dnf |-> IF missing > 0 THEN missing ELSE 0]]
  /\ UNCHANGED <<maxIterations, looped, escalate, state, active, messages, snapshot,
                 wireVars, runnerVars>>

\* Stop the PubSub loop, delete the list and tell the dispatchers to forget
\* the runners.
StopRaceCollector(s) ==
  /\ Step(s, "stop", "done")
  /\ collecting' = collecting \ {s}
  /\ buffer' = [buffer EXCEPT ![s] = {}]
  /\ subscribed' = subscribed \ RunnersOf[s]
  /\ state' = [state EXCEPT ![s].simulation_ready = FALSE]
  /\ UNCHANGED <<maxIterations, looped, escalate, active, messages, snapshot, results,
                 events, spawned, inbox, runnerVars>>

-----------------------------------------------------------------------------
(* Runners                                                                 *)

\* The dispatcher takes the spawn event of a runner and subscribes.
Subscribe(r) ==
  /\ r \in spawned \ subscribed
  /\ \E s \in Sim : r \in RunnersOf[s] /\ phase[s] # "done"
  /\ subscribed' = subscribed \cup {r}
  /\ UNCHANGED <<engineVars, tickVars, collecting, buffer, events, spawned, inbox, runnerVars>>

\* A result arrives in the list of the runner's simulation.
Arrive(s, m) ==
  /\ buffer' = [buffer EXCEPT ![s] = @ \cup {m}]
  /\ late' = IF m.status = "finished" /\ phase[s] # "window"
             THEN [late EXCEPT ![s] = @ \cup {m.runner}] ELSE late

\* process_tick. A runner that has finished or collapsed reports again but
\* writes nothing itself; tick 0 moves nobody. The RPUSH may fail; the event
\* for the gateway goes out when the tool returns.
Outcomes(r, t) ==
  IF status[r] # "running" THEN {status[r]}
  ELSE IF t = 0 THEN {"running"} ELSE Status

Result(r, st, via) == [runner |-> r, tick |-> Head(inbox[r]), status |-> st, via |-> via]

Answer(s, r, st) ==
  /\ status' = [status EXCEPT ![r] = st]
  /\ events' = events \cup {Result(r, st, "event")}
  /\ \/ status[r] = "running" /\ Arrive(s, Result(r, st, "rpush"))
     \/ /\ status[r] # "running" \/ "rpush" \in Faults
        /\ UNCHANGED <<buffer, late>>

ProcessTick(r) ==
  /\ inbox[r] # <<>>
  /\ Cardinality({m \in events : m.runner = r}) < InFlight
  /\ inbox' = [inbox EXCEPT ![r] = Tail(@)]
  /\ handled' = [handled EXCEPT ![r] = @ \cup {Head(inbox[r])}]
  /\ \E st \in Outcomes(r, Head(inbox[r])), s \in Sim : r \in RunnersOf[s] /\ Answer(s, r, st)
  /\ UNCHANGED <<engineVars, tickVars, collecting, spawned, subscribed>>

\* _collect_loop copies the event of one of its runners. Without a loop, or
\* on a lost connection, the event is gone.
Collects(s, m) == s \in collecting /\ m.runner \in state[s].runner_session_ids

EventArrives(m) ==
  /\ m \in events
  /\ events' = events \ {m}
  /\ \/ \E s \in Sim : Collects(s, m) /\ Arrive(s, m)
     \/ /\ "event" \in Faults \/ \A s \in Sim : ~Collects(s, m)
        /\ UNCHANGED <<buffer, late>>
  /\ UNCHANGED <<engineVars, tickVars, collecting, spawned, subscribed, inbox, status, handled>>

-----------------------------------------------------------------------------
PreRace(s)  == Prepare(s) \/ Spawn(s) \/ StartRaceCollector(s) \/ FireStartGun(s)
Race(s)     == \/ Configure(s) \/ Iterate(s) \/ BeginTick(s) \/ Drain(s)
               \/ AllReported(s) \/ WindowTimeout(s) \/ CheckRaceComplete(s)
PostRace(s) == CompileResults(s) \/ StopRaceCollector(s)

Next ==
  \/ \E s \in Sim : PreRace(s) \/ Race(s) \/ PostRace(s)
  \/ \E r \in Runner : Subscribe(r) \/ ProcessTick(r)
  \/ \E m \in events : EventArrives(m)

Spec == Init /\ [][Next]_vars

\* The simulator's coroutines keep running and its clock advances; nothing is
\* assumed of the runners.
Fairness ==
  \A s \in Sim :
    /\ WF_vars(PreRace(s)) /\ WF_vars(PostRace(s))
    /\ WF_vars(Configure(s) \/ Iterate(s) \/ BeginTick(s) \/ CheckRaceComplete(s))
    /\ WF_vars(WindowTimeout(s))

FairSpec == Spec /\ Fairness

-----------------------------------------------------------------------------
(* Type invariant                                                          *)

Phases == {"prepare", "spawn", "collect", "start", "configure", "skipped", "loop", "tick",
           "window", "check", "compile", "stop", "done"}
Session ==
  [simulation_ready : BOOLEAN, current_tick : Nat, runner_session_ids : SUBSET Runner,
   runner_count : Nat, finished_runner_ids : SUBSET Runner, collapsed_runner_ids : SUBSET Runner]
Snapshot ==
  [tick : Nat \cup {-1}, reporting : Nat, running : Nat, collapsed : Nat, finished : Nat]

TypeOK ==
  /\ phase \in [Sim -> Phases]
  /\ maxIterations \in Nat
  /\ looped \in [Sim -> Nat]
  /\ escalate \in [Sim -> BOOLEAN]
  /\ state \in [Sim -> Session]
  /\ active \in [Sim -> SUBSET Runner]
  /\ messages \in [Sim -> SUBSET Message]
  /\ snapshot \in [Sim -> Snapshot]
  /\ results \in [Sim -> [finished : Nat \cup {-1}, dnf : Nat \cup {-1}]]
  /\ collecting \in SUBSET Sim
  /\ buffer \in [Sim -> SUBSET Message]
  /\ events \in SUBSET Message
  /\ spawned \in SUBSET Runner
  /\ subscribed \in SUBSET spawned
  /\ inbox \in [Runner -> Seq(Nat)]
  /\ status \in [Runner -> Status]
  /\ handled \in [Runner -> SUBSET Nat]
  /\ late \in [Sim -> SUBSET Runner]

-----------------------------------------------------------------------------
(* Safety                                                                  *)

\* Whoever the engine counts out of the race did finish or collapse, in this
\* race and not both: stale, duplicated and late results of any order never
\* make a finisher.
FinishersAreReal ==
  \A s \in Sim :
    /\ state[s].finished_runner_ids \subseteq {r \in RunnersOf[s] : status[r] = "finished"}
    /\ state[s].collapsed_runner_ids \subseteq {r \in RunnersOf[s] : status[r] = "collapsed"}

\* The telemetry of a tick comes from runners that have processed that very
\* tick.
TelemetryIsCurrent ==
  \A s \in Sim :
    snapshot[s].reporting <= Cardinality({r \in RunnersOf[s] : snapshot[s].tick \in handled[r]})

\* status_counts never counts a runner twice, although it adds the finishers
\* of all ticks to the reports of one.
RunnersCountedOnce ==
  \A s \in Sim :
    snapshot[s].running + snapshot[s].collapsed + snapshot[s].finished <= state[s].runner_count

\* advance_tick compares two numbers, but when it stops waiting for them all
\* active runners have reported.
EarlyWakeMeansAll ==
  \A s \in Sim :
    phase[s] = "window" /\ Cardinality(Reported(s)) >= Cardinality(active[s])
      => active[s] \subseteq Reported(s)

\* The final results agree with the last snapshot and with the field.
ResultsAgree ==
  \A s \in Sim : phase[s] \in {"stop", "done"} =>
    /\ results[s].finished = snapshot[s].finished
    /\ results[s].finished + results[s].dnf = state[s].runner_count

\* A finish that reaches the collector between two ticks counts from the next
\* tick on.
FinishIsRescued == \A s \in Sim : phase[s] = "window" => late[s] \subseteq state[s].finished_runner_ids

\* No finisher is made up, and none that reported between two ticks is lost.
FinishersAreTrue == FinishersAreReal /\ FinishIsRescued

\* The counts of a tick are those of its own reports, once for each runner,
\* and of all runners when the window closes early.
CountsAreTrue == TelemetryIsCurrent /\ RunnersCountedOnce /\ EarlyWakeMeansAll

\* The race runs all its ticks (one if the plan asks for none).
RunsAllTicks ==
  \A s \in Sim : phase[s] \in {"compile", "stop", "done"} =>
    state[s].current_tick = IF MaxTicks[s] = 0 THEN 1 ELSE MaxTicks[s]

-----------------------------------------------------------------------------
(* Liveness                                                                *)

\* Every pipeline ends, whatever the gateway and the runners do.
PipelineEnds == \A s \in Sim : <>(phase[s] \in {"done", "skipped"})

\* And a race that ends has run to its end.
RacesAreRun == PipelineEnds /\ []RunsAllTicks
=============================================================================
