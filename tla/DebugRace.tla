------------------------------ MODULE DebugRace ------------------------------
(***************************************************************************)
(* The race the app runs without a backend: it sends the view the events a *)
(* simulation would send.  Starting it sets two timers that nobody holds;  *)
(* the first starts the interval of ticks, whose last handle is held.      *)
(*                                                                         *)
(* Distances are in fifths of a mile, water in ten-thousandths of a per    *)
(* cent.                                                                   *)
(***************************************************************************)
EXTENDS Integers, Sequences, FiniteSets, FiniteSetsExt

CONSTANTS
    Counts,     \* sizes of a race
    Steps,      \* how far a runner gets in a tick, by its speed and the race's
    MaxRaces    \* bound: races started

VARIABLES
    running, states,    \* _running, _states: runners of the race
    early, late,        \* timers of 500 and of 1500 ms that are pending
    ticking, held,      \* intervals that tick, and whether _tickTimer holds the last
    race,               \* races started
    finished,           \* races whose end was reported, in that order
    listed              \* simRunnerGuids of the HUD

debugVars == <<running, states, early, late, ticking, held, race, finished, listed>>

Marathon == 131
Mile == 5
Full == 1000000
Depletion == 4828       \* 2.414 per mile
Rehydrate == 300000
RehydrateBelow == 600000
ExhaustedBelow == 300000

-----------------------------------------------------------------------------
(* One tick of one runner. *)

Smaller(a, b) == IF a < b THEN a ELSE b

(* Every third mile passed has a station; who is thirsty drinks.  (A marathon
   without a drop costs 63 per cent: nobody is ever exhausted.) *)
Drunk(water, from, to) ==
    LET passed == {mi \in (from \div Mile) + 1 .. to \div Mile : mi % 3 = 0}
        after[n \in 0 .. 8] ==
            IF n = 0 THEN water
            ELSE IF after[n - 1] < RehydrateBelow
                 THEN Smaller(Full, after[n - 1] + Rehydrate) ELSE after[n - 1]
    IN  after[Cardinality(passed)]

Moved(r) ==
    LET to == Smaller(Marathon, r.at + r.step)
        spent == r.water - (to - r.at) * Depletion
        water == Drunk(IF spent < 0 THEN 0 ELSE spent, r.at, to)
    IN  IF r.finished THEN r
        ELSE [at |-> to, water |-> water, finished |-> to = Marathon,
              step |-> IF water < ExhaustedBelow /\ r.step > 1 THEN r.step \div 2 ELSE r.step]

-----------------------------------------------------------------------------
(* stopDebugRace: the interval it holds, and no timer. *)
Stopped ==
    /\ running' = FALSE /\ states' = <<>>
    /\ ticking' = IF held THEN ticking - 1 ELSE ticking
    /\ held' = FALSE

(* startDebugRace, by the HUD, the start camera or the automatic capture; the
   HUD lists the runners it hears of. *)
Start(speeds) ==
    /\ race < MaxRaces
    /\ race' = race + 1
    /\ running' = TRUE
    /\ states' = [i \in DOMAIN speeds |-> [at |-> 0, water |-> Full, finished |-> FALSE,
                                           step |-> speeds[i]]]
    /\ ticking' = IF held THEN ticking - 1 ELSE ticking
    /\ held' = FALSE
    /\ early' = early + 1 /\ late' = late + 1
    /\ listed' = listed \cup {<<race', i>> : i \in DOMAIN speeds}
    /\ UNCHANGED finished

(* The first timer, of whichever race: another interval. *)
EarlyTimer ==
    /\ early > 0 /\ early' = early - 1
    /\ ticking' = IF running THEN ticking + 1 ELSE ticking
    /\ held' = (held \/ running)
    /\ UNCHANGED <<running, states, late, race, finished, listed>>

(* The second: sim:raceStarted, which the view answers. *)
LateTimer ==
    /\ late > 0 /\ late' = late - 1
    /\ UNCHANGED <<running, states, early, ticking, held, race, finished, listed>>

(* Slip: a tick does not ask whether the race runs. *)
TickAnyhow ==
    /\ ticking > 0
    /\ LET moved == [i \in DOMAIN states |-> Moved(states[i])] IN
       IF \A i \in DOMAIN moved : moved[i].finished
       THEN /\ Stopped
            /\ finished' = Append(finished, race)
            /\ listed' = {}
       ELSE /\ states' = moved
            /\ UNCHANGED <<running, ticking, held, finished, listed>>
    /\ UNCHANGED <<early, late, race>>

(* tick, of any interval: when all have finished, or there is nobody, the end
   is reported and the race stops; the HUD forgets the runners. *)
Tick ==
    /\ ticking > 0 /\ running
    /\ LET moved == [i \in DOMAIN states |-> Moved(states[i])] IN
       IF \A i \in DOMAIN moved : moved[i].finished
       THEN /\ Stopped
            /\ finished' = Append(finished, race)
            /\ listed' = {}
       ELSE /\ states' = moved
            /\ UNCHANGED <<running, ticking, held, finished, listed>>
    /\ UNCHANGED <<early, late, race>>

(* sim:reset: the view and the HUD both stop the race, and the HUD has its
   runners removed. *)
Reset ==
    /\ running \/ listed # {}
    /\ Stopped /\ listed' = {}
    /\ UNCHANGED <<early, late, race, finished>>

Init ==
    /\ running = FALSE /\ states = <<>> /\ early = 0 /\ late = 0
    /\ ticking = 0 /\ held = FALSE /\ race = 0 /\ finished = <<>> /\ listed = {}

Next ==
    \/ \E n \in Counts : \E speeds \in [1 .. n -> Steps] : Start(speeds)
    \/ EarlyTimer \/ LateTimer \/ Tick \/ Reset

Spec == Init /\ [][Next]_debugVars

-----------------------------------------------------------------------------
(* The end of a race is reported once at most, and only of a race that was
   not stopped or replaced: an interval that a quick restart left behind ticks
   on for ever, over nobody, and nobody is always at the finish.  The view
   dispatches sim:finished of its own once every runner it shows has finished
   (viewport-lookdev.component.ts:822), which is not counted here. *)
EndsOnce ==
    \A i, j \in DOMAIN finished : finished[i] = finished[j] => i = j
=============================================================================
