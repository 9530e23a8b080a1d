----------------------------- MODULE RaceCamera -----------------------------
(***************************************************************************)
(* The camera of the race view and the countdown it plays.                 *)
(*                                                                         *)
(* One pan, one follow, one intro and (on a schematic site) one walk share *)
(* the camera and the orbit controls; async handlers wait for the promise  *)
(* of the pan they began.  A promise that is resolved continues its waiter *)
(* in a microtask, before the next event: ready is the queue of those.     *)
(* Poses, speeds and easing are left out; of time, only the order of the   *)
(* countdown's timers is kept.  Bound: MaxMoves events from outside.       *)
(***************************************************************************)
EXTENDS Integers, Sequences, SequencesExt

CONSTANTS Runners, None, MaxMoves

VARIABLES
    schematic,   \* the site has no city model (Mariupol)
    scene,       \* [spline, goal, drawing, import, skip, runners, begun]
    view,        \* [controls, pan, follow, intro, walk, post, ready]
    leader,      \* [active, guid]: _followLeaderActive and followGuid
    gens,        \* [overview, walk]: _overviewTransitionGen and _walkArmGen
    countdown,   \* [at, panned, moved, gen]: startCountdownSequence
    overlay,     \* [entered, slot, showing, prep, hiding]
    shown,       \* the number last sent to the overlay
    demo,        \* [sandbox, pressed]: the demo on, and a pointer that is down
    moves

vars == <<schematic, scene, view, leader, gens, countdown, overlay, shown, demo, moves>>

NoPan == [for |-> None, gen |-> 0, active |-> FALSE]

Idle == -1      \* no countdown; then the numbers 3 to 0,
Hiding == -2    \* the wait of a second after the last of them,
After == -3     \* and the overview transition still on its way

TypeOK ==
    /\ schematic \in BOOLEAN /\ moves \in 0..MaxMoves
    /\ scene \in [spline : BOOLEAN, goal : BOOLEAN, drawing : BOOLEAN, begun : BOOLEAN, skip : BOOLEAN,
                  import : {"idle", "approach", "draw", "frame"},
                  runners : [Runners -> {"none", "running", "finished"}]]
    /\ view.controls \in BOOLEAN /\ view.follow \in Runners \cup {"overview", None}
    /\ view.intro \in {"none", "held", "moving", "over"}
    /\ leader \in [active : BOOLEAN, guid : Runners \cup {None}]
    /\ countdown.at \in {Idle, Hiding, After} \cup 0..3

Free == view.ready = <<>>          \* no microtask is due

(* An event from outside: a user's, the gateway's or the replay's. *)
Event == Free /\ moves < MaxMoves /\ moves' = moves + 1

-----------------------------------------------------------------------------
(* The camera of scene.ts, as functions of view. *)

Waited == {"countdown", "overview", "walk", "approach", "frame"}

(* The waiter of a pan that is still active. *)
Resolved(v) == IF v.pan.active /\ v.pan.for \in Waited
               THEN <<[for |-> v.pan.for, gen |-> v.pan.gen]>> ELSE <<>>

PanCameraTo(v, for, gen) ==
    [v EXCEPT !.ready = @ \o Resolved(v), !.controls = FALSE,
              !.pan = [for |-> for, gen |-> gen, active |-> TRUE]]

SnapOrbitCameraTo(v) ==
    [v EXCEPT !.ready = @ \o Resolved(v), !.controls = TRUE, !.pan = NoPan]

(* The pan a follow replaces is dropped with its promise. *)
FollowMesh(v, who) ==
    IF schematic THEN v
    ELSE [v EXCEPT !.follow = who, !.pan = NoPan, !.controls = TRUE]

StopFollowMesh(v) ==
    IF v.follow = None THEN v ELSE [v EXCEPT !.follow = None, !.controls = TRUE]

Attach(v, who) ==       \* swapFollowTarget, or followMesh when nothing is followed
    IF v.follow # None THEN [v EXCEPT !.follow = who] ELSE FollowMesh(v, who)

(* Slip: the hold is cleared without giving the controls back. *)
CancelAnyIntroKeepsControls(v) == IF v.intro = "none" THEN v ELSE [v EXCEPT !.intro = "none"]

CancelAnyIntro(v) ==
    IF v.intro = "none" THEN v ELSE [v EXCEPT !.intro = "none", !.controls = TRUE]

StartIntro(v, mode) ==
    IF schematic THEN [v EXCEPT !.intro = "none", !.follow = None, !.controls = TRUE]
    ELSE [v EXCEPT !.intro = mode, !.controls = FALSE]

StartOverviewSequence(v) ==
    [FollowMesh([v EXCEPT !.post = TRUE], "overview") EXCEPT !.controls = TRUE]

CancelPostFinish(v) == IF v.post THEN StopFollowMesh([v EXCEPT !.post = FALSE]) ELSE v

StartPostFinish(v) == IF scene.goal THEN StartOverviewSequence(v) ELSE v

TransitionToOverview(v, gen) == PanCameraTo(StopFollowMesh(v), "overview", gen)

(* applySchematicCam frames the model and ends a walk, also one not begun. *)
SchematicCam(v) == PanCameraTo([v EXCEPT !.walk = FALSE], "preset", 0)

Running == {g \in Runners : scene.runners[g] = "running"}

-----------------------------------------------------------------------------
(* The countdown overlay shows one of two slots; the other is prepared while
   it is hidden, 600 ms after the ring began to turn. *)

Other(slot) == IF slot = "A" THEN "B" ELSE "A"
Blank == [A |-> None, B |-> None]

(* Slip: the hidden slot is prepared with the number that is already seen. *)
OnShowStale(o, n) ==
    IF ~o.entered
    THEN [entered |-> TRUE, slot |-> [A |-> n, B |-> n - 1], showing |-> "A",
          prep |-> o.prep, hiding |-> FALSE]
    ELSE [o EXCEPT !.showing = Other(@), !.hiding = FALSE, !.prep = <<o.showing, n>>]

OnShow(o, n) ==
    IF ~o.entered
    THEN [entered |-> TRUE, slot |-> [A |-> n, B |-> n - 1], showing |-> "A",
          prep |-> o.prep, hiding |-> FALSE]
    ELSE [o EXCEPT !.showing = Other(@), !.hiding = FALSE, !.prep = <<o.showing, n - 1>>]

OnHide(o) == [o EXCEPT !.prep = <<>>, !.entered = FALSE, !.hiding = TRUE]

PrepTimer ==
    /\ Free /\ overlay.prep # <<>>
    /\ overlay' = [overlay EXCEPT !.slot[overlay.prep[1]] = overlay.prep[2], !.prep = <<>>]
    /\ UNCHANGED <<schematic, scene, view, leader, gens, countdown, shown, demo, moves>>

SlideTimer ==
    /\ Free /\ overlay.hiding
    /\ overlay' = [overlay EXCEPT !.hiding = FALSE, !.slot = Blank, !.showing = "A"]
    /\ UNCHANGED <<schematic, scene, view, leader, gens, countdown, shown, demo, moves>>

Show(n) == overlay' = OnShow(overlay, n) /\ shown' = n

-----------------------------------------------------------------------------
(* The countdown of a race. *)

NoCountdown == [at |-> Idle, panned |-> FALSE, moved |-> FALSE, gen |-> 0]
CountdownPlaying == countdown.at # Idle

StartCountdownSequence ==
    /\ Event
    /\ scene.spline /\ ~CountdownPlaying
    /\ countdown' = [NoCountdown EXCEPT !.at = 3]
    /\ view' = PanCameraTo(StopFollowMesh(view), "countdown", 0)
    /\ Show(3)
    /\ UNCHANGED <<schematic, scene, leader, gens, demo>>

(* From the pan to the start line to the overview, whenever both the pan and
   the last number are done. *)
ToOverview(v) ==
    /\ gens' = [gens EXCEPT !.overview = @ + 1]
    /\ view' = IF scene.spline THEN TransitionToOverview(v, gens.overview + 1) ELSE v
    /\ countdown' = [countdown EXCEPT !.at = Hiding, !.panned = TRUE,
                                      !.gen = gens.overview + 1, !.moved = ~scene.spline]

(* One second: the slot that is prepared in 600 ms is ready. *)
CountdownSecond ==
    /\ Free /\ countdown.at \in 1..3 /\ overlay.prep = <<>>
    /\ Show(countdown.at - 1)
    /\ IF countdown.at = 1 /\ countdown.panned THEN ToOverview(view)
       ELSE /\ countdown' = [countdown EXCEPT !.at = @ - 1]
            /\ UNCHANGED <<view, gens>>
    /\ UNCHANGED <<schematic, scene, leader, demo, moves>>

HideCountdown ==
    /\ Free /\ countdown.at = Hiding /\ overlay.prep = <<>>
    /\ overlay' = OnHide(overlay)
    /\ countdown' = IF countdown.moved THEN NoCountdown ELSE [countdown EXCEPT !.at = After]
    /\ UNCHANGED <<schematic, scene, view, leader, gens, shown, demo, moves>>

(* What waited for a pan goes on. *)
Resume ==
    /\ view.ready # <<>>
    /\ LET job == Head(view.ready)
           v == [view EXCEPT !.ready = Tail(@)] IN
       \/ /\ job.for = "countdown"
          /\ IF countdown.at = 0 THEN ToOverview(v)
             ELSE /\ countdown' = [countdown EXCEPT !.panned = TRUE]
                  /\ view' = v /\ UNCHANGED gens
          /\ UNCHANGED scene
       \/ /\ job.for = "overview"
          /\ view' = IF job.gen = gens.overview THEN StartOverviewSequence(v) ELSE v
          /\ countdown' = CASE countdown.gen # job.gen -> countdown
                            [] countdown.at = After -> NoCountdown
                            [] OTHER -> [countdown EXCEPT !.moved = TRUE]
          /\ UNCHANGED <<scene, gens>>
       \/ /\ job.for = "walk"
          /\ view' = IF job.gen = gens.walk THEN [v EXCEPT !.controls = FALSE, !.walk = TRUE] ELSE v
          /\ UNCHANGED <<scene, gens, countdown>>
       \/ /\ job.for \in {"approach", "frame"}
          /\ scene' = [scene EXCEPT !.import = IF job.for = "approach" THEN "draw" ELSE "idle"]
          /\ view' = v /\ UNCHANGED <<gens, countdown>>
    /\ UNCHANGED <<schematic, leader, overlay, shown, demo, moves>>

-----------------------------------------------------------------------------
(* A route: the camera approaches its start, the route is drawn, and the
   camera frames all of it.  skip is set when an intro that was skipped
   imports the demo's route: the camera is snapped instead. *)

Imported(s, skip) ==
    [s EXCEPT !.spline = TRUE, !.skip = skip,
              !.import = IF skip \/ schematic THEN "draw" ELSE "approach"]

Approach(v, skip) ==
    CASE skip -> SnapOrbitCameraTo(v)
      [] ~skip /\ ~schematic -> PanCameraTo(v, "approach", 0)
      [] OTHER -> v

ImportPath ==
    /\ Event /\ scene.import = "idle"
    /\ scene' = Imported(scene, FALSE) /\ view' = Approach(view, FALSE)
    /\ UNCHANGED <<schematic, leader, gens, countdown, overlay, shown, demo>>

RouteBuilt ==
    /\ Free /\ scene.import = "draw"
    /\ scene' = [scene EXCEPT !.goal = TRUE, !.drawing = TRUE, !.skip = FALSE,
                              !.import = IF scene.skip THEN "idle" ELSE "frame"]
    /\ view' = IF scene.skip THEN view ELSE PanCameraTo(view, "frame", 0)
    /\ UNCHANGED <<schematic, leader, gens, countdown, overlay, shown, demo, moves>>

(* The draw-on animation ends: the intro of the route is complete. *)
RouteDrawn ==
    /\ Free /\ scene.drawing
    /\ scene' = [scene EXCEPT !.drawing = FALSE]
    /\ view' = StopFollowMesh(view)
    /\ UNCHANGED <<schematic, leader, gens, countdown, overlay, shown, demo, moves>>

(* viewport:cameraIntroComplete makes the agent screen import the route of a
   demo that has one, before the event's dispatcher goes on. *)
IntroComplete(v, skip) ==
    \/ view' = v /\ UNCHANGED scene
    \/ scene.import = "idle" /\ scene' = Imported(scene, skip) /\ view' = Approach(v, skip)

CtrlI ==
    /\ Event
    /\ IF demo.sandbox /\ view.intro = "held"
       THEN view' = [view EXCEPT !.intro = "moving"] /\ UNCHANGED scene
       ELSE IF schematic THEN IntroComplete(StartIntro(view, "moving"), FALSE)
       ELSE view' = StartIntro(view, "moving") /\ UNCHANGED scene
    /\ UNCHANGED <<schematic, leader, gens, countdown, overlay, shown, demo>>

SkipIntro ==
    /\ Event /\ view.intro # "none"
    /\ IntroComplete([view EXCEPT !.intro = "none", !.controls = TRUE], TRUE)
    /\ UNCHANGED <<schematic, leader, gens, countdown, overlay, shown, demo>>

(* syncDemoIntroState: the Sandbox holds its intro, and a reset holds it again.
   The hold itself is a microtask behind the other listeners of the reset, so
   it is taken here with the event. *)
SyncDemoIntro(sandbox, reset) ==
    LET keep == ~reset /\ view.intro \in {"held", "moving"} IN
    /\ Event
    /\ demo' = [demo EXCEPT !.sandbox = sandbox]
    /\ \/ ~sandbox /\ view' = CancelAnyIntro(view) /\ UNCHANGED scene
       \/ sandbox /\ keep /\ UNCHANGED <<view, scene>>
       \/ LET v == IF reset THEN CancelAnyIntro(view) ELSE view IN
          /\ sandbox /\ ~keep
          /\ IF schematic THEN IntroComplete(StartIntro(v, "held"), FALSE)
             ELSE view' = StartIntro(v, "held") /\ UNCHANGED scene
    /\ UNCHANGED <<schematic, leader, gens, countdown, overlay, shown>>

ChooseDemo == \E sandbox \in BOOLEAN : SyncDemoIntro(sandbox, sandbox = demo.sandbox)

-----------------------------------------------------------------------------
(* The user. *)

PointerDown ==
    /\ Event /\ ~demo.pressed
    /\ demo' = [demo EXCEPT !.pressed = TRUE] /\ view' = CancelPostFinish(view)
    /\ UNCHANGED <<schematic, scene, leader, gens, countdown, overlay, shown>>

PointerUp(click) ==
    /\ Free /\ demo.pressed
    /\ demo' = [demo EXCEPT !.pressed = FALSE]
    /\ IF click THEN leader' = [active |-> FALSE, guid |-> None] /\ view' = StopFollowMesh(view)
       ELSE view' = CancelPostFinish(view) /\ UNCHANGED leader
    /\ UNCHANGED <<schematic, scene, gens, countdown, overlay, shown, moves>>

ShowSchematic ==
    /\ gens' = [gens EXCEPT !.walk = @ + 1] /\ view' = SchematicCam(view)
    /\ UNCHANGED leader

FollowLeader ==
    /\ Event
    /\ \/ schematic /\ ShowSchematic
       \/ \E g \in Running :
             /\ ~schematic
             /\ leader' = [active |-> TRUE, guid |-> g]
             /\ view' = Attach(CancelPostFinish(view), g)
             /\ UNCHANGED gens
    /\ UNCHANGED <<schematic, scene, countdown, overlay, shown, demo>>

FollowRandomRunner ==
    /\ Event
    /\ \/ schematic /\ ShowSchematic
       \/ \E g \in Running \ {leader.guid} :
             /\ ~schematic
             /\ leader' = [active |-> FALSE, guid |-> g]
             /\ view' = FollowMesh(view, g)
             /\ UNCHANGED gens
    /\ UNCHANGED <<schematic, scene, countdown, overlay, shown, demo>>

(* The camera filter ends a follow and pans to a preset, or walks the route. *)
OnFilterChanged(walk) ==
    LET v == CancelPostFinish(StopFollowMesh(view)) IN
    /\ Event
    /\ leader' = IF view.follow = None THEN leader ELSE [active |-> FALSE, guid |-> None]
    /\ \/ walk /\ ~schematic /\ view' = v /\ UNCHANGED gens
       \/ /\ walk /\ schematic
          /\ gens' = [gens EXCEPT !.walk = @ + 1]
          /\ view' = PanCameraTo([v EXCEPT !.walk = FALSE], "walk", gens.walk + 1)
       \/ ~walk /\ ~schematic /\ view' = PanCameraTo(v, "preset", 0) /\ UNCHANGED gens
       \/ /\ ~walk /\ schematic
          /\ gens' = [gens EXCEPT !.walk = @ + 1] /\ view' = SchematicCam(v)
    /\ UNCHANGED <<schematic, scene, countdown, overlay, shown, demo>>

-----------------------------------------------------------------------------
(* The race. *)

AddRunner(g) ==
    /\ Event /\ scene.spline /\ scene.runners[g] = "none"
    /\ scene' = [scene EXCEPT !.runners =
                    IF scene.begun THEN [@ EXCEPT ![g] = "running"]
                    ELSE [h \in Runners |-> IF h = g THEN "running" ELSE "none"],
                 !.begun = TRUE]
    /\ view' = IF ~scene.begun /\ ~CountdownPlaying THEN PanCameraTo(view, "add", 0) ELSE view
    /\ UNCHANGED <<schematic, leader, gens, countdown, overlay, shown, demo>>

OnSimRaceStarted ==
    /\ Event
    /\ leader' = [leader EXCEPT !.active = FALSE]
    /\ \/ CountdownPlaying /\ UNCHANGED <<view, gens>>
       \/ ~CountdownPlaying /\ ~scene.spline /\ view' = StopFollowMesh(view) /\ UNCHANGED gens
       \/ /\ ~CountdownPlaying /\ scene.spline
          /\ gens' = [gens EXCEPT !.overview = @ + 1]
          /\ view' = TransitionToOverview(view, gens.overview + 1)
    /\ UNCHANGED <<schematic, scene, countdown, overlay, shown, demo>>

OnSimFinished ==
    /\ Event
    /\ scene' = [scene EXCEPT !.begun = FALSE, !.runners =
                    [g \in Runners |-> IF @[g] = "none" THEN "none" ELSE "finished"]]
    /\ leader' = [leader EXCEPT !.active = FALSE]
    /\ view' = StopFollowMesh(view)
    /\ UNCHANGED <<schematic, gens, countdown, overlay, shown, demo>>

OnSimReset ==
    /\ Event
    /\ scene' = [scene EXCEPT !.begun = FALSE, !.goal = FALSE, !.drawing = FALSE,
                              !.runners = [g \in Runners |-> "none"]]
    /\ leader' = [active |-> FALSE, guid |-> None]
    /\ view' = StopFollowMesh(view)
    /\ UNCHANGED <<schematic, gens, countdown, overlay, shown, demo>>

-----------------------------------------------------------------------------
(* A frame: the intro, the pan, a runner that finishes, the leader. *)

TickCameraIntro ==
    /\ Free /\ view.intro = "moving"
    /\ IntroComplete([view EXCEPT !.intro = "over", !.controls = TRUE], FALSE)
    /\ UNCHANGED <<schematic, leader, gens, countdown, overlay, shown, demo, moves>>

TickCameraPan ==
    /\ Free /\ view.pan.active
    /\ view' = [view EXCEPT !.pan.active = FALSE, !.controls = TRUE, !.ready = Resolved(view)]
    /\ UNCHANGED <<schematic, scene, leader, gens, countdown, overlay, shown, demo, moves>>

(* The runner that is followed finishes: the camera overlooks the finish. *)
RunnerFinishes(g) ==
    /\ Free /\ g \in Running
    /\ scene' = [scene EXCEPT !.runners[g] = "finished"]
    /\ IF leader.guid = g
       THEN leader' = [active |-> FALSE, guid |-> None] /\ view' = StartPostFinish(view)
       ELSE UNCHANGED <<leader, view>>
    /\ UNCHANGED <<schematic, gens, countdown, overlay, shown, demo, moves>>

LeaderChanges(g) ==
    /\ Free /\ leader.active /\ ~view.pan.active /\ ~CountdownPlaying
    /\ g \in Running \ {leader.guid}
    /\ leader' = [leader EXCEPT !.guid = g]
    /\ view' = Attach(view, g)
    /\ UNCHANGED <<schematic, scene, gens, countdown, overlay, shown, demo, moves>>

-----------------------------------------------------------------------------
Init ==
    /\ schematic \in BOOLEAN
    /\ scene = [spline |-> FALSE, goal |-> FALSE, drawing |-> FALSE, begun |-> FALSE,
                skip |-> FALSE, import |-> "idle", runners |-> [g \in Runners |-> "none"]]
    /\ view = [controls |-> TRUE, pan |-> NoPan, follow |-> None, intro |-> "none",
               walk |-> FALSE, post |-> FALSE, ready |-> <<>>]
    /\ leader = [active |-> TRUE, guid |-> None]
    /\ gens = [overview |-> 0, walk |-> 0]
    /\ countdown = NoCountdown
    /\ overlay = [entered |-> FALSE, slot |-> Blank, showing |-> "A", prep |-> <<>>, hiding |-> FALSE]
    /\ shown = None
    /\ demo = [sandbox |-> FALSE, pressed |-> FALSE]
    /\ moves = 0

System ==      \* what goes on without an event
    \/ Resume \/ PrepTimer \/ SlideTimer \/ CountdownSecond \/ HideCountdown
    \/ RouteBuilt \/ RouteDrawn \/ TickCameraIntro \/ TickCameraPan

Next ==
    \/ System
    \/ \E g \in Runners : RunnerFinishes(g) \/ LeaderChanges(g) \/ AddRunner(g)
    \/ StartCountdownSequence \/ ImportPath \/ CtrlI \/ SkipIntro \/ ChooseDemo
    \/ PointerDown \/ FollowLeader \/ FollowRandomRunner
    \/ \E b \in BOOLEAN : PointerUp(b) \/ OnFilterChanged(b)
    \/ OnSimRaceStarted \/ OnSimFinished \/ OnSimReset

Spec == Init /\ [][Next]_vars

-----------------------------------------------------------------------------
(* The orbit controls are off only while something moves the camera: whatever
   takes over from a pan, an intro or a walk gives them back in the end
   (controls.enabled, set in twelve places of scene.ts and the viewport). *)
ControlsComeBack ==
    ~view.controls => view.pan.active \/ view.intro \in {"held", "moving"} \/ view.walk

(* The number in the visible slot of the countdown overlay is the last one the
   viewport sent, though each slot was filled a second before it is turned up
   (onShow, prepTimer). *)
NumberShown == overlay.entered => overlay.slot[overlay.showing] = shown
=============================================================================
