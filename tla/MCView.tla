------------------------------- MODULE MCView -------------------------------
(***************************************************************************)
(* The parts of the race view: the runners on the course, the camera and   *)
(* its countdown, the route, what stands beside it, and the race played    *)
(* without a gateway.  What one does to another is an action of that       *)
(* other, so each runs by itself: `part` says which.                       *)
(***************************************************************************)
EXTENDS Integers, Sequences, TLC

CONSTANTS None, Guids, Goal, Speeds, MaxGen, MaxLoads, MaxWaits, MaxMoves,
          Segments, MaskId, MaxImports, MaxRemovals, MaxRaces, Routes, Counts, Steps,
          s1, s2

MCMaskId == s1 :> "ends" @@ s2 :> "ends"
MCRoutes == << {"water_station"}, {"crowd_zone"} >>

ASSUME FieldAssumption ==
    /\ Goal \in Nat \ {0} /\ Speeds \subseteq Nat /\ 0 \in Speeds
    /\ None \notin Nat /\ {MaxGen, MaxLoads, MaxWaits} \subseteq Nat

ASSUME CameraAssumption == None \notin Guids /\ "overview" \notin Guids /\ MaxMoves \in Nat

ASSUME RouteAssumption == {MaxImports, MaxRemovals, MaxRaces} \subseteq Nat

ASSUME SceneryAssumption ==
    /\ Routes \in Seq(SUBSET STRING)
    /\ None \notin [route : Nat, type : STRING]

VARIABLES
    part,
    spline, import, road, loads, waits, generation, begun, over, field, told,
    schematic, scene, view, leader, gens, countdown, overlay, shown, demo, moves,
    imports, chain, route, tubes, draw, race, races, mask, closed, paths, removals, strays,
    built, zones, picks, pins, filters, pointer, hovered, focused, tip, jam, failure,
    removed,
    running, states, early, late, ticking, held, debugged, finished, listed

Field == INSTANCE RunnerField
Camera == INSTANCE RaceCamera WITH Runners <- Guids
Course == INSTANCE RaceRoute WITH scene <- tubes
Scenery == INSTANCE RaceScenery
Debug == INSTANCE DebugRace WITH race <- debugged

fieldVars == <<spline, import, road, loads, waits, generation, begun, over, field, told>>
cameraVars == <<schematic, scene, view, leader, gens, countdown, overlay, shown, demo, moves>>
courseVars == <<imports, chain, route, tubes, draw, race, races, mask,
                closed, paths, removals, strays>>
sceneryVars == <<built, zones, picks, pins, filters, pointer, hovered, focused, tip, jam,
                 failure, removed>>
debugVars == <<running, states, early, late, ticking, held, debugged, finished, listed>>
vars == <<part, fieldVars, cameraVars, courseVars, sceneryVars, debugVars>>

Init ==
    /\ part \in {"field", "camera", "course", "scenery", "debug"}
    /\ Field!Init
    /\ (part # "camera" => schematic = FALSE) /\ Camera!Init
    /\ Course!Init /\ Scenery!Init /\ Debug!Init

Next ==
    \/ /\ part = "field" /\ Field!Next
       /\ UNCHANGED <<part, cameraVars, courseVars, sceneryVars, debugVars>>
    \/ /\ part = "camera" /\ Camera!Next
       /\ UNCHANGED <<part, fieldVars, courseVars, sceneryVars, debugVars>>
    \/ /\ part = "course" /\ Course!Next
       /\ UNCHANGED <<part, fieldVars, cameraVars, sceneryVars, debugVars>>
    \/ /\ part = "scenery" /\ Scenery!Next
       /\ UNCHANGED <<part, fieldVars, cameraVars, courseVars, debugVars>>
    \/ /\ part = "debug" /\ Debug!Next
       /\ UNCHANGED <<part, fieldVars, cameraVars, courseVars, sceneryVars>>

Spec == Init /\ [][Next]_vars

Symmetry == Permutations(Guids)

-----------------------------------------------------------------------------
(* RunnerField: the runners on the course are of the race that runs and move
   at the speed reported last. *)
FieldIsCurrent ==
    part = "field" => Field!TypeOK /\ Field!RunnersOfThisRace /\ Field!LatestSpeed

(* RaceCamera: the controls are off only while something moves the camera. *)
ControlsComeBack == part = "camera" => Camera!TypeOK /\ Camera!ControlsComeBack

(* RaceCamera: the countdown shows the number sent last. *)
NumberShown == part = "camera" => Camera!NumberShown

(* RaceRoute: routes are built one at a time and taken out again, and the mask
   of the route shows the roads that are closed. *)
CourseIsWhole == part = "course" => Course!RoutesAreSerial /\ Course!ClosuresAreShown

(* RaceScenery: the tooltip is that of the icon under the pointer, and the
   icons that answer are those of the zones. *)
SceneryIsTrue == part = "scenery" => Scenery!TipIsTrue /\ Scenery!IconsAreTheZones

(* DebugRace: the end of a race is reported once at most by the debug race. *)
EndsOnce == part = "debug" => Debug!EndsOnce
=============================================================================
