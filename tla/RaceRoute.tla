----------------------------- MODULE RaceRoute -----------------------------
(***************************************************************************)
(* The planned route of the race view and the masks painted with it: the   *)
(* import of a route, which waits for the camera, for the imports before   *)
(* it and for its assets; the draw-on animation; the removal of all        *)
(* routes; the light mask, which carries the spline and the closed roads,  *)
(* and the traffic-jam mask, which the error state floods.                 *)
(*                                                                         *)
(* An import runs from one await to the next.  Meshes are named by their   *)
(* import.  Polylines are members of Segments and do not overlap; what     *)
(* closedSegmentMaskId keeps of one (its ends and its number of points) is *)
(* MaskId, so two of them may share it.                                    *)
(***************************************************************************)
EXTENDS Integers, Sequences, SequencesExt, FiniteSetsExt

CONSTANTS
    Segments, MaskId,
    None,
    MaxImports,  \* bound: routes imported
    MaxRemovals, \* bound: removals of all routes
    MaxRaces     \* bound: loads of the runner route

VARIABLES
    imports,  \* onImportPath calls: a sequence of [stage, after, icons]
    chain,    \* _initRouteChain: the import it waits for last, 0 when settled
    route,    \* [current, old, goal]: the meshes by import, 0 for null
    scene,    \* the imports whose tube is in the scene
    draw,     \* routeDraw: the import whose tube grows, None when there is none
    race,     \* the runner route: [stage, of], of the import whose spline it takes
    races,    \* [begun, stale]: loads of it so far, and overtaken ones under way
    mask,     \* routeCanvasTexture: [spline, painted], None when disposed
    closed,   \* closedTrafficSegmentMasks
    paths,    \* importedPaths
    removals, \* removals so far
    strays    \* history: imports a removal found on their way

routeVars == <<imports, chain, route, scene, draw, race, races, mask,
               closed, paths, removals, strays>>

NoRace == [stage |-> "none", of |-> 0]
Ids == 1..Len(imports)
Current == route.current
Settled(i) == i # 0 => imports[i].stage \in {"framing", "done", "failed"}
Loading(i) == imports[i].stage \in {"textures", "start", "goal", "icons"}
To(i, stage) == imports' = [imports EXCEPT ![i].stage = stage]

Init ==
    /\ imports = <<>> /\ chain = 0 /\ scene = {} /\ draw = None
    /\ route = [current |-> 0, old |-> 0, goal |-> 0]
    /\ race = NoRace /\ races = [begun |-> 0, stale |-> 0] /\ mask = None /\ closed = <<>>
    /\ paths = {} /\ removals = 0 /\ strays = {}

-----------------------------------------------------------------------------
(* The light mask: the spline first, then the closures again. *)
(* Slip: the spline is drawn over the closures. *)
DrawSplineBare(i) == mask' = [spline |-> i, painted |-> {}]
DrawSpline(i) == mask' = [spline |-> i, painted |-> ToSet(closed)]

EnsureMask == IF mask = None THEN [spline |-> 0, painted |-> {}] ELSE mask

Recorded(s) == LET same == {k \in DOMAIN closed : MaskId[closed[k]] = MaskId[s]} IN
    IF same = {} THEN Append(closed, s) ELSE [closed EXCEPT ![Min(same)] = s]

(* drawRouteSuppressSegmentToTexture in white. *)
CloseSegment(s) ==
    /\ closed' = Recorded(s)
    /\ mask' = [EnsureMask EXCEPT !.painted = @ \cup {s}]
    /\ UNCHANGED <<imports, chain, route, scene, draw, race, races, paths, removals, strays>>

-----------------------------------------------------------------------------
(* removeRunnerRoute: a load under way is overtaken, and the mask and the  *)
(* draw-on animation of the planned route go as well.                      *)
RemoveRunnerRoute ==
    /\ race' = NoRace /\ draw' = None /\ mask' = None
    /\ races' = [races EXCEPT !.stale = @ + IF race.stage = "loading" THEN 1 ELSE 0]

-----------------------------------------------------------------------------
(* An import. *)
Import(icons) ==
    /\ Len(imports) < MaxImports
    /\ imports' = Append(imports, [stage |-> "approach", after |-> 0, icons |-> icons])
    /\ UNCHANGED <<chain, route, scene, draw, race, races, mask, closed, paths, removals, strays>>

(* Slip: the chain is not advanced. *)
InitRouteLoose(i) ==
    /\ imports[i].stage = "approach"
    /\ imports' = [imports EXCEPT ![i].stage = "queued", ![i].after = chain]
    /\ UNCHANGED <<chain, route, scene, draw, race, races, mask, closed, paths, removals, strays>>
(* initRoute waits for the route before it. *)
InitRoute(i) ==
    /\ imports[i].stage = "approach"
    /\ imports' = [imports EXCEPT ![i].stage = "queued", ![i].after = chain]
    /\ chain' = i
    /\ UNCHANGED <<route, scene, draw, race, races, mask, closed, paths, removals, strays>>

(* The route before it becomes the old route; the runner route goes. *)
Begin(i) ==
    /\ imports[i].stage = "queued" /\ Settled(imports[i].after)
    /\ scene' = scene \ ({route.old} \ {0})
    /\ route' = [route EXCEPT !.old = Current]
    /\ RemoveRunnerRoute
    /\ To(i, "textures")
    /\ UNCHANGED <<chain, closed, paths, removals, strays>>

TexturesLoaded(i) ==
    /\ imports[i].stage = "textures" /\ To(i, "start")
    /\ route' = [route EXCEPT !.current = i]
    /\ scene' = scene \cup {i}
    /\ UNCHANGED <<chain, draw, race, races, mask, closed, paths,
                   removals, strays>>

(* The last step: the spline is painted and the tube begins to grow. *)
Painted(i) ==
    /\ DrawSpline(i) /\ draw' = i
    /\ To(i, "framing")

(* The start marker is added to the current route, which may be gone. *)
StartMarked(i) ==
    /\ imports[i].stage = "start"
    /\ To(i, IF Current = 0 THEN "failed" ELSE "goal")
    /\ UNCHANGED <<chain, route, scene, draw, race, races, mask, closed, paths, removals, strays>>

GoalMarked(i) ==
    /\ imports[i].stage = "goal"
    /\ route' = [route EXCEPT !.goal = i]
    /\ CASE Current = 0 -> To(i, "failed") /\ UNCHANGED <<mask, draw>>
         [] Current # 0 /\ imports[i].icons -> To(i, "icons") /\ UNCHANGED <<mask, draw>>
         [] OTHER -> Painted(i)
    /\ UNCHANGED <<chain, scene, race, races, closed, paths, removals, strays>>

IconsPlaced(i) ==
    /\ imports[i].stage = "icons"
    /\ IF Current = 0 THEN To(i, "failed") /\ UNCHANGED <<mask, draw>> ELSE Painted(i)
    /\ UNCHANGED <<chain, route, scene, race, races, closed, paths,
                   removals, strays>>

AssetFails(i) ==
    /\ Loading(i) /\ To(i, "failed")
    /\ UNCHANGED <<chain, route, scene, draw, race, races, mask, closed, paths, removals, strays>>

(* After the camera has framed the route, the HUD hears of it. *)
ImportEnds(i) ==
    /\ imports[i].stage = "framing" /\ To(i, "done")
    /\ paths' = paths \cup {i}
    /\ UNCHANGED <<chain, route, scene, draw, race, races, mask, closed, removals, strays>>

(* tickRouteDraw, at the end of the animation: the intro is over. *)
DrawEnds ==
    /\ draw # None /\ Current # 0
    /\ draw' = None
    /\ UNCHANGED <<imports, chain, route, scene, race, races, mask, closed, paths, removals, strays>>

-----------------------------------------------------------------------------
(* The race, which loads the runner route, and the removal of all of it. *)

(* The first runner of a race: its route is removed and loaded anew. *)
RaceBegins ==
    /\ imports # <<>> /\ races.begun < MaxRaces
    /\ race' = [stage |-> "loading", of |-> Len(imports)]
    /\ draw' = None /\ mask' = None
    /\ races' = [begun |-> races.begun + 1,
                 stale |-> races.stale + IF race.stage = "loading" THEN 1 ELSE 0]
    /\ UNCHANGED <<imports, chain, route, scene, closed, paths,
                   removals, strays>>

RaceRouteLoaded ==
    /\ race.stage = "loading" /\ race' = [race EXCEPT !.stage = "shown"]
    /\ DrawSpline(race.of)
    /\ UNCHANGED <<imports, chain, route, scene, draw, races, closed, paths, removals, strays>>

(* An overtaken load stops at its first wait; at a later one it removes the *)
(* runner route, whichever that is by now.                                  *)
StaleRaceStops ==
    /\ races.stale > 0
    /\ \/ races' = [races EXCEPT !.stale = @ - 1] /\ UNCHANGED <<race, draw, mask>>
       \/ /\ race' = NoRace /\ draw' = None /\ mask' = None
          /\ races' = [races EXCEPT !.stale = @ - IF race.stage = "loading" THEN 0 ELSE 1]
    /\ UNCHANGED <<imports, chain, route, scene, closed, paths,
                   removals, strays>>

(* removeRoute and removeRunnerRoute: imports on their way are not told. *)
Removed(closures) ==
    /\ removals < MaxRemovals /\ removals' = removals + 1
    /\ strays' = strays \cup {i \in Ids : Loading(i) \/ imports[i].stage = "queued"}
    /\ chain' = 0 /\ closed' = closures
    /\ scene' = scene \ {route.current, route.old}
    /\ route' = [current |-> 0, old |-> 0, goal |-> IF Current = 0 THEN route.goal ELSE 0]
    /\ RemoveRunnerRoute

ClearAllRoutes == Removed(<<>>)

RemoveAllPaths ==
    /\ ClearAllRoutes /\ paths' = {}
    /\ UNCHANGED imports

SimReset ==
    /\ ClearAllRoutes
    /\ UNCHANGED <<imports, paths>>

Next ==
    \/ \E icons \in BOOLEAN : Import(icons)
    \/ \E i \in Ids : \/ InitRoute(i) \/ Begin(i) \/ TexturesLoaded(i) \/ StartMarked(i)
                      \/ GoalMarked(i) \/ IconsPlaced(i) \/ AssetFails(i) \/ ImportEnds(i)
    \/ DrawEnds \/ RaceBegins \/ RaceRouteLoaded \/ StaleRaceStops \/ RemoveAllPaths \/ SimReset
    \/ \E s \in Segments : CloseSegment(s)

Spec == Init /\ [][Next]_routeVars

-----------------------------------------------------------------------------
(* Routes imported with no removal on their way are built one at a time,  *)
(* and no tube is lost in the scene: every one is the current or the old   *)
(* route, since a third could never be taken out again.                    *)
RoutesAreSerial ==
    /\ \A i, j \in Ids \ strays : Loading(i) /\ Loading(j) => i = j
    /\ strays = {} => scene \subseteq {route.current, route.old}

(* Where the mask shows a spline it shows every road on the list of        *)
(* closures, and it never shows a closure that has left the list.          *)
ClosuresAreShown ==
    mask # None =>
        /\ mask.spline # 0 => ToSet(closed) \subseteq mask.painted
        /\ \A s \in mask.painted : \E t \in ToSet(closed) : MaskId[s] = MaskId[t]
=============================================================================
