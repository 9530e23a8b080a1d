---------------------------- MODULE RunnerField ----------------------------
(***************************************************************************)
(* The runners of the race view: the window events of the viewport that    *)
(* add, move, finish and clear them, the route they run on, which is       *)
(* loaded in three asynchronous steps, and the frame that advances them.   *)
(*                                                                         *)
(* A handler runs to its first await that waits for an asset.  initRunner  *)
(* waits for nothing, so it does not interrupt a handler.  What a runner   *)
(* reports to the gateway on its way (milestones, stations) depends on its *)
(* position alone and is left out, and so are colours, labels and clocks.  *)
(***************************************************************************)
EXTENDS Integers, Sequences, FiniteSetsExt

CONSTANTS
    Guids,
    Goal,        \* MARATHON_DISTANCE_MI, in the distance of one frame
    Speeds,      \* the velocities the gateway reports
    None,
    MaxGen,      \* bound: simulation generations
    MaxLoads,    \* bound: loads of the runner route
    MaxWaits     \* bound: adds that wait for a route

VARIABLES
    spline,      \* currentSpline is set
    import,      \* where onImportPath is: "idle", "approach" or "drawing"
    road,        \* the runner route: [route, lut, path, gen, shared]
    loads,       \* loads in progress, each by the generation it began in
    waits,       \* the adds that wait for each of them, in their order
    generation,  \* _simGeneration
    begun,       \* _firstRunnerAdded
    over,        \* _simAllFinished
    field,       \* [runners, meshes, pending]
    told         \* the last speed reported for each runner of this race

vars == <<spline, import, road, loads, waits, generation, begun, over, field, told>>

NoRunners == [g \in {} |-> [at |-> 0, velocity |-> 0, status |-> "running", race |-> 0]]
NoUpdates == [g \in Guids |-> None]

TypeOK ==
    /\ spline \in BOOLEAN /\ import \in {"idle", "approach", "drawing"}
    /\ begun \in BOOLEAN /\ over \in BOOLEAN /\ generation \in Nat
    /\ road \in [route : Nat \cup {None}, lut : BOOLEAN, path : BOOLEAN, gen : Nat,
                 shared : Nat \cup {None}]
    /\ loads \in [DOMAIN loads -> {"texture", "start", "end"}] /\ DOMAIN loads \subseteq Nat
    /\ waits \in [DOMAIN loads -> Seq([guid : Guids, race : Nat])]
    /\ DOMAIN field.runners \subseteq Guids
    /\ \A g \in DOMAIN field.runners :
          field.runners[g] \in [at : 0..Goal, velocity : Speeds, race : Nat,
                                status : {"running", "finished", "did-not-finish"}]
    /\ field.meshes \in Seq([guid : Guids, finished : BOOLEAN])
    /\ field.pending \in [Guids -> Speeds \cup {None}]
    /\ told \in [Guids -> Speeds]

-----------------------------------------------------------------------------
(* The runner route. *)

(* Whoever removes the route ends the generation of every load. *)
RemoveRunnerRoute(r) ==
    [r EXCEPT !.route = None, !.lut = FALSE, !.gen = @ + 1, !.shared = None]

-----------------------------------------------------------------------------
(* Runners. *)

SetVelocity(runners, g, v) == [runners EXCEPT ![g].velocity = v]

(* A runner that is frozen stays where it is; did-not-finish is final. *)
Freeze(runner) ==
    [runner EXCEPT !.velocity = 0,
                   !.status = IF @ = "did-not-finish" THEN @ ELSE "finished"]

Collapse(runner) == [runner EXCEPT !.velocity = 0, !.status = "did-not-finish"]

(* Slip: what was merged while the add waited is not flushed. *)
AddRunnerUnflushed(f, g, race) ==
    LET new == [at |-> 0, velocity |-> 0, status |-> "running", race |-> race] IN
    [f EXCEPT !.runners = IF g \in DOMAIN @ THEN @ ELSE [h \in DOMAIN @ \cup {g} |->
                             IF h = g THEN new ELSE f.runners[h]],
              !.meshes = Append(@, [guid |-> g, finished |-> FALSE])]

(* addRunnerWithGuid keeps a runner it has; the mesh is pushed all the same.
   The update that came while the add waited is applied. *)
AddRunner(f, g, race) ==
    LET new == [at |-> 0, velocity |-> 0, status |-> "running", race |-> race]
        runners == IF g \in DOMAIN f.runners THEN f.runners
                   ELSE [h \in DOMAIN f.runners \cup {g} |->
                             IF h = g THEN new ELSE f.runners[h]]
    IN  [runners |-> IF f.pending[g] = None THEN runners
                     ELSE SetVelocity(runners, g, f.pending[g]),
         meshes |-> Append(f.meshes, [guid |-> g, finished |-> FALSE]),
         pending |-> [f.pending EXCEPT ![g] = None]]

(* Slip: an add of an earlier race goes on. *)
ContinueAlways(s, w) ==
    LET path == s.road.path \/ s.road.lut IN
    IF s.road.route = None THEN s
    ELSE IF ~path THEN s
    ELSE [road |-> [s.road EXCEPT !.path = TRUE],
          field |-> AddRunner(s.field, w.guid, w.race)]

(* onAddSimRunner after the route is there, or is not. *)
Continue(s, w) ==
    LET path == s.road.path \/ s.road.lut IN
    IF w.race # generation THEN [s EXCEPT !.road = RemoveRunnerRoute(@)]
    ELSE IF s.road.route = None \/ ~path THEN s
    ELSE [road |-> [s.road EXCEPT !.path = TRUE],
          field |-> AddRunner(s.field, w.guid, w.race)]

-----------------------------------------------------------------------------
Init ==
    /\ spline = FALSE /\ import = "idle"
    /\ road = [route |-> None, lut |-> FALSE, path |-> FALSE, gen |-> 0, shared |-> None]
    /\ loads = [i \in {} |-> "texture"] /\ waits = [i \in {} |-> <<>>]
    /\ generation = 0 /\ begun = FALSE /\ over = FALSE
    /\ field = [runners |-> NoRunners, meshes |-> <<>>, pending |-> NoUpdates]
    /\ told = [g \in Guids |-> 0]

(* onImportPath: the spline is stored at once; the planned route, drawn after
   the camera has approached, removes the runner route; the path of the
   runners is dropped when the camera frames the whole route. *)
ImportPath ==
    /\ import = "idle" /\ road.gen < MaxLoads
    /\ import' = "approach" /\ spline' = TRUE
    /\ UNCHANGED <<road, loads, waits, generation, begun, over, field, told>>

DrawPath ==
    /\ import = "approach"
    /\ import' = "drawing" /\ road' = RemoveRunnerRoute(road)
    /\ UNCHANGED <<spline, loads, waits, generation, begun, over, field, told>>

ImportEnds ==
    /\ import = "drawing"
    /\ import' = "idle" /\ road' = [road EXCEPT !.path = FALSE]
    /\ UNCHANGED <<spline, loads, waits, generation, begun, over, field, told>>

Waiting == UNION {{id} \X DOMAIN waits[id] : id \in DOMAIN waits}
With(f, id, value) == [i \in DOMAIN f \cup {id} |-> IF i = id THEN value ELSE f[i]]
Without(f, id) == [i \in DOMAIN f \ {id} |-> f[i]]

(* The first runner of a race clears what the last one left.  Without a route
   it waits for the load in progress or starts one. *)
OnAddSimRunner(g) ==
    LET first == ~begun
        clean == IF first THEN [RemoveRunnerRoute(road) EXCEPT !.path = FALSE] ELSE road
        f == IF first THEN [runners |-> NoRunners, meshes |-> <<>>, pending |-> NoUpdates]
             ELSE field
        race == IF first THEN generation + 1 ELSE generation
        waiting == clean.route = None /\ spline
        begin == waiting /\ clean.shared = None
        fresh == RemoveRunnerRoute(clean)
        id == IF begin THEN fresh.gen ELSE clean.shared
        add == [guid |-> g, race |-> race]
    IN  /\ g \notin DOMAIN field.runners
        /\ Cardinality(Waiting) < MaxWaits /\ generation < MaxGen /\ road.gen < MaxLoads
        /\ begun' = TRUE /\ generation' = race
        /\ over' = (IF first THEN FALSE ELSE over)
        /\ told' = IF first THEN [h \in Guids |-> 0] ELSE told
        /\ IF waiting
           THEN /\ field' = f
                /\ IF begin
                   THEN /\ road' = [fresh EXCEPT !.shared = id]
                        /\ loads' = With(loads, id, "texture")
                        /\ waits' = With(waits, id, <<add>>)
                   ELSE /\ road' = clean
                        /\ waits' = [waits EXCEPT ![id] = Append(@, add)]
                        /\ UNCHANGED loads
           ELSE /\ LET path == clean.path \/ clean.lut
                       there == clean.route # None /\ path
                   IN  /\ field' = IF there THEN AddRunner(f, g, race) ELSE f
                       /\ road' = IF there THEN [clean EXCEPT !.path = TRUE] ELSE clean
                /\ UNCHANGED <<waits, loads>>
        /\ UNCHANGED <<spline, import>>

(* The promise of a load settles: it is no longer shared, even when a later
   load is, and the adds that waited for it go on in their order. *)
Settled(r) == [road |-> [r EXCEPT !.shared = None], field |-> field]
Settle(id, r) ==
    LET adds == waits[id]
        s[n \in 0..Len(adds)] == IF n = 0 THEN Settled(r) ELSE Continue(s[n - 1], adds[n])
    IN  /\ road' = s[Len(adds)].road /\ field' = s[Len(adds)].field
        /\ loads' = Without(loads, id) /\ waits' = Without(waits, id)

Proceed(id, step, r) ==
    /\ loads' = [loads EXCEPT ![id] = step] /\ road' = r
    /\ UNCHANGED <<field, waits>>

(* An asset of load id has arrived.  A load of an earlier generation stops; if
   it has drawn its route it removes whichever route there is. *)
AssetLoaded(id) ==
    /\ CASE loads[id] = "texture" /\ id # road.gen -> Settle(id, road)
         [] loads[id] = "texture" /\ id = road.gen ->
              Proceed(id, "start", [road EXCEPT !.route = id])
         [] loads[id] # "texture" /\ id # road.gen -> Settle(id, RemoveRunnerRoute(road))
         [] loads[id] = "start" /\ id = road.gen -> Proceed(id, "end", road)
         [] loads[id] = "end" /\ id = road.gen -> Settle(id, [road EXCEPT !.lut = TRUE])
    /\ UNCHANGED <<spline, import, generation, begun, over, told>>

(* An asset of load id cannot be fetched: the adds that waited are dropped. *)
AssetFails(id) ==
    /\ road' = [road EXCEPT !.shared = None]
    /\ loads' = Without(loads, id) /\ waits' = Without(waits, id)
    /\ UNCHANGED <<spline, import, generation, begun, over, field, told>>

(* hud:updateSimRunner from the gateway; kept for a runner not there yet. *)
OnUpdateSimRunner(g, v) ==
    /\ told' = [told EXCEPT ![g] = v]
    /\ field' = IF g \in DOMAIN field.runners
                THEN [field EXCEPT !.runners = SetVelocity(@, g, v), !.pending[g] = None]
                ELSE [field EXCEPT !.pending[g] = v]
    /\ UNCHANGED <<spline, import, road, loads, waits, generation, begun, over>>

OnRunnerCollapsed(g) ==
    /\ g \in DOMAIN field.runners /\ field.runners[g].status # "did-not-finish"
    /\ field' = [field EXCEPT !.runners[g] = Collapse(@)]
    /\ UNCHANGED <<spline, import, road, loads, waits, generation, begun, over, told>>

OnSimRaceStarted ==
    /\ over
    /\ over' = FALSE
    /\ UNCHANGED <<spline, import, road, loads, waits, generation, begun, field, told>>

(* sim:finished: every runner is frozen and its mesh done.  A second mesh of a
   runner is not the one the runner holds: the first pushed is. *)
FinishAll(f) ==
    [f EXCEPT !.runners = [g \in DOMAIN @ |-> Freeze(@[g])],
              !.meshes = [i \in DOMAIN @ |->
                  IF @[i].guid \in DOMAIN f.runners /\ \A j \in 1..(i - 1) : @[j].guid # @[i].guid
                  THEN [@[i] EXCEPT !.finished = TRUE] ELSE @[i]]]

OnSimFinished ==
    /\ begun
    /\ field' = FinishAll(field) /\ begun' = FALSE
    /\ UNCHANGED <<spline, import, road, loads, waits, generation, over, told>>

(* sim:reset: runners, meshes and routes go, the spline stays. *)
OnSimReset ==
    /\ generation < MaxGen /\ road.gen < MaxLoads
    /\ generation' = generation + 1
    /\ field' = [runners |-> NoRunners, meshes |-> <<>>, pending |-> NoUpdates]
    /\ begun' = FALSE /\ over' = FALSE
    /\ road' = RemoveRunnerRoute(road) /\ told' = [g \in Guids |-> 0]
    /\ UNCHANGED <<spline, import, loads, waits>>

(* Runner.tick: a runner does not finish by itself when it reaches the goal. *)
Run(runner) ==
    IF runner.status # "running" THEN runner
    ELSE [runner EXCEPT !.at = Min({Goal, @ + runner.velocity})]

Done(runners, g) ==
    g \in DOMAIN runners /\ (runners[g].at = Goal \/ runners[g].status = "finished")

(* animate: the runners advance, meshes of runners at the goal are done, and
   when every mesh is done the view declares the race finished. *)
Frame ==
    /\ DOMAIN field.runners # {}
    /\ LET runners == [g \in DOMAIN field.runners |-> Run(field.runners[g])]
           meshes == [i \in DOMAIN field.meshes |->
                         [field.meshes[i] EXCEPT !.finished = @ \/ Done(runners, field.meshes[i].guid)]]
           f == [field EXCEPT !.runners = runners, !.meshes = meshes]
           last == ~over /\ meshes # <<>> /\ \A i \in DOMAIN meshes : meshes[i].finished
       IN  /\ over' = (over \/ last)
           /\ field' = IF last THEN FinishAll(f) ELSE f
           /\ begun' = (begun /\ ~last)
    /\ UNCHANGED <<spline, import, road, loads, waits, generation, told>>

Next ==
    \/ ImportPath \/ DrawPath \/ ImportEnds
    \/ \E g \in Guids : OnAddSimRunner(g) \/ OnRunnerCollapsed(g)
    \/ \E g \in Guids, v \in Speeds : OnUpdateSimRunner(g, v)
    \/ \E id \in DOMAIN loads : AssetLoaded(id) \/ AssetFails(id)
    \/ OnSimRaceStarted \/ OnSimFinished \/ OnSimReset \/ Frame

Spec == Init /\ [][Next]_vars

-----------------------------------------------------------------------------
(* The runners on the course belong to the race that runs: an add that waited
   for its route over a reset, or over the first runner of another race, does
   not put its runner into that race (onAddSimRunner, _simGeneration). *)
RunnersOfThisRace ==
    \A g \in DOMAIN field.runners : field.runners[g].race = generation

(* A running runner has the speed the gateway reported last, also when the
   report came before the runner did (_pendingGatewaySimUpdates). *)
LatestSpeed ==
    \A g \in DOMAIN field.runners :
        field.runners[g].status = "running" => field.runners[g].velocity = told[g]
=============================================================================
