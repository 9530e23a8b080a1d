---------------------------- MODULE RoadTraffic ----------------------------
(***************************************************************************)
(* Traffic on a road network: the lights of its junctions, the cars that   *)
(* drive along shortest routes, and the closing of the roads that cross a  *)
(* race's path.  No component drives it: the actions are the calls of its  *)
(* public operations, and a frame.                                         *)
(*                                                                         *)
(* Physics are abstracted to the distance of a frame: a car moves by one   *)
(* of Moves, whatever brakes it, so cars do not hold each other up here.   *)
(* Durations are in frames.                                                *)
(***************************************************************************)
EXTENDS RoadNetwork

CONSTANTS
    Roads,          \* the polylines of the map
    Nodes, Edges,   \* the network that was built of them
    Named,          \* those with a name, and so a colour of their own
    Paths,          \* the race paths that roads are closed for
    Radius,         \* how near a path a road must come
    Moves, Starts,  \* the distances a car moves in a frame, and starts at
    StopLine,       \* INTERSECTION_STOP_LINE
    Green, Yellow, RedGap,
    MaxCars, MaxAdds

ASSUME NetworkAssumption == Nodes = NodesOf(Roads) /\ Edges = EdgesOf(Roads)

(* Nodes and edges are arrays; an edge joins two of the nodes, and nodes are
   further apart than the tolerance of the snap, so it is not without length. *)
ASSUME EdgesAssumption ==
    /\ Len(Nodes) \in Nat /\ DOMAIN Nodes = 1 .. Len(Nodes)
    /\ Len(Edges) \in Nat /\ DOMAIN Edges = 1 .. Len(Edges)
    /\ \A e \in DOMAIN Edges : /\ {Edges[e].from, Edges[e].to} \subseteq DOMAIN Nodes
                                /\ Length(Edges[e].points) \in Nat \ {0}

ASSUME TrafficAssumption ==
    /\ Moves \subseteq Nat /\ Starts \subseteq Nat
    /\ StopLine \in Nat \ {0} /\ {Green, Yellow, RedGap} \subseteq Nat

NodeIds == DOMAIN Nodes
EdgeIds == DOMAIN Edges

(* The edges of the roads that have a name, by edgeRoadName and roadColors. *)
Coloured == {e \in EdgeIds : Edges[e].road \in Named}
Colour(e) == IF e \in Coloured THEN "own" ELSE "plain"

VARIABLES
    scene,      \* the network was added to the scene and not removed
    adds,       \* how often it was
    closed,     \* RoadNetwork.closedEdgeIds
    barriers,   \* the nodes that have one
    shut,       \* CarSimulator.closedEdges, which its adj leaves out
    mode,       \* currentRoadMode: "off", "on" or "color"
    paint,      \* the colour of the ribbons of each edge
    lights,     \* the controllers of the junctions
    cars

vars == <<scene, adds, closed, barriers, shut, mode, paint, lights, cars>>

-----------------------------------------------------------------------------
(* buildControllers: a light for each edge at a node of two edges or more. *)
EdgesAt(n) == {e \in EdgeIds : n \in {Edges[e].from, Edges[e].to}}
Junctions == {n \in NodeIds : Cardinality(EdgesAt(n)) >= 2}

(* Where an edge leads from a node: to its first point elsewhere. *)
Direction(n, e) ==
    LET points == IF Edges[e].from = n THEN Edges[e].points ELSE Reverse(Edges[e].points)
    IN  Minus(SelectSeq(points, LAMBDA p : p # Nodes[n])[1], Nodes[n])

(* The order of Math.atan2(z, x). *)
Half(d) == IF d.z < 0 THEN 0 ELSE IF d.z > 0 THEN 2 ELSE IF d.x > 0 THEN 1 ELSE 3
Clockwise(a, b) == Half(a) < Half(b) \/ (Half(a) = Half(b) /\ Cross(a, b) > 0)
FirstClockwise(n, edges) ==
    CHOOSE e \in edges : \A f \in edges : ~Clockwise(Direction(n, e), Direction(n, f))

(* The dot product of the two directions, normalised, is below -0.3; and it
   is less for one edge than for another. *)
Signed(n) == n * Size(n)
Opposite(n, e, f) ==
    LET a == Direction(n, e)
        b == Direction(n, f)
    IN  100 * Signed(Dot(a, b)) < -9 * Square(a) * Square(b)

MoreOpposite(n, e, f, g) ==
    LET a == Direction(n, e)
        b == Direction(n, f)
        c == Direction(n, g)
    IN  Signed(Dot(a, b)) * Square(c) < Signed(Dot(a, c)) * Square(b)

(* A phase of buildPhases: the first edge that is left and, if one is opposite,
   the most opposite one. *)
Partners(n, e, others) ==
    {f \in others : Opposite(n, e, f) /\ \A g \in others : ~MoreOpposite(n, e, g, f)}
Chosen(partners) == IF partners = {} THEN {} ELSE {CHOOSE f \in partners : TRUE}
NextPhase(n, e, left) == {e} \cup Chosen(Partners(n, e, left \ {e}))
NextPhases(n, phases) ==
    LET left == EdgesAt(n) \ UNION ToSet(phases)
    IN  IF left = {} THEN phases
        ELSE Append(phases, NextPhase(n, FirstClockwise(n, left), left))

(* buildPhases: two edges share a phase; more are paired until none is left. *)
Paired(n) ==
    LET upto[k \in 0 .. Cardinality(EdgesAt(n))] ==
            IF k = 0 THEN <<>> ELSE NextPhases(n, upto[k - 1])
    IN  upto[Cardinality(EdgesAt(n))]

Phases == [n \in Junctions |->
              IF Cardinality(EdgesAt(n)) = 2 THEN <<EdgesAt(n)>> ELSE Paired(n)]

Lit(n, lamps, phase, colour) ==
    [e \in EdgesAt(n) |-> IF e \in Phases[n][phase] THEN colour ELSE lamps[e]]

AllRed(n) == [e \in EdgesAt(n) |-> "red"]

(* A new controller is anywhere in the green of its first phase. *)
NewLights ==
    {c \in [Junctions -> [phase : {1}, state : {"green"}, timer : 0 .. Green - 1,
                          lamps : {Lit(n, AllRed(n), 1, "green") : n \in Junctions}]] :
        \A n \in Junctions : c[n].lamps = Lit(n, AllRed(n), 1, "green")}

(* Slip: the next phase turns green without everything turning red. *)
TurnedKeepsYellow(n, c) ==
    LET t == c.timer + 1
        next == (c.phase % Len(Phases[n])) + 1
    IN  CASE c.state = "green" /\ t >= Green ->
                 [c EXCEPT !.timer = 0, !.state = "yellow",
                           !.lamps = Lit(n, @, c.phase, "yellow")]
          [] c.state = "yellow" /\ t >= Yellow -> [c EXCEPT !.timer = 0, !.state = "red"]
          [] c.state = "red" /\ t >= RedGap ->
                 [c EXCEPT !.timer = 0, !.state = "green", !.phase = next,
                           !.lamps = Lit(n, @, next, "green")]
          [] OTHER -> [c EXCEPT !.timer = t]

(* TrafficSimulator.tick for one controller. *)
Turned(n, c) ==
    LET t == c.timer + 1
        next == (c.phase % Len(Phases[n])) + 1
    IN  CASE c.state = "green" /\ t >= Green ->
                 [c EXCEPT !.timer = 0, !.state = "yellow",
                           !.lamps = Lit(n, @, c.phase, "yellow")]
          [] c.state = "yellow" /\ t >= Yellow ->
                 [c EXCEPT !.timer = 0, !.state = "red", !.lamps = AllRed(n)]
          [] c.state = "red" /\ t >= RedGap ->
                 [c EXCEPT !.timer = 0, !.state = "green", !.phase = next,
                           !.lamps = Lit(n, @, next, "green")]
          [] OTHER -> [c EXCEPT !.timer = t]

-----------------------------------------------------------------------------
(* A step drives an edge from its one node to its other. *)
Steps == [edge : EdgeIds, forward : BOOLEAN]
StartOf(s) == IF s.forward THEN Edges[s.edge].from ELSE Edges[s.edge].to
EndOf(s) == IF s.forward THEN Edges[s.edge].to ELSE Edges[s.edge].from
LengthOf(s) == Length(Edges[s.edge].points)
Cost(route) == FoldLeft(+, 0, [i \in DOMAIN route |-> LengthOf(route[i])])

(* The ways that are one step longer than those, over open edges and to nodes
   not visited yet. *)
Longer(open, a, ways) ==
    LET Visited(way) == {a} \cup {EndOf(way[i]) : i \in DOMAIN way}
        At(way) == IF way = <<>> THEN a ELSE EndOf(Last(way))
        Further(way) == {s \in Steps : /\ s.edge \in open /\ StartOf(s) = At(way)
                                      /\ EndOf(s) \notin Visited(way)}
    IN  UNION {{Append(way, s) : s \in Further(way)} : way \in ways}

(* The ways from a node over open edges that pass no node twice. *)
Ways(open, a) ==
    LET upto[k \in 0 .. Len(Nodes) - 1] ==
            IF k = 0 THEN {<<>>} ELSE Longer(open, a, upto[k - 1])
    IN  UNION {upto[k] : k \in 0 .. Len(Nodes) - 1}

(* findRoute finds one of the shortest, over the edges the map was rebuilt
   with. *)
ShortestWays(open, a, b) ==
    LET ways == {way \in Ways(open, a) : IF way = <<>> THEN a = b ELSE EndOf(Last(way)) = b}
    IN  {way \in ways : \A other \in ways : Cost(way) <= Cost(other)}

(* setClosedEdges is called with the edges that cross one of the paths. *)
Crossing(path) == {e \in EdgeIds : CrossesPath(Edges[e], path, Radius)}

Routes == [closing \in {{}} \cup {Crossing(path) : path \in Paths} |->
              [a \in NodeIds |-> [b \in NodeIds |->
                  ShortestWays(EdgeIds \ closing, a, b)]]]

(* getLightStateForCar *)
Lamp(junctions, s) ==
    IF EndOf(s) \in Junctions THEN junctions[EndOf(s)].lamps[s.edge] ELSE "none"

Stops(junctions, car) ==
    car.route # <<>> /\ Lamp(junctions, car.step) \in {"red", "yellow"}

(* assignNewDestination: from the end of the route, or, without one, from
   where the car's last step began. *)
SentAlong(car, route) ==
    [car EXCEPT !.route = route, !.idx = 1, !.dist = 0,
                !.step = IF route = <<>> THEN @ ELSE route[1]]

(* Slip: always from where the car's last step began. *)
DestinedFromStart(car) ==
    LET a == StartOf(car.step)
        others == IF Len(Nodes) = 1 THEN NodeIds ELSE NodeIds \ {a}
    IN  {SentAlong(car, route) :
            route \in UNION {IF Routes[shut][a][b] = {} THEN {<<>>} ELSE Routes[shut][a][b] :
                             b \in others}}

Destined(car) ==
    LET a == IF car.route = <<>> THEN StartOf(car.step) ELSE EndOf(Last(car.route))
        others == IF Len(Nodes) = 1 THEN NodeIds ELSE NodeIds \ {a}
    IN  {SentAlong(car, route) :
            route \in UNION {IF Routes[shut][a][b] = {} THEN {<<>>} ELSE Routes[shut][a][b] :
                             b \in others}}

(* How far beyond the beginning of each step to come a car has driven. *)
StepAt(car, i) == IF i = car.idx THEN car.step ELSE car.route[i]
LastStep(car) == IF car.route = <<>> THEN car.idx ELSE Len(car.route)
Driven(car) ==
    LET d[i \in car.idx .. LastStep(car)] ==
            IF i = car.idx THEN car.dist ELSE d[i - 1] - LengthOf(StepAt(car, i - 1))
    IN  d
MovedTo(car, i) == [car EXCEPT !.idx = i, !.dist = Driven(car)[i], !.step = StepAt(car, i)]

(* The loop at the end of an edge: the car leaves the edges it has driven to
   their end while no light stops it.  The first it does not leave so it is
   still on, or back on before the stop line of a red light, or, after the last
   step of its route, it is off to a new destination. *)
AtEnd(car) == car.dist >= LengthOf(car.step)
Passes(junctions, car) == AtEnd(car) /\ ~Stops(junctions, car)

Halted(junctions, car) ==
    CASE ~AtEnd(car) -> {car}
      [] AtEnd(car) /\ Stops(junctions, car) ->
             {[car EXCEPT !.dist = Max({LengthOf(car.step) - StopLine, 0})]}
      [] Passes(junctions, car) -> Destined(car)

Arrived(junctions, car) ==
    LET Leaves(i) == i < LastStep(car) /\ Passes(junctions, MovedTo(car, i))
    IN  Halted(junctions, MovedTo(car, CHOOSE i \in car.idx .. LastStep(car) :
                                          ~Leaves(i) /\ \A k \in car.idx .. i - 1 : Leaves(k)))

(* Slip: the light is not looked at again at the end of the edge. *)
UpdatedRunsRed(junctions, car) ==
    UNION {Arrived([n \in Junctions |-> [junctions[n] EXCEPT !.lamps =
                       [e \in EdgesAt(n) |-> "green"]]],
                   [car EXCEPT !.dist = @ + move]) : move \in Moves}

(* updateCar: what a frame may make of a car.  Whatever braked it, it does
   not stay past the stop line of a red light. *)
Updated(junctions, car) ==
    UNION {LET moved == car.dist + move
               line == LengthOf(car.step) - StopLine
               held == Stops(junctions, car) /\ line > 0 /\ moved >= line
           IN  Arrived(junctions, [car EXCEPT !.dist = IF held THEN line ELSE moved]) :
           move \in Moves}

-----------------------------------------------------------------------------
Init ==
    /\ scene = FALSE /\ adds = 0 /\ closed = {} /\ barriers = {} /\ shut = {}
    /\ mode = "color" /\ paint = [e \in EdgeIds |-> "none"]
    /\ lights = <<>> /\ cars = <<>>

(* addToScene: the lights and the cars start anew, and know of no closure. *)
AddToScene ==
    /\ adds < MaxAdds
    /\ scene' = TRUE /\ adds' = adds + 1
    /\ lights' \in NewLights /\ cars' = <<>> /\ shut' = {}
    /\ paint' = [e \in EdgeIds |-> Colour(e)]
    /\ UNCHANGED <<closed, barriers, mode>>

(* removeFromScene leaves the barriers. *)
RemoveFromScene ==
    /\ scene
    /\ scene' = FALSE /\ lights' = <<>> /\ cars' = <<>> /\ shut' = {}
    /\ UNCHANGED <<adds, closed, barriers, mode, paint>>

CloseEdges(path) ==
    /\ closed' = Crossing(path)
    /\ shut' = IF scene THEN closed' ELSE shut
    /\ barriers' = Barred(Nodes, Edges, closed', path)
    /\ paint' = [e \in EdgeIds |-> IF e \in closed' THEN "closed" ELSE paint[e]]
    /\ UNCHANGED <<scene, adds, mode, lights, cars>>

ClearClosures ==
    /\ closed # {}
    /\ closed' = {} /\ shut' = {} /\ barriers' = {}
    /\ paint' = [e \in EdgeIds |-> IF mode = "color" THEN Colour(e) ELSE "plain"]
    /\ UNCHANGED <<scene, adds, mode, lights, cars>>

(* Slip: closed roads are coloured like the others. *)
SetRoadDisplayModeOfAll(m) ==
    /\ mode' = m
    /\ paint' = IF m = "off" THEN paint
                ELSE [e \in EdgeIds |-> IF m = "color" THEN Colour(e) ELSE "plain"]
    /\ UNCHANGED <<scene, adds, closed, barriers, shut, lights, cars>>

(* setRoadDisplayMode: closed roads keep their colour. *)
SetRoadDisplayMode(m) ==
    /\ mode' = m
    /\ paint' = IF m = "off" THEN paint
                ELSE [e \in EdgeIds |-> IF e \in closed THEN paint[e]
                                        ELSE IF m = "color" THEN Colour(e) ELSE "plain"]
    /\ UNCHANGED <<scene, adds, closed, barriers, shut, lights, cars>>

(* Slip: the route goes on from where the car's first step begins. *)
SpawnCarAtStart ==
    /\ scene /\ Len(cars) < MaxCars
    /\ \E s \in {t \in Steps : t.edge \notin shut}, d \in Starts :
           \E b \in NodeIds \ {EndOf(s)} :
               \E way \in Routes[shut][StartOf(s)][b] \cup {<<>>} :
                   cars' = Append(cars, [route |-> <<s>> \o way, idx |-> 1, step |-> s, dist |-> d])
    /\ UNCHANGED <<scene, adds, closed, barriers, shut, mode, paint, lights>>

(* spawnCar: somewhere on an open edge, with a route on from its end if there
   is one.  respawnCars spawns several. *)
SpawnCar ==
    /\ scene /\ Len(cars) < MaxCars
    /\ \E s \in {t \in Steps : t.edge \notin shut}, d \in Starts :
           /\ d < LengthOf(s)
           /\ \E b \in NodeIds \ {EndOf(s)} :
                  LET ways == Routes[shut][EndOf(s)][b] IN
                  \E way \in IF ways = {} THEN {<<>>} ELSE ways :
                      cars' = Append(cars, [route |-> <<s>> \o way, idx |-> 1,
                                            step |-> s, dist |-> d])
    /\ UNCHANGED <<scene, adds, closed, barriers, shut, mode, paint, lights>>

RemoveCar ==
    /\ cars # <<>>
    /\ cars' = Front(cars)
    /\ UNCHANGED <<scene, adds, closed, barriers, shut, mode, paint, lights>>

RemoveAllCars ==
    /\ cars # <<>>
    /\ cars' = <<>>
    /\ UNCHANGED <<scene, adds, closed, barriers, shut, mode, paint, lights>>

(* A frame: the lights first, then each car. *)
Tick ==
    /\ scene
    /\ lights' = [n \in Junctions |-> Turned(n, lights[n])]
    /\ cars' \in {moved \in [DOMAIN cars -> UNION {Updated(lights', cars[i]) : i \in DOMAIN cars}] :
                     \A i \in DOMAIN cars : moved[i] \in Updated(lights', cars[i])}
    /\ UNCHANGED <<scene, adds, closed, barriers, shut, mode, paint>>

Next ==
    \/ AddToScene
    \/ RemoveFromScene
    \/ \E path \in Paths : CloseEdges(path)
    \/ ClearClosures
    \/ \E m \in {"off", "on", "color"} : SetRoadDisplayMode(m)
    \/ SpawnCar
    \/ RemoveCar
    \/ RemoveAllCars
    \/ Tick

Spec == Init /\ [][Next]_vars

-----------------------------------------------------------------------------
(* Two approaches of a junction that may be driven at once, because neither
   lamp is red, are opposite each other or its only two: the lights of a
   junction never let crossing traffic meet. *)
OneWayAtATime ==
    \A n \in DOMAIN lights : \A e, f \in EdgesAt(n) :
        e # f /\ "red" \notin {lights[n].lamps[e], lights[n].lamps[f]} =>
            Cardinality(EdgesAt(n)) = 2 \/ Opposite(n, e, f) \/ Opposite(n, f, e)

(* The steps of a car's route join, however roads were closed and opened while
   it drove, and it drives the step of its route it is at, somewhere before
   its end.  How one route follows another is GoesOn's. *)
RoutesJoin ==
    \A i \in DOMAIN cars :
        LET car == cars[i] IN
        /\ \A k \in 1 .. Len(car.route) - 1 : EndOf(car.route[k]) = StartOf(car.route[k + 1])
        /\ car.route # <<>> => car.step = car.route[car.idx]
        /\ 0 <= car.dist /\ car.dist < LengthOf(car.step)

(* What becomes of a car: it drives on along its route, or takes a new one from
   the node where its last step ended.  Only where no open road leads on it
   jumps, and without a route is back at the beginning of its last step; from
   there, too, and not from its end, starts the next route it is given. *)
GoesOn(car, next) ==
    \/ next.route = car.route /\ next.idx >= car.idx
    \/ /\ next.route = <<>> /\ next.dist = 0
       /\ next.step = IF car.route = <<>> THEN car.step ELSE Last(car.route)
    \/ /\ next.route # <<>>
       /\ StartOf(next.step) = IF car.route = <<>> THEN StartOf(car.step)
                               ELSE EndOf(Last(car.route))

(* From one frame to the next a car goes on so, over any number of edges and
   closings (CarSimulator.updateCar, assignNewDestination). *)
RoutesGoOn ==
    [][\A i \in DOMAIN cars \cap DOMAIN cars' : GoesOn(cars[i], cars'[i])]_vars

(* A car that has a route leaves an edge only while its lamp is green, or
   where there is none. *)
StopsAtRed ==
    [][\A i \in DOMAIN cars \cap DOMAIN cars' :
           cars[i].route # <<>> /\ cars'[i].step # cars[i].step =>
               Lamp(lights', cars[i].step) \in {"green", "none"}]_vars

(* The roads the cars are kept off are those shown closed, whatever display
   mode is chosen and however often the network is shown anew.  The converse
   does not hold: a second closeEdges leaves the roads of the first red. *)
ShutIsShown == scene => \A e \in shut : paint[e] = "closed"

(* Cars do not jump while a road leads on, and do not run a red light. *)
CarsDriveOn == RoutesGoOn /\ StopsAtRed

(* Cars drive along roads that join, see closed what they are kept off, and
   are given way to. *)
RoadsAreKept == OneWayAtATime /\ RoutesJoin /\ ShutIsShown
=============================================================================
