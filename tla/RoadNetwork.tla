---------------------------- MODULE RoadNetwork ----------------------------
(***************************************************************************)
(* How a road network is made of the polylines of a map: where they meet   *)
(* there is a node, and between two nodes of a polyline an edge.           *)
(*                                                                         *)
(* A point is a pair of world coordinates, a road the sequence of its      *)
(* points.  Everything is decided in integers: distances are compared by   *)
(* their squares, and a length is twice its value where the code's is a    *)
(* half.  Names, colours, ribbons and labels are left out.                 *)
(***************************************************************************)
EXTENDS Integers, Sequences, SequencesExt, FiniteSetsExt

Minus(a, b) == [x |-> a.x - b.x, z |-> a.z - b.z]
Dot(a, b) == a.x * b.x + a.z * b.z
Cross(a, b) == a.x * b.z - a.z * b.x
Square(a) == Dot(a, a)
Size(n) == IF n < 0 THEN -n ELSE n

SnapTolerance == 3      \* twice SNAP_TOLERANCE
PathNodeDistance == 11  \* twice PATH_NODE_DIST

SegmentsOf(road) == 1 .. Len(road) - 1

(* pointToSegmentDist: twice the distance of p to the segment is below d. *)
Near(p, a, b, d) ==
    LET ab == Minus(b, a)
        along == Dot(ab, Minus(p, a))
    IN  IF along <= 0 THEN 4 * Square(Minus(p, a)) < d * d
        ELSE IF along >= Square(ab) THEN 4 * Square(Minus(p, b)) < d * d
        ELSE 4 * (Square(Minus(p, a)) * Square(ab) - along * along) < d * d * Square(ab)

(* Slip: inside, a tenth of their length from their ends. *)
CrossesInsideTenth(a, b, c, d) ==
    LET den == Cross(Minus(b, a), Minus(d, c))
        sign == IF den < 0 THEN -1 ELSE 1
        Inside(n) == 10 * sign * n > sign * den /\ 10 * sign * n < 9 * sign * den
    IN  /\ den # 0
        /\ Inside(Cross(Minus(c, a), Minus(d, c)))
        /\ Inside(Cross(Minus(c, a), Minus(b, a)))

(* segmentIntersection: inside both segments, a hundredth of their length
   from their ends. *)
CrossesInside(a, b, c, d) ==
    LET den == Cross(Minus(b, a), Minus(d, c))
        sign == IF den < 0 THEN -1 ELSE 1
        Inside(n) == 100 * sign * n > sign * den /\ 100 * sign * n < 99 * sign * den
    IN  /\ den # 0
        /\ Inside(Cross(Minus(c, a), Minus(d, c)))
        /\ Inside(Cross(Minus(c, a), Minus(b, a)))

(* The point where they cross, which is one of the grid in every instance. *)
CrossingPoint(a, b, c, d) ==
    LET den == Cross(Minus(b, a), Minus(d, c))
        n == Cross(Minus(c, a), Minus(d, c))
    IN  [x |-> a.x + (n * (b.x - a.x)) \div den, z |-> a.z + (n * (b.z - a.z)) \div den]

-----------------------------------------------------------------------------
(* findOrCreateNode *)
FindOrCreate(nodes, p) ==
    IF \E i \in DOMAIN nodes : 4 * Square(Minus(nodes[i], p)) < SnapTolerance * SnapTolerance
    THEN nodes ELSE Append(nodes, p)

Ends(roads) == FlattenSeq([i \in DOMAIN roads |-> <<Head(roads[i]), Last(roads[i])>>])

Crossings(roads) ==
    LET Cuts(i, j) ==
            {CrossingPoint(roads[i][sr[1]], roads[i][sr[1] + 1],
                           roads[j][sr[2]], roads[j][sr[2] + 1]) :
                sr \in {sr \in SegmentsOf(roads[i]) \X SegmentsOf(roads[j]) :
                          CrossesInside(roads[i][sr[1]], roads[i][sr[1] + 1],
                                        roads[j][sr[2]], roads[j][sr[2] + 1])}}
    IN  UNION {Cuts(ij[1], ij[2]) : ij \in {ij \in (DOMAIN roads) \X (DOMAIN roads) : ij[1] < ij[2]}}

(* A T-junction: a point of a road near a segment of another. *)
Touching(roads) ==
    {p \in UNION {ToSet(roads[j]) : j \in DOMAIN roads} :
        \E i, j \in DOMAIN roads :
            /\ i # j /\ p \in ToSet(roads[j])
            /\ \E s \in SegmentsOf(roads[i]) :
                   Near(p, roads[i][s], roads[i][s + 1], SnapTolerance)}

(* fromGeoJSON: the nodes; a node is known by its place in the sequence. *)
NodesOf(roads) ==
    FoldLeft(FindOrCreate, <<>>,
             Ends(roads) \o SetToSeq(Crossings(roads)) \o SetToSeq(Touching(roads)))

(* The nodes on a road in its order, each at the first segment it is near. *)
FirstSegment(p, road) ==
    Min({s \in SegmentsOf(road) : Near(p, road[s], road[s + 1], SnapTolerance)})

Along(p, road) ==
    LET s == FirstSegment(p, road)
        ab == Minus(road[s + 1], road[s])
        along == Dot(ab, Minus(p, road[s]))
    IN  IF along < 0 THEN 0 ELSE IF along > Square(ab) THEN Square(ab) ELSE along

OnRoad(nodes, road) ==
    LET on == {n \in DOMAIN nodes : \E s \in SegmentsOf(road) :
                  Near(nodes[n], road[s], road[s + 1], SnapTolerance)}
        Before(m, n) ==
            LET s == FirstSegment(nodes[m], road)
                t == FirstSegment(nodes[n], road)
                u == Along(nodes[m], road)
                v == Along(nodes[n], road)
            IN  s < t \/ (s = t /\ (u < v \/ (u = v /\ m < n)))
    IN  SetToSortSeq(on, Before)

(* An edge between two consecutive nodes has the points of the road between,
   and the road's name. *)
Pieces(nodes, roads, i) ==
    LET road == roads[i]
        on == OnRoad(nodes, road)
    IN  [k \in 1 .. Len(on) - 1 |->
            [road |-> i, from |-> on[k], to |-> on[k + 1],
             points |-> <<nodes[on[k]]>>
                        \o SubSeq(road, FirstSegment(nodes[on[k]], road) + 1,
                                  FirstSegment(nodes[on[k + 1]], road))
                        \o <<nodes[on[k + 1]]>>]]

EdgesOf(roads) ==
    LET nodes == NodesOf(roads)
    IN  FlattenSeq([i \in DOMAIN roads |-> Pieces(nodes, roads, i)])

(* A length, of roads that run along the axes. *)
Length(points) ==
    FoldLeft(+, 0, [s \in SegmentsOf(points) |-> Size(points[s + 1].x - points[s].x)
                                             + Size(points[s + 1].z - points[s].z)])

-----------------------------------------------------------------------------
(* findEdgesCrossingPath: near the path, and at more than 35 degrees to it
   (the square of the cosine is 0.67101). *)
SegmentsNear(a, b, c, d, radius) ==
    \/ Near(a, c, d, 2 * radius) \/ Near(b, c, d, 2 * radius)
    \/ Near(c, a, b, 2 * radius) \/ Near(d, a, b, 2 * radius)

CrossesPath(edge, path, radius) ==
    \E s \in SegmentsOf(edge.points), r \in SegmentsOf(path) :
        LET a == edge.points[s]
            b == edge.points[s + 1]
            c == path[r]
            d == path[r + 1]
            e == Minus(b, a)
            p == Minus(d, c)
        IN  /\ Square(e) > 0 /\ Square(p) > 0
            /\ (CrossesInside(a, b, c, d) \/ SegmentsNear(a, b, c, d, radius))
            /\ 100000 * Dot(e, p) * Dot(e, p) < 67101 * Square(e) * Square(p)

(* buildBarriers: the ends of closed edges that are not on the path. *)
Barred(nodes, edges, closed, path) ==
    {n \in UNION {{edges[e].from, edges[e].to} : e \in closed} :
        ~\E r \in SegmentsOf(path) : Near(nodes[n], path[r], path[r + 1], PathNodeDistance)}

-----------------------------------------------------------------------------
(* Two segments that cross, or touch, at an angle. *)
Sides(a, b, p) == Cross(Minus(b, a), Minus(p, a))
Straddle(a, b, c, d) == Sides(a, b, c) * Sides(a, b, d) <= 0
Meet(a, b, c, d) ==
    /\ Straddle(a, b, c, d) /\ Straddle(c, d, a, b)
    /\ Cross(Minus(b, a), Minus(d, c)) # 0

(* The network of the roads is whole: wherever two of them meet a car can
   leave the one for the other, at a junction within the snap tolerance of the
   place, be it a crossing, a bend that touches or an end that falls short;
   and each road leads from its first point to its last.  Of roads so long
   that a hundredth of them is more than the tolerance this is not so. *)
MapIsWhole(roads) ==
    LET nodes == NodesOf(roads)
        on == [i \in DOMAIN roads |-> OnRoad(nodes, roads[i])]
        At(n, p) == 4 * Square(Minus(nodes[n], p)) < SnapTolerance * SnapTolerance
    IN  /\ \A i, j \in DOMAIN roads : i < j =>
               \A s \in SegmentsOf(roads[i]), r \in SegmentsOf(roads[j]) :
                   LET a == roads[i][s]
                       b == roads[i][s + 1]
                       c == roads[j][r]
                       d == roads[j][r + 1]
                   IN  Meet(a, b, c, d) => \E n \in ToSet(on[i]) \cap ToSet(on[j]) :
                                             At(n, CrossingPoint(a, b, c, d))
        /\ \A i \in DOMAIN roads :
               Len(on[i]) > 1 /\ At(Head(on[i]), Head(roads[i])) /\ At(Last(on[i]), Last(roads[i]))
=============================================================================
