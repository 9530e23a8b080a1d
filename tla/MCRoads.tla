------------------------------ MODULE MCRoads ------------------------------
(* A map with traffic for TLC, and many pairs of roads; MCTools runs both. *)
EXTENDS RoadTraffic

P(x, z) == [x |-> x, z |-> z]

(* A street of three junctions, and a block behind it. *)
MCStreets == << <<P(-10, 0), P(0, 0), P(10, 0)>>, <<P(0, 0), P(0, 10), P(10, 10)>>,
                <<P(10, 10), P(10, 0)>> >>
MCNodes == <<P(-10, 0), P(10, 0), P(0, 0), P(10, 10)>>
MCEdges ==
    <<[road |-> 1, from |-> 1, to |-> 3, points |-> <<P(-10, 0), P(0, 0)>>],
      [road |-> 1, from |-> 3, to |-> 2, points |-> <<P(0, 0), P(0, 0), P(10, 0)>>],
      [road |-> 2, from |-> 3, to |-> 4, points |-> <<P(0, 0), P(0, 10), P(10, 10)>>],
      [road |-> 3, from |-> 4, to |-> 2, points |-> <<P(10, 10), P(10, 0)>>]>>
MCPaths == {<<P(5, -5), P(5, 5)>>, <<P(-5, -5), P(-5, 5)>>}

(* A straight road, and another that crosses it, touches it, ends close to it
   or bends on it, near its ends and in its middle. *)
Across == {-1, 0, 1, 2, 30, 58, 60, 61}
Pairs ==
    {<< <<P(0, 0), P(60, 0)>>, road>> : road \in
        {<<P(x, z), P(y, u)>> : x, y \in Across, z \in {-60, -40, 0}, u \in {-1, 1, 2, 40}}
        \cup {<<P(x, -40), P(m, t), P(y, u)>> : x \in {0, 30}, y \in {20, 60}, u \in {-40, 40},
                                               m \in {-1, 1, 20, 59}, t \in {-1, 0, 1}}}

Places(a, b, c, d) ==
    LET den == Cross(Minus(b, a), Minus(d, c))
    IN  (Cross(Minus(c, a), Minus(d, c)) * (b.x - a.x)) % Size(den) = 0

(* Only roads that meet in points of the grid, and are long enough. *)
Exact(p) ==
    \A s \in SegmentsOf(p[2]) :
        /\ Meet(p[1][1], p[1][2], p[2][s], p[2][s + 1]) =>
               Places(p[1][1], p[1][2], p[2][s], p[2][s + 1])
        /\ Square(Minus(p[2][s + 1], p[2][s])) > 100
=============================================================================
