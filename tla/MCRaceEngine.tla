----------------------------- MODULE MCRaceEngine -----------------------------
(***************************************************************************)
(* Instances of RaceEngine for TLC: one race, or a short and a long one in *)
(* the same simulator process.                                             *)
(***************************************************************************)
EXTENDS RaceEngine, TLC

CONSTANTS
  long, short, \* simulations
  r1, r2, r3,  \* runner sessions
  LongTicks    \* max_ticks of the long race; the short one has one tick

MCRunnersOf == [s \in Sim |-> IF s = long THEN Runner \cap {r1, r2} ELSE Runner \cap {r3}]
MCMaxTicks  == [s \in Sim |-> IF s = long THEN LongTicks ELSE 1]

\* The two runners of a race are interchangeable (safety only).
Symmetry == Permutations({r1, r2})
=============================================================================
