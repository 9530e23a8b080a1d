--------------------------- MODULE MCRedisRegistry ---------------------------
(***************************************************************************)
(* Instances of RedisRegistry for TLC: one request at work beside the      *)
(* reaper, command by command; and batches of two types and two            *)
(* simulations, one operation at a time.  `part` says which.               *)
(***************************************************************************)
EXTENDS RedisRegistry

CONSTANTS s1, s2, s3, a, b, m, n, h1, f, r

VARIABLES part, keys, doing, sent, frame, handed, undone, ghosts, flushed, cut

alone == <<keys, doing, sent, frame, handed, undone, ghosts, flushed, cut>>

Alone == INSTANCE RedisRegistry WITH
  Session <- {s1, s2, s3}, AgentType <- {a, b}, Simulation <- {m, n},
  Handler <- {h1}, Flusher <- {f}, Reaper <- {r},
  MaxBatch <- 2, MaxFlushes <- 1, MaxErrors <- 0, Serial <- TRUE, Faults <- {"enqueue"},
  db <- keys, at <- doing, pipe <- sent, local <- frame, used <- handed,
  rolledBack <- undone, unfound <- ghosts, flushes <- flushed, errors <- cut

MCInit == part \in {"beside", "alone"} /\ Init /\ Alone!Init

Beside(A) == part = "beside" /\ A /\ UNCHANGED <<part, alone>>

MCNext ==
  \/ Beside(Next)
  \/ part = "alone" /\ Alone!Next /\ UNCHANGED <<part, vars>>

MCVars == <<part, vars, alone>>

\* The fairness of FairSpec.
MCSpec ==
  /\ MCInit /\ [][MCNext]_MCVars
  /\ \A h \in Handler : WF_MCVars(Beside(HandlerNext(h)))
  /\ \A c \in Reaper : WF_MCVars(Beside(ReaperNext(c)))

\* ServesExactly of operations that do not overlap: they implement the in-memory
\* service, and leave the lists of types and simulations as it has them.
ServesOneByOne == Alone!ServesExactly
=============================================================================
