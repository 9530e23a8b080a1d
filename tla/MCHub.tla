-------------------------------- MODULE MCHub --------------------------------
(***************************************************************************)
(* Instances of Hub for TLC. A .cfg chooses the connections and messages;  *)
(* their attributes are the same in every run.                             *)
(***************************************************************************)
EXTENDS Hub

CONSTANTS
  obs,        \* a global observer: no query parameter
  tab1, tab2, \* a connection of each session, the second auto-subscribed
  s1, s2, A, B,
  toAll,      \* message of simulation A that names no session
  twice,      \* message of simulation A whose list names s1 twice
  plain,      \* remote message of no simulation, to s2
  bcast,      \* text broadcast
  text        \* text message to session s1

MCSessionOf == [c \in Client |-> CASE c = obs  -> Global
                                   [] c = tab1 -> s1
                                   [] c = tab2 -> s2]
MCAutoSub   == [c \in Client |-> IF c = tab2 THEN A ELSE NoSim]
MCChannel   == [m \in Message |-> IF m = bcast THEN "broadcast"
                                  ELSE IF m = text THEN "sessionMsg" ELSE "remoteMsg"]
MCTargets   == [m \in Message |-> CASE m \in {toAll, bcast} -> <<>>
                                    [] m = twice -> <<s1, s1>>
                                    [] m = plain -> <<s2>>
                                    [] m = text -> <<s1>>]
MCSimOf     == [m \in Message |-> IF m \in {toAll, twice} THEN A ELSE NoSim]
=============================================================================
