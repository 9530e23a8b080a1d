------------------------------- MODULE MCTools ------------------------------
(***************************************************************************)
(* The tools around the gateway: the player of recorded messages, the      *)
(* tester's console, its log, and the gateway's twin; and the library of   *)
(* roads, the traffic on a map and how maps of two roads are read.  They   *)
(* share no state, so each runs by itself: `part` says which.              *)
(***************************************************************************)
EXTENDS MCRoads

CONSTANTS Dumps, None, Absent, TickInterval, Interval, CountdownLead, Scales, MaxRows, Spacings,
          Shown, Odd, MaxWire, MaxButtons, MaxResets, MaxDrops,
          MaxEntries, EvictionBatch, MaxAppended,
          Types, Simulations, Unknown, MaxIds, MaxTicks

ASSUME ReplayAssumption ==
    /\ TickInterval \in Nat \ {0} /\ Interval \in Nat \ {0} /\ CountdownLead \in Nat
    /\ Scales \subseteq Nat \ {0} /\ 1 \in Scales
    /\ Absent \notin Int

(* The fields of a row; those that it lacks are Absent. *)
Rows ==
    [kind : {"raw", "thin", "nodata", "bad"}, event : STRING, tool : STRING, status : STRING,
     tick : Int \cup {Absent}, wall : Int \cup {Absent}, perf : Int \cup {Absent}]

ASSUME DumpsAssumption == Dumps # {} /\ Dumps \subseteq Seq(Rows)

ASSUME LogAssumption ==
    MaxEntries \in Nat \ {0} /\ EvictionBatch \in Nat \ {0} /\ MaxAppended \in Nat

ASSUME TwinAssumption == MaxIds \in Nat /\ MaxTicks \in Nat

VARIABLES
    part, pair,
    dump, aligned, plan, scale, steady, clock, stamp, due, completed, cancelled, countdownDue,
    socket, retry, wire, tracked, search, rows, ticked, spawned, resetting, buttons,
    pulses, actions, live, issued, resets, drops, excused,
    queue, rafId, frame, shown, dropped, badge, near, first, appended,
    stored, simulations, counter, given, answer

-----------------------------------------------------------------------------
(* Every dump of up to MaxRows rows of a few kinds, evenly spaced in time. *)

Row(kind, event, tool, tick, status) ==
    [kind |-> kind, event |-> event, tool |-> tool, tick |-> tick, status |-> status,
     wall |-> Absent, perf |-> Absent]

Kinds ==
    { Row("thin", "model_start", "", Absent, ""),
      Row("thin", "tool_start", "fire_start_gun", Absent, ""),
      Row("thin", "tool_end", "process_tick", 0, ""),
      Row("thin", "tool_end", "process_tick", 2, ""),
      Row("thin", "tool_end", "advance_tick", 11, ""),
      Row("thin", "tool_end", "check_race_complete", Absent, "race_complete"),
      Row("thin", "tool_start", "compile_results", Absent, "") }

Spaced(rows_, d) == [i \in DOMAIN rows_ |-> [rows_[i] EXCEPT !.wall = d * i]]

Gapped ==
    << Row("bad", "", "", Absent, ""),
       [Row("thin", "text", "", Absent, "") EXCEPT !.perf = 0],
       [Row("thin", "text", "", Absent, "") EXCEPT !.perf = 8] >>

Assorted ==
    { << Row("nodata", "text", "", Absent, ""), Row("thin", "tool_end", "process_tick", 0, "") >>,
      << Row("raw", "", "", Absent, ""), Row("thin", "text", "", Absent, ""),
         Row("raw", "", "", Absent, "") >>,
      Gapped }

MCDumps ==
    UNION {{Spaced(r, d) : r \in [1..n -> Kinds], d \in Spacings} : n \in 1..MaxRows}
    \cup Assorted

-----------------------------------------------------------------------------
Player == INSTANCE ReplayDump
Tester == INSTANCE Console WITH Sessions <- Shown
Log == INSTANCE LogBuffer
Twin == INSTANCE GatewayTwin WITH Targets <- {"sessions", "queues"},
                                  sessions <- stored, issued <- given

playerVars == <<dump, aligned, plan, scale, steady, clock, stamp, due, completed,
                cancelled, countdownDue>>
testerVars == <<socket, retry, wire, tracked, search, rows, ticked, spawned,
                resetting, buttons, pulses, actions, live, issued, resets, drops, excused>>
logVars == <<queue, rafId, frame, shown, dropped, badge, near, first, appended>>
twinVars == <<stored, simulations, counter, given, answer>>
toolVars == <<playerVars, testerVars, logVars, twinVars>>
roadVars == <<pair, vars>>
allVars == <<part, toolVars, roadVars>>

MCInit ==
    /\ part \in {"player", "tester", "log", "twin", "traffic", "map"}
    /\ part # "player" => dump = (CHOOSE d \in Dumps : TRUE) /\ aligned = FALSE /\ scale = 1
    /\ Player!Init /\ Tester!Init /\ Log!Init /\ Twin!Init
    /\ Init /\ pair \in IF part = "map" THEN {p \in Pairs : Exact(p)} ELSE {<<>>}

PlayerStep(A) ==
    part = "player" /\ A /\ UNCHANGED <<part, testerVars, logVars, twinVars, roadVars>>
TesterStep(A) ==
    part = "tester" /\ A /\ UNCHANGED <<part, playerVars, logVars, twinVars, roadVars>>

MCNext ==
    \/ PlayerStep(Player!Next)
    \/ TesterStep(Tester!Next)
    \/ /\ part = "log" /\ Log!Next
       /\ UNCHANGED <<part, playerVars, testerVars, twinVars, roadVars>>
    \/ /\ part = "twin" /\ Twin!Next
       /\ UNCHANGED <<part, playerVars, testerVars, logVars, roadVars>>
    \/ part = "traffic" /\ Next /\ UNCHANGED <<part, pair, toolVars>>

(* The fairness of each part, see there. *)
Fairness ==
    /\ WF_allVars(PlayerStep(Player!Start)) /\ WF_allVars(PlayerStep(Player!Fire))
    /\ WF_allVars(TesterStep(Tester!Connect)) /\ WF_allVars(TesterStep(Tester!Open))

MCSpec == MCInit /\ [][MCNext]_allVars /\ Fairness

-----------------------------------------------------------------------------
(* ReplayDump: within a segment and between ticks the recorded pace is kept,
   and the countdown of a cached race ends as the race begins. *)
ReplayKeepsTime ==
    part = "player" => Player!TicksKeepTheirPace /\ Player!CountdownMeetsTheRace

(* ReplayDump: a cancelled replay delivers nothing more, any other one delivers
   its last frame; Console: a lost connection is dialled again. *)
ToolsComeToAnEnd == Player!CancelIsFinal /\ Player!Completes /\ Tester!Reconnects

(* Console: the page lists the sessions that are tracked, and one of them that
   is gone was lost by a missed message; LogBuffer: the page, the queue and the
   count of dropped entries are all there is, in order. *)
PageIsTrue ==
    /\ part = "tester" => Tester!RowsShowTracked /\ Tester!GhostsHaveACause
    /\ part = "log" => Log!LogIsWhole

(* GatewayTwin: the lists of sessions and simulations agree, and what it
   answers to a replay is a race from its start to its end. *)
TwinIsTrue == part = "twin" => Twin!BooksAgree /\ Twin!ReplayIsARace

(* RoadNetwork: the network of two roads is all of both, cut where they meet. *)
MapsAreWhole == part = "map" => MapIsWhole(pair)
=============================================================================
