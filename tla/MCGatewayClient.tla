-------------------------- MODULE MCGatewayClient --------------------------
(***************************************************************************)
(* GatewayClient with a planner, a runner and a stranger; two simulations. *)
(* A behaviour is calm, and run() and stop() are not called while the proto *)
(* or a stream loads, or hurried, and then the chat and the race state     *)
(* stay as they are.                                                       *)
(***************************************************************************)
EXTENDS GatewayClient

VARIABLE calm

Live(event, tool, sid, sim, res, sids) ==
    Message("json", event, tool, "agent", sid, sim, res, sids)

Race(sid, sim) ==
    { Live("model_start", "", sid, sim, {}, {}),
      Live("tool_end", "start_simulation", sid, sim, {"ok"}, {}),
      Live("run_end", "", sid, sim, {}, {}) }

MCLiveMessages ==
    Race("planner", "s1") \cup Race("runner", "s2") \cup
    { Live("tool_end", "spawn_runners", "planner", "s1", {"ok"}, {"runner"}),
      Live("tool_end", "fire_start_gun", "planner", "s1", {"ok"}, {"runner"}),
      Live("tool_end", "advance_tick", "planner", "s1", {"ok"}, {}),
      Live("tool_end", "check_race_complete", "planner", "s1", {"race_complete"}, {}),
      Live("text", "", "planner", "s1", {}, {}),
      Live("json", "", "planner", "s1", {"financial"}, {}),
      Live("json", "", "planner", "s1", {"event_plan"}, {}),
      Live("json", "", "planner", "s1", {}, {}),
      Live("run_start", "", "planner", "s1", {}, {}),
      Live("tool_start", "load_skill", "planner", "s1", {}, {}),
      Live("tool_end", "report_marathon_route", "planner", "s1", {"ok"}, {}),
      Live("tool_error", "prepare_simulation", "planner", "s1", {}, {}),
      Message("a2ui", "a2ui", "", "agent", "planner", "s1", {"surface"}, {}),
      Message("json", "tool_end", "process_tick", "runner_autopilot", "runner", "s1",
              {"ok", "finished"}, {}),
      Message("json", "text", "", "tick", "planner", "s1", {}, {}),
      Message("json", "broadcast", "", "agent", "planner", None, {}, {}) }

Cached(event, tool, res, sids) == Live(event, tool, "planner", None, res, sids)

RaceStream ==
    << Cached("tool_end", "start_simulation", {"ok"}, {}),
       Cached("tool_end", "spawn_runners", {"ok"}, {"runner"}),
       Cached("tool_end", "fire_start_gun", {"ok"}, {"runner"}),
       Cached("tool_end", "advance_tick", {"ok"}, {}),
       Message("json", "tool_end", "process_tick", "runner_autopilot", "runner", None,
               {"ok", "collapsed", "finished"}, {}),
       Cached("tool_end", "check_race_complete", {"race_complete"}, {}),
       Cached("run_end", "", {}, {}) >>

(* What is played again and again while streams are fetched and stopped. *)
TickStream ==
    << Cached("tool_end", "start_simulation", {"ok"}, {}),
       Message("json", "tool_end", "process_tick", "runner_autopilot", "runner", None,
               {"ok", "finished"}, {}) >>

PlanStream ==
    << Live("model_start", "", "planner", "r1", {}, {}),
       Live("run_end", "", "planner", "r1", {}, {}) >>

RaceRecordings == {RaceStream, PlanStream}
ShortRecordings == {TickStream, PlanStream, <<>>}

MCInit == Init /\ calm \in BOOLEAN

Hurried ==
    /\ previous' = {} /\ organizer' = None /\ ~showLoadSkills'
    /\ known' = {} /\ ~raceComplete' /\ pace'.target = 0

MCNext ==
    /\ Next /\ UNCHANGED calm
    /\ IF calm THEN astray' = {} /\ ~blind' ELSE Hurried

MCSpec == MCInit /\ [][MCNext]_<<vars, calm>> /\ Fairness
=============================================================================
