--------------------------- MODULE GatewayClient ---------------------------
(***************************************************************************)
(* The browser's gateway client: the one observer WebSocket and its        *)
(* reconnection, the simulation it follows, the handler of every inbound   *)
(* message, the sessions spawned from the browser, and the cached replay   *)
(* that plays a recorded stream into the same handler.                     *)
(*                                                                         *)
(* A message is a record                                                   *)
(*   [type, event, tool, origin, sid, sim, res, sids]                      *)
(* where res is the set of facts its result carries ({} when it has none)  *)
(* and sids the sessions listed by spawn_runners.  Labels (agent types,    *)
(* display and speaker names) and texts are left out: nothing the client   *)
(* decides depends on them.                                                *)
(***************************************************************************)
EXTENDS Integers, Sequences, FiniteSets

CONSTANTS
    Sims,             \* simulation ids of live traffic
    RecordedSims,     \* simulation ids that occur only in recordings
    Sessions,         \* agent and runner sessions
    ChatAgents,       \* the sessions the spawn API may answer with
    LiveMessages,     \* what the gateway may deliver
    Recordings,       \* the cached streams: sequences of messages
    None,             \* no simulation, no session, no run
    MaxRuns           \* bound: replays fetching or playing at once

ASSUME ClientAssumption ==
    /\ Sims \cap RecordedSims = {}
    /\ None \notin Sims \cup RecordedSims \cup Sessions
    /\ ChatAgents \subseteq Sessions
    /\ MaxRuns \in Nat

(* A recording names no simulation of live traffic. *)
ASSUME RecordingsAssumption ==
    \A rec \in Recordings :
        /\ rec \in Seq({rec[k] : k \in DOMAIN rec})
        /\ \A k \in DOMAIN rec : rec[k].sim \in RecordedSims \cup {None}

Runs == 1..MaxRuns
AllSims == Sims \cup RecordedSims

VARIABLES
    proto,         \* Wrapper and BroadcastRequest are loaded
    socket,        \* the monitor socket: "none", "connecting" or "open"
    redial,        \* a reconnection timer is pending
    wire,          \* the simulations the gateway streams on this connection
    subscribed,    \* subscribedSimulationId
    sessions, userSpawned,
    known, collapsed, finished, raceComplete,
    pace,          \* [target, seen]: the first-pace sample of fire_start_gun
    previous,      \* which previousMessageIs... flags are set
    organizer, showLoadSkills,
    replayActive,  \* ndjsonReplayActive
    run,           \* of every replay started: its recording, position, phase
    stopper,       \* the replay cachedReplayStop cancels
    countdown,     \* the cached countdown timer is pending
    astray, blind, \* for the properties
    out            \* the kinds of what the last handler showed: "chat" or
                   \* the name of a window event

connVars == <<proto, socket, redial, wire>>
raceVars == <<known, collapsed, finished, raceComplete, pace>>
chatVars == <<previous, organizer, showLoadSkills>>
agentVars == <<sessions, userSpawned>>
histVars == <<astray, blind>>
replayVars == <<replayActive, run, stopper, countdown, histVars>>
vars == <<connVars, subscribed, agentVars, raceVars, chatVars, replayVars, out>>

Idle == [rec |-> <<>>, pos |-> 0, phase |-> "idle"]

Init ==
    /\ proto = FALSE /\ socket = "none" /\ redial = FALSE
    /\ wire = {}
    /\ subscribed = None /\ sessions = {} /\ userSpawned = {}
    /\ known = {} /\ collapsed = {} /\ finished = {} /\ raceComplete = FALSE
    /\ pace = [target |-> 0, seen |-> 0]
    /\ previous = {} /\ organizer = None /\ showLoadSkills = FALSE
    /\ replayActive = FALSE /\ run = [i \in Runs |-> Idle]
    /\ stopper = None /\ countdown = FALSE
    /\ astray = {} /\ blind = FALSE
    /\ out = {}

-----------------------------------------------------------------------------
(* The monitor socket. *)

(* loadProto: the proto is fetched once, and then the socket is opened. *)
LoadProto ==
    /\ ~proto
    /\ proto' = TRUE /\ socket' = "connecting" /\ out' = {}
    /\ UNCHANGED <<redial, wire, subscribed, agentVars, raceVars,
                   chatVars, replayVars>>

(* Slip: the subscription is sent only when it is made. *)
SocketOpensSilently ==
    /\ socket = "connecting"
    /\ socket' = "open" /\ wire' = {} /\ out' = {}
    /\ UNCHANGED <<proto, redial, subscribed, agentVars, raceVars, chatVars,
                   replayVars>>

(* onopen sends the subscription again.  The back-off's length is left out:
   the timer of a lost socket may take any time. *)
SocketOpens ==
    /\ socket = "connecting"
    /\ socket' = "open" /\ wire' = {subscribed} \ {None} /\ out' = {}
    /\ UNCHANGED <<proto, redial, subscribed, agentVars, raceVars, chatVars,
                   replayVars>>

(* Slip: onclose reports the loss and leaves reconnecting to nobody. *)
SocketClosesForGood ==
    /\ socket # "none"
    /\ socket' = "none" /\ wire' = {} /\ out' = {}
    /\ UNCHANGED <<proto, redial, subscribed, agentVars, raceVars,
                   chatVars, replayVars>>

(* onclose, of an open socket or of one that never opened. *)
SocketCloses ==
    /\ socket # "none"
    /\ socket' = "none" /\ redial' = TRUE /\ wire' = {} /\ out' = {}
    /\ UNCHANGED <<proto, subscribed, agentVars, raceVars, chatVars, replayVars>>

Redial ==
    /\ redial
    /\ redial' = FALSE /\ socket' = "connecting" /\ out' = {}
    /\ UNCHANGED <<proto, wire, subscribed, agentVars, raceVars,
                   chatVars, replayVars>>

(* A subscribe or unsubscribe frame is lost unless the socket is open. *)
Wired(sim) == IF socket = "open" THEN wire \cup ({sim} \ {None}) ELSE wire
Unwired(sim) == IF socket = "open" THEN wire \ {sim} ELSE wire

(* unsubscribeSimulation of the simulation followed, as run_end and
   removeCurrentSimulationId do. *)
Unsubscribe ==
    /\ wire' = Unwired(subscribed)
    /\ subscribed' = None

-----------------------------------------------------------------------------
(* Which messages reach the dispatch of handleMessage, and what is done    *)
(* before it.                                                              *)

(* The session of a message of the simulation followed, or of a replay, is
   registered when it is new. *)
Registered(m) ==
    IF /\ m.event # "broadcast"
       /\ replayActive \/ (subscribed # None /\ m.sim = subscribed)
    THEN sessions \cup ({m.sid} \ {None})
    ELSE sessions

IsRunnerTick(m) ==
    m.type = "json" /\ m.event = "tool_end" /\ m.tool = "process_tick"

Passes(m) ==
    /\ m.event # "broadcast"
    /\ m.origin = "runner_autopilot" => IsRunnerTick(m)
    /\ m.origin = "tick" => m.event = "tool_end"
    /\ \/ replayActive
       \/ subscribed # None /\ m.sim = subscribed
       \/ subscribed = None /\ m.sid \in Registered(m)

(* emitChat: the listeners get the message, and unless it is the organizer's
   it decides what the next text is taken for. *)
EmitChat(m, flags) ==
    /\ out' = {"chat"}
    /\ previous' = IF organizer # None /\ m.sid = organizer THEN previous ELSE flags
    /\ UNCHANGED <<organizer, showLoadSkills>>

(* The session table as the message leaves it. *)
Arrives(m) == sessions' = Registered(m) /\ UNCHANGED userSpawned

Silent == out' = {} /\ UNCHANGED chatVars

(* A message with no handler: dropped by a filter, or of a kind the switch
   only logs. *)
HiddenStart(m) ==
    m.event = "tool_start"
    /\ \/ m.tool \in {"simulation_pipeline", "validate_and_emit_a2ui"}
       \/ m.tool = "load_skill" /\ ~showLoadSkills

HiddenEnd(m) ==
    m.event = "tool_end"
    /\ \/ m.res = {}
       \/ m.tool = "set_financial_modeling_mode"
       \/ m.tool = "load_skill" /\ ~showLoadSkills

Swallowed(m) == m.event = "text" /\ previous # {}

OnlyLogged(m) ==
    \/ m.type \notin {"json", "a2ui"}
    \/ m.type = "json" /\ m.event \in {"model_end", "inter-agent", "tool_result",
                                       "tick:advance", "marathon_route_final"}
    \/ m.type = "json" /\ (HiddenStart(m) \/ HiddenEnd(m) \/ Swallowed(m))

Ignore(m) ==
    /\ ~Passes(m) \/ OnlyLogged(m)
    /\ Arrives(m) /\ Silent
    /\ UNCHANGED <<connVars, subscribed, raceVars>>

-----------------------------------------------------------------------------
(* The handlers: one action per case of the two switches.                  *)

Handles(m, event) == Passes(m) /\ m.type = "json" /\ m.event = event
Ends(m, tools) ==
    Handles(m, "tool_end") /\ m.res # {} /\ m.tool \in tools /\ ~HiddenEnd(m)

RunStart(m) ==
    /\ Handles(m, "run_start")
    /\ Arrives(m)
    /\ EmitChat(m, {})
    /\ UNCHANGED <<connVars, subscribed, raceVars>>

(* The end of a run of a session spawned here ends the subscription, unless
   it is a replayed one. *)
RunEnd(m) ==
    /\ Handles(m, "run_end")
    /\ Arrives(m)
    /\ IF m.sid \in Registered(m) \cap userSpawned /\ ~replayActive
       THEN Unsubscribe ELSE UNCHANGED <<wire, subscribed>>
    /\ EmitChat(m, {})
    /\ UNCHANGED <<proto, socket, redial, raceVars>>

ToolStart(m) ==
    /\ Handles(m, "tool_start") /\ ~HiddenStart(m)
    /\ Arrives(m)
    /\ EmitChat(m, {})
    /\ UNCHANGED <<connVars, subscribed, raceVars>>

ToolError(m) ==
    /\ Handles(m, "tool_error")
    /\ Arrives(m)
    /\ EmitChat(m, {})
    /\ UNCHANGED <<connVars, subscribed, raceVars>>

(* The tools whose end is only shown, two of them with a window event. *)
WindowEvent(tool) ==
    CASE tool = "report_marathon_route" -> {"gateway:routeGeojson"}
      [] tool = "assess_traffic_impact" -> {"gateway:trafficZones"}
      [] OTHER -> {}

ShownTools == {"load_skill", "report_marathon_route", "assess_traffic_impact",
               "get_local_and_traffic_rules", "compile_results",
               "prepare_simulation", "stop_race_collector",
               "simulation_pipeline", "validate_and_emit_a2ui"}

ToolEnd(m) ==
    /\ Ends(m, ShownTools)
    /\ Arrives(m)
    /\ out' = WindowEvent(m.tool) \cup {"chat"}
    /\ previous' = IF organizer # None /\ m.sid = organizer THEN previous ELSE {}
    /\ UNCHANGED <<connVars, subscribed, raceVars, organizer, showLoadSkills>>

(* start_simulation: follow the simulation when none is followed. *)
StartSimulation(m) ==
    /\ Ends(m, {"start_simulation"})
    /\ Arrives(m)
    /\ IF subscribed = None /\ m.sim # None
       THEN subscribed' = m.sim /\ wire' = Wired(m.sim) /\ raceComplete' = FALSE
       ELSE UNCHANGED <<subscribed, wire, raceComplete>>
    /\ EmitChat(m, {})
    /\ UNCHANGED <<proto, socket, redial, known, collapsed, finished, pace>>

SpawnRunners(m) ==
    /\ Ends(m, {"spawn_runners"})
    /\ sessions' = Registered(m) \cup m.sids /\ UNCHANGED userSpawned
    /\ known' = known \cup m.sids
    /\ out' = {"chat"} \cup {"hud:addSimRunner" : s \in m.sids}
    /\ previous' = IF organizer # None /\ m.sid = organizer THEN previous ELSE {}
    /\ UNCHANGED <<connVars, subscribed, collapsed, finished, raceComplete, pace,
                   organizer, showLoadSkills>>

StartRace(m) ==
    /\ Ends(m, {"fire_start_gun"})
    /\ Arrives(m)
    /\ pace' = [target |-> Cardinality(m.sids), seen |-> 0]
    /\ EmitChat(m, {})
    /\ UNCHANGED <<connVars, subscribed, known, collapsed, finished, raceComplete>>

(* advance_tick: the statistics of a tick, dropped once the race is over. *)
AdvanceTick(m) ==
    /\ Ends(m, {"advance_tick"})
    /\ Arrives(m)
    /\ IF raceComplete THEN Silent ELSE EmitChat(m, {})
    /\ UNCHANGED <<connVars, subscribed, raceVars>>

(* process_tick of one runner: the first-pace sample, the HUD's numbers and,
   for a runner known from spawn_runners, its collapse and its finish once. *)
Sampled == pace.seen < pace.target

RunnerEvents(m) ==
    IF m.sid \notin known THEN {}
    ELSE (m.res \cap {"exhausted"})
         \cup (IF m.sid \in collapsed THEN {} ELSE m.res \cap {"collapsed"})
         \cup (IF m.sid \in finished THEN {} ELSE m.res \cap {"finished"})

ProcessTick(m) ==
    /\ Ends(m, {"process_tick"})
    /\ Arrives(m)
    /\ pace' = IF Sampled THEN [pace EXCEPT !.seen = @ + 1] ELSE pace
    /\ out' = RunnerEvents(m) \cup {"hud:updateSimRunner"}
              \cup (IF Sampled /\ pace.seen + 1 = pace.target
                    THEN {"sim:firstBatchAvgVelocity"} ELSE {})
    /\ collapsed' = IF "collapsed" \in RunnerEvents(m) THEN collapsed \cup {m.sid} ELSE collapsed
    /\ finished' = IF "finished" \in RunnerEvents(m) THEN finished \cup {m.sid} ELSE finished
    /\ UNCHANGED <<connVars, subscribed, known, raceComplete, chatVars>>

CheckRaceStatus(m) ==
    /\ Ends(m, {"check_race_complete"})
    /\ Arrives(m)
    /\ raceComplete' = (raceComplete \/ "race_complete" \in m.res)
    /\ out' = {"chat"} \cup (IF "race_complete" \in m.res THEN {"sim:finished"} ELSE {})
    /\ previous' = IF organizer # None /\ m.sid = organizer THEN previous ELSE {}
    /\ UNCHANGED <<connVars, subscribed, known, collapsed, finished, pace,
                   organizer, showLoadSkills>>

(* model_start of a simulation adopts it when none is followed; only live does
   it also ask the gateway for it. *)
ModelStart(m) ==
    /\ Handles(m, "model_start")
    /\ Arrives(m)
    /\ IF subscribed = None /\ m.sim # None
       THEN /\ subscribed' = m.sim
            /\ wire' = IF replayActive THEN wire ELSE Wired(m.sim)
       ELSE UNCHANGED <<subscribed, wire>>
    /\ Silent
    /\ UNCHANGED <<proto, socket, redial, raceVars>>

(* A JSON answer: the financial mode or the event plan is shown. *)
JsonAnswer(m) ==
    /\ Handles(m, "json")
    /\ Arrives(m)
    /\ \/ "financial" \in m.res /\ EmitChat(m, {"financial"})
       \/ "event_plan" \in m.res /\ "financial" \notin m.res /\ EmitChat(m, {})
       \/ m.res \cap {"financial", "event_plan"} = {} /\ Silent
    /\ UNCHANGED <<connVars, subscribed, raceVars>>

Text(m) ==
    /\ Handles(m, "text") /\ ~Swallowed(m)
    /\ Arrives(m)
    /\ EmitChat(m, {})
    /\ UNCHANGED <<connVars, subscribed, raceVars>>

A2ui(m) ==
    /\ Passes(m) /\ m.type = "a2ui"
    /\ Arrives(m)
    /\ EmitChat(m, IF "surface" \in m.res THEN {"a2ui"} ELSE {})
    /\ UNCHANGED <<connVars, subscribed, raceVars>>

HandleMessage(m) ==
    \/ Ignore(m) \/ RunStart(m) \/ RunEnd(m) \/ ToolStart(m) \/ ToolError(m)
    \/ ToolEnd(m) \/ StartSimulation(m) \/ SpawnRunners(m) \/ StartRace(m)
    \/ AdvanceTick(m) \/ ProcessTick(m) \/ CheckRaceStatus(m) \/ ModelStart(m)
    \/ JsonAnswer(m) \/ Text(m) \/ A2ui(m)

(* onmessage: while a recording plays, live traffic is not handled at all. *)
LiveMessage ==
    /\ socket = "open" /\ ~replayActive
    /\ \E m \in LiveMessages : HandleMessage(m)
    /\ UNCHANGED replayVars

-----------------------------------------------------------------------------
(* Sessions and the agent screen's use of the client. *)

(* addAgent: the spawn answered with a session, or failed and said so. *)
AddAgent(s) ==
    /\ sessions' = sessions \cup {s} /\ userSpawned' = userSpawned \cup {s}
    /\ out' = {}
    /\ UNCHANGED <<connVars, subscribed, raceVars, chatVars, replayVars>>

AddAgentFails ==
    /\ out' = {"chat"} /\ previous' = {}
    /\ UNCHANGED <<connVars, subscribed, agentVars, raceVars, organizer, showLoadSkills,
                   replayVars>>

RemoveAgent(s) ==
    /\ s \in userSpawned
    /\ sessions' = sessions \ {s} /\ userSpawned' = userSpawned \ {s}
    /\ out' = {}
    /\ UNCHANGED <<connVars, subscribed, raceVars, chatVars, replayVars>>

RemoveCurrentSimulationId ==
    /\ subscribed # None /\ Unsubscribe /\ out' = {}
    /\ UNCHANGED <<proto, socket, redial, agentVars, raceVars, chatVars,
                   replayVars>>

(* A demo switch clears the emit-gating flags and the organizer, and nothing
   of what the client remembers of a race. *)
ResetDemoChatPipelineState ==
    /\ previous' = {} /\ organizer' = None /\ out' = {}
    /\ UNCHANGED <<connVars, subscribed, agentVars, raceVars, showLoadSkills,
                   replayVars>>

SetFilterSettings(show) ==
    /\ showLoadSkills' = show /\ out' = {}
    /\ UNCHANGED <<connVars, subscribed, agentVars, raceVars, previous, organizer,
                   replayVars>>

(* sendBroadcast: shown as sent whether or not the socket carries it. *)
SendBroadcast(s, isOrganizer) ==
    /\ s \in userSpawned
    /\ organizer' = IF isOrganizer THEN s ELSE organizer
    /\ out' = IF proto THEN {"chat"} ELSE {}
    /\ previous' = IF proto THEN {} ELSE previous
    /\ UNCHANGED <<connVars, subscribed, agentVars, raceVars, showLoadSkills,
                   replayVars>>

-----------------------------------------------------------------------------
(* The cached replay.  run() fetches the stream and only then begins; the  *)
(* frames follow one another after gaps of any length, zero included.      *)

Fetching(i) == run[i].phase = "fetching"
Playing(i) == run[i].phase = "playing"
Running == {i \in Runs : Playing(i)}

(* What stop() does to the replay it has a handle of. *)
Stopped ==
    [i \in Runs |-> IF i = stopper /\ Playing(i)
                    THEN Idle ELSE run[i]]

(* A call of run() or stop() does not reach a replay that is being fetched:
   it goes astray, and will begin all the same. *)
Overtakes ==
    /\ astray' = {i \in Runs : Stopped[i] # Idle /\ (i \in astray \/ Fetching(i))}
    /\ blind' = FALSE

StopReplay ==
    /\ run' = Stopped /\ stopper' = None
    /\ replayActive' = FALSE /\ countdown' = FALSE /\ out' = {}
    /\ Overtakes
    /\ UNCHANGED <<connVars, subscribed, agentVars, raceVars, chatVars>>

(* run(): stop what plays, then fetch; a run index with no stream ends there. *)
RunReplay(i, rec) ==
    /\ Stopped[i] = Idle /\ \A j \in Runs : j < i => Stopped[j] # Idle
    /\ run' = IF rec = <<>> THEN Stopped
              ELSE [Stopped EXCEPT ![i] = [rec |-> rec, pos |-> 0, phase |-> "fetching"]]
    /\ stopper' = None /\ replayActive' = FALSE /\ countdown' = FALSE /\ out' = {}
    /\ Overtakes
    /\ UNCHANGED <<connVars, subscribed, agentVars, raceVars, chatVars>>

FetchFails(i) ==
    /\ Fetching(i)
    /\ run' = [run EXCEPT ![i] = Idle] /\ out' = {}
    /\ astray' = astray \ {i}
    /\ UNCHANGED <<replayActive, stopper, countdown, blind, connVars, subscribed, agentVars,
                   raceVars, chatVars>>

(* The countdown leads the first tick of a recorded race, or its start gun;
   nothing is scheduled when that is the first frame. *)
FirstOf(rec, tool) ==
    {k \in DOMAIN rec : rec[k].event = "tool_end" /\ rec[k].tool = tool}

CountdownNeeded(rec) ==
    LET ticks == FirstOf(rec, "process_tick")
        start == IF ticks # {} THEN ticks ELSE FirstOf(rec, "fire_start_gun")
    IN  start # {} /\ 1 \notin start

(* One replay that went astray leads all that play astray with it, when it
   takes the handle or ends replay mode for them. *)
Led(i) == IF i \in astray THEN Running ELSE {}

(* The stream is there: replay mode begins and the player takes over, or,
   with the proto not loaded, no frame can be encoded and none ever plays. *)
BeginReplay(i) ==
    /\ Fetching(i)
    /\ run' = [run EXCEPT ![i] = IF proto THEN [@ EXCEPT !.phase = "playing"] ELSE Idle]
    /\ stopper' = IF proto THEN i ELSE None
    /\ replayActive' = TRUE /\ countdown' = CountdownNeeded(run[i].rec) /\ out' = {}
    /\ blind' = (blind \/ ~proto)
    /\ astray' = IF proto THEN astray \cup Led(i) ELSE astray \ {i}
    /\ UNCHANGED <<connVars, subscribed, agentVars, raceVars, chatVars>>

CountdownFires ==
    /\ countdown /\ countdown' = FALSE /\ out' = {"countdown:autoStart"}
    /\ UNCHANGED <<replayActive, run, stopper, histVars, connVars, subscribed, agentVars,
                   raceVars, chatVars>>

(* Slip: the last frame does not end replay mode. *)
PlayFrameForever(i) ==
    /\ Playing(i)
    /\ LET next == run[i].pos + 1
           last == next = Len(run[i].rec)
       IN /\ HandleMessage(run[i].rec[next])
          /\ run' = [run EXCEPT ![i] = IF last THEN Idle ELSE [@ EXCEPT !.pos = next]]
          /\ stopper' = IF last /\ stopper = i THEN None ELSE stopper
          /\ astray' = IF last THEN (astray \cup Led(i)) \ {i} ELSE astray
    /\ UNCHANGED <<replayActive, countdown, blind>>

(* The next frame of a replay; the last one ends replay mode.  The handle of a
   replay that is over cancels nothing, so it is as good as none. *)
PlayFrame(i) ==
    /\ Playing(i)
    /\ LET next == run[i].pos + 1
           last == next = Len(run[i].rec)
       IN /\ HandleMessage(run[i].rec[next])
          /\ run' = [run EXCEPT ![i] = IF last THEN Idle ELSE [@ EXCEPT !.pos = next]]
          /\ replayActive' = (replayActive /\ ~last)
          /\ stopper' = IF last /\ stopper = i THEN None ELSE stopper
          /\ astray' = IF last THEN (astray \cup Led(i)) \ {i} ELSE astray
          /\ blind' = (blind /\ ~last)
    /\ UNCHANGED countdown

UserActs ==
    \/ StopReplay
    \/ \E i \in Runs, rec \in Recordings : RunReplay(i, rec)

ReplayStep ==
    \/ CountdownFires
    \/ \E i \in Runs : FetchFails(i) \/ BeginReplay(i) \/ PlayFrame(i)

ScreenStep ==
    \/ \E s \in ChatAgents : AddAgent(s) \/ RemoveAgent(s)
    \/ \E s \in ChatAgents, b \in BOOLEAN : SendBroadcast(s, b)
    \/ AddAgentFails \/ RemoveCurrentSimulationId \/ ResetDemoChatPipelineState
    \/ \E b \in BOOLEAN : SetFilterSettings(b)

ConnStep == LoadProto \/ SocketOpens \/ SocketCloses \/ Redial

Next == ConnStep \/ LiveMessage \/ ScreenStep \/ UserActs \/ ReplayStep

Spec == Init /\ [][Next]_vars

(* Timers fire, and the gateway is reachable again and again. *)
Fairness == WF_vars(LoadProto) /\ WF_vars(Redial) /\ SF_vars(SocketOpens)

FairSpec == Spec /\ Fairness

-----------------------------------------------------------------------------
Message(type, event, tool, origin, sid, sim, res, sids) ==
    [type |-> type, event |-> event, tool |-> tool, origin |-> origin,
     sid |-> sid, sim |-> sim, res |-> res, sids |-> sids]

(* The client's state is what its fields may hold; a replay's position lies
   within its recording. *)
TypeOK ==
    /\ proto \in BOOLEAN /\ socket \in {"none", "connecting", "open"}
    /\ redial \in BOOLEAN
    /\ wire \subseteq AllSims /\ subscribed \in AllSims \cup {None}
    /\ sessions \subseteq Sessions /\ userSpawned \subseteq sessions
    /\ known \subseteq Sessions /\ collapsed \subseteq known /\ finished \subseteq known
    /\ raceComplete \in BOOLEAN /\ pace.seen <= pace.target
    /\ previous \subseteq {"a2ui", "financial"} /\ organizer \in Sessions \cup {None}
    /\ showLoadSkills \in BOOLEAN /\ replayActive \in BOOLEAN /\ countdown \in BOOLEAN
    /\ astray \subseteq Runs /\ blind \in BOOLEAN
    /\ stopper \in Runs \cup {None}
    /\ \A i \in Runs : /\ run[i].phase \in {"idle", "fetching", "playing"}
                       /\ run[i].pos \in 0..Len(run[i].rec)

(* While the socket is open the gateway streams exactly the simulation the
   client follows, whatever was subscribed, ended or lost in between: a client
   that follows a simulation nobody streams to it shows a race that stands
   still, and one that is streamed another pays for what it drops.
   Simulations that only recordings name are left aside: no frame is sent for
   the ones a replay adopts (AgentGateway.connectMonitor, subscribeSimulation,
   unsubscribeSimulation). *)
WireFollowsSubscription ==
    socket = "open" =>
        wire \ RecordedSims = {subscribed} \ (RecordedSims \cup {None})

(* A lost connection never strands a subscription: the simulation followed is
   streamed again, or is no longer followed (AgentGateway.connectMonitor). *)
Resubscribes ==
    \A s \in Sims : subscribed = s ~> (s \in wire \/ subscribed # s)

(* Replay mode is on only while a recording plays (or, begun before the proto
   was loaded, has nothing to play); a recording plays in replay mode, alone,
   and is the one stop() would cancel, unless the user called run() or stop()
   while a stream was being fetched: the replay that was overtaken begins all
   the same, and from then on those it plays with share its fate
   (AgentCachedGatewayReplayService.run, which stops before it awaits the
   fetch and not after, stop, AgentGateway.beginNdjsonReplay,
   endNdjsonReplay). *)
OneReplay ==
    /\ replayActive => Running # {} \/ blind
    /\ Running \ astray # {} => replayActive
    /\ Running \ astray \subseteq {stopper}

(* The place of frame k in its recording lies between a start gun and the
   race_complete after it. *)
UnderWay(rec, k) ==
    \E g \in FirstOf(rec, "fire_start_gun") :
        /\ g < k
        /\ \A c \in FirstOf(rec, "check_race_complete") :
              c \in g..k => "race_complete" \notin rec[c].res

(* Every advance_tick of a recorded race that is under way reaches the chat,
   from which the simulation panel takes its numbers, whatever was played
   before (AgentGateway.handleMessage, resetDemoChatPipelineState). *)
TicksReachTheChat ==
    [][\A i \in Runs :
          LET k == run'[i].pos IN
          (k = run[i].pos + 1 /\ run[i].rec[k].tool = "advance_tick"
             /\ run[i].rec[k].event = "tool_end" /\ UnderWay(run[i].rec, k))
          => "chat" \in out']_vars

(* Once stop() has returned no frame is delivered until a replay begins again,
   but for those of replays led astray as above
   (AgentCachedGatewayReplayService.stop). *)
StopIsFinal ==
    [][(~replayActive /\ stopper = None) =>
          \A i \in Runs \ astray : run'[i].pos = run[i].pos]_vars

(* A socket that is lost is opened again and told what the page follows, and a
   replay that was stopped stays so. *)
WireAndReplayAreKept == Resubscribes /\ StopIsFinal
=============================================================================
