# TLA+ models of the race simulation platform

The repository runs a simulated marathon as a distributed system: a Go gateway
with WebSocket clients and a Redis-backed session registry, Python agents (a
planner, a simulator that runs the race tick by tick, and many runner agents),
and web clients that show it. This directory holds TLA+ modules of the parts
that carry its protocol logic, TLC instances that check them, and proofs of
their main safety properties.

    Browser ──/ws──► Gateway hub ◄──Pub/Sub── Switchboard ◄──Redis──► other gateways
                        │  POST /spawn, /sessions, /environment/reset
                        ▼
                  Session registry (Redis)      spawn queues (Redis lists)
                                                       │ BLPOP
    Planner ──A2A──► Simulator pipeline ──tick──► Dispatcher ──► Runner agents
                        ▲                                            │
                        └── collector's Redis list ◄── RPUSH, gateway events

## Inventory

| Component | State it keeps | Operations | How it interacts | What is hard |
|---|---|---|---|---|
| WebSocket hub (`internal/hub/hub.go`) | registered clients, allowlists and their reverse index, blocklists, per-client send buffers, bounded channels | register, unregister (by the reader or by the write pump), subscribe/unsubscribe, broadcast, session message, remote fan-out in phases 1, 2, 3, 3b | one event loop writes the maps, a worker pool reads them; text frames come from reader goroutines | two ways to unregister race with requests in flight; the lock is released for a Redis lookup in the middle of a fan-out; sends on closed channels |
| Subscription store (`subscription.go`) | session ↔ simulation sets in Redis | subscribe, unsubscribe, unsubscribe all, lookup | written by a goroutine per request, read by phase 3b of every gateway | writes arrive in any order; read-then-delete |
| Switchboard (`switchboard.go`) | Pub/Sub subscription, spawn queues | broadcast, enqueue, publish orchestration, dispatch by agent type | hub ↔ Redis ↔ dispatchers; reads the registry's list of types | messages lost while it reconnects; duplicates by Pub/Sub and HTTP |
| Session registry (`internal/session`) | session → type, type → sessions, session → simulation, simulation → sessions, lists of types and simulations, all in Redis with a TTL | track (single and batch), untrack, find, count, list, flush, reap | called by every gateway's handlers and by one reaper each | pipelines are not transactions; count-then-remove; expiry |
| Gateway HTTP (`cmd/gateway/main.go`) | – | /sessions, /spawn (scale, track, enqueue, roll back), reset, orchestration | registry, switchboard, agents | partial failure between track and enqueue |
| Agent catalog (`internal/agent/catalog.go`) | cached discovery results | discover, find | HTTP to agents | stale cache |
| Simulator race engine (`agents/simulator`) | session state of each simulation, the shared `LoopAgent`, one collector per session | prepare, spawn, start collector, start gun, advance tick, check complete, compile, stop | posts to the gateway, broadcasts ticks, drains a Redis list | late, lost and doubled results; tools that fail; several simulations in one process |
| Runners (`agents/runner`, `runner_autopilot`) | status, position and vitals of one runner | process tick | answer by RPUSH and by a gateway event | a result has two paths |
| Dispatcher (`agents/utils/dispatcher.py`) | active sessions and their simulations, subscriptions, dedupe cache, session locks | spawn, broadcast and relay, action, end of a simulation, reset, reconnect | BLPOP, Pub/Sub and HTTP in, agent runs out; registry read by the simulator | three readers of which one in another thread; copies of one event on several paths; a reset that drops locks in use; listeners cancelled inside a spawn |
| Session manager, simulation registry (`agents/utils`) | two-level caches | get or create by context | database sessions | concurrent misses |
| Planner agents, plumbing | prompts, tools, telemetry formatting | – | A2A | answers of a language model |
| Gateway client (`agent-gateway-updates.ts`, `agent-cached-gateway-replay.service.ts`) | observer socket, the simulation followed, known sessions, flags of the chat and the race, the replay in progress | connect, reconnect, subscribe, handle a message, add and remove agents, run and stop a replay | hub; emits chat messages and window events to all the rest of the page | reconnection in the middle of a subscription; recordings fetched while others play; flags that outlive a race |
| Player of recordings (`agent-gateway-message-dump.ts`) | timers, position, scale | parse, plan delays, play, rescale, cancel | feeds the gateway client | one callback plays a turn of many frames; cancelling between two timers |
| Agent screen: chat, panel, session, modes, filter menu, surfaces (`ChatNavPanel/screens`, `DemoOverlay`, `FilterMenu`, `a2ui`) | items of the chat and open tool calls; tabs and their timers; the active demo, its agents, settings, prompts and labels; filters and camera; trees of components | messages, clicks, keys, timers, animation ends, demo changes | read `chat$`, call the gateway client, dispatch window events | agents that answer after the demo has changed; one timer handle for two timers; a click whose effect comes in the next frame |
| Race view (`viewport/`, `simulation.ts`, `runner.ts`, `countdown-overlay`) | runners on the course, camera, controls, routes, masks, zones, tooltip | window events, asset loads, frames, pointer and keys | driven by the gateway client's window events | every handler awaits: pans, textures, icons; resets in between |
| Debug race (`debug-race.ts`) | states of its runners, timers | start, tick, stop | stands in for the gateway | timers of a race that was restarted |
| Road network (`road-network.ts`, `traffic-simulator.ts`, `car-simulator.ts`) | nodes and edges, lights, cars, closures | build, show, tick, close, spawn | a class library: the app of this commit builds none | geometry at its limits; routes over roads closed since |
| Tester (`web/tester`) | monitored sessions, its log | spawn, broadcast, act, reset; append, flush, clear | gateway's socket and HTTP | messages lost while the socket is down; sessions that end unheard; eviction during a flush |
| Gateway twin (`dtsf/packs/race-condition`) | sessions, simulations, a counter | the gateway's endpoints, replay | plays the gateway for tests | refusals half way through a request |
| Dashboards, scenario data, shaders, debug panels | – | – | – | – |

What makes each modelled component correct: the hub queues a message for a client at
most as often as the message's Destination names its session, and once if it names none
there, and only for clients entitled to it, its maps agree, it forgets
connections that ended and it never sends on a closed channel; the race engine
counts each runner at most once, never invents a finisher or loses one, runs
the ticks of the plan and ends; the registry behaves as its in-memory
counterpart does, a live session leaves an index in known ways only, the reaper removes
all the dead, and a rolled-back spawn leaves behind nothing but what a failed lookup hid
from it; the browser follows one simulation over any
number of reconnections and plays one recording at a time, unless one is started or stopped
while another is fetched; its screens show what the
active demo, the race that runs and the last message say, whatever was awaited
meanwhile; the road network is the map it was made from. `PROJECT.json` lists every component
and the places in the code where something of this kind can go wrong, including
those no module covers yet.

## Modules

| Module | Contents |
|---|---|
| `Hub`, `HubProofs` | one gateway's hub: readers, write pumps, event loop, worker pool; its invariants, proved |
| `RaceEngine`, `RaceEngineProofs` | simulations, collector, runners; invariants, proved |
| `Dispatcher`, `DispatcherProofs` | the dispatchers of one agent type and what the gateway and the simulator send them; invariants, proved |
| `SessionService`, `RedisRegistry` | the abstract registry (the in-memory `DistributedRegistry`, one step per operation), and the Redis registry command by command with its callers and the reaper, which implements it |
| `GatewayClient` | the browser's socket, message handler and recorded replay |
| `ReplayDump` | the delays of a recording in every mode, and its player |
| `ChatDisplay`, `AgentPanel`, `AgentScreen`, `DemoConfig`, `DemoModes`, `FilterMenu`, `A2ui` | the agent screen, part by part |
| `RunnerField`, `RaceCamera`, `RaceRoute`, `RaceScenery`, `DebugRace` | the race view, part by part |
| `RoadNetwork`, `RoadTraffic` | building a network of roads (operators), and the traffic on it |
| `Console`, `LogBuffer`, `GatewayTwin` | the tester's page, its log, and the gateway's stand-in |
| `RedisRegistryProofs` | the registry's types, the reaper's safety, the completeness of a roll-back and that it implements `SessionService`, proved |
| `GatewayClientProofs` | invariants of the browser's client, proved |
| `ScreenProofs` | what `MCScreen` checks of the agent screen, all but how a surface is read, proved |
| `ToolsProofs` | what `MCTools` checks of the player, the tester, its log, the twin and the traffic, proved |
| `ViewProofs` | what `MCView` checks of the race view, all of it, proved |
| `MCHub`, `MCRaceEngine`, `MCDispatcher`, `MCRedisRegistry`, `MCGatewayClient` | instances for TLC |
| `MCRoads` | the street, the block and the pairs of roads `MCTools` runs on |
| `MCScreen`, `MCView`, `MCTools` | suites: the parts of the agent screen, of the race view, and the tools around the gateway with the roads, each part run by itself in one instance |

Definitions keep the names of the source where they can. Some definitions have a
neighbour whose comment begins with *Slip*: the same operation with a plausible
mistake (a guard dropped, a wrong key, an off-by-one). Nothing refers to it; it
records what mistake the property named in `PROJECT.json` detects.

In a suite the variable `part` says which part moves. The parts of a page do not
read each other's variables: what one does to another (the gateway client emits a
chat message, the end of a race resets the camera) is an action of that other,
taken at any time. So a suite explores the sum of its parts' states, and each part
in an environment at least as free as the page. The price is that nothing is shown
of the order in which one part's events reach another, beyond what each part
assumes of nothing.

### Hub

A locked section of the code is one step. An unbuffered channel is a hand-over:
the sender has a program counter of its own and stays blocked until `Run()`
takes the value. `Register`, `HandleTextMessage`, `Unregister` are the reader's
steps; `PumpWrite`, `PumpFails`, `PumpClosed` those of `writePump`;
`RunRegister`, `RunUnregister`, `RunSubscribe`, `RunUnsubscribe`, `RunBroadcast`
and `RunSessionMsg` the cases of `Run()`'s select (registration is two steps,
because `Run()` takes the client before it locks); `WorkerTake`, `WorkerFanOut`
(phases 1 to 3 under one read lock) and `WorkerLookup` (phase 3b, after the lock
was released) the worker pool. A send on a closed channel sets `panicked`.

A client stands for one connection. Abstracted: the contents of messages, the
timing of pings (a ping of a dead connection fails in the end), logging. Two
read-locked fan-outs that overlap are serialised, which loses only an order
between different clients' buffers that nothing observes. What the Redis lookup
answers is *any* set of sessions: Hub proves its properties without trusting
the subscription store. Each message is published once. A Destination is a bag: it may name a
session twice, and phase 2 then queues the message twice (`Namings`), for it walks the list without
a look at `delivered`.

### RaceEngine

A step is the code between two awaits. `pre_race_callback` calls the four tools
in order whatever they return, so `Prepare`, `Spawn`, `StartRaceCollector` and
`FireStartGun` each have a failing outcome after which the next one runs.
`Configure` writes `race_engine.max_iterations`, which is one variable for all
simulations of the process; `Iterate` is the loop condition that reads it.
`advance_tick` is `BeginTick` (stale drain with the rescue of finishers, then
the broadcast), any number of `Drain`s, and `AllReported` or `WindowTimeout`,
which share `Aggregate`. `CheckRaceComplete` may escalate. `CompileResults` and
`StopRaceCollector` end the race. `Subscribe` is the dispatcher that takes a
runner's spawn event, `ProcessTick` a runner's answer, which is written by its
own RPUSH and sent as a gateway event; `EventArrives` is the collector's Pub/Sub
loop. A runner's inbox is a queue because the dispatcher serialises the runs of a
session with a lock (`RunsAreSerial` of `Dispatcher`).

The physics of a runner is a choice among running, finished and collapsed; a
runner out of the race keeps its status. The collector's Redis list is a set
whose members say by which path they came, because `advance_tick` collapses
duplicates. Only the last snapshot is kept. Histories: `handled` (ticks a runner
has processed) and `late` (finishes that reached the list while no window was
open). Faults are switched on by the constant `Faults`: *plan* (prepare refuses
the plan), *spawn* (the gateway fails, makes fewer runners, or its answer is
lost), *collector*, *broadcast* (some runners do not hear a tick), *rpush*,
*event*.

Not modelled: the root agent's routing and its guards against a second run
(`_pipeline_executed`, the in-progress retry), the branch without Redis, an
LLM-driven runner that calls `process_tick` twice for one tick, and the custom
pipeline (which has a `LoopAgent` of its own). The post-race agent is prompted to
call its two tools in order, which is assumed. The traffic model, narratives and
vitals are left out.

Noted while modelling, without a run: `agents/simulator/README.md:78` sets
`max_iterations` to `max_ticks + 1`, "the extra iteration is for tick 0". But
`check_race_complete` escalates as soon as `current_tick >= max_ticks`, after
`max_ticks` iterations, the first of which is tick 0: the extra iteration never
runs and a race has `max_ticks - 1` ticks of movement.

### Dispatcher

An instance reads events in three places: `TakeMail` (the Pub/Sub listener), `TakeSpawn`
(the listener of the spawn lists) and `TakePoke` (the HTTP endpoint, in a thread of its own).
`ProcessEvent` is `_process_event` up to its end or its first await; `work` says what each of
the three awaits, and `Registered`, `Subscribed`, `Relayed` and `Cleared` are its continuations.
`Begin` and `Finish` are a run in `_locked_trigger`: a lock is known by its session and by how
often `environment_reset` had cleared the table when it was made. `Chore` is a call that
`remove_session` leaves to the loop. `Break` ends one listener, which cancels the other
wherever it awaits, with the spawn event that Redis had popped for it; `Connect` and `Rejoin`
are the new connection and its channels. `Subscribed` may fail, which the code logs and forgets: the
channel is then in `deaf` until the next connection. A pulse's targets are a list, of which `again` are
those named a second time. A poke reaches one instance, any one, or none.
`Spawn`, `SendPulse`, `SendAction` and `ResetEnvironment` are what the gateway sends,
`PublishPulse` (with the readiness gate) and `EndSimulation` what the simulator sends.

Histories: `got` and `twice` (sessions each pulse ran), `owed` (those it should), `forgotten`
(event ids an instance no longer remembers), `spread` (pulses sent by the channel and by a
poke), `cut`, `late` and `missed` (spawns cut short, runs chosen before a wait, runners
that a gun did not reach). One HTTP request at a time is at the endpoint of an instance. Callable
mode, which only reads pokes, is left out, as are the texts of pulses; what a run does is
`RaceEngine`'s. That the HTTP thread changes sets while the loop iterates over them is not modelled.

### RedisRegistry and SessionService

Redis executes one command at a time. A pipeline is a sequence of commands that
those of other clients may interleave with, as go-redis' `Pipeline` is not
`TxPipeline`. `db` maps every key to its value; a set without members is a key
that does not exist. Each goroutine (`Handler`: POST /sessions and /spawn;
`Flusher`: flush and reset; `Reaper`: one per gateway) has a control state, the
commands of its pipeline Redis has yet to execute, and its locals.
`BatchTrackSessions`, `TrackEntry`, `Enqueue` are the request (when the enqueue
fails it untracks each session of its batch); `FindAgentType`, `FindSimulation`,
`CountType`, `CountSimulation`, `Untracked` are `UntrackSession`, one step per
round trip; `Flush` to `Flushed` and `Reap` to `Reaped` follow the two other
operations key by key. `Cancel` drops the rest of an operation after any prefix of
a pipeline: the request's context ended, or a Redis error ended a reap. `FindSimulation` may
fail as well, and the request goes on: `UntrackSession` ignores that error
(`redis_registry.go:164`) and leaves the session in its simulation's set (`unfound`).

Abstracted: `EXPIRE` commands are folded into `Expire` and `ExpireSimulation`. A
string key does not expire while a request has its session in hand (the TTL is two
hours, a request takes seconds); a simulation's set lives twice as long as its
sessions' keys, so it expires only when they are gone. The sets of an agent type
have no expiry of their own in the model. A `SCAN` is read at one point. A Redis
error in one of the other commands of an `UntrackSession`, after which the roll-back loop goes on
to the next session, counting and listing are left out. Session ids are UUIDs: never reused.

`SessionService` is the contract: the in-memory implementation that development
and the tests use, each operation one critical section. Under the mapping in
`RedisRegistry` a batch appears when its last command has been executed, a
session disappears when `UntrackSession` reads its type, and a flush takes effect
when it starts; everything else stutters. With operations that do not overlap
(`Serial = TRUE`) the registry implements it. With overlapping ones it does not:
see *Known deviations*.

Reachable states that are listed as hazards and have no run: a type emptied by an
`UntrackSession` that was cut short stays on `active-agents`, as `Reap` skips empty
sets (`redis_registry.go:304`) although `internal/session/README.md:136` says that an empty
one is taken off the index; the id of a simulation whose set expired stays on `active-simulations`,
since the sweep scans sets; the reaper counts a set, finds it empty and deletes it
(`redis_registry.go:334-342`, `:380-387`, and `UntrackSession` does so at `:200-208`), so that a session
tracked in between loses its index entry while its key lives, although `:285` says that `Reap` removes
the entries whose session key no longer exists; a flush does not delete the set of a type that is not on
the list, although `internal/session/README.md:125` says it deletes everything.

### GatewayClient

`HandleMessage` is one JavaScript task; each event and each tool of its two
switches is an operator (`RunStart`, `StartSimulation`, `AdvanceTick`,
`ProcessTick`, ...), guarded by what precedes it in the code (`Registered`,
`Passes`, `Silent`, `HiddenStart`, `Swallowed`). A live message is any of
`LiveMessages`, at any time; a recorded one is the next row of `run[i].rec`.
`out` is what the handler emitted (chat, events), and the gateway's side of the
socket is `wire`, the simulations it streams. `RunReplay` stops, then fetches; the
answer is `BeginReplay` or `FetchFails`. `PlayFrame` delivers; with the last frame
the player is done. The user may start and stop replays at any time, while one is being
fetched too. `run()` does not look back after its fetch, so such a replay begins although
it was overtaken, and may play beside another. The history `astray` names the replays this
befalls and those that play beside them, `blind` says that the protobuf definitions were
missing when a replay began; the properties hold of everything else.

### ReplayDump

A dump is a sequence of rows reduced to what the pacing reads (kind, event, tool,
tick, stamps). `Plan` gives the delays of every mode: recorded gaps, bursts
collapsed, ticks aligned. `Turn` plays every frame due in one callback; `SetScale`
and `Cancel` come between callbacks. Time is counted in units, not milliseconds. A stable sort is
the one order in which a row with a lesser segment, or with the same and earlier in the dump, comes
first.

### The agent screen

`ChatDisplay` keeps the thread as a sequence of cards, with the map of open tool
calls that finds the card to close; a recording may give a tool's end before its
start. `AgentPanel` keeps the active tab, labels that animate out, and the four
timers. `AgentScreen` has the lifecycle of a demo up to the await of its agent and
after it, the organizer, and what a message may be sent to. The Cached and Live buttons of the
settings menu (`MenuSetsCached`) set the mode and begin no lifecycle, unlike the hotkey and the
console. `DemoModes` has what
goes with the demo (settings, prompt, route, label) and every key and console
message that changes it, over the table `DemoConfig`. `FilterMenu` separates the
click from the animation frame. `A2ui` builds the map of components and finds
root, innermost card and the parts of a summary as the code does, by search over
references; `Below` and `IsInnermost` define the same from the tree's edges, and
`TreeIsRead` compares them on surfaces whose components come in several orders.

### The race view

`RunnerField` follows a runner from the message that adds it through the three
loads of the route to its frames, with removal, restart and updates that come
first; an add that needs the route waits with the load it found or began. `RaceCamera` has one record for all that moves the camera; the promise of a
pan continues its waiter in a microtask (`ready`) before the next event.
`RaceRoute` runs an import from one await to the next and keeps tubes, masks and
closures by name. `RaceScenery` has zones, icons, filters and the tooltip with its
timers. `DebugRace` keeps exact arithmetic in fifths of a mile.

### Road network and traffic

Coordinates are integers, distances compared by squares; the pairs of roads of the
instance are those whose crossings are grid points. `RoadNetwork` has the passes
of `fromGeoJSON` in their order. In `RoadTraffic` a light changes by
counted frames and a car moves by one of `Moves`, whatever brakes it. The
network driven on is given by the constants `Nodes` and `Edges`; `NetworkAssumption` says that
they are what `RoadNetwork` builds from the roads of the instance. Nothing in the app of
this commit builds a `RoadNetwork`; its actions are the calls of its public operations, in
any order. The phases of a junction, the ways between two nodes and how far a car drives beyond
an edge are recursive functions, each over the number of its rounds, and what one round does is an
operator of its own (`NextPhases`, `Longer`, `StepAt`). A car's next route starts where its last one
ended, unless closures left it without one: then it starts where the car's last step began, and the
car is there at once (`Destined`).

### Tools

`Console` is the tester's page with a socket that closes, and of the gateway what it hears of:
sessions that are spawned; a reset that is broadcast (`ServeReset`), is not because Redis refuses it, or
fails after it flushed the sessions and answers 500 (`ResetFails`); endings nobody is told of, by
`/sessions/flush`, the reaper or expiry (`EndUnheard`). `LogBuffer` numbers entries in the order of `append`; `GatewayTwin`
handles a request in one step, and its random numbers are any within their range.

## Runs

States are distinct states; times with two workers.

| Run | Instance | Checks |
|---|---|---|
| `hub_observer` | one global observer, three text frames over two simulations, one routed message and one broadcast, one worker; 54 thousand states, 1 min | `ObserverFilter`: what an observer gets is a function of its requests (allowlist mode, blocklist mode and the switches between them); `MessagesDrain`, `DisconnectedIsForgotten` (liveness) |
| `hub_delivery` | connections of two sessions, one of them auto-subscribed, one frame each, a message to a list that names one session twice, one of a simulation, one text message; 1.4 million states, 2.5 min | `RoutingMapsAgree`: allowlists and reverse index name the same pairs, a registered client is resolvable and open, an ended connection leaves nothing; `OnlyLateFramesPanic`, `OncePerNaming`, `SessionFilter` |
| `hub_cleanup` | one connection; *violation* | `SelfUnregisterCleansUp`, the comment of `writePump` |
| `race` | one simulation, two runners, two ticks, all six faults, fairness; 0.5 min | `FinishersAreTrue`, `CountsAreTrue`, `ResultsAgree`; `RacesAreRun`: a pipeline ends, and a race that ended was run to its last tick |
| `registry` | two parts. Clients: two sessions, a handler and a reaper interleaved command by command, failing enqueues, expiry, one operation cut short or one lookup failed, fairness. Alone: three sessions, two types, two simulations, batches of two, one flush, one operation at a time; 259 thousand states, 2.5 min | `LiveStayIndexed` (no command takes a live session from an index but its own `UntrackSession`, a flush, or a DEL after a count of zero), `RollbackComplete`, `StaleReaped` (liveness); `ServesOneByOne`: the registry implements `SessionService` (refinement), and its lists of types and simulations are exact |
| `dispatcher` | two instances and fourteen plans of what may happen together (spawns, subscriptions that fail, pulses by channel, by poke and by both, a target named twice, actions, an end, a reset, a break); 530 thousand states, 2.5 min | `RunsAreSerial`, `HearsItsSimulation`, `StraysHaveACause`, `EachPulseOnce` |
| `dispatcher_gate` | one runner, the gun; *violation* | `GunIsHeard`, the comment of the readiness gate |
| `client` | two simulations, a planner, a runner, live messages of every kind, two replays; behaviours are either calm (nothing is started or stopped during a fetch) or hurried (it is, while the chat and the race state stay as they are); 162 thousand states, 1 min | `WireFollowsSubscription`, `OneReplay`, `WireAndReplayAreKept` (a lost subscription is restored; a stopped replay stays stopped), of replays that did not go astray |
| `client_rerace` | the same; *violation* | `TicksReachTheChat`, the comment of `resetDemoChatPipelineState` |
| `tools` | dumps of up to three rows of seven kinds; a console with two sessions and two resets or endings; a log of three entries; a twin with three ids; a street of three junctions with a block behind it, one car, two displays; 500 pairs of roads; 406 thousand states, 3 min | `ReplayKeepsTime`, `PageIsTrue`, `TwinIsTrue`; `ToolsComeToAnEnd` (a replay ends or was cancelled for good; the socket comes back); `RoadsAreKept`: crossing approaches are never both open, the steps of a route join, cars stay within their edge, and what they are kept off is shown closed; `CarsDriveOn` (no car leaves an edge at a red or yellow lamp; a car goes on from the end of its route, or, where no open road leads on, from the beginning of its last step); `MapsAreWhole`: the network of two roads is all of both, cut exactly where they meet |
| `screen` | six parts; 639 thousand states, 2.5 min | `CallsResolve`, `PendingTabIsServed`, `ScreenFollowsDemo` (with settings and timers), `MenuIsTrue`, `SurfaceIsRead` (trees, drawings, buttons) |
| `view` | five parts, two runners; 1.7 million states, 2 min | `FieldIsCurrent`, `ControlsComeBack`, `NumberShown`, `CourseIsWhole`, `SceneryIsTrue`, `EndsOnce` |

A property of a suite or with several parts is a conjunction of named ones; the
definition lists them.

### The bounds and why they suffice

*Hub*: client buffers of two are what a message that names a session twice can fill or half
fill; channels of one make every full-channel case happen; a connection of each of two
sessions tells the session named from its neighbour, and a connection whose write
failed while its reader still reads is where the two ways to unregister meet; three frames reach allowlist, blocklist and allowlist
again. *RaceEngine*: two runners are needed for one to report twice while the other
has not (the early wake compares two numbers), two ticks for a result to be late by
a window and still be followed by another. `InFlight` bounds events, not
RPUSHes; a second event of the same runner waits in the runner's inbox.
*RedisRegistry*: two sessions of one type and one simulation share every index, so
each set can be emptied by one client while another adds to it; the part `Alone` has
two of each to tell keys apart. *Dispatcher*: a second instance is what makes relays, pokes at the wrong one and
double activations; each plan has the few events that can meet, since plans share no history. *GatewayClient*: two simulations, so that one is
left while the other is followed; two runs, one of which may be stopped by the
other. *ReplayDump*: three rows hold a gap before, inside and after a segment; two
spacings lie on either side of the interval that separates bursts. *Screen*: one
demo of each kind (memory, failure, security; with and without card, prompt and
route), two cards that end in either order, two agents of which one is late, four requests to spawn
and one recording fetched at a time.
*View*: two runners, of whom one waits while the other runs; three generations of
loads; two imports and a removal; two zones of different types. *Roads*: one
junction of three roads and one of two, a way round each closure; positions on
both sides of each tolerance. The proofs remove the bounds for what they state.

### Fairness

*Hub*: Go's select picks at random among ready cases, hence strong fairness of each
case of `Run()`; pumps and workers are goroutines that keep running (weak fairness);
a connection whose reader stopped has a permanent error, so its periodic ping fails.
Nothing is assumed of clients. *RaceEngine*: weak fairness of the pipeline's
coroutines and of the clock that closes a window; nothing of the runners, the gateway
or Redis, so pipelines end if no runner ever answers. *RedisRegistry*: requests
and reaps that have begun go on and the reaper's ticker fires for ever; nothing makes
a request begin or a key expire. *Browser*: timers that are set fire (weak fairness of `Start`,
`Fire`, `LoadProto`, `Redial`, `Connect`, `Open`); the gateway is reachable again and again, so
a client that keeps dialling is connected in the end (strong fairness of `SocketOpens`); nothing is assumed of users, messages or assets.

Deadlock is checked where nothing need stop. The hub's, the race engine's, the dispatchers',
the client's and the tools' instances stop legitimately: their connections, messages, ticks and calls
are finite, and a panicked process does nothing.

### What the violations show

* `hub_cleanup`: a subscription request resolved before `writePump` unregisters its
  client is served after, and puts the closed client back into the maps for good. The
  next message of that simulation is sent on a closed channel. `OnlyLateFramesPanic`
  says that there is no other way to this panic.
* `dispatcher_gate`: the gate polls the simulation registry, into which a dispatcher puts a
  runner before it awaits the subscription to the channel. The gun may be published in between; the
  runner misses it, and its first tick is what it hears first.
* `client_rerace`: `raceComplete` is set at the end of a race and cleared only by a
  `start_simulation` that comes while nothing is subscribed and that names its
  simulation beside its data. The recordings name it in the result only, and
  `resetDemoChatPipelineState` does not clear it, so the ticks of a recorded race
  played later never reach the chat.

### Known deviations without a run

Met while modelling; each is a reachable behaviour of a module here, left out of the
properties or excluded by a constant, and noted at its hazard where it has one.

* Two simulations in one simulator process share `race_engine.max_iterations`: a short one
  ends a long one early, contrary to `docs/api/REFERENCE.md:2035`. `RacesAreRun` is
  checked with one simulation.
* The rescue of stale finishers in `advance_tick` runs at the start of the next tick; a finish
  that misses the last window is counted as not finished.
* After a failed spawn the race runs without runners and reports the requested number of
  them as not finished.
* `UntrackSession` counts, then removes the type from `active-agents`; a session tracked in
  between is not dispatched to (`redis_registry.go:188`, `:128`).
* A targeted pulse that came by the channel (the gateway's fallback, `main.go:138-141`) is relayed by
  every instance, although `dispatcher.py:459` says "Only relay from the initial HTTP delivery":
  its sessions run twice. Clients send broadcasts without an id
  (`agent-gateway-updates.ts:1344`), so their two copies are not recognised either.
  `EachPulseOnce` names both.
* `environment_reset` clears the memory of its own id, so its second copy resets once more; the poke of
  a spawn carries a real spawn event, so a session may be active in two instances
  (`switchboard.go:257` speaks of one-to-one delivery); an action for a session of another
  instance is dropped.
* A spawn that a restart of the listeners cuts between activation and subscription leaves a session
  that hears nothing until another of its simulation comes; a subscription that fails is logged
  (`dispatcher.py:386-390`) and leaves all sessions of the simulation deaf until the next connection.
* A pulse whose list of targets names a session twice runs it twice (`dispatcher.py:438`; the gateway
  passes the list on as it came, `main.go:110`), and a Destination that does so queues the message twice
  (`hub.go:481-495`), although the comment at `:432` announces a map "to avoid double-delivery".
* A user who starts or stops a recording while another is being fetched gets a replay that was
  overtaken and plays all the same, beside another and out of the reach of `stop()`
  (`agent-cached-gateway-replay.service.ts:61-91`).
* The settings menu changes the mode without a lifecycle (`agent-screen.component.ts:314`): from live to
  cached in a security demo whose agent is being told its policy, the recording's messages are
  suppressed; from cached to live there is no agent to send to.
* A reset that fails after it flushed the sessions, one whose broadcast fails, `/sessions/flush` and the reaper
  leave rows of ended sessions on the tester's page (`main.go:329`, `:386-437`, `:456-467`).
* A car that closures left without a route goes back to the beginning of its last step, and starts its
  next route there (`car-simulator.ts:485-489`, `:565-583`).
* A redelivered add of a runner whose first add still loads leaves a mesh behind
  (`viewport-lookdev.component.ts:1467`).
* `followMesh` drops the promise of the pan it replaces, so a countdown awaiting that pan never
  ends (`scene.ts:749`, comment at `:625`).
* `removeRoute` restarts the chain of imports, which then build at once
  (`route.ts:192`, comment at `:30`).
* The error banner's interval clears the handle of the latest one, so after two failures the
  first never stops (`agent-chat-display.service.ts:314`).
* A second `closeEdges` leaves the first closure's roads red; `addToScene` forgets closures
  (`road-network.ts:450`).
* Camera hotkeys and console messages move the camera behind the menu's back
  (`demo.service.ts:62`, `:118`).

## Proofs

TLAPS checks these for every value of the constants that satisfies the modules'
assumptions: `HubAssumption` (the markers are not members of the sets, the attributes of
connections and messages are well typed, buffers are not empty), `RaceAssumption` (finitely
many runners, fields of different simulations disjoint, `MaxTicks` natural),
`RegistryAssumption` (the marker is no id, a goroutine has one role, bounds are natural),
`DispatcherAssumption` (pulses have names of their own, only clients' pulses have targets; the
name of the global channel is no simulation's, and the marker for no id is no id),
`ClientAssumption` with `RecordingsAssumption`, those of `MCView` (speeds are natural and
include standing still, the goal is not at the start, markers are no runners, routes are lists of sets of zones, bounds are
natural), those of `MCScreen` (the agents' tab and the tools are not the marker for none, the one tool that
fails is a tool, `camera` and `panning` are not toggles, bounds are natural and one label at least may
leave), and those of `MCTools` and `RoadTraffic` (an edge joins two nodes and is not without length, moves, starts and the
durations of lights are natural, the line before a light is in front of it, buffer and batch of the log hold
something, intervals and scales are positive, dumps are sequences of rows and there is one, bounds are
natural). TLC evaluates them on the instances.

**Hub** (`HubProofs`). `TypeCorrect`, then `HubInvariant`: the conjunction `HubInv` of
`TypeOK`, `IndexesAgree`, `RegisteredIsOpen`, `ConnectionInv` and `OnlyLateFramesPanic`
is inductive. The last two are not inductive alone: that a client about to be added is
open needs that it is unknown to the hub until `Run()` adds it, and that a closed client
is not registered again needs that a closed client cannot be resolved and that only one
whose pump failed has a reader left that can speak for it; this is `ConnectionInv`.
`RoutingMapsSafe` draws `RoutingMapsAgree` and `OnlyLateFramesPanic` from it. `DeliveredOncePerNaming` uses a
second invariant, `CopiesInv`: a message is in one place at a time (one position of one
channel or one worker), nobody has been sent a message that still waits, whoever has
been sent one that is being looked up is in the worker's `delivered`, and nobody was sent
more copies than the message names its session, or one where it is not named. One lemma per kind
of step moves a message from place to place.

The two filters are action properties: they speak of a client's whole history of requests.
`FiltersAreRequests` ties the maps to that history (`FilterInv`): while a client is registered
its allowlist is `Wanted` and its blocklist `Refused`; before and after, the allowlist is only
contained in `Wanted`, because a frame in flight while the client is unregistered is applied
to emptied maps. Its lemmas are about the operators: a simulation that a request names has a
last such request (`HasLast`), and one more request decides of its own simulation only
(`AppendLast`, `AppendRefused`). `ObserversAreFiltered` and `SessionsAreFiltered` then follow
one delivery path at a time; that `Run()` never sends a remote message is `ChannelInv`.

**RaceEngine** (`RaceEngineProofs`). `RaceInv` strengthens the properties by what makes
them true together: every result on its way is truthful, and there is one truth for each
runner and tick (`WireInv`), which holds because a runner's inbox has increasing ticks above
those it has handled (`OrderInv`); no runner is ahead of its simulation, and nobody out of
the race gets the tick of the open window (`TickInv`); the list and the window hold results
of the simulation's own runners (`LocatedInv`); the session state knows no runner or all
that were made (`FieldInv`); whom a window waits for (`ActiveInv`) and who is out
(`OutInv`); the snapshot has the finishers of the session state between ticks (`LoopInv`);
a late finish is known or still in the list (`RescueInv`). Each has one lemma of the form
`RaceInv /\ Next => ...'` with a step per action. From it follow `FinishersTrue`
(no invented finisher, no lost one between two windows), `CountsTrue` and `ResultsSound`. The
second is a cardinality argument: finishers, running and collapsed reporters are disjoint
subsets of the field, and reporters of the tick are active, so as many as the active ones are
all of them.

**RedisRegistry** (`RedisRegistryProofs`, under `RegistryAssumption`). `RegistryInv` is
inductive for any sets of sessions, types, simulations and gateways, with commands of all
of them interleaved one by one, keys that expire and operations cut short anywhere. It has
four parts. `Sane`: every key holds a value of its kind, and what each goroutine has still to
send fits where it is (`ClientOK`): a pipeline that tracks sets one session key, by its first
command, and every other pipeline only removes. `BatchesApart`: two requests never hold one
session. `FreshUnseen`: a session whose key is still to be set is in no index and in no
reaper's hands. `StaleIsDead` is the fourth: whom a reaper will remove has no key. It is not inductive
without `FreshUnseen`, since the reaper remembers which keys were gone and only the order of
`TrackSession`'s commands prevents one of them from appearing later. `LiveSpared` is the action
property that follows: a live session leaves an index by its own `UntrackSession`, a flush, or the DEL
of a set that was counted as empty, which the code does not prevent. Each action has a lemma `...Acts` (its
control, pipeline and locals stay sane); all but the three that track are `CalmActs`, which
add nothing to Redis. `RolledBackClean` needs more of each request (`RollBackInv`): until
`UntrackSession` comes to an entry, its keys say what the entry does or its pipeline will set
them (`Stored`), and no index names the session but the two of its type and its simulation
(`Own`); so what `UntrackSession` reads is what there is to remove, unless the lookup of the simulation failed
(`unfound`), and from then on whatever
still names the session is removed by a command in the pipeline (`Leaving`). Nobody else's
commands can undo this (`RequestUndisturbed`): other requests have other sessions, a reaper
deletes the simulation of a session only if it found the session stale, which a stored one is
not (`StoredIsLive`), and keys do not expire while a request has them. A flush does undo it,
which is why the property speaks of histories without one.

`ServesAlone` is the refinement: with one client at a time, nothing cut short and no expiry,
`Spec` implies `ServesExactly` for all values of the other constants. `AloneInv` says
of the client at work what a step-by-step refinement needs to know. Of a handler, that its pipeline
`Settles`: there are databases, one for each command, from the present one to one in which what
the client counts on holds (`Found`), and between two of them every session that the client does
not hide stays as it is. A pipeline is shown to settle once, when it is sent (`TrackSettles`,
`UntrackSettles`: three to six commands, two to four); that each command keeps it
settling, and is a stutter of the service, is then one lemma (`ExecuteServes`). Of a
flush, which keys are left to delete; of a reaper, that it finds nothing stale. Whoever is not
hidden `Agrees`: the sets a session is in are those its keys name. Most steps are stutters by
one lemma (`Stutter`), which compares what the service shows of each session before and after;
those that are not are the start of a flush, the end of a batch (`EnqueueServes`) and the read of
a session's type (`FindAgentTypeServes`).

**Dispatcher** (`DispatcherProofs`, under `DispatcherAssumption`). `Inv` is `TypeOK` with
`SerialInv`: in each instance runs are known by number and session, a run that was not
cancelled holds or awaits a lock of the present table, who goes on has its lock alone and was
triggered before all who wait for it, and runs begin in the order of their numbers. Without
the last two `RunsAreSerial` is not inductive: that a new run finds nobody before it
needs that nobody earlier has yet to begin. One lemma each for a trigger, a reset, a begin
and an end, about any set of runs. `FleetInv` is about channels: a session is noted for its channel or a
handler is about to (`Noted`), a channel noted is heard, still to be rejoined or being
subscribed to, or its subscription failed (`Heard`), only a connection that is joining has some left (`Joined`), and
whatever ends a simulation or gives up a channel is about one that ended.
`SimulationHeard` and `StraysCaused` follow.

`PulsesOnce` is about the copies of a pulse, over the channels, the pokes and the relays, for any
size of the cache of ids. Its first half, that nobody is run twice without an excuse (a list that names a session
twice is one), rests on `CopiesInv`. A copy in a mailbox is the pulse or a relay of it, under an id that tells which
handler of which instance made the relay (`Origin`); a mailbox has each once (`OnceInMail`); who
has still to read or to relay a pulse has not relayed it before, and nobody but the relaying
instance knows the relay's id (`RelaysOnce`); a pulse that was only poked is in one place, or was
relayed from one place (`InOnePlace`). So what may still come of a pulse for which an instance has
run a session carries an id it knows, or there is an excuse (`Handled`). The second half, that nobody is
left out, is `OwedComes`: a session that a pulse is owed to was run for it, or was chosen by a
handler that waits for its relay, or the relay will reach its instance, or a copy that means the
session is in a mailbox and will be taken for new (`Reads`). That the copies others hold stay new
when an instance marks an id needs the first half (`StillReads`).

**GatewayClient** (`GatewayClientProofs`, under `RecordingsAssumption`). `ClientInv` is
`WireFollowsSubscription` with the invariant of replays that did not go astray (`ReplayInv`: the one that
plays owns the subscription that stops it, and the frame asked for is its). Replays are started and
stopped at any time, during a fetch too; the history `astray` has every replay that was overtaken during
its fetch and, through `Led`, every one that loses its handle to such a replay, and nothing else.
`OneReplaySafe` and `StopFinal` speak of the others: at most one of them plays, and one that was stopped
plays no further row.

**Agent screen** (`ScreenProofs`). Theorems of `MCScreen`'s specification, one for each part.
`PendingTabServed`: for any tabs, a tab that waits to be opened is waited for by a label that
animates out or by a timer. `MenuTrue`: for any toggles and any clicks that wait for their
frames, the view does what the menu shows and the storage holds what the toggles show.
`ScreenFollows` has two halves. `SessionInv`: the screen follows the active demo or a lifecycle
of it waits (`Followed`), where every request to spawn has an id of its own and a session was
given for one type and is waited for no more (`Given`); without that a late answer could be taken for
the one that is awaited. The mode may be set by the menu at any time (`SecuringIsLive` says what of the
securing depends on it). `SettingsInv` says the same of what goes with the demo, `TimersInv`
of labels and dots: a timer is pending exactly while what it will clear is shown, so none is
lost and none runs twice. `EveryCallResolves`: `ChatInv` says of the calls so far of each tool that
a call that began has its card under its index or resolved, and one that ended first is kept for its
beginning; no step opens a resolved card again (`Keeps`). `ButtonsRunOnce` is the part of `SurfaceIsRead` that is about steps: of all
buttons, one click starts one run (`ButtonsInv`).

**Race view** (`ViewProofs`). Each invariant of the run `view` is a theorem of `MCView`'s
specification. `FieldInv` (`FieldKept`) says of the runners on the course and of what waits for
them that they are up to date: what was told of a runner that is not there is kept for it, and
nobody else was told anything but to stand. The adds that go on when a load settles are a
recursive function; that it exists and keeps this is an induction, done with the least
counterexample that a well-founded relation has (`LeastNat`), since the library's induction
theorems cannot be used. `CameraInv` (`ControlsReturn`) carries `Good` from view to view: a
view whose controls are off has something that moves the camera, and one lemma for each of the
ways to take the camera over shows that it leaves a good view good. `OverlayInv`
(`NumberIsShown`) keeps the slots of the countdown in step with its timers. For `CourseWhole` the
imports stand in a line (`InLine`): each waits for the one before it, only the first may load,
and the next to come will wait for the last. So no second import loads beside it, which is not
inductive without the line; and while one gets its textures no third tube can be in
the scene. `MaskInv` has that what is painted stands for a road on the list, also when a closure
replaces one with its ends. `SceneryTrue` says where the icons under the pointer, pinned and
placed may be (`TipInv`, `IconsInv`). `EndReportedOnce`: ends are of races that were
started, and not of the one that runs (`EndsInv`).

**Tools and traffic** (`ToolsProofs`). Theorems of `MCTools`' specification. `PageTrue`:
`ConsoleInv` adds to the rows of the tester that what is on its wire is messages and that a
reset on the way is not consumed by another message, while sessions that ended unheard are `excused`; `LogInv` gives the entries of the page and of
the queue their numbers, and has that a queue that is not empty has a frame asked for. `TwinTrue`:
`TwinInv` counts every id that was given; that the trail of a replay is a race from its start to its end
is shown for trails of any length. A recursive function is defined by its equation only if some
function satisfies it, which is shown once for all of those here (`Iteration`); what its values
are is then an induction by the least counterexample (`LeastNat`).
`RoadsKept` stands on `TrafficInv`. `LightsInv`: of a controller only the edges of the active
phase are lit, and those face each other or are the junction's only two (`PhasesFace`, for any
number of edges that meet at any angles). `CarsInv`: the route of a car joins (`WaysJoin`), and it
is on the step its index names, before that step's end; that it is so after a frame in which
it drives over several edges is `DrivenIs` and `ArrivedIs`. `ClosedInv`: what cars are kept off is
among what is closed, and painted so. `CarsDrive` is about steps: in no frame, however
far the cars move, is an edge left at a red or yellow lamp by a car with a route, and a car goes on along
its route and from its end (`CarsOfAStep`), the jump of a car without an open road being the one exception.
`ReplayKept` stands on `PlayerInv`: while the speed is the one the replay began with, every frame
left a wait after the one before it, the timer that runs fires a wait after the last one, and the
countdown, if it is still to come, is the one computed at the start. The waits add up: between
ticks a wait is the span of the two segments (`SegmentGapIs`), spans are added end to end
(`SpansAre`), and no gap is negative whatever the clocks recorded (`GapsAre`). That the records of
a dump have a stable order by segment, of which `TickOrder` chooses one, is shown by inserting one
record after the other (`Inserted`, `SortExists`).

**Only model-checked.** Everything with fairness, which is out of TLAPS' reach; `RacesAreRun`, which is no
theorem for several simulations; and how surfaces and roads are read (`SurfaceIsRead`,
`MapsAreWhole`): these compare two computations over data of any shape, so their proofs would be
inductions over that data.

## Not modelled

* The subscription store and the agents' session caches: the hub is checked for any answer of
  the store. The switchboard appears as the paths an event takes to a dispatcher.
* Planner agents and their tools: their behaviour is a language model's.
* Rendering: geometry, materials, shaders, labels, ribbons, the spacing of cars, the
  positions of meshes between two events, and the wording of everything.
* Code that nothing calls in this commit: `simulation-state.ts`, `label-overlay.ts`,
  `sim:complete`, `sim:spawnRunners` with its buffer, `hud:focusSimRunner`, `removeZone`,
  `Runner.setProgress`, `syncFromBackend`, `finalToolCallMessage`, `onRemoveAgent`, `startOutro`.
* Static servers, dashboards, tokens, middleware and infrastructure: I/O without protocol
  state.
