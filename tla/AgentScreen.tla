----------------------------- MODULE AgentScreen -----------------------------
(***************************************************************************)
(* The session of the agent screen: the active demo and mode, the agents   *)
(* spawned for it, the lifecycle that every change of demo, reset or mode, *)
(* but for the menu's change of mode, runs through and that waits for its  *)
(* agent, and the composer.                                                *)
(*                                                                         *)
(* A session is named by the spawn request that created it.  The chat      *)
(* thread is ChatDisplay, the panel AgentPanel; the replay's frames and    *)
(* its cancellation are GatewayClient and ReplayDump.                      *)
(***************************************************************************)
EXTENDS Integers, FiniteSets, FiniteSetsExt

CONSTANTS
    Demos,
    AgentOf,      \* of each demo the agent type it talks to
    Streams,      \* of each demo the number of recordings it has
    Security,     \* 7a and 7b: their agent is told a policy first
    Memory,       \* planner_with_memory, the organizer's agent type
    None,
    MaxSpawns     \* bound: spawn requests

VARIABLES
    demo, cached,     \* activeDemo, runCachedMessages
    switched,         \* history: the menu set the mode since the last lifecycle
    agents,           \* agents: the session of each agent type
    initializing,     \* initializingAgents
    waits,            \* lifecycles that wait for their agent: [id, demo]
    organizing,       \* organizer effects that wait for theirs: spawn ids
    spawned,          \* spawn requests so far
    live,             \* sessions the client was given and has not removed
    current,          \* currentAgent.agentType
    working, securing,
    runs,             \* runs each session still has to end
    runCount,         \* currentDemoCachedRunCount
    replay,           \* [fetching, playing]: cached replays under way
    organizer         \* plannerAgentGuid of the organizer tab

vars == <<demo, cached, switched, agents, initializing, waits, organizing, spawned, live,
          current, working, securing, runs, runCount, replay, organizer>>

Types == {AgentOf[d] : d \in Demos} \cup {Memory}
Ids == 1..MaxSpawns
NoAgents == [t \in Types |-> None]

Init ==
    /\ demo \in Demos /\ Streams[demo] > 0 /\ cached = TRUE /\ switched = FALSE
    /\ agents = NoAgents /\ initializing = {} /\ waits = {} /\ organizing = {}
    /\ spawned = 0 /\ live = {}
    /\ current = AgentOf[demo] /\ working = FALSE /\ securing = FALSE
    /\ runs = [i \in Ids |-> 0] /\ runCount = 0
    /\ replay = [fetching |-> 0, playing |-> FALSE] /\ organizer = None

-----------------------------------------------------------------------------
(* The lifecycle is a function of the state it finds, a record of what it
   changes: [agents, live, current, working, securing, runs]. *)

Now == [agents |-> agents, live |-> live, current |-> current,
        working |-> working, securing |-> securing, runs |-> runs]

(* After the agent is there: agents of other types are removed, the composer
   is freed, and in live mode a security demo is told its policy. *)
Settle(s, d, isCached) ==
    LET t == AgentOf[d]
        others == {s.agents[u] : u \in Types \ {t}}
        told == d \in Security /\ ~isCached
    IN  [s EXCEPT !.live = @ \ others,
                  !.agents = [NoAgents EXCEPT ![t] = s.agents[t]],
                  !.working = FALSE, !.current = t,
                  !.securing = @ \/ told,
                  !.runs = [i \in Ids |-> @[i] +
                               IF told /\ i = s.agents[t] THEN 1 ELSE 0]]

Becomes(s) ==
    /\ agents' = s.agents /\ live' = s.live /\ current' = s.current
    /\ working' = s.working /\ securing' = s.securing /\ runs' = s.runs

(* Slip: what the last demo was told still hides the chat. *)
LifecycleStillSecuring(d, isCached) ==
    LET clean == [Now EXCEPT !.agents = NoAgents,
                             !.live = @ \ {agents[t] : t \in Types}]
    IN  /\ replay' = [replay EXCEPT !.playing = FALSE] /\ runCount' = 0
        /\ switched' = FALSE
        /\ IF isCached
           THEN /\ Becomes(Settle(clean, d, TRUE)) /\ initializing' = {}
                /\ UNCHANGED waits
           ELSE /\ Becomes(clean) /\ initializing' = {AgentOf[d]}
                /\ waits' = waits \cup {[id |-> spawned + 1, demo |-> d]}

(* What runs before the first await: the replay stops (a fetch under way does
   not), every agent is removed, and the demo's agent is spawned in live mode;
   in cached mode the rest follows at once. *)
Lifecycle(d, isCached) ==
    LET clean == [Now EXCEPT !.agents = NoAgents, !.securing = FALSE,
                             !.live = @ \ {agents[t] : t \in Types}]
    IN  /\ replay' = [replay EXCEPT !.playing = FALSE] /\ runCount' = 0
        /\ switched' = FALSE
        /\ IF isCached
           THEN /\ Becomes(Settle(clean, d, TRUE)) /\ initializing' = {}
                /\ UNCHANGED waits
           ELSE /\ Becomes(clean) /\ initializing' = {AgentOf[d]}
                /\ waits' = waits \cup {[id |-> spawned + 1, demo |-> d]}

(* The organizer's effect follows the demo and the mode: live, it spawns a
   planner of its own. *)
Organize(isCached, earlier) ==
    IF isCached
    THEN UNCHANGED organizing /\ spawned' = spawned + earlier
    ELSE /\ organizing' = organizing \cup {spawned + earlier + 1}
         /\ spawned' = spawned + earlier + 1

Free(n) == spawned + n <= MaxSpawns

(* A demo is chosen by a hotkey, the operator console or the settings menu;
   choosing the active one resets it. *)
SelectDemo(d) ==
    LET isCached == cached /\ Streams[d] > 0 IN
    /\ d # demo /\ Free(2)
    /\ demo' = d /\ cached' = isCached
    /\ Lifecycle(d, isCached) /\ Organize(isCached, IF isCached THEN 0 ELSE 1)
    /\ UNCHANGED organizer

ResetDemo ==
    /\ Free(1)
    /\ Lifecycle(demo, cached) /\ spawned' = spawned + IF cached THEN 0 ELSE 1
    /\ UNCHANGED <<demo, cached, organizing, organizer>>

(* Cached mode needs a recording. *)
ToggleCached ==
    /\ Streams[demo] > 0 /\ Free(2)
    /\ cached' = ~cached
    /\ Lifecycle(demo, ~cached) /\ Organize(~cached, IF cached THEN 1 ELSE 0)
    /\ UNCHANGED <<demo, organizer>>

(* The Cached and Live buttons of the settings menu set the mode and nothing
   else: no lifecycle runs, so that agents, replay, composer and what a
   security demo was told stay as they were; the organizer follows. *)
MenuSetsCached(value) ==
    /\ value # cached /\ (value => Streams[demo] > 0) /\ Free(1)
    /\ cached' = value /\ switched' = TRUE
    /\ Organize(value, 0)
    /\ UNCHANGED <<demo, agents, initializing, waits, live, current, working,
                   securing, runs, runCount, replay, organizer>>

-----------------------------------------------------------------------------
(* Slip: a lifecycle that waited goes on for the demo it began with. *)
AgentArrivesAnyhow(w, ok) ==
    LET t == AgentOf[w.demo]
        s == IF ok THEN [Now EXCEPT !.agents[t] = w.id, !.live = @ \cup {w.id}] ELSE Now
    IN  /\ waits' = waits \ {w} /\ initializing' = initializing \ {t}
        /\ Becomes(Settle(s, w.demo, cached))
        /\ UNCHANGED <<demo, cached, switched, organizing, spawned, runCount, replay, organizer>>

(* The spawn is answered, or fails: the lifecycle goes on unless another demo
   is active. *)
AgentArrives(w, ok) ==
    LET t == AgentOf[w.demo]
        s == IF ok THEN [Now EXCEPT !.agents[t] = w.id, !.live = @ \cup {w.id}] ELSE Now
    IN  /\ waits' = waits \ {w} /\ initializing' = initializing \ {t}
        /\ Becomes(IF w.demo = demo THEN Settle(s, w.demo, cached) ELSE s)
        /\ UNCHANGED <<demo, cached, switched, organizing, spawned, runCount, replay, organizer>>

OrganizerArrives(i) ==
    /\ i \in organizing
    /\ organizing' = organizing \ {i} /\ live' = live \cup {i} /\ organizer' = i
    /\ runs' = [runs EXCEPT ![i] = @ + 1]
    /\ UNCHANGED <<demo, cached, switched, agents, initializing, waits, spawned, current,
                   working, securing, runCount, replay>>

OrganizerFails(i) ==
    /\ i \in organizing
    /\ organizing' = organizing \ {i}
    /\ UNCHANGED <<demo, cached, switched, agents, initializing, waits, spawned, live, current,
                   working, securing, runs, runCount, replay, organizer>>

-----------------------------------------------------------------------------
(* onSend.  In cached mode the next recording of the demo is fetched, if there
   is one; the composer is busy either way. *)
SendCached ==
    /\ cached /\ ~working
    /\ working' = TRUE
    /\ replay.fetching = 0    \* bound: one fetch at a time
    /\ replay' = [fetching |-> IF runCount < Streams[demo] THEN 1 ELSE 0, playing |-> FALSE]
    /\ UNCHANGED <<demo, cached, switched, agents, initializing, waits, organizing, spawned,
                   live, current, securing, runs, runCount, organizer>>

SendLive ==
    /\ ~cached /\ ~working /\ agents[current] # None
    /\ runs[agents[current]] < 2
    /\ working' = TRUE /\ runs' = [runs EXCEPT ![agents[current]] = @ + 1]
    /\ UNCHANGED <<demo, cached, switched, agents, initializing, waits, organizing, spawned,
                   live, current, securing, runCount, replay, organizer>>

(* The end of a run, of whichever session but the organizer's, whose messages
   are filtered, ends the securing; of the current agent's, it frees the
   composer.  A failed tool frees it as well. *)
RunEnds(i) ==
    /\ runs[i] > 0
    /\ runs' = [runs EXCEPT ![i] = @ - 1]
    /\ working' = (working /\ i \notin {agents[current]} \ {organizer})
    /\ securing' = (securing /\ i = organizer)
    /\ UNCHANGED <<demo, cached, switched, agents, initializing, waits, organizing, spawned,
                   live, current, runCount, replay, organizer>>

ToolFails ==
    /\ working
    /\ working' = FALSE
    /\ UNCHANGED <<demo, cached, switched, agents, initializing, waits, organizing, spawned,
                   live, current, securing, runs, runCount, replay, organizer>>

(* A recording that arrives plays, beside one that may still play: the two are
   not told apart here. *)
Fetched(ok) ==
    /\ replay.fetching > 0
    /\ replay' = [fetching |-> replay.fetching - 1, playing |-> ok \/ replay.playing]
    /\ UNCHANGED <<demo, cached, switched, agents, initializing, waits, organizing, spawned,
                   live, current, working, securing, runs, runCount, organizer>>

ReplayCompletes ==
    /\ replay.playing
    /\ replay' = [replay EXCEPT !.playing = FALSE]
    /\ working' = FALSE /\ runCount' = runCount + 1
    /\ UNCHANGED <<demo, cached, switched, agents, initializing, waits, organizing, spawned,
                   live, current, securing, runs, organizer>>

Next ==
    \/ \E d \in Demos : SelectDemo(d)
    \/ ResetDemo
    \/ ToggleCached
    \/ \E value \in BOOLEAN : MenuSetsCached(value)
    \/ \E w \in waits, ok \in BOOLEAN : AgentArrives(w, ok)
    \/ \E i \in Ids : OrganizerArrives(i)
    \/ \E i \in Ids : OrganizerFails(i)
    \/ SendCached
    \/ SendLive
    \/ \E i \in Ids : RunEnds(i)
    \/ ToolFails
    \/ \E ok \in BOOLEAN : Fetched(ok)
    \/ ReplayCompletes

Spec == Init /\ [][Next]_vars

(* The chat is hidden only in a security demo that runs live: however demos,
   modes and late answers of the spawn API interleave, no other demo is shown
   with its messages suppressed, and no recording either, but one that the
   menu's buttons, which begin no lifecycle, put in the place of the live demo:
   its messages stay suppressed until the agent has been told its policy. *)
SecuringIsLive == securing => demo \in Security /\ (~cached \/ switched)

(* Once no lifecycle waits, the screen talks to the agent type of the active
   demo, and the session it has for it, if any, was not removed: a lifecycle
   overtaken by another demo leaves no trace in the composer. *)
ScreenFollowsDemo ==
    waits = {} => /\ current = AgentOf[demo]
                  /\ agents[current] # None => agents[current] \in live
=============================================================================
