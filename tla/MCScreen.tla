------------------------------ MODULE MCScreen ------------------------------
(***************************************************************************)
(* The parts of the agent screen: its chat, its panel, its agents, what    *)
(* follows the active demo, the menu of filters and the surfaces it draws. *)
(* None reads the state of another, what one does to another being an      *)
(* action of that other, so each runs by itself: `part` says which.        *)
(***************************************************************************)
EXTENDS Integers, Sequences, TLC, SequencesExt

CONSTANTS None, Tools, Failing, Speakers, MaxItems, MaxCalls, MaxTimers, LastCount,
          Tabs, Agent, Guids, MaxLeaving, MaxSpawns, d3, d5, d7, Memory, Failure,
          Keys, AutoDemo, Scales, MaxStarts, Toggles, MaxTurns, Agents, MaxRuns

ASSUME ChatAssumption ==
    /\ Failing \in Tools /\ None \notin Tools
    /\ {MaxItems, MaxCalls, MaxTimers} \subseteq Nat /\ LastCount \in Nat \ 0..3

ASSUME PanelAssumption ==
    Agent \in Tabs /\ None \notin Tabs /\ MaxLeaving \in Nat \ {0}

ASSUME MenuAssumption ==
    Toggles \cap {"camera", "panning"} = {}

ASSUME ScreenAssumption == MaxSpawns \in Nat /\ None \notin Nat

VARIABLES
    part,
    items, active, pending, chatSecuring, chatWorking, lenient, timers, handle,
    warnings, rows, strip, calls,
    tab, open, wide, labels, collapsing, next, leaving, reveal, close, switch,
    simRunning, simPanel, progress, finishers, counted,
    demo, cached, switched, agents, initializing, waits, organizing, spawned, live, current,
    working, securing, runs, runCount, replay, organizer,
    modeDemo, modeCached, modeWaits, starts, auto, secure, cloud, speed, skills,
    route, chatCard, input, busy, dots, dotsTimer, label, labelTimers, labelTimer,
    orbit, filters, view, stored, turns, mounted,
    list, componentsMap, rootNode, always, expanded, activeTab, modals, loading,
    recorded, talksTo, drawing, pressed

-----------------------------------------------------------------------------
(* Surfaces that agents send, and the card that some demos begin with. *)

Node(id, type, kids, wire, tabs, entry, content, action) ==
    [id |-> id, type |-> type, kids |-> kids, wire |-> wire, tabs |-> tabs,
     entry |-> entry, content |-> content, action |-> action]

Leaf(id) == Node(id, "Text", <<>>, "child", <<>>, None, None, "")
Button(id, action) == Node(id, "Button", <<>>, "child", <<>>, None, None, action)
Layout(id, type, kids) ==
    Node(id, type, kids, IF Len(kids) = 1 THEN "child" ELSE "explicitList", <<>>,
         None, None, "")

(* A run's scores and, in tabs, a card with its button. *)
Scorecard ==
    << Leaf("header"), Button("start", "run_simulation"), Layout("inner", "Card", <<"start">>),
       Leaf("text"), Node("tabs", "Tabs", <<>>, "child", <<"text", "inner">>, None, None, ""),
       Button("open", "open_card"), Layout("column", "Column", <<"header", "tabs", "open">>),
       Layout("card", "Card", <<"column">>) >>

(* A route whose card is a modal's. *)
Route ==
    << Button("entry", "show_route"), Button("open", "open_card"), Leaf("header"),
       Button("start", "run_simulation_with_llm_runners"),
       Layout("column", "Column", <<"header", "start", "open">>),
       Layout("card", "Card", <<"column">>), Button("rerun-btn", "stop_simulation"),
       Node("modal", "Modal", <<>>, "child", <<>>, "entry", "card", ""),
       Layout("panel", "List", <<"modal", "rerun-btn">>) >>

Rotated(s, k) == SubSeq(s, k + 1, Len(s)) \o SubSeq(s, 1, k)

-----------------------------------------------------------------------------
Chat == INSTANCE ChatDisplay WITH securing <- chatSecuring, working <- chatWorking
Panel == INSTANCE AgentPanel
Session == INSTANCE AgentScreen WITH
               Demos <- {d3, d5, d7},
               AgentOf <- d3 :> Memory @@ d5 :> Failure @@ d7 :> Memory,
               Streams <- d3 :> 2 @@ d5 :> 1 @@ d7 :> 1,
               Security <- {d7}
Modes == INSTANCE DemoModes WITH demo <- modeDemo, cached <- modeCached, waits <- modeWaits
Menu == INSTANCE FilterMenu WITH items <- filters
Surface == INSTANCE A2ui WITH
               Surfaces <- {Scorecard, Reverse(Scorecard), Route, Reverse(Route),
                            Rotated(Route, 4)} \cup
                           {Modes!PlaceholderCard, Reverse(Modes!PlaceholderCard)},
               Headers <- {"header"}, RerunButton <- "rerun-btn",
               tab <- activeTab, open <- modals, cached <- recorded, current <- talksTo,
               working <- drawing, runs <- pressed

chatVars == <<items, active, pending, chatSecuring, chatWorking, lenient, timers,
              handle, warnings, rows, strip, calls>>
panelVars == <<tab, open, wide, labels, collapsing, next, leaving, reveal, close,
               switch, simRunning, simPanel, progress, finishers, counted>>
sessionVars == <<demo, cached, switched, agents, initializing, waits, organizing, spawned,
                 live, current, working, securing, runs, runCount, replay, organizer>>
modesVars == <<modeDemo, modeCached, modeWaits, starts, auto, secure, cloud, speed,
               skills, route, chatCard, input, busy, dots, dotsTimer, label,
               labelTimers, labelTimer>>
menuVars == <<orbit, filters, view, stored, turns, mounted>>
surfaceVars == <<list, componentsMap, rootNode, always, expanded, activeTab, modals,
                 loading, recorded, talksTo, drawing, pressed>>
vars == <<part, chatVars, panelVars, sessionVars, modesVars, menuVars, surfaceVars>>

Init ==
    /\ part \in {"chat", "panel", "session", "modes", "menu", "surface"}
    /\ Chat!Init /\ (lenient => part = "chat")
    /\ Panel!Init
    /\ Session!Init /\ (demo # d3 => part = "session")
    /\ Modes!Init /\ Menu!Init
    /\ part # "surface" => list = Scorecard /\ always = FALSE
                           /\ recorded = FALSE /\ talksTo = None
    /\ Surface!Init

Next ==
    \/ /\ part = "chat" /\ Chat!Next
       /\ UNCHANGED <<part, panelVars, sessionVars, modesVars, menuVars, surfaceVars>>
    \/ /\ part = "panel" /\ Panel!Next
       /\ UNCHANGED <<part, chatVars, sessionVars, modesVars, menuVars, surfaceVars>>
    \/ /\ part = "session" /\ Session!Next
       /\ UNCHANGED <<part, chatVars, panelVars, modesVars, menuVars, surfaceVars>>
    \/ /\ part = "modes" /\ Modes!Next
       /\ UNCHANGED <<part, chatVars, panelVars, sessionVars, menuVars, surfaceVars>>
    \/ /\ part = "menu" /\ Menu!Next
       /\ UNCHANGED <<part, chatVars, panelVars, sessionVars, modesVars, surfaceVars>>
    \/ /\ part = "surface" /\ Surface!Next
       /\ UNCHANGED <<part, chatVars, panelVars, sessionVars, modesVars, menuVars>>

Spec == Init /\ [][Next]_vars

-----------------------------------------------------------------------------
(* ChatDisplay: a tool called once has a card that is no longer open. *)
CallsResolve == part = "chat" => Chat!CallsResolve

(* AgentPanel: a tab that waits to be opened will be. *)
PendingTabIsServed == part = "panel" => Panel!PendingTabIsServed

(* AgentScreen: the settled screen talks to the active demo's agent, and the
   chat is hidden only for a security demo that runs live, or ran live before
   the menu's buttons set the mode; DemoModes: settings,
   route and prompt are those of the active demo, and the timers of its texts
   each have their handle. *)
ScreenFollowsDemo ==
    /\ part = "session" => Session!ScreenFollowsDemo /\ Session!SecuringIsLive
    /\ part = "modes" => Modes!SettingsFollowDemo /\ Modes!TimersAreOwned

(* FilterMenu: the view does what the menu of filters shows. *)
MenuIsTrue == part = "menu" => Menu!MenuIsTrue

(* A2ui: root and innermost cards are found in whatever order the components
   came, the app and the tester draw the same, and a button starts at most one
   run. *)
SurfaceIsRead ==
    part = "surface" => Surface!TreeIsRead /\ Surface!BothDrawTheSame /\ Surface!OneRunPerButton
=============================================================================
