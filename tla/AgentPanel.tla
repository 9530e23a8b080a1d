----------------------------- MODULE AgentPanel -----------------------------
(***************************************************************************)
(* The panel around the agent screen: the tab strip, whose labels leave    *)
(* and enter by animations with timers between them, the panel that folds  *)
(* away, and the simulation panel with the statistics of the race.         *)
(*                                                                         *)
(* Only the label of the active tab is shown, and only while the panel is  *)
(* open: a label that must go plays a leave animation, whose end is the    *)
(* event onTabLabelAnimationDone.                                          *)
(***************************************************************************)
EXTENDS Integers, FiniteSets

CONSTANTS
    Tabs, Agent,    \* Agent, the tab of the chat, is one of Tabs
    Guids,          \* runners the statistics hear of
    None,
    MaxLeaving      \* bound: leave animations or timers of a kind at once

VARIABLES
    tab, open, wide, labels,   \* activeTab, isExpanded, tabBtnWide, showTabLabels
    collapsing,                \* panelCollapseInProgress
    next,                      \* pendingTab
    leaving,                   \* leave animations that play
    reveal,                    \* showTabLabelsAfterGrowTimeoutId is running
    close, switch,             \* the shrink timers: [held, lost], the lost ones
                               \* being those whose id was overwritten
    simRunning, simPanel, progress,
                               \* isSimulationRunning, showSimPanel, the frame
                               \* of the progress bar is requested
    finishers, counted         \* numberOfFinishers, runnersFinishedAwaitingHud

tabVars == <<tab, open, wide, labels, collapsing, next, leaving>>
timers == <<reveal, close, switch>>
statVars == <<simRunning, simPanel, progress, finishers, counted>>
vars == <<tabVars, timers, statVars>>

Stopped == [held |-> FALSE, lost |-> 0]

Init ==
    /\ tab = Agent /\ open = TRUE /\ wide = FALSE /\ labels = TRUE
    /\ collapsing = FALSE /\ next = None /\ leaving = 0
    /\ reveal = FALSE /\ close = Stopped /\ switch = Stopped
    /\ simRunning = FALSE /\ simPanel = FALSE /\ progress = FALSE
    /\ finishers = 0 /\ counted = {}

-----------------------------------------------------------------------------
(* What the view does with new values: the label that was shown and is not
   any more begins to leave. *)
Leaves(tab1, open1, labels1) ==
    leaving' = IF open /\ labels /\ ~(tab1 = tab /\ open1 /\ labels1)
               THEN leaving + 1 ELSE leaving

Room == leaving < MaxLeaving

(* setTimeout into a handle that may still hold a timer: that one is lost. *)
Started(timer) == [held |-> TRUE, lost |-> timer.lost + IF timer.held THEN 1 ELSE 0]

(* clearAnimationTimers reaches the timers whose ids are held. *)
Cleared(timer) == [timer EXCEPT !.held = FALSE]

SwitchWithoutLabelClose(t) ==
    /\ tab' = t /\ wide' = TRUE /\ labels' = FALSE /\ Leaves(t, open, FALSE)
    /\ next' = None
    /\ close' = Cleared(close) /\ switch' = Cleared(switch) /\ reveal' = TRUE
    /\ UNCHANGED <<open, collapsing>>

(* A click on a tab: at once in a folded panel; a click during a switch only
   changes its target; without labels at once; else the label leaves first. *)
SetActiveTab(t) ==
    /\ t # tab /\ t # next /\ Room
    /\ \/ ~open
          /\ next' = None /\ tab' = t /\ Leaves(t, open, labels)
          /\ UNCHANGED <<open, wide, labels, collapsing, timers>>
       \/ open /\ next # None
          /\ next' = t
          /\ UNCHANGED <<tab, open, wide, labels, collapsing, leaving, timers>>
       \/ open /\ next = None /\ ~labels /\ SwitchWithoutLabelClose(t)
       \/ open /\ next = None /\ labels
          /\ next' = t /\ labels' = FALSE /\ Leaves(tab, open, FALSE)
          /\ UNCHANGED <<tab, open, wide, collapsing, timers>>
    /\ UNCHANGED statVars

(* Slip: opening the panel stops the timer a waiting tab needs. *)
ExpandKeepsNext ==
    /\ collapsing' = FALSE /\ open' = TRUE /\ wide' = TRUE
    /\ labels' = FALSE /\ Leaves(tab, TRUE, FALSE)
    /\ close' = Cleared(close) /\ switch' = Cleared(switch) /\ reveal' = TRUE
    /\ UNCHANGED <<tab, next>>

(* expandPanelAfterCollapsed *)
Expand ==
    /\ next' = None /\ collapsing' = FALSE /\ open' = TRUE /\ wide' = TRUE
    /\ labels' = FALSE /\ Leaves(tab, TRUE, FALSE)
    /\ close' = Cleared(close) /\ switch' = Cleared(switch) /\ reveal' = TRUE
    /\ UNCHANGED tab

(* beginPanelCollapse *)
Collapse ==
    /\ next' = None /\ reveal' = FALSE /\ switch' = Cleared(switch)
    /\ IF labels
       THEN /\ collapsing' = TRUE /\ labels' = FALSE /\ Leaves(tab, open, FALSE)
            /\ close' = Cleared(close)
            /\ UNCHANGED wide
       ELSE /\ wide' = FALSE /\ close' = Started(Cleared(close))
            /\ UNCHANGED <<collapsing, labels, leaving>>
    /\ UNCHANGED <<tab, open>>

(* togglePanelExpanded: during a race it brings up the simulation panel. *)
Toggle ==
    /\ Room
    /\ \/ simRunning /\ simPanel' = TRUE /\ UNCHANGED <<tabVars, timers>>
       \/ ~simRunning /\ open /\ Collapse /\ UNCHANGED simPanel
       \/ ~simRunning /\ ~open /\ Expand /\ UNCHANGED simPanel
    /\ UNCHANGED <<simRunning, progress, finishers, counted>>

ExpandFromSimulationPanel ==
    /\ simPanel /\ Room
    /\ simPanel' = FALSE /\ Expand
    /\ UNCHANGED <<simRunning, progress, finishers, counted>>

(* onTabLabelAnimationDone, when a label has left. *)
LabelLeft ==
    /\ leaving > 0 /\ leaving' = leaving - 1
    /\ switch.lost < MaxLeaving /\ close.lost < MaxLeaving
    /\ \/ next # None
          /\ wide' = FALSE /\ switch' = Started(switch)
          /\ UNCHANGED <<collapsing, close>>
       \/ next = None /\ collapsing
          /\ wide' = FALSE /\ collapsing' = FALSE /\ close' = Started(close)
          /\ UNCHANGED switch
       \/ next = None /\ ~collapsing
          /\ UNCHANGED <<wide, collapsing, close, switch>>
    /\ UNCHANGED <<tab, open, labels, next, reveal, statVars>>

(* applyTabOpenAfterSwitch; the timer's own handle becomes null, whichever
   timer it was. *)
SwitchTimer ==
    /\ switch # Stopped /\ Room
    /\ \/ switch.held /\ switch' = [switch EXCEPT !.held = FALSE]
       \/ switch.lost > 0 /\ switch' = [held |-> FALSE, lost |->
              switch.lost - 1 + IF switch.held THEN 1 ELSE 0]
    /\ IF next = None
       THEN UNCHANGED <<tab, wide, labels, next, leaving, reveal>>
       ELSE /\ tab' = next /\ next' = None /\ wide' = TRUE
            /\ labels' = FALSE /\ Leaves(next, open, FALSE) /\ reveal' = TRUE
    /\ UNCHANGED <<open, collapsing, close, statVars>>

CloseTimer ==
    /\ close # Stopped /\ Room
    /\ \/ close.held /\ close' = [close EXCEPT !.held = FALSE]
       \/ close.lost > 0 /\ close' = [held |-> FALSE, lost |->
              close.lost - 1 + IF close.held THEN 1 ELSE 0]
    /\ open' = FALSE /\ Leaves(tab, FALSE, labels)
    /\ UNCHANGED <<tab, wide, labels, collapsing, next, reveal, switch, statVars>>

RevealTimer ==
    /\ reveal
    /\ reveal' = FALSE /\ labels' = TRUE
    /\ UNCHANGED <<tab, open, wide, collapsing, next, leaving, close, switch, statVars>>

(* onRouteIntroComplete opens the panel and touches nothing else. *)
RouteIntroComplete ==
    /\ ~open
    /\ open' = TRUE
    /\ UNCHANGED <<tab, wide, labels, collapsing, next, leaving, timers, statVars>>

-----------------------------------------------------------------------------
(* The statistics. *)
NoStatistics == progress' = FALSE /\ finishers' = 0 /\ counted' = {}

(* A demo begins: the panel is open except in the sandbox. *)
DemoBegins(sandbox) ==
    /\ Room
    /\ open' = ~sandbox /\ wide' = FALSE /\ tab' = Agent
    /\ Leaves(Agent, ~sandbox, labels)
    /\ simPanel' = FALSE /\ simRunning' = FALSE /\ NoStatistics
    /\ UNCHANGED <<labels, collapsing, next, timers>>

(* fire_start_gun: handleRaceStarted announces the race, whose listener clears
   the statistics, and then starts the bar. *)
HandleRaceStarted ==
    /\ simPanel' = TRUE /\ simRunning' = TRUE /\ progress' = TRUE
    /\ finishers' = 0 /\ counted' = {}
    /\ UNCHANGED <<tabVars, timers>>

SimFinished ==
    /\ simRunning
    /\ simPanel' = FALSE /\ simRunning' = FALSE
    /\ UNCHANGED <<tabVars, timers, progress, finishers, counted>>

ProgressFull ==
    /\ progress
    /\ progress' = FALSE
    /\ UNCHANGED <<tabVars, timers, simRunning, simPanel, finishers, counted>>

(* A runner is counted once, when it first reports the end of the course. *)
RunnerAtEnd(g) ==
    /\ g \notin counted
    /\ counted' = counted \cup {g} /\ finishers' = finishers + 1
    /\ UNCHANGED <<tabVars, timers, simRunning, simPanel, progress>>

Next ==
    \/ \E t \in Tabs : SetActiveTab(t)
    \/ Toggle
    \/ ExpandFromSimulationPanel
    \/ LabelLeft
    \/ SwitchTimer
    \/ CloseTimer
    \/ RevealTimer
    \/ RouteIntroComplete
    \/ \E sandbox \in BOOLEAN : DemoBegins(sandbox)
    \/ HandleRaceStarted
    \/ SimFinished
    \/ ProgressFull
    \/ \E g \in Guids : RunnerAtEnd(g)

Spec == Init /\ [][Next]_vars

(* A tab that waits to be opened is waited for by something: a label that
   leaves or a running timer will open it, and nothing that stops the timers
   leaves the click unanswered. *)
PendingTabIsServed ==
    next # None => leaving > 0 \/ switch # Stopped
=============================================================================
