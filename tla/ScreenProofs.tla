---------------------------- MODULE ScreenProofs ----------------------------
(***************************************************************************)
(* Proofs about the agent screen, each of its parts by itself: an          *)
(* inductive invariant of the part, a lemma that every step of it keeps    *)
(* the invariant, and the theorem, which says of MCScreen's specification  *)
(* what MCScreen checks of it.  A step of another part leaves this one's   *)
(* variables alone.                                                        *)
(***************************************************************************)
EXTENDS MCScreen, TLAPS

(***************************************************************************)
(* The panel.                                                              *)
(***************************************************************************)
Timer == [held : BOOLEAN, lost : Nat]

(* The pending tab is served, and what serves it can be counted. *)
PanelInv ==
    /\ leaving \in Nat /\ close \in Timer /\ switch \in Timer
    /\ open \in BOOLEAN /\ labels \in BOOLEAN
    /\ Panel!PendingTabIsServed

LEMMA TimersStay ==
    ASSUME NEW timer \in Timer
    PROVE  /\ Panel!Started(timer) \in Timer /\ Panel!Started(timer) # Panel!Stopped
           /\ Panel!Cleared(timer) \in Timer
<1>1. /\ timer = [held |-> timer.held, lost |-> timer.lost]
      /\ timer.held \in BOOLEAN /\ timer.lost \in Nat
  BY DEF Timer
<1>2. timer.lost + (IF timer.held THEN 1 ELSE 0) \in Nat
  <2>1. CASE timer.held  BY <1>1, <2>1
  <2>2. CASE ~timer.held  BY <1>1, <2>2
  <2>. QED  BY <2>1, <2>2
<1>3. Panel!Started(timer) \in Timer
  BY <1>2 DEF Panel!Started, Timer
<1>4. Panel!Started(timer).held # Panel!Stopped.held
  BY DEF Panel!Started, Panel!Stopped
<1>5. Panel!Cleared(timer) \in Timer
  BY DEF Panel!Cleared, Timer
<1>. QED  BY <1>3, <1>4, <1>5

(* A timer of a kind runs out: its own handle, or one that was lost. *)
Rings(timer, timer1) ==
    \/ timer.held /\ timer1 = [timer EXCEPT !.held = FALSE]
    \/ timer.lost > 0 /\ timer1 = [held |-> FALSE, lost |->
           timer.lost - 1 + IF timer.held THEN 1 ELSE 0]

LEMMA RingingStays ==
    ASSUME NEW timer \in Timer, NEW timer1, Rings(timer, timer1)
    PROVE  timer1 \in Timer
<1>1. timer.held \in BOOLEAN /\ timer.lost \in Nat
  BY DEF Timer
<1>2. timer.lost > 0 => timer.lost - 1 + (IF timer.held THEN 1 ELSE 0) \in Nat
  <2>1. CASE timer.held  BY <1>1, <2>1
  <2>2. CASE ~timer.held  BY <1>1, <2>2
  <2>. QED  BY <2>1, <2>2
<1>3. [timer EXCEPT !.held = FALSE] \in Timer
  BY DEF Timer
<1>4. \A n \in Nat : [held |-> FALSE, lost |-> n] \in Timer
  BY DEF Timer
<1>. QED  BY <1>2, <1>3, <1>4 DEF Rings

(* A label that leaves is counted, and none is forgotten. *)
LEMMA LeavesCounts ==
    ASSUME NEW t, NEW o, NEW l, leaving \in Nat, Panel!Leaves(t, o, l)
    PROVE  leaving' \in Nat /\ leaving' >= leaving
BY DEF Panel!Leaves

LEMMA PanelInvStep ==
    ASSUME PanelInv, Panel!Next
    PROVE  PanelInv'
<1>. USE DEF PanelInv, Panel!PendingTabIsServed
<1>1. ASSUME NEW t \in Tabs, Panel!SetActiveTab(t)
      PROVE  PanelInv'
  <2>1. CASE ~open /\ next' = None
    BY <1>1, <2>1, LeavesCounts, TimersStay
       DEF Panel!SetActiveTab, Panel!SwitchWithoutLabelClose, Panel!timers, Panel!statVars
  <2>2. CASE open /\ next # None
    BY <1>1, <2>2, TimersStay
       DEF Panel!SetActiveTab, Panel!SwitchWithoutLabelClose, Panel!timers, Panel!statVars
  <2>3. CASE open /\ next = None /\ ~labels
    BY <1>1, <2>3, LeavesCounts, TimersStay
       DEF Panel!SetActiveTab, Panel!SwitchWithoutLabelClose, Panel!timers, Panel!statVars
  <2>4. CASE open /\ next = None /\ labels
    <3>1. /\ labels' = FALSE /\ Panel!Leaves(tab, open, FALSE)
          /\ UNCHANGED <<open, close, switch>>
      BY <1>1, <2>4 DEF Panel!SetActiveTab, Panel!SwitchWithoutLabelClose, Panel!timers
    <3>2. leaving' = leaving + 1
      BY <3>1, <2>4 DEF Panel!Leaves
    <3>3. labels' \in BOOLEAN /\ open' \in BOOLEAN
      BY <3>1
    <3>4. leaving' \in Nat /\ leaving' > 0
      BY <3>2
    <3>. QED  BY <3>1, <3>3, <3>4
  <2>. QED  BY <1>1, <2>1, <2>2, <2>3, <2>4 DEF Panel!SetActiveTab
<1>2. ASSUME Panel!Expand
      PROVE  PanelInv'
  BY <1>2, LeavesCounts, TimersStay DEF Panel!Expand
<1>3. CASE Panel!Toggle
  <2>1. CASE Panel!Collapse
    <3>1. next' = None /\ leaving' \in Nat /\ labels' \in BOOLEAN /\ UNCHANGED open
      BY <2>1, LeavesCounts DEF Panel!Collapse
    <3>2. switch' \in Timer /\ close' \in Timer
      BY <2>1, TimersStay DEF Panel!Collapse
    <3>. QED  BY <3>1, <3>2
  <2>. QED  BY <1>2, <1>3, <2>1 DEF Panel!Toggle, Panel!tabVars, Panel!timers
<1>4. CASE Panel!ExpandFromSimulationPanel
  BY <1>2, <1>4 DEF Panel!ExpandFromSimulationPanel
<1>5. CASE Panel!LabelLeft
  <2>1. leaving' \in Nat /\ UNCHANGED <<open, labels, next>>
    BY <1>5 DEF Panel!LabelLeft
  <2>2. switch' \in Timer /\ close' \in Timer /\ (next # None => switch' # Panel!Stopped)
    BY <1>5, TimersStay DEF Panel!LabelLeft
  <2>. QED  BY <2>1, <2>2
<1>6. CASE Panel!SwitchTimer
  <2>1. switch' \in Timer /\ UNCHANGED <<open, close>>
    BY <1>6, RingingStays DEF Panel!SwitchTimer, Rings
  <2>2. next' = None /\ leaving' \in Nat /\ labels' \in BOOLEAN
    BY <1>6, LeavesCounts DEF Panel!SwitchTimer
  <2>. QED  BY <2>1, <2>2
<1>7. CASE Panel!CloseTimer
  <2>1. close' \in Timer /\ UNCHANGED <<labels, next, switch>> /\ open' = FALSE
    BY <1>7, RingingStays DEF Panel!CloseTimer, Rings
  <2>2. leaving' \in Nat /\ leaving' >= leaving
    BY <1>7, LeavesCounts DEF Panel!CloseTimer
  <2>3. open' \in BOOLEAN /\ labels' \in BOOLEAN
    BY <2>1
  <2>4. switch' \in Timer /\ (leaving > 0 => leaving' > 0)
    BY <2>1, <2>2
  <2>. QED  BY <2>1, <2>2, <2>3, <2>4
<1>8. CASE Panel!RevealTimer
  BY <1>8 DEF Panel!RevealTimer
<1>9. CASE Panel!RouteIntroComplete
  BY <1>9 DEF Panel!RouteIntroComplete, Panel!timers
<1>10. ASSUME NEW sandbox \in BOOLEAN, Panel!DemoBegins(sandbox)
       PROVE  PanelInv'
  <2>1. leaving' \in Nat /\ leaving' >= leaving
    BY <1>10, LeavesCounts DEF Panel!DemoBegins
  <2>. QED  BY <1>10, <2>1 DEF Panel!DemoBegins, Panel!timers
<1>11. CASE UNCHANGED <<Panel!tabVars, Panel!timers>>
  BY <1>11 DEF Panel!tabVars, Panel!timers
<1>12. Panel!HandleRaceStarted \/ Panel!SimFinished \/ Panel!ProgressFull
         \/ (\E g \in Guids : Panel!RunnerAtEnd(g))
       => UNCHANGED <<Panel!tabVars, Panel!timers>>
  BY DEF Panel!HandleRaceStarted, Panel!SimFinished, Panel!ProgressFull, Panel!RunnerAtEnd
<1>. QED
  BY <1>1, <1>3, <1>4, <1>5, <1>6, <1>7, <1>8, <1>9, <1>10, <1>11, <1>12 DEF Panel!Next

(* AgentPanel: a tab that waits to be opened is waited for by a label that leaves or by a
   running timer, however clicks, animations, timers and demos interleave. *)
THEOREM PendingTabServed == Spec => []PendingTabIsServed
<1>1. Init => PanelInv
  BY DEF Init, Panel!Init, PanelInv, Panel!PendingTabIsServed, Panel!Stopped, Timer
<1>2. PanelInv /\ [Next]_vars => PanelInv'
  <2>1. ASSUME PanelInv, UNCHANGED panelVars PROVE PanelInv'
    BY <2>1 DEF PanelInv, Panel!PendingTabIsServed, panelVars
  <2>2. [Next]_vars => Panel!Next \/ UNCHANGED panelVars
    BY DEF Next, vars
  <2>. QED  BY <2>1, <2>2, PanelInvStep
<1>3. PanelInv => PendingTabIsServed
  BY DEF PanelInv, PendingTabIsServed
<1>. QED  BY <1>1, <1>2, <1>3, PTL DEF Spec

(***************************************************************************)
(* The menu of filters.                                                    *)
(***************************************************************************)
Option == [active : BOOLEAN, option : 0 .. 3]

(* The menu is true, and the three copies are options of the same filters. *)
MenuInv ==
    /\ filters \in [Menu!Items -> Option]
    /\ view \in [Menu!Items -> Option \cup {None}]
    /\ stored \in [Menu!Items -> Option] \cup {None}
    /\ Menu!MenuIsTrue

LEMMA PanningIsAnOption ==
    \A on \in BOOLEAN : Menu!Panning(on) \in Option
BY DEF Menu!Panning, Option

LEMMA FreshIsTyped == Menu!Fresh(FALSE) \in [Menu!Items -> Option]
<1>1. \A on \in BOOLEAN : [active |-> on, option |-> 0] \in Option
  BY DEF Option
<1>2. ASSUME NEW id \in Menu!Items
      PROVE  (CASE id = "panning" -> Menu!Panning(FALSE)
                [] id = "camera" -> [active |-> TRUE, option |-> 0]
                [] OTHER -> [active |-> FALSE, option |-> 0]) \in Option
  <2>1. CASE id = "panning"  BY PanningIsAnOption, <2>1
  <2>2. CASE id = "camera"  BY <1>1, <2>2
  <2>3. CASE id # "panning" /\ id # "camera"  BY <1>1, <2>3
  <2>. QED  BY <2>1, <2>2, <2>3
<1>. QED  BY <1>2 DEF Menu!Fresh

LEMMA MenuInvInit == Init => MenuInv
BY FreshIsTyped DEF Init, Menu!Init, MenuInv, Menu!MenuIsTrue, Menu!Untold

LEMMA MenuInvStep ==
    ASSUME MenuInv, Menu!Next
    PROVE  MenuInv'
<1>. USE DEF MenuInv, Menu!MenuIsTrue
<1>0. {"panning", "camera"} \subseteq Menu!Items /\ Toggles \subseteq Menu!Items
  BY DEF Menu!Items
<1>1. CASE Menu!Mount
  <2>1. filters' \in [Menu!Items -> Option]
    BY <1>1, <1>0 DEF Menu!Mount
  <2>2. stored # None => \A id \in Toggles : filters'[id] = stored[id]
    BY <1>1, <1>0 DEF Menu!Mount
  <2>. QED  BY <1>1, <2>1, <2>2 DEF Menu!Mount
<1>2. CASE Menu!Reload
  <2>1. Menu!Fresh(FALSE) \in [Menu!Items -> Option]
    BY FreshIsTyped
  <2>. QED  BY <1>2, <2>1 DEF Menu!Reload, Menu!Untold
<1>3. CASE Menu!ClickPanning
  BY <1>3 DEF Menu!ClickPanning
<1>4. CASE Menu!TurnPanning
  <2>1. filters'["panning"] \in Option /\ filters' \in [Menu!Items -> Option]
    BY <1>4, <1>0, PanningIsAnOption DEF Menu!TurnPanning
  <2>2. \A id \in Menu!Items : view'[id] = IF id = "panning" THEN filters'[id] ELSE view[id]
    BY <1>4, <1>0 DEF Menu!TurnPanning
  <2>3. \A id \in Menu!Items \ {"panning"} : filters'[id] = filters[id]
    BY <1>4, <1>0 DEF Menu!TurnPanning
  <2>. QED  BY <1>4, <2>1, <2>2, <2>3, <1>0 DEF Menu!TurnPanning
<1>5. ASSUME NEW on \in BOOLEAN, Menu!DemoChanges(on)
      PROVE  MenuInv'
  <2>1. Menu!Panning(on) \in Option
    BY PanningIsAnOption
  <2>2. /\ filters' \in [Menu!Items -> Option] /\ filters'["panning"] = Menu!Panning(on)
        /\ \A id \in Menu!Items \ {"panning"} : filters'[id] = filters[id]
    BY <1>5, <1>0, <2>1 DEF Menu!DemoChanges
  <2>3. view' \in [Menu!Items -> Option \cup {None}]
    BY <1>5, <1>0, <2>1 DEF Menu!DemoChanges
  <2>4. ASSUME mounted, NEW id \in Menu!Items \ {"camera"}
        PROVE  view'[id] = filters'[id]
    BY <1>5, <1>0, <2>2, <2>4 DEF Menu!DemoChanges
  <2>5. mounted' = mounted /\ stored' = stored
    BY <1>5 DEF Menu!DemoChanges
  <2>6. \A id \in Toggles : filters'[id] = filters[id]
    BY <1>0, <2>2, MenuAssumption
  <2>. QED  BY <1>0, <2>2, <2>3, <2>4, <2>5, <2>6
<1>6. ASSUME NEW id \in Toggles, Menu!Toggle(id)
      PROVE  MenuInv'
  <2>1. /\ filters' \in [Menu!Items -> Option]
        /\ \A other \in Menu!Items \ {id} : filters'[other] = filters[other]
    BY <1>6, <1>0 DEF Menu!Toggle, Option
  <2>2. /\ view' \in [Menu!Items -> Option \cup {None}]
        /\ \A other \in Menu!Items : view'[other] = IF other = id THEN filters'[id] ELSE view[other]
    BY <1>6, <1>0, <2>1 DEF Menu!Toggle
  <2>. QED  BY <1>6, <2>1, <2>2 DEF Menu!Toggle
<1>7. ASSUME NEW i \in 0 .. 2, Menu!SelectCamera(i)
      PROVE  MenuInv'
  <2>1. /\ filters' \in [Menu!Items -> Option]
        /\ \A other \in Menu!Items \ {"camera"} : filters'[other] = filters[other]
    BY <1>7, <1>0 DEF Menu!SelectCamera, Option
  <2>2. /\ view' \in [Menu!Items -> Option \cup {None}]
        /\ \A other \in Menu!Items \ {"camera"} : view'[other] = view[other]
    BY <1>7, <1>0, <2>1 DEF Menu!SelectCamera
  <2>. QED  BY <1>7, <2>1, <2>2 DEF Menu!SelectCamera
<1>8. ASSUME NEW i \in 0 .. 3, Menu!KeySelectsCamera(i)
      PROVE  MenuInv'
  <2>1. /\ view' \in [Menu!Items -> Option \cup {None}]
        /\ \A other \in Menu!Items \ {"camera"} : view'[other] = view[other]
    BY <1>8, <1>0 DEF Menu!KeySelectsCamera, Option
  <2>. QED  BY <1>8, <1>0, <2>1 DEF Menu!KeySelectsCamera
<1>. QED  BY <1>1, <1>2, <1>3, <1>4, <1>5, <1>6, <1>7, <1>8 DEF Menu!Next

(* FilterMenu: the view does what the menu shows and what was stored last is
   what the toggles show, however clicks, frames, changes of demo and reloads of
   the page interleave. *)
THEOREM MenuTrue == Spec => []MenuIsTrue
<1>1. MenuInv /\ [Next]_vars => MenuInv'
  <2>1. ASSUME MenuInv, UNCHANGED menuVars PROVE MenuInv'
    BY <2>1 DEF MenuInv, Menu!MenuIsTrue, menuVars
  <2>2. [Next]_vars => Menu!Next \/ UNCHANGED menuVars
    BY DEF Next, vars
  <2>. QED  BY <2>1, <2>2, MenuInvStep
<1>2. MenuInv => MenuIsTrue
  BY DEF MenuInv, MenuIsTrue
<1>. QED  BY <1>1, <1>2, MenuInvInit, PTL DEF Spec

(***************************************************************************)
(* The session.                                                            *)
(***************************************************************************)
Demos == {d3, d5, d7}
AgentOf == d3 :> Memory @@ d5 :> Failure @@ d7 :> Memory
Waits(n) == [id : 1 .. n, demo : Demos]

(* Of the sessions a, one for each agent type, l are live and n were asked
   for: each was given, for one type, and is not one that ws wait for. *)
Given(a, l, n, ws) ==
    /\ a \in [Session!Types -> 1 .. n \cup {None}]
    /\ \A u \in Session!Types : a[u] # None => a[u] \in l /\ \A w \in ws : w.id # a[u]
    /\ \A u, v \in Session!Types : a[u] = a[v] /\ a[u] # None => u = v

Followed == current = AgentOf[demo] /\ (agents[current] # None => agents[current] \in live)

(* The screen follows the demo, or a lifecycle of the demo waits; and every
   spawn request has an id of its own. *)
SessionInv ==
    /\ demo \in Demos /\ cached \in BOOLEAN /\ spawned \in Nat
    /\ waits \subseteq Waits(spawned)
    /\ \A w, v \in waits : w.id = v.id => w = v
    /\ Given(agents, live, spawned, waits)
    /\ Session!SecuringIsLive
    /\ Followed \/ \E w \in waits : w.demo = demo

LEMMA TypeOfDemo ==
    ASSUME NEW d \in Demos
    PROVE  AgentOf[d] \in Session!Types
BY DEF Demos, AgentOf, Session!Types

LEMMA NobodyIsGiven ==
    ASSUME NEW l, NEW n \in Nat, NEW ws
    PROVE  Given(Session!NoAgents, l, n, ws)
BY DEF Given, Session!NoAgents

Fields == {"agents", "live", "current", "working", "securing", "runs"}

\* The settled screen has no agent but the demo's, which was not removed.
LEMMA SettledIs ==
    ASSUME NEW s, DOMAIN s = Fields, NEW n \in Nat, NEW ws, NEW d \in Demos,
           NEW isCached \in BOOLEAN, Given(s.agents, s.live, n, ws),
           Session!Becomes(Session!Settle(s, d, isCached))
    PROVE  /\ Given(agents', live', n, ws)
           /\ current' = AgentOf[d]
           /\ agents'[current'] # None => agents'[current'] \in live'
           /\ securing' = (s.securing \/ (d \in {d7} /\ ~isCached))
<1> DEFINE t == AgentOf[d]
           a == s.agents
           others == {a[u] : u \in Session!Types \ {t}}
<1>1. /\ live' = s.live \ others /\ agents' = [Session!NoAgents EXCEPT ![t] = a[t]]
      /\ current' = t /\ securing' = (s.securing \/ (d \in {d7} /\ ~isCached))
  BY DEF Session!Becomes, Session!Settle, Fields, AgentOf
<1>2. t \in Session!Types
  BY TypeOfDemo
<1> HIDE DEF t, a
<1>3. agents'[t] = a[t] /\ \A u \in Session!Types \ {t} : agents'[u] = None
  BY <1>1, <1>2 DEF Session!NoAgents
<1>4. agents' \in [Session!Types -> 1 .. n \cup {None}]
  BY <1>1, <1>2 DEF Given, Session!NoAgents, a
<1>5. a[t] # None => a[t] \in live'
  BY <1>1, <1>2 DEF Given, a
<1>6. Given(agents', live', n, ws)
  BY <1>1, <1>2, <1>3, <1>4, <1>5 DEF Given, a
<1>. QED  BY <1>1, <1>3, <1>5, <1>6 DEF t

\* What every change of demo, mode or agent begins with.
LEMMA LifecycleKeeps ==
    ASSUME SessionInv, NEW d \in Demos, NEW isCached \in BOOLEAN,
           Session!Lifecycle(d, isCached), demo' = d, cached' = isCached,
           spawned' \in Nat, spawned' >= spawned, ~isCached => spawned' > spawned
    PROVE  SessionInv'
<1> DEFINE kept == live \ {agents[u] : u \in Session!Types}
<1>1. /\ waits \subseteq Waits(spawned') /\ SessionInv
      /\ \A w \in waits : w.id \in 1 .. spawned
  BY DEF SessionInv, Waits
<1>2. CASE isCached
  <2> DEFINE gone == [Session!Now EXCEPT !.agents = Session!NoAgents, !.securing = FALSE,
                                         !.live = @ \ {agents[u] : u \in Session!Types}]
  <2>1. Session!Becomes(Session!Settle(gone, d, TRUE)) /\ UNCHANGED waits
    BY <1>2 DEF Session!Lifecycle
  <2>2. /\ gone.agents = Session!NoAgents /\ gone.live = kept /\ gone.securing = FALSE
        /\ DOMAIN gone = Fields
    BY DEF Session!Now, Fields
  <2> HIDE DEF gone
  <2>3. Given(gone.agents, gone.live, spawned', waits)
    BY <2>2, NobodyIsGiven
  <2>4. /\ Given(agents', live', spawned', waits) /\ Followed' /\ securing' = FALSE
    BY <2>1, <2>2, <2>3, SettledIs DEF Followed
  <2>. QED  BY <1>1, <1>2, <2>1, <2>4 DEF SessionInv, Session!SecuringIsLive
<1>3. CASE ~isCached
  <2> DEFINE w == [id |-> spawned + 1, demo |-> d]
  <2>1. agents' = Session!NoAgents /\ securing' = FALSE /\ waits' = waits \cup {w}
    BY <1>3 DEF Session!Lifecycle, Session!Now, Session!Becomes
  <2>2. w \in Waits(spawned') /\ w.demo = d /\ \A v \in waits : v.id # w.id
    BY <1>1, <1>3 DEF Waits, SessionInv
  <2> HIDE DEF w
  <2>3. Given(agents', live', spawned', waits')
    BY <2>1, NobodyIsGiven
  <2>. QED  BY <1>1, <1>3, <2>1, <2>2, <2>3 DEF SessionInv, Session!SecuringIsLive
<1>. QED  BY <1>2, <1>3

LEMMA SessionStep ==
    ASSUME SessionInv, Session!Next
    PROVE  SessionInv'
<1>1. ASSUME NEW d \in Demos, Session!SelectDemo(d)
      PROVE  SessionInv'
  <2> PICK isCached \in BOOLEAN :
          /\ demo' = d /\ cached' = isCached /\ Session!Lifecycle(d, isCached)
          /\ Session!Organize(isCached, IF isCached THEN 0 ELSE 1)
    <3> DEFINE c == cached /\ (d3 :> 2 @@ d5 :> 1 @@ d7 :> 1)[d] > 0
    <3>1. c \in BOOLEAN
      BY DEF SessionInv
    <3>2. /\ demo' = d /\ cached' = c /\ Session!Lifecycle(d, c)
          /\ Session!Organize(c, IF c THEN 0 ELSE 1)
      BY <1>1 DEF Session!SelectDemo
    <3> HIDE DEF c
    <3>. QED  BY <3>1, <3>2
  <2>1. spawned' \in Nat /\ spawned' >= spawned /\ (~isCached => spawned' > spawned)
    BY DEF Session!Organize, SessionInv
  <2>. QED  BY <2>1, LifecycleKeeps
<1>2. CASE Session!ResetDemo
  <2>1. /\ demo' = demo /\ cached' = cached /\ Session!Lifecycle(demo, cached)
        /\ spawned' = spawned + IF cached THEN 0 ELSE 1
    BY <1>2 DEF Session!ResetDemo
  <2>2. spawned' \in Nat /\ spawned' >= spawned /\ (~cached => spawned' > spawned)
    BY <2>1 DEF SessionInv
  <2>. QED  BY <2>1, <2>2, LifecycleKeeps DEF SessionInv
<1>3. CASE Session!ToggleCached
  <2> DEFINE c == ~cached
  <2>1. /\ demo' = demo /\ cached' = c /\ Session!Lifecycle(demo, c)
        /\ Session!Organize(c, IF cached THEN 1 ELSE 0)
    BY <1>3 DEF Session!ToggleCached
  <2>2. c \in BOOLEAN /\ (~c <=> cached)
    BY DEF SessionInv
  <2>3. spawned' \in Nat /\ spawned' >= spawned /\ (~c => spawned' > spawned)
    BY <2>1, <2>2 DEF SessionInv, Session!Organize
  <2> HIDE DEF c
  <2>. QED  BY <2>1, <2>2, <2>3, LifecycleKeeps DEF SessionInv
<1>4. ASSUME NEW w \in waits, NEW ok \in BOOLEAN, Session!AgentArrives(w, ok)
      PROVE  SessionInv'
  <2> DEFINE t == AgentOf[w.demo]
             s == IF ok THEN [Session!Now EXCEPT !.agents[t] = w.id, !.live = @ \cup {w.id}]
                  ELSE Session!Now
             a == s.agents
             l == s.live
  <2>1. /\ waits' = waits \ {w} /\ UNCHANGED <<demo, cached, switched, spawned>>
        /\ w.demo = demo => Session!Becomes(Session!Settle(s, w.demo, cached))
        /\ w.demo # demo => Session!Becomes(s)
    BY <1>4 DEF Session!AgentArrives, AgentOf
  <2>9. /\ DOMAIN s = Fields /\ s.current = current /\ s.securing = securing
        /\ ok => a = [agents EXCEPT ![t] = w.id] /\ l = live \cup {w.id}
        /\ ~ok => a = agents /\ l = live
    BY DEF Session!Now, Fields
  <2> HIDE DEF s
  <2>2. w \in Waits(spawned) /\ w.demo \in Demos /\ w.id \in 1 .. spawned
    BY DEF SessionInv, Waits
  <2>3. t \in Session!Types
    BY <2>2, TypeOfDemo
  <2>4. \A v \in waits' : v.id # w.id
    BY <2>1 DEF SessionInv
  <2>5. Given(a, l, spawned, waits')
    <3>1. CASE ok
      <4> HIDE DEF t
      <4>1. a \in [Session!Types -> 1 .. spawned \cup {None}]
        BY <2>2, <2>9, <3>1 DEF SessionInv, Given
      <4>2. \A u \in Session!Types : a[u] = IF u = t THEN w.id ELSE agents[u]
        BY <2>9, <3>1 DEF SessionInv, Given
      <4>3. \A u \in Session!Types : agents[u] # None => agents[u] # w.id
        BY DEF SessionInv, Given
      <4> HIDE DEF a
      <4>. QED  BY <2>1, <2>3, <2>4, <2>9, <3>1, <4>1, <4>2, <4>3 DEF SessionInv, Given
    <3>2. CASE ~ok
      BY <2>1, <2>9, <3>2 DEF SessionInv, Given
    <3>. QED  BY <3>1, <3>2
  <2> HIDE DEF t
  <2>7. CASE w.demo = demo
    <3>1. /\ Given(agents', live', spawned, waits') /\ Followed'
          /\ securing' = (securing \/ (demo \in {d7} /\ ~cached))
      BY <2>1, <2>2, <2>5, <2>7, <2>9, SettledIs DEF Followed, SessionInv
    <3>. QED  BY <2>1, <3>1 DEF SessionInv, Session!SecuringIsLive
  <2>8. CASE w.demo # demo
    <3>1. agents' = a /\ live' = l /\ current' = current /\ securing' = securing
      BY <2>1, <2>8, <2>9 DEF Session!Becomes
    <3>2. Followed => Followed'
      <4>1. AgentOf[demo] \in Session!Types
        BY TypeOfDemo DEF SessionInv
      <4>. QED  BY <2>1, <2>5, <3>1, <4>1 DEF Followed, Given
    <3>. QED  BY <2>1, <2>5, <2>8, <3>1, <3>2 DEF SessionInv, Session!SecuringIsLive
  <2>. QED  BY <2>7, <2>8
<1>5. ASSUME UNCHANGED <<demo, cached, switched, agents, waits, spawned, current>>,
             live \subseteq live', securing' => securing
      PROVE  SessionInv'
  BY <1>5 DEF SessionInv, Given, Followed, Session!SecuringIsLive
<1>6. ASSUME NEW i \in Session!Ids,
             Session!OrganizerArrives(i) \/ Session!OrganizerFails(i) \/ Session!RunEnds(i)
      PROVE  SessionInv'
  BY <1>5, <1>6 DEF Session!OrganizerArrives, Session!OrganizerFails, Session!RunEnds
<1>7. CASE Session!SendCached \/ Session!SendLive \/ Session!ToolFails \/ Session!ReplayCompletes
           \/ \E ok \in BOOLEAN : Session!Fetched(ok)
  BY <1>5, <1>7 DEF Session!SendCached, Session!SendLive, Session!ToolFails,
                    Session!ReplayCompletes, Session!Fetched
<1>8. ASSUME NEW value \in BOOLEAN, Session!MenuSetsCached(value)
      PROVE  SessionInv'
  <2>1. /\ cached' = value /\ switched' = TRUE /\ Session!Organize(value, 0)
        /\ UNCHANGED <<demo, agents, waits, live, current, securing>>
    BY <1>8 DEF Session!MenuSetsCached
  <2>2. spawned' \in Nat /\ spawned' >= spawned
    BY <2>1 DEF SessionInv, Session!Organize
  <2>3. waits' \subseteq Waits(spawned') /\ Given(agents', live', spawned', waits')
    BY <2>1, <2>2 DEF SessionInv, Waits, Given
  <2>. QED  BY <2>1, <2>2, <2>3 DEF SessionInv, Followed, Session!SecuringIsLive
<1>. QED  BY <1>1, <1>2, <1>3, <1>4, <1>6, <1>7, <1>8 DEF Session!Next, Demos

LEMMA SessionTrue == Spec => [](Session!ScreenFollowsDemo /\ Session!SecuringIsLive)
<1>1. Init => SessionInv
  <2> SUFFICES ASSUME Init PROVE SessionInv
    OBVIOUS
  <2>1. /\ demo \in Demos /\ cached = TRUE /\ agents = Session!NoAgents /\ waits = {}
        /\ spawned = 0 /\ securing = FALSE /\ current = AgentOf[demo]
    BY DEF Init, Session!Init, Demos, AgentOf
  <2>2. Given(agents, live, spawned, waits)
    BY <2>1, NobodyIsGiven
  <2>3. agents[current] = None
    BY <2>1, TypeOfDemo DEF Session!NoAgents
  <2>. QED  BY <2>1, <2>2, <2>3 DEF SessionInv, Followed, Session!SecuringIsLive
<1>2. SessionInv /\ [Next]_vars => SessionInv'
  <2>1. ASSUME SessionInv, UNCHANGED sessionVars PROVE SessionInv'
    BY <2>1 DEF SessionInv, Given, Followed, Session!SecuringIsLive, sessionVars
  <2>2. [Next]_vars => Session!Next \/ UNCHANGED sessionVars
    BY DEF Next, vars
  <2>. QED  BY <2>1, <2>2, SessionStep
<1>3. SessionInv => Session!ScreenFollowsDemo /\ Session!SecuringIsLive
  BY DEF SessionInv, Followed, Session!ScreenFollowsDemo, AgentOf
<1>. QED  BY <1>1, <1>2, <1>3, PTL DEF Spec

(***************************************************************************)
(* What follows the demo beside its agent.                                 *)
(***************************************************************************)
Config == Modes!DEMO_CONFIG

(* The settings are those of the active demo, whether or not a lifecycle
   waits: the body of SettingsFollowDemo. *)
SettingsAreTheDemos ==
    /\ modeDemo \in {"7a", "7b"} => secure = (modeDemo = "7b")
    /\ modeDemo = "5b" => cloud
    /\ route \in {None, Config[modeDemo].route}
    /\ modeDemo # "Sandbox" => route = Config[modeDemo].route
    /\ input \in {"", Config[modeDemo].prompt}

(* They are, or a lifecycle of the active demo waits that will make them so;
   lifecycles of other demos may wait beside it. *)
SettingsInv == SettingsAreTheDemos \/ \E w \in modeWaits : w.demo = modeDemo

(* A label is shown exactly while its timer is pending, and every timer that is
   pending has its handle. *)
LabelInv == labelTimer = (label # "")

TimersInv ==
    /\ labelTimer \in BOOLEAN /\ labelTimers = (IF labelTimer THEN 1 ELSE 0) /\ LabelInv
    /\ busy \in BOOLEAN /\ dotsTimer = busy /\ dots = (IF busy THEN 1 ELSE 0)

LEMMA LabelStays ==
    ASSUME LabelInv, UNCHANGED <<label, labelTimer>>
    PROVE  LabelInv'
BY DEF LabelInv

LEMMA OwnedIs ==
    ASSUME TimersInv
    PROVE  Modes!TimersAreOwned
<1>1. labelTimers = IF labelTimer THEN 1 ELSE 0
  BY DEF TimersInv
<1>2. labelTimer = (label # "")
  BY DEF TimersInv, LabelInv
<1>3. labelTimers = IF label = "" THEN 0 ELSE 1
  BY <1>1, <1>2
<1>. QED  BY <1>3 DEF TimersInv, Modes!TimersAreOwned

LEMMA WorkingOwnsDots ==
    ASSUME TimersInv, NEW val \in BOOLEAN, Modes!Working(val)
    PROVE  busy' = val /\ dotsTimer' = val /\ dots' = IF val THEN 1 ELSE 0
<1>1. busy \in BOOLEAN /\ dotsTimer = busy /\ dots = IF busy THEN 1 ELSE 0
  BY DEF TimersInv
<1>2. busy' = val /\ dotsTimer' = val
  BY DEF Modes!Working
<1>3. CASE val /\ busy
  BY <1>1, <1>3 DEF Modes!Working
<1>4. CASE val /\ ~busy
  BY <1>1, <1>4 DEF Modes!Working
<1>5. CASE ~val /\ busy
  BY <1>1, <1>5 DEF Modes!Working
<1>6. CASE ~val /\ ~busy
  BY <1>1, <1>6 DEF Modes!Working
<1>. QED  BY <1>2, <1>3, <1>4, <1>5, <1>6

LEMMA ModesSettle ==
    ASSUME TimersInv, NEW isSecure, NEW isCloud,
           Modes!Settle(modeDemo', isSecure, isCloud)
    PROVE  /\ modeDemo' \in {"7a", "7b"} => secure' = (modeDemo' = "7b")
           /\ SettingsAreTheDemos'
           /\ busy' = FALSE /\ dotsTimer' = FALSE /\ dots' = 0
<1>1. Modes!Working(FALSE)
  BY DEF Modes!Settle
<1>2. busy' = FALSE /\ dotsTimer' = FALSE /\ dots' = 0
  BY <1>1, WorkingOwnsDots
<1>3. SettingsAreTheDemos'
  BY DEF Modes!Settle, SettingsAreTheDemos, Config
<1>. QED  BY <1>2, <1>3 DEF SettingsAreTheDemos

\* Every lifecycle settles at once or leaves a wait of its demo behind.
LEMMA ModesLifecycle ==
    ASSUME TimersInv, NEW isCached, NEW isSecure, NEW isCloud,
           Modes!Lifecycle(modeDemo', isCached, isSecure, isCloud)
    PROVE  /\ SettingsInv'
           /\ busy' \in BOOLEAN /\ dotsTimer' = busy' /\ dots' = IF busy' THEN 1 ELSE 0
<1>1. CASE isCached
  BY <1>1, ModesSettle DEF Modes!Lifecycle, SettingsInv
<1>2. CASE ~isCached
  <2>1. modeWaits' = modeWaits \cup {[id |-> starts, demo |-> modeDemo']}
    BY <1>2 DEF Modes!Lifecycle
  <2>2. [id |-> starts, demo |-> modeDemo'] \in modeWaits'
    BY <2>1
  <2>3. UNCHANGED <<busy, dots, dotsTimer>>
    BY <1>2 DEF Modes!Lifecycle
  <2>. QED  BY <2>2, <2>3 DEF SettingsInv, TimersInv
<1>. QED  BY <1>1, <1>2

LEMMA ModesSelect ==
    ASSUME TimersInv, NEW id, Modes!Select(id), UNCHANGED <<label, labelTimers, labelTimer>>
    PROVE  SettingsInv' /\ TimersInv'
<1> DEFINE c == modeCached /\ Modes!DEMO_CONFIG[id].recordings > 0
<1>1. modeDemo' = id /\ Modes!Lifecycle(modeDemo', c, secure, cloud)
  BY DEF Modes!Select
<1> HIDE DEF c
<1>2. /\ SettingsInv'
      /\ busy' \in BOOLEAN /\ dotsTimer' = busy' /\ dots' = IF busy' THEN 1 ELSE 0
  BY <1>1, ModesLifecycle
<1>. QED  BY <1>2, LabelStays DEF TimersInv

LEMMA ModesToggle ==
    ASSUME TimersInv, Modes!ToggleCached
    PROVE  SettingsInv' /\ TimersInv'
<1>1. CASE Modes!Select(modeDemo) /\ UNCHANGED <<label, labelTimers, labelTimer>>
  BY <1>1, ModesSelect
<1>2. CASE /\ modeDemo' = modeDemo /\ Modes!Lifecycle(modeDemo, ~modeCached, secure, cloud)
           /\ label' = IF ~modeCached THEN "Cached" ELSE "Live"
           /\ labelTimers' = labelTimers + IF labelTimer THEN 0 ELSE 1
           /\ labelTimer' = TRUE
  <2>1. /\ SettingsInv'
        /\ busy' \in BOOLEAN /\ dotsTimer' = busy' /\ dots' = IF busy' THEN 1 ELSE 0
    BY <1>2, ModesLifecycle
  <2>2. labelTimers' = 1
    BY <1>2 DEF TimersInv
  <2>3. LabelInv'
    BY <1>2 DEF LabelInv
  <2>. QED  BY <1>2, <2>1, <2>2, <2>3 DEF TimersInv
<1>. QED  BY <1>1, <1>2 DEF Modes!ToggleCached

LEMMA ModesStep ==
    ASSUME SettingsInv, TimersInv, Modes!Next
    PROVE  SettingsInv' /\ TimersInv'
<1>0. ASSUME UNCHANGED <<modeDemo, modeWaits, secure, cloud, route, input,
                         busy, dots, dotsTimer, label, labelTimers, labelTimer>>
      PROVE  SettingsInv' /\ TimersInv'
  BY <1>0, LabelStays DEF SettingsInv, SettingsAreTheDemos, TimersInv
<1>1. ASSUME NEW key \in Keys, NEW shift \in BOOLEAN, Modes!Press(key, shift)
      PROVE  SettingsInv' /\ TimersInv'
  <2>1. CASE Modes!ToggleCached
    BY <2>1, ModesToggle
  <2>2. CASE \E id : Modes!Select(id) /\ UNCHANGED <<label, labelTimers, labelTimer>>
    BY <2>2, ModesSelect
  <2>3. CASE UNCHANGED Modes!modesVars
    BY <1>0, <2>3 DEF Modes!modesVars
  <2>. QED  BY <1>1, <2>1, <2>2, <2>3 DEF Modes!Press
<1>2. ASSUME NEW id, Modes!ConsoleSelects(id)
      PROVE  SettingsInv' /\ TimersInv'
  BY <1>2, ModesSelect DEF Modes!ConsoleSelects
<1>3. CASE Modes!ConsoleToggles
  BY <1>3, ModesToggle DEF Modes!ConsoleToggles
<1>4. CASE Modes!AutoStarts
  BY <1>4, ModesSelect DEF Modes!AutoStarts
<1>5. ASSUME NEW value \in BOOLEAN, Modes!SetSecure(value)
      PROVE  SettingsInv' /\ TimersInv'
  <2>1. /\ Modes!Lifecycle(modeDemo', modeCached, value, cloud)
        /\ UNCHANGED <<label, labelTimers, labelTimer>>
    BY <1>5 DEF Modes!SetSecure
  <2>. QED  BY <2>1, ModesLifecycle, LabelStays DEF TimersInv
<1>6. ASSUME NEW value \in BOOLEAN, Modes!SetCloudAssist(value)
      PROVE  SettingsInv' /\ TimersInv'
  <2>1. /\ Modes!Lifecycle(modeDemo', modeCached, secure, value)
        /\ UNCHANGED <<label, labelTimers, labelTimer>>
    BY <1>6 DEF Modes!SetCloudAssist
  <2>. QED  BY <2>1, ModesLifecycle, LabelStays DEF TimersInv
<1>7. ASSUME NEW q \in Scales, Modes!SetTimeScale(q)
      PROVE  SettingsInv' /\ TimersInv'
  BY <1>0, <1>7 DEF Modes!SetTimeScale
<1>8. ASSUME NEW w \in modeWaits, Modes!AgentArrives(w)
      PROVE  SettingsInv' /\ TimersInv'
  <2>1. CASE modeDemo = w.demo
    <3>1. /\ Modes!Settle(modeDemo', secure, cloud)
          /\ UNCHANGED <<label, labelTimers, labelTimer>>
      BY <1>8, <2>1 DEF Modes!AgentArrives
    <3>. QED  BY <3>1, ModesSettle, LabelStays DEF SettingsInv, TimersInv
  <2>2. CASE modeDemo # w.demo
    <3>1. /\ modeWaits' = modeWaits \ {w}
          /\ UNCHANGED <<modeDemo, secure, cloud, route, input, busy, dots, dotsTimer,
                         label, labelTimers, labelTimer>>
      BY <1>8, <2>2 DEF Modes!AgentArrives
    <3>2. \A v \in modeWaits : v.demo = modeDemo => v \in modeWaits'
      BY <2>2, <3>1
    <3>. QED
      BY <3>1, <3>2, LabelStays DEF SettingsInv, SettingsAreTheDemos, TimersInv
  <2>. QED  BY <2>1, <2>2
<1>9. CASE Modes!LabelExpires
  <2>1. /\ labelTimers > 0 /\ labelTimers' = labelTimers - 1 /\ labelTimer' = FALSE
        /\ UNCHANGED <<modeDemo, modeWaits, secure, cloud, route, input, busy, dots, dotsTimer>>
    BY <1>9 DEF Modes!LabelExpires
  <2>2. LabelInv'
    BY <1>9 DEF Modes!LabelExpires, LabelInv
  <2>3. SettingsInv'
    BY <2>1 DEF SettingsInv, SettingsAreTheDemos
  <2>4. labelTimers' = 0
    BY <2>1 DEF TimersInv
  <2>. QED  BY <2>1, <2>2, <2>3, <2>4 DEF TimersInv
<1>10. CASE Modes!Send
  <2>1. /\ Modes!Working(TRUE) /\ input' = ""
        /\ UNCHANGED <<modeDemo, modeWaits, secure, cloud, route, label, labelTimers,
                       labelTimer>>
    BY <1>10 DEF Modes!Send
  <2>. QED
    BY <2>1, WorkingOwnsDots, LabelStays DEF SettingsInv, SettingsAreTheDemos, TimersInv
<1>11. CASE Modes!Answered
  <2>1. /\ Modes!Working(FALSE)
        /\ UNCHANGED <<modeDemo, modeWaits, secure, cloud, route, input, label,
                       labelTimers, labelTimer>>
    BY <1>11 DEF Modes!Answered
  <2>. QED
    BY <2>1, WorkingOwnsDots, LabelStays DEF SettingsInv, SettingsAreTheDemos, TimersInv
<1>12. CASE Modes!IntroComplete
  BY <1>12, LabelStays
     DEF Modes!IntroComplete, SettingsInv, SettingsAreTheDemos, Config, TimersInv
<1>13. ASSUME NEW value \in BOOLEAN, Modes!MenuSetsCached(value)
       PROVE  SettingsInv' /\ TimersInv'
  BY <1>13, LabelStays
     DEF Modes!MenuSetsCached, SettingsInv, SettingsAreTheDemos, TimersInv
<1>. QED
  BY <1>1, <1>2, <1>3, <1>4, <1>5, <1>6, <1>7, <1>8, <1>9, <1>10, <1>11, <1>12, <1>13
     DEF Modes!Next

LEMMA ModesTrue == Spec => [](Modes!SettingsFollowDemo /\ Modes!TimersAreOwned)
<1>1. Init => SettingsInv /\ TimersInv
  BY DEF Init, Modes!Init, SettingsInv, SettingsAreTheDemos, TimersInv, LabelInv
<1>2. SettingsInv /\ TimersInv /\ [Next]_vars => SettingsInv' /\ TimersInv'
  <2>1. ASSUME SettingsInv, TimersInv, UNCHANGED modesVars
        PROVE  SettingsInv' /\ TimersInv'
    BY <2>1, LabelStays DEF SettingsInv, SettingsAreTheDemos, TimersInv, modesVars
  <2>2. [Next]_vars => Modes!Next \/ UNCHANGED modesVars
    BY DEF Next, vars
  <2>. QED  BY <2>1, <2>2, ModesStep
<1>3. SettingsInv /\ TimersInv => Modes!SettingsFollowDemo /\ Modes!TimersAreOwned
  BY OwnedIs DEF SettingsInv, SettingsAreTheDemos, Modes!SettingsFollowDemo, Config
<1>. QED  BY <1>1, <1>2, <1>3, PTL DEF Spec

(* AgentScreen and DemoModes: in whatever order demos and modes are chosen and
   spawns are answered, once no lifecycle waits the agent, the settings, the
   route and the prompt are the active demo's; the chat is hidden for a security
   demo that runs live only; and no timer of the texts loses its handle. *)
THEOREM ScreenFollows == Spec => []ScreenFollowsDemo
<1>1. /\ Session!ScreenFollowsDemo /\ Session!SecuringIsLive
      /\ Modes!SettingsFollowDemo /\ Modes!TimersAreOwned
      => ScreenFollowsDemo
  BY DEF ScreenFollowsDemo
<1>. QED  BY <1>1, SessionTrue, ModesTrue, PTL

(***************************************************************************)
(* The chat.                                                               *)
(***************************************************************************)
Item == [kind : {"tool_call", "message", "system", "a2ui"}, tool : Tools \cup {None},
         state : {"open", "shown", "done", "error", "warning"}]

Resolved(shown, t) == \E i \in DOMAIN shown : shown[i].tool = t /\ shown[i].state # "open"
Carded(shown, act, t) ==
    t \in DOMAIN act /\ Chat!IsCard(shown, act[t]) /\ shown[act[t]].tool = t

(* What a tool's calls so far say of its card: one that started has it open
   under its index or resolved, one that ended first is kept for its start. *)
ToolInv(t) ==
    /\ calls[t] = <<>> => t \notin DOMAIN active
    /\ calls[t] = <<"start">> => Carded(items, active, t) \/ Resolved(items, t)
    /\ calls[t] = <<"end">> => t \in pending
    /\ calls[t] \in {<<"start", "end">>, <<"end", "start">>} => Resolved(items, t)

ChatInv ==
    /\ items \in Seq(Item)
    /\ calls \in [Tools -> Seq({"start", "end", "hidden"})]
    /\ \A t \in Tools : ToolInv(t)

(* No item of a thread is lost or opened again. *)
Keeps(old, new) ==
    \A i \in DOMAIN old :
        /\ i \in DOMAIN new /\ new[i].kind = old[i].kind /\ new[i].tool = old[i].tool
        /\ old[i].state # "open" => new[i].state # "open"

LEMMA PlainIsItem ==
    ASSUME NEW kind \in {"message", "system", "a2ui"}
    PROVE  Chat!Plain(kind) \in Item
BY DEF Chat!Plain, Item

LEMMA CardIsItem ==
    ASSUME NEW t \in Tools
    PROVE  Chat!Card(t) \in Item /\ Chat!Card(t).kind = "tool_call" /\ Chat!Card(t).tool = t
BY DEF Chat!Card, Item

LEMMA AppendKeeps ==
    ASSUME NEW shown \in Seq(Item), NEW item \in Item
    PROVE  Append(shown, item) \in Seq(Item) /\ Keeps(shown, Append(shown, item))
BY DEF Keeps

LEMMA ShownKeeps ==
    ASSUME items \in Seq(Item), NEW item \in Item
    PROVE  Chat!Shown(item) \in Seq(Item) /\ Keeps(items, Chat!Shown(item))
<1>1. CASE chatSecuring  BY <1>1 DEF Chat!Shown, Keeps
<1>2. CASE ~chatSecuring  BY <1>2, AppendKeeps DEF Chat!Shown
<1>. QED  BY <1>1, <1>2

LEMMA FinishedKeeps ==
    ASSUME NEW shown \in Seq(Item), NEW i, NEW state \in {"done", "error", "warning"}
    PROVE  /\ Chat!Finished(shown, i, state) \in Seq(Item)
           /\ Keeps(shown, Chat!Finished(shown, i, state))
           /\ Chat!IsCard(shown, i) =>
                  /\ Chat!Finished(shown, i, state)[i].state = state
                  /\ Chat!Finished(shown, i, state)[i].tool = shown[i].tool
                  /\ i \in DOMAIN Chat!Finished(shown, i, state)
<1>1. CASE ~Chat!IsCard(shown, i)
  BY <1>1 DEF Chat!Finished, Keeps
<1>2. CASE Chat!IsCard(shown, i)
  <2> DEFINE f == [shown EXCEPT ![i] = [shown[i] EXCEPT !.state = state]]
  <2>1. Chat!Finished(shown, i, state) = f
    BY <1>2 DEF Chat!Finished
  <2>2. i \in DOMAIN shown /\ i \in 1 .. Len(shown)
    BY <1>2 DEF Chat!IsCard
  <2>3. shown[i] \in Item
    BY <2>2
  <2>4. [shown[i] EXCEPT !.state = state] \in Item
    BY <2>3 DEF Item
  <2>5. f \in Seq(Item) /\ DOMAIN f = DOMAIN shown
    BY <2>2, <2>4
  <2>6. /\ f[i] = [shown[i] EXCEPT !.state = state]
        /\ f[i].state = state /\ f[i].tool = shown[i].tool /\ f[i].kind = shown[i].kind
    BY <2>2, <2>3 DEF Item
  <2>7. \A j \in DOMAIN shown : j # i => f[j] = shown[j]
    BY <2>2
  <2> HIDE DEF f
  <2>. QED  BY <2>1, <2>2, <2>5, <2>6, <2>7 DEF Keeps
<1>. QED  BY <1>1, <1>2

LEMMA KeepsTwice ==
    ASSUME NEW a, NEW b, NEW c, Keeps(a, b), Keeps(b, c)
    PROVE  Keeps(a, c)
BY DEF Keeps

LEMMA KeepsCards ==
    ASSUME NEW a, NEW b, NEW act, Keeps(a, b), NEW t
    PROVE  /\ Resolved(a, t) => Resolved(b, t)
           /\ Carded(a, act, t) => Carded(b, act, t)
BY DEF Keeps, Resolved, Carded, Chat!IsCard

\* What a step that is no call of t does to it.
LEMMA ToolInvKept ==
    ASSUME NEW t \in Tools, ToolInv(t), Keeps(items, items'),
           calls'[t] = calls[t], t \in pending => t \in pending',
           t \in DOMAIN active <=> t \in DOMAIN active',
           t \in DOMAIN active => active'[t] = active[t]
    PROVE  ToolInv(t)'
<1>1. /\ Resolved(items, t) => Resolved(items', t)
      /\ Carded(items, active, t) => Carded(items', active', t)
  BY KeepsCards DEF Carded
<1>. QED  BY <1>1 DEF ToolInv

LEMMA NotedIs ==
    ASSUME calls \in [Tools -> Seq({"start", "end", "hidden"})], NEW t \in Tools,
           NEW what \in {"start", "end", "hidden"}
    PROVE  /\ Chat!Noted(t, what) \in [Tools -> Seq({"start", "end", "hidden"})]
           /\ Chat!Noted(t, what)[t] = Append(calls[t], what)
           /\ \A u \in Tools \ {t} : Chat!Noted(t, what)[u] = calls[u]
<1>1. Append(calls[t], what) \in Seq({"start", "end", "hidden"})
  OBVIOUS
<1>. QED  BY <1>1 DEF Chat!Noted

LEMMA CallsDiffer ==
    /\ <<>> \notin {<<"start">>, <<"end">>, <<"start", "end">>, <<"end", "start">>}
    /\ <<"start">> # <<"end">>
<1>1. /\ Len(<<>>) = 0 /\ Len(<<"start">>) = 1 /\ Len(<<"end">>) = 1
      /\ Len(<<"start", "end">>) = 2 /\ Len(<<"end", "start">>) = 2
  OBVIOUS
<1>2. <<"start">>[1] # <<"end">>[1]
  OBVIOUS
<1>. QED  BY <1>1, <1>2

LEMMA AppendIs ==
    ASSUME NEW S, NEW s \in Seq(S), NEW x \in S
    PROVE  /\ Len(Append(s, x)) = Len(s) + 1 /\ Len(s) \in Nat
           /\ Append(s, x)[Len(s) + 1] = x
           /\ \A i \in 1 .. Len(s) : Append(s, x)[i] = s[i]
OBVIOUS

\* What can be said of a sequence that has just grown by one.
LEMMA GrownIsNotEmpty ==
    ASSUME NEW S, NEW s \in Seq(S), NEW x \in S, NEW u, u = Append(s, x)
    PROVE  u # <<>>
<1>1. Len(u) = Len(s) + 1 /\ Len(s) \in Nat
  BY AppendIs
<1>2. Len(<<>>) = 0
  OBVIOUS
<1>. QED  BY <1>1, <1>2

LEMMA LongerByOne ==
    ASSUME NEW s \in Seq({"start", "end", "hidden"}), NEW x \in {"start", "end", "hidden"},
           NEW u, u = Append(s, x)
    PROVE  /\ Len(u) = 1 => s = <<>> /\ x = u[1]
           /\ Len(u) = 2 => s = <<u[1]>> /\ x = u[2]
<1>1. /\ Len(u) = Len(s) + 1 /\ Len(s) \in Nat /\ u[Len(s) + 1] = x
      /\ \A i \in 1 .. Len(s) : u[i] = s[i]
  BY AppendIs
<1>2. ASSUME Len(u) = 1
      PROVE  s = <<>> /\ x = u[1]
  <2>1. Len(s) = 0
    BY <1>1, <1>2
  <2>2. s = <<>>
    BY <2>1
  <2>. QED  BY <1>1, <2>1, <2>2
<1>3. ASSUME Len(u) = 2
      PROVE  s = <<u[1]>> /\ x = u[2]
  <2>1. Len(s) = 1
    <3>1. Len(s) + 1 = 2
      BY <1>1, <1>3, Zenon
    <3>2. \A n \in Nat : n + 1 = 2 => n = 1
      OBVIOUS
    <3>. QED  BY <1>1, <3>1, <3>2, Zenon
  <2>2. s[1] = u[1] /\ x = u[2]
    BY <1>1, <2>1
  <2>3. s = <<s[1]>>
    BY <2>1
  <2>. QED  BY <2>2, <2>3
<1>. QED  BY <1>2, <1>3

LEMMA CallsAre ==
    /\ Len(<<>>) = 0
    /\ Len(<<"start">>) = 1 /\ <<"start">>[1] = "start"
    /\ Len(<<"end">>) = 1 /\ <<"end">>[1] = "end"
    /\ Len(<<"start", "end">>) = 2 /\ <<"start", "end">>[1] = "start"
    /\ <<"start", "end">>[2] = "end"
    /\ Len(<<"end", "start">>) = 2 /\ <<"end", "start">>[1] = "end"
    /\ <<"end", "start">>[2] = "start"
OBVIOUS

LEMMA CallGrown ==
    ASSUME NEW s \in Seq({"start", "end", "hidden"}), NEW x \in {"start", "end", "hidden"},
           NEW u, u = Append(s, x)
    PROVE  /\ u # <<>>
           /\ u = <<"start">> => s = <<>> /\ x = "start"
           /\ u = <<"end">> => s = <<>> /\ x = "end"
           /\ u = <<"start", "end">> => s = <<"start">> /\ x = "end"
           /\ u = <<"end", "start">> => s = <<"end">> /\ x = "start"
<1>1. u # <<>>
  BY GrownIsNotEmpty
<1>2. Len(u) = 1 => s = <<>> /\ x = u[1]
  BY LongerByOne
<1>3. Len(u) = 2 => s = <<u[1]>> /\ x = u[2]
  BY LongerByOne
<1>4. ASSUME u = <<"start">>
      PROVE  s = <<>> /\ x = "start"
  BY <1>2, <1>4, CallsAre, Zenon
<1>5. ASSUME u = <<"end">>
      PROVE  s = <<>> /\ x = "end"
  BY <1>2, <1>5, CallsAre, Zenon
<1>6. ASSUME u = <<"start", "end">>
      PROVE  s = <<"start">> /\ x = "end"
  BY <1>3, <1>6, CallsAre, Zenon
<1>7. ASSUME u = <<"end", "start">>
      PROVE  s = <<"end">> /\ x = "start"
  BY <1>3, <1>7, CallsAre, Zenon
<1>. QED  BY <1>1, <1>4, <1>5, <1>6, <1>7

\* A step that tells the thread of no call and leaves the open cards alone.
LEMMA NoCallKeeps ==
    ASSUME ChatInv, items' \in Seq(Item), Keeps(items, items'), UNCHANGED <<active, pending, calls>>
    PROVE  ChatInv'
<1>1. \A t \in Tools : ToolInv(t)'
  BY ToolInvKept DEF ChatInv
<1>. QED  BY <1>1 DEF ChatInv

\* The thread is cleared of everything that was said.
LEMMA ClearedKeeps ==
    ASSUME items' = <<>>, active' = Chat!NoCards, calls' = Chat!NoCalls
    PROVE  ChatInv'
<1>1. \A t \in Tools : calls'[t] = <<>> /\ t \notin DOMAIN active'
  BY DEF Chat!NoCalls, Chat!NoCards
<1>2. items' \in Seq(Item) /\ calls' \in [Tools -> Seq({"start", "end", "hidden"})]
  BY DEF Chat!NoCalls
<1>. QED  BY <1>1, <1>2, CallsDiffer DEF ChatInv, ToolInv

LEMMA ToolStartKeeps ==
    ASSUME ChatInv, NEW t \in Tools, Chat!ToolStart(t)
    PROVE  ChatInv'
<1> DEFINE i == Len(items) + 1
           shown == Chat!Shown(Chat!Card(t))
           opened == [u \in DOMAIN active \cup {t} |-> IF u = t THEN i ELSE active[u]]
           what == IF chatSecuring THEN "hidden" ELSE "start"
<1>1. /\ items' = IF t \in pending THEN Chat!Finished(shown, i, "done") ELSE shown
      /\ active' = IF t \in pending /\ Chat!IsCard(shown, i)
                   THEN Chat!Without(opened, t) ELSE opened
      /\ pending' = pending \ {t} /\ calls' = Chat!Noted(t, what)
  BY DEF Chat!ToolStart
<1>2. /\ items \in Seq(Item) /\ calls \in [Tools -> Seq({"start", "end", "hidden"})]
      /\ calls[t] \in Seq({"start", "end", "hidden"})
      /\ \A u \in Tools : ToolInv(u)
  BY DEF ChatInv
<1>3. what \in {"start", "end", "hidden"}
  OBVIOUS
<1>4. shown \in Seq(Item) /\ Keeps(items, shown)
  BY <1>2, CardIsItem, ShownKeeps
<1>5. ~chatSecuring => /\ Chat!IsCard(shown, i) /\ shown[i].tool = t
  <2>1. ASSUME ~chatSecuring
        PROVE  shown = Append(items, Chat!Card(t))
    BY <2>1 DEF Chat!Shown
  <2>2. /\ i \in DOMAIN Append(items, Chat!Card(t))
        /\ Append(items, Chat!Card(t))[i] = Chat!Card(t)
    BY <1>2, CardIsItem
  <2>. QED  BY <2>1, <2>2, CardIsItem DEF Chat!IsCard
<1>6. /\ Chat!Noted(t, what) \in [Tools -> Seq({"start", "end", "hidden"})]
      /\ Chat!Noted(t, what)[t] = Append(calls[t], what)
      /\ \A u \in Tools \ {t} : Chat!Noted(t, what)[u] = calls[u]
  BY <1>2, <1>3, NotedIs
<1>7. /\ i \in DOMAIN shown \/ ~Chat!IsCard(shown, i)
      /\ t \in DOMAIN opened /\ opened[t] = i
      /\ \A u : u # t => (u \in DOMAIN active <=> u \in DOMAIN opened)
      /\ \A u \in DOMAIN active : u # t => opened[u] = active[u]
  BY DEF Chat!IsCard
<1>8. /\ Chat!Finished(shown, i, "done") \in Seq(Item)
      /\ Keeps(shown, Chat!Finished(shown, i, "done"))
      /\ Chat!IsCard(shown, i) =>
             /\ Chat!Finished(shown, i, "done")[i].state = "done"
             /\ Chat!Finished(shown, i, "done")[i].tool = shown[i].tool
             /\ i \in DOMAIN Chat!Finished(shown, i, "done")
  BY <1>4, FinishedKeeps
<1> HIDE DEF shown, opened, i, what
<1>9. items' \in Seq(Item) /\ Keeps(items, items')
  BY <1>1, <1>4, <1>8, KeepsTwice
<1>10. /\ \A u : u # t => (u \in DOMAIN active <=> u \in DOMAIN active')
       /\ \A u \in DOMAIN active : u # t => active'[u] = active[u]
  BY <1>1, <1>7 DEF Chat!Without
<1>11. ASSUME NEW u \in Tools \ {t}
       PROVE  ToolInv(u)'
  <2>1. calls'[u] = calls[u] /\ (u \in pending => u \in pending')
    BY <1>1, <1>6
  <2>. QED  BY <1>2, <1>9, <1>10, <2>1, ToolInvKept
<1>12. ToolInv(t)'
  <2>1. calls'[t] = Append(calls[t], what)
    BY <1>1, <1>6
  <2>2. /\ calls'[t] # <<>>
        /\ calls'[t] = <<"start">> => calls[t] = <<>> /\ what = "start"
        /\ calls'[t] # <<"end">>
        /\ calls'[t] # <<"start", "end">>
        /\ calls'[t] = <<"end", "start">> => calls[t] = <<"end">> /\ what = "start"
    <3>1. what # "end"
      BY DEF what
    <3>2. calls'[t] # <<>>
      BY <1>2, <1>3, <2>1, CallGrown
    <3>3. /\ calls'[t] = <<"start">> => calls[t] = <<>> /\ what = "start"
          /\ calls'[t] = <<"end">> => what = "end"
      BY <1>2, <1>3, <2>1, CallGrown
    <3>4. /\ calls'[t] = <<"start", "end">> => what = "end"
          /\ calls'[t] = <<"end", "start">> => calls[t] = <<"end">> /\ what = "start"
      BY <1>2, <1>3, <2>1, CallGrown
    <3>. QED  BY <3>1, <3>2, <3>3, <3>4
  <2>3. what = "start" => Chat!IsCard(shown, i) /\ shown[i].tool = t
    BY <1>5 DEF what
  <2>4. ASSUME what = "start", t \in pending
        PROVE  Resolved(items', t)
    BY <1>1, <1>8, <2>3, <2>4 DEF Resolved
  <2>5. ASSUME what = "start", t \notin pending
        PROVE  Carded(items', active', t)
    BY <1>1, <1>7, <2>3, <2>5 DEF Carded
  <2>. QED  BY <1>2, <2>2, <2>4, <2>5 DEF ToolInv
<1>. QED  BY <1>1, <1>6, <1>9, <1>11, <1>12 DEF ChatInv

LEMMA ToolEndKeeps ==
    ASSUME ChatInv, NEW t \in Tools, Chat!ToolEnd(t)
    PROVE  ChatInv'
<1>1. /\ items \in Seq(Item) /\ calls \in [Tools -> Seq({"start", "end", "hidden"})]
      /\ calls[t] \in Seq({"start", "end", "hidden"})
      /\ \A u \in Tools : ToolInv(u)
  BY DEF ChatInv
<1>2. /\ calls' \in [Tools -> Seq({"start", "end", "hidden"})]
      /\ calls'[t] = Append(calls[t], "end")
      /\ \A u \in Tools \ {t} : calls'[u] = calls[u]
  BY <1>1, NotedIs DEF Chat!ToolEnd
<1>3. /\ calls'[t] # <<>>
      /\ calls'[t] # <<"start">>
      /\ calls'[t] = <<"end">> => calls[t] = <<>>
      /\ calls'[t] = <<"start", "end">> => calls[t] = <<"start">>
      /\ calls'[t] # <<"end", "start">>
  <2>1. calls'[t] # <<>>
    BY <1>1, <1>2, CallGrown
  <2>2. /\ calls'[t] = <<"start">> => "end" = "start"
        /\ calls'[t] = <<"end">> => calls[t] = <<>>
    BY <1>1, <1>2, CallGrown
  <2>3. /\ calls'[t] = <<"start", "end">> => calls[t] = <<"start">>
        /\ calls'[t] = <<"end", "start">> => "end" = "start"
    BY <1>1, <1>2, CallGrown
  <2>. QED  BY <2>1, <2>2, <2>3
<1>4. CASE t \in DOMAIN active
  <2> DEFINE i == active[t]
             done == Chat!Finished(items, i, "done")
  <2>1. /\ items' = done /\ pending' = pending
        /\ active' = IF Chat!IsCard(items, i) THEN Chat!Without(active, t) ELSE active
    BY <1>4 DEF Chat!ToolEnd
  <2>2. /\ done \in Seq(Item) /\ Keeps(items, done)
        /\ Chat!IsCard(items, i) =>
               done[i].state = "done" /\ done[i].tool = items[i].tool /\ i \in DOMAIN done
    BY <1>1, FinishedKeeps
  <2>3. /\ \A u : u # t => (u \in DOMAIN active <=> u \in DOMAIN active')
        /\ \A u \in DOMAIN active : u # t => active'[u] = active[u]
    BY <2>1 DEF Chat!Without
  <2> HIDE DEF done
  <2>4. ASSUME NEW u \in Tools \ {t}
        PROVE  ToolInv(u)'
    BY <1>1, <1>2, <2>1, <2>2, <2>3, ToolInvKept
  <2>5. ToolInv(t)'
    <3>1. calls[t] # <<>>
      BY <1>1, <1>4 DEF ToolInv
    <3>2. Carded(items, active, t) => Resolved(items', t)
      BY <2>1, <2>2 DEF Carded, Resolved
    <3>3. Resolved(items, t) => Resolved(items', t)
      BY <2>1, <2>2, KeepsCards
    <3>4. calls[t] = <<"start">> => Resolved(items', t)
      BY <1>1, <3>2, <3>3 DEF ToolInv
    <3>. QED  BY <1>3, <3>1, <3>4 DEF ToolInv
  <2>. QED  BY <1>2, <2>1, <2>2, <2>4, <2>5 DEF ChatInv
<1>5. CASE t \notin DOMAIN active
  <2>1. pending' = pending \cup {t} /\ UNCHANGED <<items, active>>
    BY <1>5 DEF Chat!ToolEnd
  <2>2. Keeps(items, items')
    BY <2>1 DEF Keeps
  <2>3. ASSUME NEW u \in Tools \ {t}
        PROVE  ToolInv(u)'
    BY <1>1, <1>2, <2>1, <2>2, ToolInvKept
  <2>4. ToolInv(t)'
    <3>1. calls[t] = <<"start">> => Resolved(items', t)
      BY <1>1, <1>5, <2>1 DEF ToolInv, Carded
    <3>. QED  BY <1>3, <2>1, <3>1 DEF ToolInv
  <2>. QED  BY <1>1, <1>2, <2>1, <2>3, <2>4 DEF ChatInv
<1>. QED  BY <1>4, <1>5

LEMMA SimulatorFailsKeeps ==
    ASSUME ChatInv, Chat!SimulatorFails
    PROVE  ChatInv'
<1> DEFINE i == active[Failing]
           failed == Chat!Finished(items, i, "error")
<1>1. /\ Failing \in DOMAIN active /\ Chat!IsCard(items, i)
      /\ items' = IF chatSecuring THEN failed ELSE Append(failed, Chat!Plain("message"))
      /\ active' = Chat!Without(active, Failing)
      /\ UNCHANGED <<pending, calls>>
  BY DEF Chat!SimulatorFails
<1>2. items \in Seq(Item) /\ \A u \in Tools : ToolInv(u)
  BY DEF ChatInv
<1>3. /\ failed \in Seq(Item) /\ Keeps(items, failed)
      /\ failed[i].state = "error" /\ failed[i].tool = items[i].tool /\ i \in DOMAIN failed
  BY <1>1, <1>2, FinishedKeeps
<1>4. /\ \A u : u # Failing => (u \in DOMAIN active <=> u \in DOMAIN active')
      /\ \A u \in DOMAIN active : u # Failing => active'[u] = active[u]
      /\ Failing \notin DOMAIN active'
  BY <1>1 DEF Chat!Without
<1> HIDE DEF failed
<1>5. items' \in Seq(Item) /\ Keeps(failed, items')
  <2>1. CASE chatSecuring
    BY <1>1, <1>3, <2>1 DEF Keeps
  <2>2. CASE ~chatSecuring
    BY <1>1, <1>3, <2>2, PlainIsItem, AppendKeeps
  <2>. QED  BY <2>1, <2>2
<1>6. Keeps(items, items')
  BY <1>3, <1>5, KeepsTwice
<1>7. ASSUME NEW u \in Tools \ {Failing}
      PROVE  ToolInv(u)'
  BY <1>1, <1>2, <1>4, <1>6, ToolInvKept
<1>8. ASSUME Failing \in Tools
      PROVE  ToolInv(Failing)'
  <2>1. Resolved(items, Failing) => Resolved(items', Failing)
    BY <1>6, KeepsCards
  <2>2. Carded(items, active, Failing) => Resolved(failed, Failing)
    BY <1>3 DEF Carded, Resolved
  <2>3. Resolved(failed, Failing) => Resolved(items', Failing)
    BY <1>5, KeepsCards
  <2>. QED  BY <1>1, <1>2, <1>4, <1>8, <2>1, <2>2, <2>3 DEF ToolInv
<1>. QED  BY <1>1, <1>5, <1>7, <1>8 DEF ChatInv

LEMMA ChatStep ==
    ASSUME ChatInv, Chat!Next
    PROVE  ChatInv'
<1>1. items \in Seq(Item) /\ Keeps(items, items)
  BY DEF ChatInv, Keeps
<1>2. ASSUME NEW kind \in {"message", "system", "a2ui"}, Chat!Say(kind)
      PROVE  ChatInv'
  BY <1>1, <1>2, PlainIsItem, ShownKeeps, NoCallKeeps DEF Chat!Say
<1>3. CASE Chat!ModelEnd
  BY <1>1, <1>3, PlainIsItem, AppendKeeps, NoCallKeeps DEF Chat!ModelEnd
<1>4. ASSUME NEW mine \in BOOLEAN, Chat!ModelError(mine)
      PROVE  ChatInv'
  BY <1>1, <1>4, PlainIsItem, AppendKeeps, NoCallKeeps DEF Chat!ModelError
<1>5. CASE \/ \E s \in Speakers : Chat!RunStart(s)
           \/ \E s \in Speakers, mine \in BOOLEAN : Chat!RunEnd(s, mine)
           \/ Chat!SimulatorWarns \/ Chat!Secure
  <2>1. UNCHANGED <<items, active, pending, calls>>
    BY <1>5 DEF Chat!RunStart, Chat!RunEnd, Chat!SimulatorWarns, Chat!Secure, Chat!threadVars
  <2>. QED  BY <1>1, <2>1, NoCallKeeps
<1>6. CASE Chat!FinancialMode
  BY <1>6, ClearedKeeps DEF Chat!FinancialMode
<1>7. CASE Chat!OtherFails
  BY <1>1, <1>7, PlainIsItem, ShownKeeps, NoCallKeeps DEF Chat!OtherFails
<1>8. CASE Chat!Warn
  <2>1. UNCHANGED <<active, pending, calls>> /\ \E i : items' \in {items, Chat!Finished(items, i, "warning")}
    BY <1>8 DEF Chat!Warn
  <2>. QED  BY <1>1, <2>1, FinishedKeeps, NoCallKeeps
<1>9. ASSUME NEW i \in DOMAIN timers, Chat!ErrorAgain(i)
      PROVE  ChatInv'
  BY <1>1, <1>9, PlainIsItem, ShownKeeps, NoCallKeeps DEF Chat!ErrorAgain
<1>10. CASE Chat!Send
  BY <1>1, <1>10, PlainIsItem, ShownKeeps, NoCallKeeps DEF Chat!Send
<1>11. ASSUME NEW demoIsLenient \in BOOLEAN, NEW toggled \in BOOLEAN,
              Chat!Clear(demoIsLenient, toggled)
       PROVE  ChatInv'
  BY <1>11, ClearedKeeps DEF Chat!Clear
<1>. QED
  BY <1>2, <1>3, <1>4, <1>5, <1>6, <1>7, <1>8, <1>9, <1>10, <1>11, ToolStartKeeps,
     ToolEndKeeps, SimulatorFailsKeeps DEF Chat!Next

(* ChatDisplay: a tool called once has a card that is no longer open, whichever
   of its two messages comes first and whatever clears the thread, hides cards
   or fails between them. *)
THEOREM EveryCallResolves == Spec => []CallsResolve
<1>1. Init => ChatInv
  <2>1. Init => /\ items = <<>> /\ active = Chat!NoCards /\ calls = Chat!NoCalls
    BY DEF Init, Chat!Init
  <2>2. ASSUME items = <<>>, active = Chat!NoCards, calls = Chat!NoCalls
        PROVE  ChatInv
    <3>1. \A t \in Tools : calls[t] = <<>> /\ t \notin DOMAIN active
      BY <2>2 DEF Chat!NoCalls, Chat!NoCards
    <3>2. items \in Seq(Item) /\ calls \in [Tools -> Seq({"start", "end", "hidden"})]
      BY <2>2 DEF Chat!NoCalls
    <3>. QED  BY <3>1, <3>2, CallsDiffer DEF ChatInv, ToolInv
  <2>. QED  BY <2>1, <2>2
<1>2. ChatInv /\ [Next]_vars => ChatInv'
  <2>1. ASSUME ChatInv, UNCHANGED chatVars PROVE ChatInv'
    BY <2>1 DEF ChatInv, ToolInv, Carded, Resolved, Chat!IsCard, chatVars
  <2>2. [Next]_vars => Chat!Next \/ UNCHANGED chatVars
    BY DEF Next, vars
  <2>. QED  BY <2>1, <2>2, ChatStep
<1>3. ChatInv => CallsResolve
  BY DEF ChatInv, ToolInv, Resolved, CallsResolve, Chat!CallsResolve
<1>. QED  BY <1>1, <1>2, <1>3, PTL DEF Spec

(***************************************************************************)
(* Surfaces.                                                               *)
(***************************************************************************)
(* The buttons that started the runs are distinct, and each of them loads. *)
ButtonsInv ==
    /\ pressed \in Seq([by : DOMAIN componentsMap, from : Agents \cup {"recording"}])
    /\ \A i \in DOMAIN pressed : pressed[i].by \in loading
    /\ talksTo \in Agents \cup {None}
    /\ Surface!OneRunPerButton

LEMMA ButtonsStep ==
    ASSUME ButtonsInv, Surface!Next
    PROVE  ButtonsInv'
<1>1. ASSUME UNCHANGED <<componentsMap, pressed>>, loading \subseteq loading',
             talksTo' \in Agents \cup {None}
      PROVE  ButtonsInv'
  BY <1>1 DEF ButtonsInv, Surface!OneRunPerButton
<1>2. ASSUME NEW id \in DOMAIN componentsMap, Surface!PressRun(id)
      PROVE  ButtonsInv'
  <2>1. /\ id \notin loading /\ loading' = loading \cup {id}
        /\ componentsMap' = componentsMap /\ talksTo' \in Agents \cup {None}
    BY <1>2 DEF Surface!PressRun, Surface!Pressable, Surface!tree, ButtonsInv
  <2>2. CASE pressed' = pressed
    BY <1>1, <2>1, <2>2
  <2>3. ASSUME NEW from \in Agents \cup {"recording"},
               pressed' = Append(pressed, [by |-> id, from |-> from])
        PROVE  ButtonsInv'
    <3> DEFINE run == [by |-> id, from |-> from]
               Runs == [by : DOMAIN componentsMap, from : Agents \cup {"recording"}]
               n == Len(pressed)
    <3>1. run \in Runs /\ pressed \in Seq(Runs) /\ run.by = id
      BY DEF ButtonsInv
    <3> HIDE DEF run, Runs
    <3>2. /\ pressed' \in Seq(Runs) /\ DOMAIN pressed' = 1 .. n + 1 /\ DOMAIN pressed = 1 .. n
          /\ pressed'[n + 1] = run /\ \A i \in 1 .. n : pressed'[i] = pressed[i]
      BY <2>3, <3>1 DEF run
    <3>3. \A i \in 1 .. n : pressed'[i].by \in loading
      BY <3>2 DEF ButtonsInv
    <3>4. \A i \in DOMAIN pressed' : i \in 1 .. n \/ i = n + 1
      BY <3>1, <3>2
    <3>5. \A i \in DOMAIN pressed' : pressed'[i].by \in loading'
      BY <2>1, <3>1, <3>2, <3>3, <3>4
    <3>6. Surface!OneRunPerButton'
      <4> SUFFICES ASSUME NEW i \in DOMAIN pressed', NEW j \in DOMAIN pressed',
                          pressed'[i].by = pressed'[j].by
                   PROVE  i = j
        BY DEF Surface!OneRunPerButton
      <4>1. CASE i = n + 1 \/ j = n + 1
        BY <2>1, <3>1, <3>2, <3>3, <3>4, <4>1
      <4>2. CASE i \in 1 .. n /\ j \in 1 .. n
        BY <3>2, <4>2 DEF ButtonsInv, Surface!OneRunPerButton
      <4>. QED  BY <3>4, <4>1, <4>2
    <3>. QED  BY <2>1, <3>2, <3>5, <3>6 DEF ButtonsInv, Runs
  <2>. QED  BY <1>2, <2>2, <2>3 DEF Surface!PressRun, ButtonsInv
<1>3. ASSUME NEW id \in DOMAIN componentsMap, Surface!PressOther(id)
      PROVE  ButtonsInv'
  BY <1>1, <1>3 DEF Surface!PressOther, Surface!tree, ButtonsInv
<1>4. ASSUME NEW id \in DOMAIN componentsMap,
             \/ Surface!ClickCard(id) \/ Surface!SetModal(id) \/ Surface!PressOpen(id)
             \/ \E i \in 1 .. 2 : Surface!SetTab(id, i)
      PROVE  ButtonsInv'
  BY <1>1, <1>4 DEF Surface!ClickCard, Surface!SetModal, Surface!PressOpen, Surface!SetTab,
                    Surface!tree, ButtonsInv
<1>5. CASE Surface!DemoChanges \/ Surface!ModeSwitches \/ Surface!WorkEnds
  BY <1>1, <1>5 DEF Surface!DemoChanges, Surface!ModeSwitches, Surface!WorkEnds, Surface!tree, ButtonsInv
<1>. QED  BY <1>2, <1>3, <1>4, <1>5 DEF Surface!Next

(* A2ui: whatever the user presses, opens and collapses, and whatever becomes of
   the agent and the demo meanwhile, no button of a surface starts two runs. *)
THEOREM ButtonsRunOnce == Spec => [](part = "surface" => Surface!OneRunPerButton)
<1>1. Init => ButtonsInv
  BY DEF Init, Surface!Init, ButtonsInv, Surface!OneRunPerButton
<1>2. ButtonsInv /\ [Next]_vars => ButtonsInv'
  <2>1. ASSUME ButtonsInv, UNCHANGED surfaceVars PROVE ButtonsInv'
    BY <2>1 DEF ButtonsInv, Surface!OneRunPerButton, surfaceVars
  <2>2. [Next]_vars => Surface!Next \/ UNCHANGED surfaceVars
    BY DEF Next, vars
  <2>. QED  BY <2>1, <2>2, ButtonsStep
<1>3. ButtonsInv => Surface!OneRunPerButton
  BY DEF ButtonsInv
<1>. QED  BY <1>1, <1>2, <1>3, PTL DEF Spec
=============================================================================
