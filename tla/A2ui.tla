-------------------------------- MODULE A2ui --------------------------------
(***************************************************************************)
(* Surfaces that agents draw.  A surface is a list of components that name *)
(* each other as children; the app finds the root, lays the tree out and   *)
(* answers what the user does to it.  The tester has a renderer of its     *)
(* own, which starts from the last component.                              *)
(*                                                                         *)
(* A component is a record: id, type, kids, how the kids are written       *)
(* (wire), the children of its tabs, the entry and content of a modal, and *)
(* the action of a button.  Text, images and inputs are drawn by one       *)
(* element each and are leaves here.                                       *)
(***************************************************************************)
EXTENDS Integers, Sequences, FiniteSets, SequencesExt, FiniteSetsExt

CONSTANTS
    None,
    Surfaces,   \* lists of components, in the order agents send them
    Headers,    \* ids that head an expandable card ("header", "header-...")
    RerunButton,\* the id of a button that is not drawn
    Agents,     \* sessions the screen may be talking to
    MaxRuns     \* bound: runs started

VARIABLES
    list,       \* the components of the surface, as they came
    componentsMap, rootNode,    \* the same by id, and the root's id
    always,     \* alwaysExpandExpandableCards
    expanded,   \* ids of expanded cards
    tab,        \* of each Tabs component: the active tab
    open,       \* ids of open modals
    loading,    \* loadingButtonIds
    cached,     \* runCachedMessages of the screen
    current,    \* currentAgent of the screen
    working,    \* isAgentWorking of the screen
    runs        \* runs started: by which button, from a recording or by which agent

tree == <<list, componentsMap, rootNode>>
a2uiVars == <<tree, always, expanded, tab, open, loading, cached, current, working, runs>>

-----------------------------------------------------------------------------
(* The tree. *)

(* buildComponentsMap: of components with one id, the last. *)
Map(components) ==
    [id \in {components[i].id : i \in DOMAIN components} |->
        components[Max({i \in DOMAIN components : components[i].id = id})]]

(* getChildren: however they are written. *)
Kids(n) == n.kids

(* Ids that a component names. *)
References(n) ==
    ToSet(Kids(n)) \cup ToSet(n.tabs)
    \cup (IF n.type = "Modal" THEN {n.entry, n.content} \ {None} ELSE {})

(* Slip: the children of tabs and modals are not counted. *)
FindRootByKids(components, m) ==
    LET top == {i \in DOMAIN components :
                   \A id \in DOMAIN m : components[i].id \notin ToSet(Kids(m[id]))}
    IN  IF components = <<>> THEN None
        ELSE components[IF top = {} THEN 1 ELSE Min(top)].id

(* findRootComponent: the first that none names, or the first. *)
FindRoot(components, m) ==
    LET named == UNION {References(m[id]) : id \in DOMAIN m}
        top == {i \in DOMAIN components : components[i].id \notin named}
    IN  IF components = <<>> THEN None
        ELSE components[IF top = {} THEN 1 ELSE Min(top)].id

(* What a component holds, in the order it is searched. *)
Held(map, n) ==
    CASE n.type = "Modal" -> SelectSeq(<<n.entry, n.content>>, LAMBDA r : r \in DOMAIN map)
      [] n.type = "Tabs" -> n.tabs
      [] OTHER -> Kids(n)

FirstFound(results) ==
    LET found == SelectSeq(results, LAMBDA c : c # None)
    IN  IF found = <<>> THEN None ELSE Head(found)

(* Slip: the outermost card. *)
OutermostCard(map, root, id) ==
    LET search[at \in DOMAIN map, card \in DOMAIN map \cup {None}] ==
            LET held == Held(map, map[at])
                around == IF map[at].type = "Card" /\ card = None THEN at ELSE card
            IN  IF at = id THEN around
                ELSE FirstFound([i \in DOMAIN held |-> IF held[i] \in DOMAIN map
                                                      THEN search[held[i], around] ELSE None])
    IN  search[root, None]

(* findInnermostCardContaining: depth first, the last card of the path. *)
InnermostCard(map, root, id) ==
    LET search[at \in DOMAIN map, card \in DOMAIN map \cup {None}] ==
            LET held == Held(map, map[at])
                around == IF map[at].type = "Card" THEN at ELSE card
            IN  IF at = id THEN around
                ELSE FirstFound([i \in DOMAIN held |-> IF held[i] \in DOMAIN map
                                                      THEN search[held[i], around] ELSE None])
    IN  search[root, None]

(* isExpandableSummaryCard: one column of three or more, headed by a header. *)
Expandable(map, n) ==
    /\ n.type = "Card" /\ Len(Kids(n)) = 1 /\ Kids(n)[1] \in DOMAIN map
    /\ LET column == map[Kids(n)[1]]
       IN  /\ column.type = "Column" /\ Len(Kids(column)) >= 3
           /\ Kids(column)[1] \in Headers \cap DOMAIN map

(* Slip: the last child is neither in the middle nor the footer. *)
SummaryPartsNoFooter(map, n) ==
    LET kids == Kids(map[Kids(n)[1]])
    IN  <<kids[1]>> \o SubSeq(kids, 2, Len(kids) - 1)

(* getExpandableHeaderChildRef, getExpandableMiddleChildRefs,
   getExpandableFooterChildRef *)
SummaryParts(map, n) ==
    LET kids == Kids(map[Kids(n)[1]])
    IN  <<kids[1]>> \o SubSeq(kids, 2, Len(kids) - 1) \o <<Last(kids)>>

-----------------------------------------------------------------------------
(* What is drawn. *)

(* What a component draws in its place.  A collapsed card is drawn too: it is
   only hidden from sight. *)
Parts(map, n, tabs, modals) ==
    CASE n.type = "Modal" -> IF n.id \in modals THEN <<n.entry, n.content>> ELSE <<n.entry>>
      [] n.type = "Tabs"  -> IF n.tabs = <<>> THEN <<>> ELSE <<n.tabs[tabs[n.id]]>>
      [] Expandable(map, n) -> SummaryParts(map, n)
      [] OTHER -> Kids(n)

Drawn(map, root, tabs, modals) ==
    LET draws[at \in DOMAIN map] ==
            IF at = RerunButton THEN {}
            ELSE {at} \cup UNION {draws[k] : k \in ToSet(Parts(map, map[at], tabs, modals))
                                                   \cap DOMAIN map}
    IN  draws[root]

(* The tester's renderA2UI: layouts read an explicit list or one child, a
   button one child, and nothing else has any. *)
TesterParts(n) ==
    CASE n.type = "Modal" -> <<n.entry>>
      [] n.type = "Tabs" -> IF n.tabs = <<>> THEN <<>> ELSE <<n.tabs[1]>>
      [] n.type = "Button" -> IF n.wire = "child" THEN Kids(n) ELSE <<>>
      [] OTHER -> IF n.wire \in {"child", "explicitList"} THEN Kids(n) ELSE <<>>

TesterDraws(map, root) ==
    LET draws[at \in DOMAIN map] ==
            {at} \cup UNION {draws[k] : k \in ToSet(TesterParts(map[at])) \cap DOMAIN map}
    IN  draws[root]

-----------------------------------------------------------------------------
(* The controller of one surface. *)

FirstTabs(components) == [id \in {components[i].id : i \in DOMAIN components} |-> 1]

drawn == Drawn(componentsMap, rootNode, tab, open)

Init ==
    /\ list \in Surfaces
    /\ componentsMap = Map(list) /\ rootNode = FindRoot(list, componentsMap)
    /\ always \in BOOLEAN /\ cached \in BOOLEAN
    /\ expanded = {} /\ tab = FirstTabs(list) /\ open = {} /\ loading = {}
    /\ current \in Agents \cup {None} /\ working = FALSE
    /\ runs = <<>>

(* toggleCardExpand *)
Toggled(cards) ==
    IF always THEN expanded ELSE (expanded \ cards) \cup (cards \ expanded)

(* A click on what a card shows: it bubbles, so every expandable card around
   it toggles.  Keys on a summary toggle its card. *)
ClickCard(id) ==
    /\ id \in drawn /\ componentsMap[id].type # "Button"
    /\ LET around == {c \in DOMAIN componentsMap :
                         /\ Expandable(componentsMap, componentsMap[c]) /\ c \in drawn
                         /\ id \in Drawn(componentsMap, c, tab, open)}
       IN  /\ around # {}
           /\ expanded' = Toggled(around)
    /\ UNCHANGED <<tree, always, tab, open, loading, cached, current, working, runs>>

(* setActiveTab *)
SetTab(id, i) ==
    /\ id \in drawn /\ componentsMap[id].type = "Tabs"
    /\ i \in DOMAIN componentsMap[id].tabs
    /\ tab' = [tab EXCEPT ![id] = i]
    /\ UNCHANGED <<tree, always, expanded, open, loading, cached, current, working, runs>>

(* openModal, closeModal *)
SetModal(id) ==
    /\ id \in drawn /\ componentsMap[id].type = "Modal"
    /\ open' = IF id \in open THEN open \ {id} ELSE open \cup {id}
    /\ UNCHANGED <<tree, always, expanded, tab, loading, cached, current, working, runs>>

(* A button that opens its card is not drawn in cards that are always open. *)
Pressable(id) ==
    /\ id \in drawn /\ componentsMap[id].type = "Button"
    /\ always => componentsMap[id].action # "open_card"
    /\ id \notin loading

(* handleButtonClick: open_card and organizer_show_scorecard. *)
PressOpen(id) ==
    /\ Pressable(id) /\ componentsMap[id].action = "open_card"
    /\ LET card == InnermostCard(componentsMap, rootNode, id)
       IN  expanded' = IF card = None THEN expanded ELSE Toggled({card})
    /\ UNCHANGED <<tree, always, tab, open, loading, cached, current, working, runs>>

Starts == {"run_simulation", "run_simulation_with_llm_runners"}

(* Slip: the button stays enabled. *)
PressRunAwake(id) ==
    /\ Pressable(id) /\ componentsMap[id].action \in Starts /\ Len(runs) < MaxRuns
    /\ working' = TRUE
    /\ runs' = CASE cached -> Append(runs, [by |-> id, from |-> "recording"])
                 [] ~cached /\ current # None -> Append(runs, [by |-> id, from |-> current])
                 [] OTHER -> runs
    /\ UNCHANGED <<tree, always, expanded, tab, open, loading, cached, current>>

(* run_simulation, run_simulation_with_llm_runners: from the recording, or by
   the agent the screen talks to now, whoever drew the button.  Without one
   the call throws, the button and the screen already marked. *)
PressRun(id) ==
    /\ Pressable(id) /\ componentsMap[id].action \in Starts /\ Len(runs) < MaxRuns
    /\ loading' = loading \cup {id} /\ working' = TRUE
    /\ runs' = CASE cached -> Append(runs, [by |-> id, from |-> "recording"])
                 [] ~cached /\ current # None -> Append(runs, [by |-> id, from |-> current])
                 [] OTHER -> runs
    /\ UNCHANGED <<tree, always, expanded, tab, open, cached, current>>

(* Any other action, registered (run_simulation_with_route_data,
   stop_simulation) or not: the button loads for good.  show_route only asks
   for a route, of no agent, its inputs being bound by no template. *)
PressOther(id) ==
    /\ Pressable(id) /\ componentsMap[id].action \notin Starts \cup {"open_card"}
    /\ loading' = IF componentsMap[id].action = "show_route" THEN loading ELSE loading \cup {id}
    /\ UNCHANGED <<tree, always, expanded, tab, open, cached, current, working, runs>>

(* The effect on the active demo and its reset: cards collapse. *)
DemoChanges ==
    /\ expanded' = {} /\ current' \in Agents \cup {None}
    /\ UNCHANGED <<tree, always, tab, open, loading, cached, working, runs>>

(* The screen's mode is switched, by the settings menu or with a lifecycle. *)
ModeSwitches ==
    /\ cached' = ~cached
    /\ UNCHANGED <<tree, always, expanded, tab, open, loading, current, working, runs>>

(* The screen sees the agent's last answer. *)
WorkEnds ==
    /\ working /\ working' = FALSE
    /\ UNCHANGED <<tree, always, expanded, tab, open, loading, cached, current, runs>>

Next ==
    \/ \E id \in DOMAIN componentsMap :
          \/ ClickCard(id) \/ SetModal(id) \/ PressOpen(id) \/ PressRun(id) \/ PressOther(id)
          \/ \E i \in 1 .. 2 : SetTab(id, i)
    \/ DemoChanges \/ ModeSwitches \/ WorkEnds

Spec == Init /\ [][Next]_a2uiVars

-----------------------------------------------------------------------------
(* Reference: the tree, by its edges. *)

(* Ids that are at or below a. *)
Below(m, a) ==
    LET Grown(s) == s \cup UNION {References(m[x]) \cap DOMAIN m : x \in s}
        grown[k \in 0 .. Cardinality(DOMAIN m)] ==
            IF k = 0 THEN {a} ELSE Grown(grown[k - 1])
    IN  grown[Cardinality(DOMAIN m)]

(* id is in card c, and no other card around it is inside c. *)
IsInnermost(m, below, c, id) ==
    /\ id \in below[c]
    /\ \A d \in DOMAIN below : id \in below[d] => c \in below[d]

-----------------------------------------------------------------------------
(* findRootComponent finds the component that holds all others in whatever
   order they came, and findInnermostCardContaining the innermost card: a
   child may be named by a list, a tab or a modal. *)
TreeIsRead ==
    LET m == componentsMap
        cards == {c \in DOMAIN m : m[c].type = "Card"}
        below == [c \in cards |-> Below(m, c)]
        Found(id) == InnermostCard(m, rootNode, id)
    IN  /\ Below(m, rootNode) = DOMAIN m
        /\ \A id \in DOMAIN m :
              IF Found(id) = None THEN \A c \in cards : id \notin below[c]
              ELSE IsInnermost(m, below, Found(id), id)

Content(ids) ==
    {id \in ids : componentsMap[id].type \notin {"Card", "Column", "Row", "List"}}

(* If the root comes last, the tester draws the same texts, buttons, tabs and
   modals as the app does before the user does anything, expandable cards
   being taken apart by the one and not by the other. *)
BothDrawTheSame ==
    Last(list).id = rootNode =>
        Content(TesterDraws(componentsMap, rootNode)) \ {RerunButton}
            = Content(Drawn(componentsMap, rootNode, FirstTabs(list), {}))

(* A button starts at most one run, whatever becomes of the agent, of the
   demo and of the surface: loadingButtonIds is all that stops a second one. *)
OneRunPerButton ==
    \A i, j \in DOMAIN runs : runs[i].by = runs[j].by => i = j
=============================================================================
