------------------------------ MODULE FilterMenu ------------------------------
(***************************************************************************)
(* The menu of filters: what the map shows beside the race, which camera   *)
(* looks and whether it orbits.  The menu tells the view by events and     *)
(* keeps its state in the browser's storage; an item of two options turns  *)
(* in the next animation frame.                                            *)
(***************************************************************************)
EXTENDS Integers, FiniteSets

CONSTANTS
    None,
    Toggles,    \* filters that are on or off: entertainment, race-support
    MaxTurns    \* bound: clicks that wait for their frame

Items == Toggles \cup {"camera", "panning"}

VARIABLES
    orbit,      \* orbitCamera of the active demo
    items,      \* of each filter: [active, option]
    view,       \* of each filter: what the view was last told, or None
    stored,     \* what the storage holds, or None
    turns,      \* clicks on the orbit that wait for their frame
    mounted     \* ngOnInit has run

menuVars == <<orbit, items, view, stored, turns, mounted>>

Panning(on) == [active |-> on, option |-> IF on THEN 0 ELSE 1]

Fresh(on) ==
    [id \in Items |-> CASE id = "panning" -> Panning(on)
                        [] id = "camera" -> [active |-> TRUE, option |-> 0]
                        [] OTHER -> [active |-> FALSE, option |-> 0]]

Untold == [id \in Items |-> None]

Init ==
    /\ orbit = FALSE /\ items = Fresh(orbit) /\ view = Untold
    /\ stored = None /\ turns = 0 /\ mounted = FALSE

(* ngOnInit: the toggles are as they were left; the camera and the orbit are
   not.  The view is told of all. *)
Mount ==
    /\ ~mounted /\ mounted' = TRUE
    /\ items' = [id \in Items |-> IF stored # None /\ id \in Toggles
                                  THEN stored[id] ELSE items[id]]
    /\ view' = items'
    /\ UNCHANGED <<orbit, stored, turns>>

(* The page is loaded again, with Sandbox, which does not orbit. *)
Reload ==
    /\ mounted
    /\ orbit' = FALSE /\ items' = Fresh(FALSE) /\ view' = Untold
    /\ turns' = 0 /\ mounted' = FALSE
    /\ UNCHANGED stored

(* Slip: the menu follows the demo without telling the view. *)
DemoChangesUntold(on) ==
    /\ orbit' = on
    /\ items' = [items EXCEPT !["panning"] = Panning(on)]
    /\ UNCHANGED <<view, stored, turns, mounted>>

(* The effect on the active demo; nothing is told that is so already. *)
DemoChanges(on) ==
    /\ orbit' = on
    /\ items' = [items EXCEPT !["panning"] = Panning(on)]
    /\ view' = IF items' = items THEN view ELSE [view EXCEPT !["panning"] = Panning(on)]
    /\ UNCHANGED <<stored, turns, mounted>>

(* toggleFilter of a filter of one option *)
Toggle(id) ==
    /\ mounted
    /\ items' = [items EXCEPT ![id].active = ~@]
    /\ view' = [view EXCEPT ![id] = items'[id]]
    /\ stored' = items'
    /\ UNCHANGED <<orbit, turns, mounted>>

(* toggleFilter of the orbit: the click, *)
ClickPanning ==
    /\ mounted /\ turns < MaxTurns
    /\ turns' = turns + 1
    /\ UNCHANGED <<orbit, items, view, stored, mounted>>

(* and its frame, which turns whatever option is shown by then. *)
TurnPanning ==
    /\ turns > 0 /\ turns' = turns - 1
    /\ items' = [items EXCEPT !["panning"] = Panning(items["panning"].option = 1)]
    /\ view' = [view EXCEPT !["panning"] = items'["panning"]]
    /\ stored' = items'
    /\ UNCHANGED <<orbit, mounted>>

(* selectCamera *)
SelectCamera(i) ==
    /\ mounted
    /\ items' = [items EXCEPT !["camera"].option = i]
    /\ view' = [view EXCEPT !["camera"] = items'["camera"]]
    /\ stored' = items'
    /\ UNCHANGED <<orbit, turns, mounted>>

(* A hotkey or the operator's console: the view is told, the menu is not. *)
KeySelectsCamera(i) ==
    /\ mounted
    /\ view' = [view EXCEPT !["camera"] = [active |-> TRUE, option |-> i]]
    /\ UNCHANGED <<orbit, items, stored, turns, mounted>>

Next ==
    \/ Mount \/ Reload \/ ClickPanning \/ TurnPanning
    \/ \E on \in BOOLEAN : DemoChanges(on)
    \/ \E id \in Toggles : Toggle(id)
    \/ \E i \in 0 .. 2 : SelectCamera(i)
    \/ \E i \in 0 .. 3 : KeySelectsCamera(i)

Spec == Init /\ [][Next]_menuVars

(* The view does what the menu shows, however clicks, their frames and changes
   of demo interleave; of the camera, which hotkeys move behind the menu's
   back, this is not so.  And what was stored last is what the toggles show,
   after the page was loaded again too. *)
MenuIsTrue ==
    mounted =>
        /\ \A id \in Items \ {"camera"} : view[id] = items[id]
        /\ stored # None => \A id \in Toggles : stored[id] = items[id]
=============================================================================
