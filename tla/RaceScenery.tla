---------------------------- MODULE RaceScenery ----------------------------
(***************************************************************************)
(* What stands along the planned route and answers the pointer: the zones  *)
(* of a route with their icons, the filters that show or hide the icons,   *)
(* the hovered and the clicked icon, the tooltip with its two timers; and  *)
(* the traffic-jam mask, which the error state floods.                     *)
(*                                                                         *)
(* An icon is named by its route and its type, one of a type on a route.   *)
(* The pointer is the icon that lies under it, drawn or not.               *)
(***************************************************************************)
EXTENDS Integers, Sequences

CONSTANTS
    Routes,  \* the types of zones along each route built: bounds their number
    None

WaterZone == "water_station"
MedicalZone == "medical"
CrowdZone == "crowd_zone"
PortableToiletZone == "portable_toilet"
SupportZones == {WaterZone, MedicalZone, PortableToiletZone}

Icons == UNION {{[route |-> n, type |-> t] : t \in Routes[n]} : n \in DOMAIN Routes}

VARIABLES
    built,     \* routes built so far
    zones,     \* ctx.zones
    picks,     \* ctx.iconPickMeshes
    pins,      \* icons whose pin is visible
    filters,   \* [support, entertainment]: _raceSupportVisible, _entertainmentVisible
    pointer,   \* [over, dirty]: the icon under the mouse, and mouseDirty
    hovered, focused,  \* ctx.hoveredIcon, currentFocusedIcon
    tip,       \* [on, visible, expanded, icon, hide, expand]: the tooltip and its timers
    jam,       \* trafficjamCanvas: [flooded, painted], None before the first use
    failure,   \* [error, foliage]: errorState, and whether the model is loaded
    removed    \* history: all routes were removed once

sceneryVars == <<built, zones, picks, pins, filters, pointer, hovered, focused, tip, jam,
                 failure, removed>>

Init ==
    /\ built = 0 /\ zones = {} /\ picks = {} /\ pins = {} /\ removed = FALSE
    /\ filters = [support |-> TRUE, entertainment |-> TRUE]
    /\ pointer = [over |-> None, dirty |-> FALSE] /\ hovered = None /\ focused = None
    /\ tip = [on |-> FALSE, visible |-> FALSE, expanded |-> FALSE, icon |-> None,
              hide |-> FALSE, expand |-> FALSE]
    /\ jam = None /\ failure = [error |-> FALSE, foliage |-> FALSE]

-----------------------------------------------------------------------------
(* The zones. *)

(* Slip: the icons stay pickable. *)
BuildRouteOverIcons ==
    /\ built < Len(Routes) /\ built' = built + 1
    /\ zones' = {}
    /\ UNCHANGED <<picks, pins, filters, pointer, hovered, focused, tip, jam, failure, removed>>
(* A route is built: the zones before it go, with their icons. *)
BuildRoute ==
    /\ built < Len(Routes) /\ built' = built + 1
    /\ picks' = picks \ zones /\ zones' = {}
    /\ UNCHANGED <<pins, filters, pointer, hovered, focused, tip, jam, failure, removed>>

(* getInfoIcon registers the icon with a hidden pin, registerZone the zone. *)
PlaceZone(type) ==
    LET zone == [route |-> built, type |-> type] IN
    /\ zone \in Icons \ picks
    /\ picks' = picks \cup {zone} /\ zones' = zones \cup {zone}
    /\ UNCHANGED <<built, pins, filters, pointer, hovered, focused, tip, jam, failure, removed>>

Allowed(type, f) == IF type \in SupportZones THEN f.support ELSE f.entertainment
(* applyZoneVisibility *)
Shown(f) == (pins \ picks) \cup {p \in picks : Allowed(p.type, f)}

(* The end of an import. *)
RouteBuilt ==
    /\ built > 0 /\ pins' = Shown(filters)
    /\ UNCHANGED <<built, zones, picks, filters, pointer, hovered, focused, tip, jam, failure,
                   removed>>

(* removeRoute forgets the zones, not their icons. *)
RemoveRoute ==
    /\ zones' = {} /\ removed' = TRUE
    /\ UNCHANGED <<built, picks, pins, filters, pointer, hovered, focused, tip, jam, failure>>

(* onFilterChanged: switching a filter off drops hover and focus. *)
Filter(name) ==
    LET f == [filters EXCEPT ![name] = ~@] IN
    /\ filters' = f /\ pins' = Shown(f)
    /\ hovered' = IF f[name] THEN hovered ELSE None
    /\ focused' = IF f[name] THEN focused ELSE None
    /\ UNCHANGED <<built, zones, picks, pointer, tip, jam, failure, removed>>

-----------------------------------------------------------------------------
(* The pointer. *)

Hit == IF pointer.over \in picks \cap pins THEN pointer.over ELSE None

MouseMove(icon) ==
    /\ pointer' = [over |-> icon, dirty |-> TRUE]
    /\ UNCHANGED <<built, zones, picks, pins, filters, hovered, focused, tip, jam, failure,
                   removed>>

(* The camera moves under a resting pointer. *)
CameraMoves(icon) ==
    /\ pointer' = [pointer EXCEPT !.over = icon]
    /\ UNCHANGED <<built, zones, picks, pins, filters, hovered, focused, tip, jam, failure,
                   removed>>

Click ==
    /\ focused' = Hit
    /\ UNCHANGED <<built, zones, picks, pins, filters, pointer, hovered, tip, jam, failure,
                   removed>>

(* Slip: an icon hovered again leaves the hide timer running. *)
TipForHiding(icon) ==
    IF icon = None
    THEN IF tip.icon = None THEN tip
         ELSE [tip EXCEPT !.visible = FALSE, !.expanded = FALSE, !.expand = FALSE,
                          !.hide = TRUE, !.icon = None]
    ELSE IF tip.icon = None
         THEN [tip EXCEPT !.on = TRUE, !.visible = TRUE, !.expanded = FALSE, !.icon = icon,
                          !.expand = TRUE]
         ELSE [tip EXCEPT !.icon = icon]
(* tickIconTooltip *)
TipFor(icon) ==
    IF icon = None
    THEN IF tip.icon = None THEN tip
         ELSE [tip EXCEPT !.visible = FALSE, !.expanded = FALSE, !.expand = FALSE,
                          !.hide = TRUE, !.icon = None]
    ELSE IF tip.icon = None
         THEN [on |-> TRUE, visible |-> TRUE, expanded |-> FALSE, icon |-> icon,
               hide |-> FALSE, expand |-> TRUE]
         ELSE [tip EXCEPT !.icon = icon]

(* A frame: the tooltip for the icon hovered so far, then the ray cast. *)
Frame ==
    /\ tip' = TipFor(IF hovered # None THEN hovered ELSE focused)
    /\ IF pointer.dirty /\ picks # {}
       THEN hovered' = Hit /\ pointer' = [pointer EXCEPT !.dirty = FALSE]
       ELSE UNCHANGED <<hovered, pointer>>
    /\ UNCHANGED <<built, zones, picks, pins, filters, focused, jam, failure, removed>>

HideTimer ==
    /\ tip.hide /\ tip' = [tip EXCEPT !.hide = FALSE, !.on = FALSE]
    /\ UNCHANGED <<built, zones, picks, pins, filters, pointer, hovered, focused, jam, failure,
                   removed>>

ExpandTimer ==
    /\ tip.expand /\ tip' = [tip EXCEPT !.expand = FALSE, !.expanded = TRUE]
    /\ UNCHANGED <<built, zones, picks, pins, filters, pointer, hovered, focused, jam, failure,
                   removed>>

-----------------------------------------------------------------------------
(* The traffic-jam mask. *)

NoJam == [flooded |-> FALSE, painted |-> FALSE]

PaintJam ==
    /\ jam' = [(IF jam = None THEN NoJam ELSE jam) EXCEPT !.painted = TRUE]
    /\ UNCHANGED <<built, zones, picks, pins, filters, pointer, hovered, focused, tip, failure,
                   removed>>

(* setError: once the model is there the whole mask is filled. *)
SetError(error) ==
    /\ failure' = [failure EXCEPT !.error = error]
    /\ jam' = IF failure.foliage THEN [flooded |-> error, painted |-> FALSE] ELSE jam
    /\ UNCHANGED <<built, zones, picks, pins, filters, pointer, hovered, focused, tip, removed>>

ModelLoads ==
    /\ ~failure.foliage /\ failure' = [failure EXCEPT !.foliage = TRUE]
    /\ UNCHANGED <<built, zones, picks, pins, filters, pointer, hovered, focused, tip, jam,
                   removed>>

Next ==
    \/ BuildRoute \/ (\E t \in SupportZones \cup {CrowdZone} : PlaceZone(t)) \/ RouteBuilt \/ RemoveRoute
    \/ \E name \in DOMAIN filters : Filter(name)
    \/ \E icon \in Icons \cup {None} : MouseMove(icon) \/ CameraMoves(icon)
    \/ Click \/ Frame \/ HideTimer \/ ExpandTimer
    \/ PaintJam \/ (\E error \in BOOLEAN : SetError(error)) \/ ModelLoads

Spec == Init /\ [][Next]_sceneryVars

-----------------------------------------------------------------------------
(* The tooltip of a hovered icon is on the screen and no timer of an       *)
(* earlier icon can take it away; an icon a filter hides is not hovered.   *)
TipIsTrue ==
    /\ tip.icon # None => tip.on /\ tip.visible /\ ~tip.hide
    /\ tip.expanded => tip.visible
    /\ {hovered, focused} \cap picks \subseteq pins

(* As long as routes only replace each other, what answers the pointer are *)
(* the icons of the zones there are.                                       *)
IconsAreTheZones == ~removed => picks = zones
=============================================================================
