------------------------------ MODULE Console ------------------------------
(***************************************************************************)
(* The tester's console: it watches every message of the gateway through   *)
(* one socket, lists the sessions it spawned, pulses the ticked ones, and  *)
(* answers the buttons that agents draw.  Of the gateway there is what     *)
(* creates and ends sessions, and what the console is told of it.  The log *)
(* has a module of its own.                                                *)
(***************************************************************************)
EXTENDS Integers, Sequences, FiniteSets

CONSTANTS
    Sessions,    \* ids the gateway gives to sessions
    Odd,         \* those of an agent type the search field may ask for
    MaxWire,     \* bound: messages on the way to the console
    MaxButtons,  \* bound: buttons drawn
    MaxResets,   \* bound: resets of the environment, and endings unheard of
    MaxDrops     \* bound: times the socket is lost

VARIABLES
    socket,      \* "opening", "open", or "none" (monitorSocket is null)
    retry,       \* a timer will connect again
    wire,        \* messages on the way to the console
    tracked,     \* activeSessions
    search,      \* the sessions the search field lets through
    rows,        \* sessions on the page
    ticked,      \* rows whose box is ticked
    spawned,     \* sessions in spawn responses on the way
    resetting,   \* answers to resets on the way: TRUE for a success that
                 \* flushed the sessions
    buttons,     \* on the page, in order: the session, whether it still works
    pulses,      \* sessions of the last pulse
    actions,     \* buttons whose action was sent
    live,        \* the gateway's: its sessions
    issued,      \* the gateway's: the sessions it ever created
    resets, drops,
    excused      \* sessions that ended unheard by the console

consoleVars == <<socket, retry, wire, tracked, search, rows, ticked, spawned,
                 resetting, buttons, pulses, actions, live, issued, resets, drops,
                 excused>>

Init ==
    /\ socket = "opening" /\ retry = FALSE /\ wire = <<>>
    /\ tracked = {} /\ search = Sessions /\ rows = {} /\ ticked = {}
    /\ spawned = {} /\ resetting = <<>>
    /\ buttons = <<>> /\ pulses = {} /\ actions = {}
    /\ live = {} /\ issued = {} /\ resets = 0 /\ drops = 0 /\ excused = {}

(* renderSessionList: every row is drawn anew, with its box ticked. *)
Render(all, filter) ==
    /\ rows' = all \cap filter
    /\ ticked' = all \cap filter

Clear ==
    /\ tracked' = {}
    /\ Render({}, search)

-----------------------------------------------------------------------------
(* The monitor socket. *)

(* ws.onopen *)
Open ==
    /\ socket = "opening"
    /\ socket' = "open"
    /\ UNCHANGED <<retry, wire, tracked, search, rows, ticked, spawned,
                   resetting, buttons, pulses, actions, live, issued, resets, drops,
                   excused>>

(* Slip: nobody calls connectMonitor again. *)
CloseForGood ==
    /\ socket \in {"opening", "open"} /\ drops < MaxDrops
    /\ socket' = "none" /\ wire' = <<>> /\ drops' = drops + 1
    /\ excused' = IF "environment_reset" \in {wire[i].event : i \in DOMAIN wire}
                  THEN excused \cup (tracked \ live) ELSE excused
    /\ UNCHANGED <<retry, tracked, search, rows, ticked, spawned, resetting,
                   buttons, pulses, actions, live, issued, resets>>

(* ws.onclose: what was on the way is lost with the connection. *)
Close ==
    /\ socket \in {"opening", "open"} /\ drops < MaxDrops
    /\ socket' = "none" /\ retry' = TRUE /\ wire' = <<>> /\ drops' = drops + 1
    /\ excused' = IF "environment_reset" \in {wire[i].event : i \in DOMAIN wire}
                  THEN excused \cup (tracked \ live) ELSE excused
    /\ UNCHANGED <<tracked, search, rows, ticked, spawned, resetting, buttons,
                   pulses, actions, live, issued, resets>>

(* The timer of ws.onclose calls connectMonitor. *)
Connect ==
    /\ retry
    /\ retry' = FALSE /\ socket' = "opening"
    /\ UNCHANGED <<wire, tracked, search, rows, ticked, spawned, resetting,
                   buttons, pulses, actions, live, issued, resets, drops, excused>>

(* Buttons that act: of a native surface and of each block of a text that
   are a single component.  The buttons of a surfaceUpdate have lost their
   handler, and what cannot be parsed is not drawn. *)
ButtonsOf(m) ==
    [i \in 1 .. Len(SelectSeq(m.surfaces, LAMBDA s : s = "component")) |->
        [session |-> m.session, works |-> TRUE]]

(* ws.onmessage: events an agent's message box is drawn for. *)
HearPulse(m) ==
    /\ m.event = "pulse"
    /\ buttons' = buttons \o ButtonsOf(m)
    /\ UNCHANGED <<tracked, rows, ticked>>

(* Slip: the map is left alone and the list drawn again. *)
HearResetOnly(m) ==
    /\ m.event = "environment_reset"
    /\ Render(tracked, search)
    /\ UNCHANGED <<tracked, buttons>>

(* An environment_reset, whatever was reset. *)
HearReset(m) ==
    /\ m.event = "environment_reset"
    /\ Clear
    /\ UNCHANGED buttons

(* A crowd_reaction, a broadcast or any other event: at most a line of the log. *)
HearOther(m) ==
    /\ m.event = "other"
    /\ UNCHANGED <<tracked, rows, ticked, buttons>>

Hear ==
    /\ socket = "open" /\ wire # <<>>
    /\ wire' = Tail(wire)
    /\ HearPulse(Head(wire)) \/ HearReset(Head(wire)) \/ HearOther(Head(wire))
    /\ UNCHANGED <<socket, retry, search, spawned, resetting, pulses, actions,
                   live, issued, resets, drops, excused>>

-----------------------------------------------------------------------------
(* The list of sessions. *)

(* spawnAgent, its request served: the gateway creates the sessions.  That of
   another page, or one that fails after it, is one never answered here. *)
Serve(new) ==
    /\ new # {} /\ new \cap issued = {}
    /\ issued' = issued \cup new /\ live' = live \cup new
    /\ spawned' = spawned \cup {new}
    /\ UNCHANGED <<socket, retry, wire, tracked, search, rows, ticked, resetting,
                   buttons, pulses, actions, resets, drops, excused>>

(* spawnAgent, its answer: the sessions are tracked, even those a reset has
   flushed in the meantime. *)
Spawned(new) ==
    /\ new \in spawned
    /\ spawned' = spawned \ {new}
    /\ tracked' = tracked \cup new
    /\ Render(tracked \cup new, search)
    /\ excused' = excused \cup (new \ live)
    /\ UNCHANGED <<socket, retry, wire, search, resetting, buttons, pulses,
                   actions, live, issued, resets, drops>>

(* The input event of the search field. *)
Search(filter) ==
    /\ filter \in {Sessions, Odd} /\ filter # search
    /\ search' = filter
    /\ Render(tracked, filter)
    /\ UNCHANGED <<socket, retry, wire, tracked, spawned, resetting, buttons,
                   pulses, actions, live, issued, resets, drops, excused>>

(* A click on a box, on All or on None. *)
Tick ==
    /\ ticked' \in {ticked \cup {s} : s \in rows} \cup {ticked \ {s} : s \in rows}
                   \cup {rows, {}}
    /\ ticked' # ticked
    /\ UNCHANGED <<socket, retry, wire, tracked, search, rows, spawned,
                   resetting, buttons, pulses, actions, live, issued, resets, drops,
                   excused>>

(* Slip: the list is not drawn again. *)
StopSelectedSilently ==
    /\ ticked # {}
    /\ tracked' = tracked \ ticked
    /\ UNCHANGED <<socket, retry, wire, search, rows, ticked, spawned, resetting,
                   buttons, pulses, actions, live, issued, resets, drops, excused>>

(* Terminate Selected: the console stops tracking; the gateway is not told. *)
StopSelected ==
    /\ tracked' = tracked \ ticked
    /\ Render(tracked \ ticked, search)
    /\ UNCHANGED <<socket, retry, wire, search, spawned, resetting, buttons,
                   pulses, actions, live, issued, resets, drops, excused>>

Answered(answer, mine) ==
    resetting' = IF mine THEN Append(resetting, answer) ELSE resetting

(* Reset Environment, its request served: the event is broadcast whatever was
   asked to be reset.  The console hears it while it listens, and not when
   Redis refuses the broadcast, an error that is only logged. *)
ServeReset(flush, mine) ==
    /\ resets < MaxResets /\ resets' = resets + 1
    /\ live' = IF flush THEN {} ELSE live
    /\ \/ /\ socket = "open" /\ Len(wire) < MaxWire
          /\ wire' = Append(wire, [event |-> "environment_reset"])
          /\ UNCHANGED excused
       \/ /\ excused' = excused \cup (tracked \ live')
          /\ UNCHANGED wire
    /\ Answered(flush, mine)
    /\ UNCHANGED <<socket, retry, tracked, search, rows, ticked, spawned,
                   buttons, pulses, actions, issued, drops>>

(* One step of the reset fails, the flush of the sessions halfway or one after
   it: the answer is an error and nothing is broadcast. *)
ResetFails(left, mine) ==
    /\ left \subseteq live
    /\ resets < MaxResets /\ resets' = resets + 1
    /\ live' = left
    /\ excused' = excused \cup (tracked \ live')
    /\ Answered(FALSE, mine)
    /\ UNCHANGED <<socket, retry, wire, tracked, search, rows, ticked, spawned,
                   buttons, pulses, actions, issued, drops>>

(* Sessions end and nobody is told: all by /sessions/flush, some by the
   reaper or when their entries expire. *)
EndUnheard(gone) ==
    /\ gone # {} /\ gone \subseteq live
    /\ resets < MaxResets /\ resets' = resets + 1
    /\ live' = live \ gone
    /\ excused' = excused \cup (tracked \cap gone)
    /\ UNCHANGED <<socket, retry, wire, tracked, search, rows, ticked, spawned,
                   resetting, buttons, pulses, actions, issued, drops>>

(* Reset Environment, its answer: an error changes nothing. *)
ResetDone ==
    /\ resetting # <<>>
    /\ resetting' = Tail(resetting)
    /\ \/ Head(resetting) /\ Clear
       \/ ~Head(resetting) /\ UNCHANGED <<tracked, rows, ticked>>
    /\ UNCHANGED <<socket, retry, wire, search, spawned, buttons, pulses,
                   actions, live, issued, resets, drops, excused>>

-----------------------------------------------------------------------------
(* What the console sends. *)

(* sendTargetedBroadcast: to the ticked rows, if the socket is open. *)
Broadcast ==
    /\ ticked # {} /\ socket = "open"
    /\ pulses' = ticked
    /\ UNCHANGED <<socket, retry, wire, tracked, search, rows, ticked, spawned,
                   resetting, buttons, actions, live, issued, resets, drops, excused>>

(* A button and sendA2UIAction: it stops working first, even if the action is
   then refused because the socket is closed. *)
Press(i) ==
    /\ buttons[i].works
    /\ buttons' = [buttons EXCEPT ![i].works = FALSE]
    /\ actions' = IF socket = "open" THEN actions \cup {i} ELSE actions
    /\ UNCHANGED <<socket, retry, wire, tracked, search, rows, ticked, spawned,
                   resetting, pulses, live, issued, resets, drops, excused>>

(* An agent speaks, and the gateway's hub sends it to every observer. *)
AgentSays(m) ==
    /\ socket = "open" /\ Len(wire) < MaxWire
    /\ wire' = Append(wire, m)
    /\ UNCHANGED <<socket, retry, tracked, search, rows, ticked, spawned,
                   resetting, buttons, pulses, actions, live, issued, resets, drops,
                   excused>>

Surfaces == {<<>>, <<"update">>, <<"broken", "component">>}

Next ==
    \/ Open \/ Close \/ Connect \/ Hear
    \/ \E new \in SUBSET Sessions : Serve(new) \/ Spawned(new)
    \/ \E filter \in {Sessions, Odd} : Search(filter)
    \/ Tick \/ StopSelected
    \/ \E flush, mine \in BOOLEAN : ServeReset(flush, mine)
    \/ \E left \in SUBSET live, mine \in BOOLEAN : ResetFails(left, mine)
    \/ \E gone \in SUBSET live : EndUnheard(gone)
    \/ ResetDone \/ Broadcast
    \/ \E i \in DOMAIN buttons : Press(i)
    \/ \E s \in live, b \in Surfaces :
          /\ Len(buttons) < MaxButtons
          /\ AgentSays([event |-> "pulse", session |-> s, surfaces |-> b])
    \/ AgentSays([event |-> "other"])

Fairness == WF_consoleVars(Connect) /\ WF_consoleVars(Open)

Spec == Init /\ [][Next]_consoleVars

FairSpec == Spec /\ Fairness

-----------------------------------------------------------------------------
(* The page shows the tracked sessions the search lets through: whoever
   changes activeSessions or the search, the list is drawn again, and a box
   that is ticked is one of a session still tracked.  A pulse goes to rows of
   the page, not to activeSessions. *)
RowsShowTracked == rows = tracked \cap search /\ ticked \subseteq rows

(* A session the gateway no longer has is listed only as long as the console
   could not know: the reset it was flushed by is on the way, as an event or
   as an answer, or was lost with the socket; or the session ended before the
   answer of its spawn came, by a reset that failed or was not broadcast, or
   in a way no page is told of. *)
GhostsHaveACause ==
    \/ tracked \ live \subseteq excused
    \/ "environment_reset" \in {wire[i].event : i \in DOMAIN wire}
    \/ TRUE \in {resetting[i] : i \in DOMAIN resetting}

(* A socket that closes is replaced: connectMonitor is called again. *)
Reconnects == (socket = "none") ~> (socket = "open" \/ socket = "opening")
=============================================================================
