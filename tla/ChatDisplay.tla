----------------------------- MODULE ChatDisplay -----------------------------
(***************************************************************************)
(* The chat thread of the agent screen: the cards it shows for the calls   *)
(* of tools, which a recording may end before it starts them, the banner   *)
(* that repeats an error every second, and the log tab beside it.          *)
(*                                                                         *)
(* A message is what the gateway client emitted.  Its texts and colours    *)
(* are left out; the messages the thread filters out change nothing.       *)
(***************************************************************************)
EXTENDS Integers, Sequences, SequencesExt, FiniteSets

CONSTANTS
    Tools,         \* the tools whose calls get a card
    Failing,       \* prepare_simulation, the tool whose failure is shown
    Speakers,      \* the names of the log's strip
    None,
    MaxItems,      \* bound: items of the thread
    MaxCalls,      \* bound: starts and ends of a tool between two resets
    MaxTimers,     \* bound: error timers ever started
    LastCount      \* the count at which an error timer stops: 15

VARIABLES
    items,       \* displayItems
    active,      \* activeToolCalls: tool |-> index into items
    pending,     \* pendingToolEnds: the tools whose end waits for a start
    securing,    \* isSecuringAgent
    working,     \* isAgentWorking
    lenient,     \* the active demo is 5a: a failure is only a warning
    timers,      \* every error interval started: its count, or None if cleared
    handle,      \* errorMessageInterval
    warnings,    \* timeouts that will turn the failed card into a warning
    rows,        \* the length of the log
    strip,       \* speakers
    calls        \* what this thread was told of each tool since it was cleared

threadVars == <<items, active, pending, calls>>
timerVars == <<timers, handle, warnings>>
logVars == <<rows, strip>>
vars == <<threadVars, securing, working, lenient, timerVars, logVars>>

NoCards == [t \in {} |-> 0]
NoCalls == [t \in Tools |-> <<>>]

Card(t) == [kind |-> "tool_call", tool |-> t, state |-> "open"]
Plain(kind) == [kind |-> kind, tool |-> None, state |-> "shown"]

Without(f, t) == [u \in DOMAIN f \ {t} |-> f[u]]

Init ==
    /\ items = <<>> /\ active = NoCards /\ pending = {} /\ calls = NoCalls
    /\ securing = FALSE /\ working = FALSE /\ lenient \in BOOLEAN
    /\ timers = <<>> /\ handle = None /\ warnings = 0
    /\ rows = 0 /\ strip = {}

-----------------------------------------------------------------------------
(* addDisplayItem: nothing is shown while the agent is being secured. *)
Shown(item) == IF securing THEN items ELSE Append(items, item)

Room == Len(items) < MaxItems /\ rows < MaxItems

(* The log takes every message, newest first. *)
Logged == rows' = rows + 1 /\ UNCHANGED strip

(* finishToolCall: the card is the item at the recorded index, if that is a
   card; the call is forgotten only then. *)
IsCard(shown, i) == i \in DOMAIN shown /\ shown[i].kind = "tool_call"

Finished(shown, i, state) ==
    IF IsCard(shown, i) THEN [shown EXCEPT ![i].state = state] ELSE shown

Noted(t, what) == [calls EXCEPT ![t] = Append(@, what)]

(* A message of the user, of the system, between agents, or a text; a2ui is
   the surface a tool returned. *)
Say(kind) ==
    /\ Room
    /\ items' = Shown(Plain(kind)) /\ Logged
    /\ UNCHANGED <<active, pending, calls, securing, working, lenient, timerVars>>

(* A model's last text is shown whether or not the agent is being secured. *)
ModelEnd ==
    /\ Room
    /\ items' = Append(items, Plain("message")) /\ Logged
    /\ UNCHANGED <<active, pending, calls, securing, working, lenient, timerVars>>

ModelError(mine) ==
    /\ Room
    /\ items' = Append(items, Plain("message")) /\ Logged
    /\ working' = (working /\ ~mine)
    /\ UNCHANGED <<active, pending, calls, securing, lenient, timerVars>>

(* The strip of the log names who runs. *)
RunStart(s) ==
    /\ rows < MaxItems
    /\ rows' = rows + 1 /\ strip' = strip \cup {s}
    /\ UNCHANGED <<threadVars, securing, working, lenient, timerVars>>

RunEnd(s, mine) ==
    /\ rows < MaxItems
    /\ rows' = rows + 1 /\ strip' = strip \ {s}
    /\ working' = (working /\ ~mine) /\ securing' = FALSE
    /\ UNCHANGED <<threadVars, lenient, timerVars>>

(* Slip: an end that came first is not looked for. *)
ToolStartAlone(t) ==
    /\ Room /\ Len(calls[t]) < MaxCalls
    /\ items' = Shown(Card(t))
    /\ active' = [u \in DOMAIN active \cup {t} |->
                      IF u = t THEN Len(items) + 1 ELSE active[u]]
    /\ calls' = Noted(t, IF securing THEN "hidden" ELSE "start") /\ Logged
    /\ UNCHANGED <<pending, securing, working, lenient, timerVars>>

(* The index is the length of the thread, even when the card is not shown; an
   end that came first resolves the card. *)
ToolStart(t) ==
    /\ Room /\ Len(calls[t]) < MaxCalls
    /\ LET i == Len(items) + 1
           shown == Shown(Card(t))
           opened == [u \in DOMAIN active \cup {t} |-> IF u = t THEN i ELSE active[u]]
       IN  /\ items' = IF t \in pending THEN Finished(shown, i, "done") ELSE shown
           /\ active' = IF t \in pending /\ IsCard(shown, i)
                        THEN Without(opened, t) ELSE opened
           /\ pending' = pending \ {t}
    /\ calls' = Noted(t, IF securing THEN "hidden" ELSE "start") /\ Logged
    /\ UNCHANGED <<securing, working, lenient, timerVars>>

(* A call that was started is finished; any other end is kept for its start. *)
ToolEnd(t) ==
    /\ Room /\ Len(calls[t]) < MaxCalls
    /\ IF t \in DOMAIN active
       THEN /\ items' = Finished(items, active[t], "done")
            /\ active' = IF IsCard(items, active[t]) THEN Without(active, t) ELSE active
            /\ UNCHANGED pending
       ELSE pending' = pending \cup {t} /\ UNCHANGED <<items, active>>
    /\ calls' = Noted(t, "end") /\ Logged
    /\ UNCHANGED <<securing, working, lenient, timerVars>>

(* set_financial_modeling_mode clears the thread, but not the ends it keeps. *)
FinancialMode ==
    /\ rows < MaxItems
    /\ items' = <<>> /\ active' = NoCards /\ calls' = NoCalls /\ Logged
    /\ UNCHANGED <<pending, securing, working, lenient, timerVars>>

-----------------------------------------------------------------------------
(* A tool failed.  Of the failing simulator the open card is marked, and an
   interval shows the error again every second; in demo 5a a second later the
   card becomes a warning, and that is all. *)
Interval ==
    /\ Len(timers) < MaxTimers
    /\ timers' = Append(timers, 0) /\ handle' = Len(timers) + 1

OtherFails ==
    /\ Room
    /\ items' = Shown(Plain("message")) /\ working' = FALSE /\ Logged
    /\ UNCHANGED <<active, pending, calls, securing, lenient, timerVars>>

SimulatorFails ==
    /\ Room /\ Failing \in DOMAIN active /\ IsCard(items, active[Failing])
    /\ ~lenient
    /\ LET failed == Finished(items, active[Failing], "error")
       IN  items' = IF securing THEN failed ELSE Append(failed, Plain("message"))
    /\ active' = Without(active, Failing)
    /\ working' = FALSE /\ Interval /\ Logged
    /\ UNCHANGED <<pending, calls, securing, lenient, warnings>>

SimulatorWarns ==
    /\ rows < MaxItems /\ Failing \in DOMAIN active /\ IsCard(items, active[Failing])
    /\ lenient /\ warnings < MaxTimers
    /\ warnings' = warnings + 1 /\ Logged
    /\ UNCHANGED <<threadVars, securing, working, lenient, timers, handle>>

(* The timeout marks the first card of the failing tool it finds. *)
Warn ==
    /\ warnings > 0
    /\ warnings' = warnings - 1
    /\ items' = LET failing == {i \in DOMAIN items : items[i].tool = Failing}
                IN  IF failing = {} THEN items
                    ELSE Finished(items, CHOOSE i \in failing : \A j \in failing : i <= j,
                                  "warning")
    /\ UNCHANGED <<active, pending, calls, securing, working, lenient, timers,
                   handle, logVars>>

(* An interval shows the error again.  Past its last count it clears the
   interval of the handle, which may be a later one. *)
ErrorAgain(i) ==
    /\ timers[i] # None /\ Len(items) < MaxItems
    /\ items' = Shown(Plain("message"))
    /\ timers' = LET n == timers[i]
                     stopped == IF n >= LastCount /\ handle # None
                                THEN [timers EXCEPT ![handle] = None] ELSE timers
                 IN  IF stopped[i] = None \/ n > LastCount THEN stopped
                     ELSE [stopped EXCEPT ![i] = n + 1]
    /\ UNCHANGED <<active, pending, calls, securing, working, lenient, handle,
                   warnings, logVars>>

-----------------------------------------------------------------------------
(* What the screen does to the thread: the user sends, a demo begins or is
   reset, the mode is toggled (which leaves the log alone), and the agent of a
   security demo is told its policy. *)
Send ==
    /\ ~working /\ Room
    /\ working' = TRUE
    /\ items' = Shown(Plain("message")) /\ Logged
    /\ UNCHANGED <<active, pending, calls, securing, lenient, timerVars>>

Clear(demoIsLenient, toggled) ==
    /\ items' = <<>> /\ active' = NoCards /\ pending' = {} /\ calls' = NoCalls
    /\ securing' = FALSE /\ lenient' = demoIsLenient
    /\ timers' = IF handle = None THEN timers ELSE [timers EXCEPT ![handle] = None]
    /\ IF toggled THEN UNCHANGED logVars ELSE rows' = 0 /\ strip' = {}
    /\ UNCHANGED <<working, handle, warnings>>

Secure ==
    /\ ~securing
    /\ securing' = TRUE
    /\ UNCHANGED <<threadVars, working, lenient, timerVars, logVars>>

Next ==
    \/ \E kind \in {"message", "system", "a2ui"} : Say(kind)
    \/ ModelEnd
    \/ \E mine \in BOOLEAN : ModelError(mine)
    \/ \E s \in Speakers : RunStart(s)
    \/ \E s \in Speakers, mine \in BOOLEAN : RunEnd(s, mine)
    \/ \E t \in Tools : ToolStart(t)
    \/ \E t \in Tools : ToolEnd(t)
    \/ FinancialMode
    \/ OtherFails
    \/ SimulatorFails
    \/ SimulatorWarns
    \/ Warn
    \/ \E i \in DOMAIN timers : ErrorAgain(i)
    \/ Send
    \/ \E demoIsLenient, toggled \in BOOLEAN : Clear(demoIsLenient, toggled)
    \/ Secure

Spec == Init /\ [][Next]_vars

(* A tool that was called once, in either order of its two messages, has a
   card that is no longer open: neither the thread clearing itself, nor the
   indexes of cards that were not shown, leave one spinning. *)
CallsResolve ==
    \A t \in Tools :
        calls[t] \in {<<"start", "end">>, <<"end", "start">>} =>
            \E i \in DOMAIN items : items[i].tool = t /\ items[i].state # "open"
=============================================================================
