----------------------------- MODULE LogBuffer -----------------------------
(***************************************************************************)
(* The log of the tester: entries wait in a queue for the next frame of    *)
(* the browser, which moves them all to the page, evicts the oldest when   *)
(* there are too many, and keeps the view at the end for a user who was    *)
(* there.  Entries are numbered in the order in which they are appended.   *)
(***************************************************************************)
EXTENDS Integers, Sequences, SequencesExt

CONSTANTS
    MaxEntries,     \* entries on the page beyond which some are evicted
    EvictionBatch,  \* how many are evicted at once
    MaxAppended     \* bound: entries ever appended

VARIABLES
    queue,      \* entries that wait for a frame
    rafId,      \* a frame has been asked for and not come (rafId is not null)
    frame,      \* the browser will call flush
    shown,      \* entries on the page, oldest first
    dropped,    \* entries evicted since the log was cleared
    badge,      \* the count of dropped entries on the page, Hidden when it is not shown
    near,       \* userIsNearBottom: the view follows the log
    first,      \* the first entry since the log was cleared
    appended    \* entries appended

logVars == <<queue, rafId, frame, shown, dropped, badge, near, first, appended>>

Hidden == -1

Init ==
    /\ queue = <<>> /\ rafId = FALSE /\ frame = FALSE /\ shown = <<>>
    /\ dropped = 0 /\ badge = Hidden /\ near = TRUE
    /\ first = 1 /\ appended = 0

(* append *)
Add ==
    /\ appended < MaxAppended
    /\ appended' = appended + 1
    /\ queue' = Append(queue, appended')
    /\ rafId' = TRUE
    /\ frame' = (frame \/ ~rafId)
    /\ UNCHANGED <<shown, dropped, badge, near, first>>

(* flush: one batch is evicted, however many entries came at once. *)
Flush ==
    LET page == shown \o queue
        evicted == IF Len(page) <= MaxEntries THEN 0
                   ELSE IF EvictionBatch < Len(page) THEN EvictionBatch ELSE Len(page)
    IN  /\ frame
        /\ rafId' = FALSE /\ frame' = FALSE /\ queue' = <<>>
        /\ shown' = SubSeq(page, evicted + 1, Len(page))
        /\ dropped' = dropped + evicted
        /\ badge' = IF evicted > 0 THEN dropped' ELSE badge
        /\ UNCHANGED <<near, first, appended>>

(* Slip: the frame that was asked for is cancelled but not forgotten. *)
ClearKeepsFrame ==
    /\ shown' = <<>> /\ queue' = <<>> /\ dropped' = 0 /\ badge' = Hidden
    /\ frame' = FALSE
    /\ first' = appended + 1
    /\ UNCHANGED <<rafId, near, appended>>

(* The Clear History button: the page is emptied and the buffer reset, but
   not what is known of the user's place in the log. *)
Clear ==
    /\ shown' = <<>> /\ queue' = <<>> /\ dropped' = 0 /\ badge' = Hidden
    /\ rafId' = FALSE /\ frame' = FALSE
    /\ first' = appended + 1
    /\ UNCHANGED <<near, appended>>

(* The view moves, away from the end or back to it: by the user, by the
   button that scrolls to the end, or because the page got shorter. *)
Scroll ==
    /\ near' = ~near
    /\ near => shown # <<>>
    /\ UNCHANGED <<queue, rafId, frame, shown, dropped, badge, first, appended>>

Next == Add \/ Flush \/ Clear \/ Scroll

Spec == Init /\ [][Next]_logVars /\ WF_logVars(Flush)

-----------------------------------------------------------------------------
(* Nothing that was logged since the log was cleared is lost but what was
   evicted: the page and the queue are the entries after those the count of
   dropped entries says, in order, and a queue that is not empty has a frame
   on the way.  append, flush and reset share the queue and the frame. *)
LogIsWhole ==
    /\ shown \o queue = [i \in 1 .. appended - (first + dropped) + 1 |->
                             first + dropped + i - 1]
    /\ (queue # <<>>) => frame
    /\ badge \in {Hidden, dropped}
=============================================================================
