----------------------------- MODULE ReplayDump -----------------------------
(***************************************************************************)
(* The capture of gateway traffic and its timed replay.  A dump is a       *)
(* sequence of rows                                                        *)
(*   [kind, event, tool, tick, status, wall, perf]                         *)
(* kind tells what the parsers tell apart: "raw" (a captured frame in      *)
(* base64), "thin" (wrapperType, event and an object as data), "nodata"    *)
(* (the same, data missing or no object) and "bad" (no JSON).  tick, wall  *)
(* and perf are Absent where the row has none.                             *)
(*                                                                         *)
(* The first half is what is computed of a dump before it plays, the       *)
(* second the player: frames leave in turns, a turn being one timer        *)
(* callback with every frame that follows it after a gap of zero.          *)
(***************************************************************************)
EXTENDS Integers, Sequences, SequencesExt, FiniteSetsExt

CONSTANTS
    Dumps,          \* the dumps that may be played
    TickInterval,   \* HARDCODED_SIM_TICK_INTERVAL_SEC in the unit of wall
    Interval,       \* intervalMs: the gap used where none is recorded
    CountdownLead,  \* COUNTDOWN_LEAD_MS
    Scales,         \* the speeds the user may choose
    Absent

-----------------------------------------------------------------------------
(* Rows. *)

(* The rows of some kinds, in their order. *)
OfKinds(rows, kinds) ==
    LET upto[n \in 0 .. Len(rows)] ==
            IF n = 0 THEN <<>>
            ELSE IF rows[n].kind \in kinds THEN Append(upto[n - 1], rows[n]) ELSE upto[n - 1]
    IN  upto[Len(rows)]

InboundRecords(rows) == OfKinds(rows, {"thin", "nodata"})
RawFrames(rows) == OfKinds(rows, {"raw"})
StampedRows(rows) == OfKinds(rows, {"raw", "thin"})

SimulationTools ==
    {"start_simulation", "prepare_simulation", "spawn_runners", "fire_start_gun",
     "advance_tick", "process_tick", "check_race_complete", "compile_results"}

IsSimTimed(r) ==
    r.kind = "thin" /\ r.event \in {"tool_start", "tool_end"} /\ r.tool \in SimulationTools

IsEndOf(r, tool) == r.kind = "thin" /\ r.event = "tool_end" /\ r.tool = tool

(* Two process_tick ends in a row belong to one burst unless their ticks are
   both recorded and differ. *)
InOneBurst(a, b) ==
    /\ IsEndOf(a, "process_tick") /\ IsEndOf(b, "process_tick")
    /\ a.tick = Absent \/ b.tick = Absent \/ a.tick = b.tick

IsStartGun(r) ==
    r.kind = "thin" /\ r.event \in {"tool_start", "tool_end"} /\ r.tool = "fire_start_gun"

IsRaceDone(r) == IsEndOf(r, "check_race_complete") /\ r.status = "race_complete"

(* From the first start gun to the last race_complete; empty when one of them
   is missing or they are out of order. *)
MarathonWindow(stamps) ==
    LET guns == {i \in DOMAIN stamps : IsStartGun(stamps[i])}
        ends == {i \in DOMAIN stamps : IsRaceDone(stamps[i])}
    IN  IF guns = {} \/ ends = {} THEN {} ELSE Min(guns)..Max(ends)

-----------------------------------------------------------------------------
(* The recorded pace: the gap after each stamped row, and whether the speed  *)
(* chosen by the user applies to it.                                         *)

RecordedGap(a, b) ==
    CASE a.wall # Absent /\ b.wall # Absent -> Max({0, b.wall - a.wall})
      [] (a.wall = Absent \/ b.wall = Absent) /\ a.perf # Absent /\ b.perf # Absent ->
            Max({0, b.perf - a.perf})
      [] OTHER -> Interval

ReplayGap(stamps, i) ==
    LET a == stamps[i]
        b == stamps[i + 1]
        gap == IF InOneBurst(a, b) THEN 0 ELSE RecordedGap(a, b)
        shortened == /\ IsSimTimed(a) \/ IsSimTimed(b)
                     /\ gap > TickInterval
                     /\ {i, i + 1} \subseteq MarathonWindow(stamps)
    IN  IF shortened THEN [ms |-> TickInterval, scaled |-> TRUE]
        ELSE [ms |-> gap, scaled |-> ~IsSimTimed(a) /\ ~IsSimTimed(b)]

RecordedGaps(rows) ==
    LET stamps == StampedRows(rows)
    IN  [i \in 1..(Len(stamps) - 1) |-> ReplayGap(stamps, i)]

-----------------------------------------------------------------------------
(* The tick-aligned schedule: the records sorted into the stretch before the *)
(* race, the ticks and the stretch after it.                                 *)

IsCompileResults(r) == r.event \in {"tool_start", "tool_end"} /\ r.tool = "compile_results"

SetsTick(r) ==
    r.event = "tool_end" /\ r.tool \in {"advance_tick", "process_tick"} /\ r.tick # Absent

(* The bucket of record i: the last tick set up to it, before the results.
   PreRace and PostRace stand for the strings "pre" and "post". *)
PreRace == -1
PostRace == -2
Bucket(records, i) ==
    LET set == {j \in 1..i : SetsTick(records[j])}
    IN  IF \E j \in 1..i : IsCompileResults(records[j]) THEN PostRace
        ELSE IF set = {} THEN PreRace ELSE records[Max(set)].tick

PostSegment == 13
SegmentId(bucket) ==
    CASE bucket = PreRace -> 0 [] bucket = PostRace -> PostSegment [] OTHER -> bucket + 1

(* Slip: a step to the next segment is one interval, ticks skipped or not. *)
SegmentGapFlat(s, t) ==
    IF s = t \/ (s = 0 /\ t = 1) \/ (s = 12 /\ t = PostSegment) \/ t < s
    THEN 0 ELSE TickInterval

SegmentGap(s, t) ==
    IF s = t \/ (s = 0 /\ t = 1) \/ (s = 12 /\ t = PostSegment) \/ t < s
    THEN 0 ELSE (t - s) * TickInterval

Segment(records, i) == SegmentId(Bucket(records, i))

(* The records by their segments; the sort is stable, so that within a segment
   they keep their order. *)
TickOrder(records) ==
    LET Before(i, j) == \/ Segment(records, i) < Segment(records, j)
                        \/ Segment(records, i) = Segment(records, j) /\ i < j
    IN  CHOOSE order \in [DOMAIN records -> DOMAIN records] :
            \A k, l \in DOMAIN records : k < l => Before(order[k], order[l])

AlignedGaps(records, order) ==
    [k \in 1..(Len(order) - 1) |->
        LET ms == SegmentGap(Segment(records, order[k]), Segment(records, order[k + 1]))
        IN  [ms |-> ms, scaled |-> ms > 0]]

-----------------------------------------------------------------------------
(* What replayAgentGatewayMsgNdjsonText makes of a dump: the frames in the   *)
(* order they leave, the gaps between them, and, tick aligned, the last      *)
(* frame of the stretch before the race, after which the browser may paint.  *)

Constant(n) == [k \in 1..(n - 1) |-> [ms |-> Interval, scaled |-> TRUE]]

RecordedPlan(rows) ==
    LET raw == RawFrames(rows)
        frames == IF raw = <<>> THEN InboundRecords(rows) ELSE raw
        gaps == RecordedGaps(rows)
    IN  [frames |-> frames, split |-> 0,
         gaps |-> IF Len(gaps) = Len(frames) - 1 THEN gaps ELSE Constant(Len(frames))]

AlignedPlan(rows) ==
    LET records == InboundRecords(rows)
        order == TickOrder(records)
        pre == {k \in DOMAIN order : Bucket(records, order[k]) = PreRace}
    IN  [frames |-> [k \in DOMAIN order |-> records[order[k]]],
         gaps |-> AlignedGaps(records, order),
         split |-> IF pre = {} \/ Max(pre) = Len(order) THEN 0 ELSE Max(pre)]

Plan(rows, aligned) ==
    IF aligned /\ RawFrames(rows) = <<>> /\ Len(InboundRecords(rows)) >= 2
    THEN AlignedPlan(rows) ELSE RecordedPlan(rows)

-----------------------------------------------------------------------------
(* The player. *)

VARIABLES
    dump, aligned,   \* what is played, and how
    plan,            \* the frames in the order they leave, and the gaps
    scale,
    steady,          \* the speed has not changed since the start
    clock,
    stamp,           \* the delivery time of every frame delivered
    due,             \* when the pending timer fires, or Absent
    completed, cancelled,
    countdownDue     \* when the cached countdown fires, or Absent

vars == <<dump, aligned, plan, scale, steady, clock, stamp, due, completed, cancelled,
          countdownDue>>

At == Len(stamp)

Wait(gap, speed) == IF gap.scaled THEN gap.ms \div speed ELSE gap.ms

(* The turn that starts with frame i ends before the first gap that needs a
   timer: a positive one, or the one after the stretch before the race. *)
TurnEnd(i) ==
    Min({k \in i..Len(plan.frames) :
            \/ k = Len(plan.frames) \/ k = plan.split
            \/ plan.gaps[k].ms > 0})

(* Slip: the part after the pre-race stretch is not armed when its gap is 0. *)
TurnLost(now) ==
    LET end == TurnEnd(At + 1)
        last == end = Len(plan.frames)
        ms == IF last THEN 0 ELSE Wait(plan.gaps[end], scale)
    IN  /\ stamp' = stamp \o [k \in 1..(end - At) |-> now]
        /\ completed' = last
        /\ due' = IF ms = 0 THEN Absent ELSE now + ms

(* Frames up to the end of the turn leave now; the timer of the gap after
   them is armed, or the recording is over. *)
Turn(now) ==
    LET end == TurnEnd(At + 1)
        last == end = Len(plan.frames)
    IN  /\ stamp' = stamp \o [k \in 1..(end - At) |-> now]
        /\ completed' = last
        /\ due' = IF last THEN Absent ELSE now + Wait(plan.gaps[end], scale)

(* The cached countdown leads the first tick, or the start gun, by the waits
   up to it at the speed chosen when the replay starts. *)
RaceStart(rows) ==
    LET records == InboundRecords(rows)
        ticks == {i \in DOMAIN records : IsEndOf(records[i], "process_tick")}
        guns == {i \in DOMAIN records : IsEndOf(records[i], "fire_start_gun")}
    IN  IF ticks # {} THEN Min(ticks) ELSE IF guns # {} THEN Min(guns) ELSE 1

(* The waits for the frames before a row. *)
WaitsBefore(gaps, start, speed) ==
    LET upto[n \in 0 .. start - 1] ==
            IF n = 0 THEN 0 ELSE upto[n - 1] + Wait(gaps[n], speed)
    IN  upto[start - 1]

(* Slip: every wait up to the race is divided by the speed. *)
CountdownAtScaled(rows, speed) ==
    LET start == RaceStart(rows)
        gaps == [k \in 1 .. Len(RecordedGaps(rows)) |->
                    [RecordedGaps(rows)[k] EXCEPT !.scaled = TRUE]]
    IN  IF start = 1 \/ Len(gaps) < start - 1 THEN Absent
        ELSE Max({0, WaitsBefore(gaps, start, speed) - CountdownLead})

CountdownAt(rows, speed) ==
    LET start == RaceStart(rows)
        gaps == RecordedGaps(rows)
    IN  IF start = 1 \/ Len(gaps) < start - 1 THEN Absent
        ELSE Max({0, WaitsBefore(gaps, start, speed) - CountdownLead})

Init ==
    /\ dump \in Dumps /\ aligned \in BOOLEAN
    /\ plan = Plan(dump, aligned)
    /\ scale \in Scales /\ steady = TRUE
    /\ clock = 0 /\ stamp = <<>> /\ due = Absent
    /\ completed = FALSE /\ cancelled = FALSE
    /\ countdownDue = CountdownAt(dump, scale)

Started == At > 0 \/ cancelled

Start ==
    /\ ~Started /\ plan.frames # <<>>
    /\ Turn(0)
    /\ UNCHANGED <<dump, aligned, plan, scale, steady, clock, cancelled, countdownDue>>

Fire ==
    /\ due # Absent
    /\ clock' = due
    /\ Turn(due)
    /\ UNCHANGED <<dump, aligned, plan, scale, steady, cancelled, countdownDue>>

(* The speed is read when a gap begins: the one that runs keeps its own. *)
SetScale(speed) ==
    /\ At > 0 /\ ~completed /\ speed # scale
    /\ scale' = speed /\ steady' = FALSE
    /\ UNCHANGED <<dump, aligned, plan, clock, stamp, due, completed, cancelled,
                   countdownDue>>

(* Slip: the timer between the two parts is left running. *)
CancelParts ==
    /\ At > 0 /\ ~completed /\ ~cancelled
    /\ cancelled' = TRUE /\ countdownDue' = Absent
    /\ due' = IF At = plan.split THEN due ELSE Absent
    /\ UNCHANGED <<dump, aligned, plan, scale, steady, clock, stamp, completed>>

(* The handle of the replay: the pending timer is cleared, whichever of the
   two parts of a tick-aligned replay armed it. *)
Cancel ==
    /\ At > 0 /\ ~completed /\ ~cancelled
    /\ cancelled' = TRUE /\ due' = Absent /\ countdownDue' = Absent
    /\ UNCHANGED <<dump, aligned, plan, scale, steady, clock, stamp, completed>>

Next == Start \/ Fire \/ Cancel \/ (\E speed \in Scales : SetScale(speed))

Spec == Init /\ [][Next]_vars /\ WF_vars(Start) /\ WF_vars(Fire)

-----------------------------------------------------------------------------
Tick(r) == IF SetsTick(r) THEN r.tick ELSE Absent

(* A dump of one race: no tick comes after the results, none is beyond the
   twelve a race has. *)
OneRace(records) ==
    /\ \A i, j \in DOMAIN records :
          i < j /\ IsCompileResults(records[i]) => ~SetsTick(records[j])
    /\ \A i \in DOMAIN records : SetsTick(records[i]) => records[i].tick \in 0..11

(* In a tick-aligned replay of one race at speed 1 the frames of ticks t and u
   leave (u - t) tick intervals apart, however many frames there are, whatever
   their order in the dump and whichever ticks it lacks
   (buildTickAlignedReplaySchedule, replayTickAlignedAfterPreRace). *)
TicksKeepTheirPace ==
    (/\ aligned /\ steady /\ scale = 1
     /\ RawFrames(dump) = <<>> /\ Len(plan.frames) > 1 /\ OneRace(InboundRecords(dump)))
    => \A j, k \in 1..At :
            Tick(plan.frames[j]) # Absent /\ Tick(plan.frames[k]) # Absent =>
                stamp[k] - stamp[j] =
                    (Tick(plan.frames[k]) - Tick(plan.frames[j])) * TickInterval

(* The countdown computed before a recorded replay starts ends when the race
   does start: it fires CountdownLead before the first tick is delivered, or at
   once when the race starts sooner, for every speed the user does not change
   on the way (scheduleCachedCountdown, replayAgentGatewayMessages). *)
CountdownMeetsTheRace ==
    LET start == RaceStart(dump) IN
    (/\ ~aligned /\ steady /\ countdownDue # Absent
     /\ RawFrames(dump) = <<>> /\ Len(RecordedGaps(dump)) = Len(plan.frames) - 1
     /\ At >= start)
    => countdownDue = Max({0, stamp[start] - CountdownLead})

(* A cancelled replay delivers nothing more and does not complete
   (replayAgentGatewayMessages, replayTickAlignedAfterPreRace). *)
CancelIsFinal == [][cancelled => UNCHANGED <<stamp, completed>>]_vars

(* A replay that is not cancelled delivers its last frame and says so
   (ReplayAgentGatewayMsgOptions.onComplete). *)
Completes ==
    (At > 0) ~> (cancelled \/ (completed /\ At = Len(plan.frames)))
=============================================================================
