---------------------------- MODULE GatewayTwin ----------------------------
(***************************************************************************)
(* The gateway's twin: a stand-in that answers the gateway's requests from *)
(* three values, the sessions, the simulations and a counter.  A request   *)
(* is handled by itself: the runtime that reads the state before and       *)
(* writes the changes after it is external.  Requests that only read (the  *)
(* lists, health, configuration, preflight and unknown paths) change       *)
(* nothing and are left out.                                               *)
(***************************************************************************)
EXTENDS Integers, Sequences, FiniteSets

CONSTANTS
    None,          \* a field that is missing
    Types,         \* agent types
    Simulations,   \* simulation ids that callers choose
    Targets,       \* targets a reset knows
    Unknown,       \* a target it does not know
    MaxIds,        \* bound: sessions ever created
    MaxTicks       \* bound: ticks of a replay that is asked for

VARIABLES
    sessions,      \* gateway:sessions, type and simulation of each id
    simulations,   \* gateway:simulations
    counter,       \* gateway:counter
    issued,        \* how often each id has been given
    answer         \* the last answer: status, and what it lists

twinVars == <<sessions, simulations, counter, issued, answer>>

Init ==
    /\ sessions = <<>> /\ simulations = {} /\ counter = 0
    /\ issued = [n \in 1 .. MaxIds |-> 0]
    /\ answer = [status |-> 0]

Given(ids) == [n \in 1 .. MaxIds |-> IF n \in ids THEN issued[n] + 1 ELSE issued[n]]

With(s, ids, record) ==
    [n \in DOMAIN s \cup ids |-> IF n \in ids THEN record ELSE s[n]]

Refuse ==
    /\ answer' = [status |-> 400]
    /\ UNCHANGED <<sessions, simulations, counter, issued>>

-----------------------------------------------------------------------------
(* POST /api/v1/sessions *)
PostSession(type, user, simulation) ==
    IF type = None \/ ~user THEN Refuse
    ELSE
        /\ counter < MaxIds
        /\ counter' = counter + 1
        /\ sessions' = With(sessions, {counter'}, [type |-> type, simulation |-> simulation])
        /\ simulations' = simulations \cup ({simulation} \ {None})
        /\ issued' = Given({counter'})
        /\ answer' = [status |-> 201, ids |-> {counter'}]

(* POST /api/v1/sessions/flush: the sessions only. *)
FlushSessions ==
    /\ sessions' = <<>>
    /\ answer' = [status |-> 200, count |-> Cardinality(DOMAIN sessions)]
    /\ UNCHANGED <<simulations, counter, issued>>

(* POST /api/v1/spawn: a simulation without a name gets one of the next
   session's number; an agent without a type refuses the whole request. *)
Spawn(agents, name) ==
    LET simulation == IF name = None THEN counter + 1 ELSE name
        first(i) == counter + 1 + (IF i = 1 THEN 0 ELSE agents[1].count)
        ids(i) == first(i) .. first(i) + agents[i].count - 1
        all == UNION {ids(i) : i \in DOMAIN agents}
    IN  IF agents = <<>> \/ \E i \in DOMAIN agents : agents[i].type = None THEN Refuse
        ELSE
            /\ counter + Cardinality(all) <= MaxIds
            /\ sessions' = [n \in DOMAIN sessions \cup all |->
                   IF n \notin all THEN sessions[n]
                   ELSE [type |-> agents[CHOOSE i \in DOMAIN agents : n \in ids(i)].type,
                         simulation |-> simulation]]
            /\ simulations' = simulations \cup {simulation}
            /\ counter' = counter + Cardinality(all)
            /\ issued' = Given(all)
            /\ answer' = [status |-> 201, ids |-> all]

(* Slip: the counter starts again. *)
ResetCounterToo(targets) ==
    IF Unknown \in targets THEN Refuse
    ELSE
        /\ \/ /\ targets = {} \/ "sessions" \in targets
              /\ sessions' = <<>> /\ simulations' = {} /\ counter' = 0
           \/ /\ targets # {} /\ "sessions" \notin targets
              /\ UNCHANGED <<sessions, simulations, counter>>
        /\ answer' = [status |-> 200, count |-> Cardinality(DOMAIN sessions)]
        /\ UNCHANGED issued

(* POST /api/v1/environment/reset: no target stands for all; the counter goes
   on, and only with the sessions the simulations go. *)
Reset(targets) ==
    IF Unknown \in targets THEN Refuse
    ELSE
        /\ \/ /\ targets = {} \/ "sessions" \in targets
              /\ sessions' = <<>> /\ simulations' = {}
           \/ /\ targets # {} /\ "sessions" \notin targets
              /\ UNCHANGED <<sessions, simulations>>
        /\ answer' = [status |-> 200, count |-> Cardinality(DOMAIN sessions)]
        /\ UNCHANGED <<counter, issued>>

-----------------------------------------------------------------------------
(* Progress is counted in tenths of a tick's even share of the course, so
   that the course is 10 * ticks long. *)
Course(ticks) == 10 * ticks
Bases == {8, 12}       \* basePace: a fifth slower or faster
Jitters == {-3, 3}     \* jitter: three tenths either way
DefaultField == 2      \* runners of a replay without sessions: eight in the code

(* Slip: runners run on. *)
AheadRunningOn(p, pace, ticks) == p + pace

Ahead(p, pace, ticks) ==
    IF p + pace > Course(ticks) THEN Course(ticks) ELSE p + pace

(* buildReplay, one runner: its place after each tick. *)
Trail(base, jitter, ticks) ==
    LET at[t \in 0 .. ticks] ==
            IF t = 0 THEN 0
            ELSE LET pace == base + jitter[t]
                 IN  Ahead(at[t - 1], IF pace < 0 THEN 0 ELSE pace, ticks)
    IN  [t \in 1 .. ticks |-> at[t]]

(* GET /api/v1/replay: of the first sessions, or of made up ones when there
   are none; asking for none or nonsense is asking for as many as there are. *)
Replay(runners, ticks, base, jitter) ==
    LET known == DOMAIN sessions
        want == IF runners > 0 THEN runners
                ELSE IF known # {} THEN Cardinality(known) ELSE DefaultField
        ids == IF known = {} THEN 1 .. want
               ELSE {n \in known : Cardinality({k \in known : k <= n}) <= want}
    IN  /\ answer' = [status |-> 200, ticks |-> ticks, of |-> ids,
                      trail |-> Trail(base, jitter, ticks)]
        /\ UNCHANGED <<sessions, simulations, counter, issued>>

Batches ==
    LET agents == [type : Types \cup {None}, count : 0 .. 2]
    IN  {<<>>} \cup {<<a>> : a \in agents} \cup {<<a, b>> : a \in agents, b \in agents}

Next ==
    \/ \E type \in Types \cup {None}, user \in BOOLEAN, s \in Simulations \cup {None} :
          PostSession(type, user, s)
    \/ FlushSessions
    \/ \E agents \in Batches, s \in Simulations \cup {None} : Spawn(agents, s)
    \/ \E targets \in SUBSET (Targets \cup {Unknown}) : Reset(targets)
    \/ \E runners \in 0 .. 1, ticks \in 1 .. MaxTicks, base \in Bases :
          \E jitter \in [1 .. ticks -> Jitters] : Replay(runners, ticks, base, jitter)

Spec == Init /\ [][Next]_twinVars

-----------------------------------------------------------------------------
(* No id is given to two sessions, flushed ones and reset ones included, and
   the simulation of every session is listed: the sessions are cleared by a
   flush without the simulations, and by a reset with them. *)
BooksAgree ==
    /\ \A n \in 1 .. MaxIds : issued[n] <= 1
    /\ \A n \in DOMAIN sessions :
          /\ n <= counter
          /\ sessions[n].simulation \in simulations \cup {None}

(* A replay shows runners of the sessions there are, on their way and never
   backwards or beyond the end, and brings each at least half way. *)
ReplayIsARace ==
    "trail" \in DOMAIN answer =>
        LET trail == answer.trail
        IN  /\ answer.of # {} /\ (DOMAIN sessions # {} => answer.of \subseteq DOMAIN sessions)
            /\ \A t \in 1 .. answer.ticks :
                  /\ trail[t] <= Course(answer.ticks)
                  /\ t > 1 => trail[t - 1] <= trail[t]
            /\ 2 * trail[answer.ticks] >= Course(answer.ticks)
=============================================================================
