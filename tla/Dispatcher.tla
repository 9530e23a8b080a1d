----------------------------- MODULE Dispatcher -----------------------------
(***************************************************************************)
(* The dispatchers of one agent type (agents/utils/dispatcher.py): several *)
(* instances in subscriber mode, the spawn lists and the channels they     *)
(* read, the pokes a balancer brings to any one of them, and the gateway   *)
(* and the simulator as far as they feed them.                             *)
(*                                                                         *)
(* An instance handles events in three places at once: the reader of the   *)
(* channels, the reader of the spawn lists, and the HTTP endpoint, which   *)
(* runs in another thread.  What a handler does between two awaits is one  *)
(* step.  One request at a time is at the endpoint of an instance.         *)
(***************************************************************************)
EXTENDS Naturals, FiniteSets, Sequences

CONSTANTS
  Instance, Session, Simulation, None,
  SimOf,       \* the simulation a session is spawned for, or None
  AgentType,   \* the name of the type, which a client may give as a target
  Pulse,       \* the broadcasts that may be sent, each once
  SeenLimit,   \* 1000 in the code
  MaxResets, MaxBreaks,
  Faults       \* of "registry", "subscribe", "relay", "gate"

Global  == "simulation:broadcast"
Handler == {"pubsub", "queue", "http"}

\* A fresh id: an instance relays what one of its handlers read at most once.
RelayId(i, h, name) == <<"relay", name, i, h>>

ASSUME DispatcherAssumption ==
  /\ SimOf \in [Session -> Simulation \cup {None}]
  /\ AgentType \notin Session /\ None \notin Nat \cup Simulation
  /\ Pulse \subseteq [name: STRING, from: {"gun", "simulator", "client"}, hasId: BOOLEAN,
                      sim: Simulation \cup {None}, targets: SUBSET (Session \cup {AgentType}),
                      again: SUBSET Session, excluded: SUBSET Session]
  \* Targets are a list: again are those it names a second time.
  /\ \A p \in Pulse : p.again \subseteq p.targets
  /\ \A p, q \in Pulse : p.name = q.name => p = q
  /\ \A p \in Pulse : IF p.from = "client" THEN p.sim = None
                      ELSE p.sim \in Simulation /\ p.targets = {} /\ p.hasId
  \* A simulation has a channel of its own, None is no id of an event, and
  \* "action" names the actions.
  /\ Global \notin Simulation
  /\ \A p \in Pulse : /\ p.name # "action" /\ None # <<"pulse", p.name>>
                      /\ \A i \in Instance, h \in Handler : None # RelayId(i, h, p.name)
  /\ SeenLimit \in Nat /\ MaxResets \in Nat /\ MaxBreaks \in Nat

VARIABLES
  spawned, published, acted, ended, resets, breaks,  \* what was asked for so far
  queue,       \* spawn events in the lists of the type, by session
  pokes,       \* requests on their way to some instance, where they may never arrive
  mail,        \* what the channels brought to an instance and it has not read
  registered,  \* sessions in the simulation registry
  active, mapped, subs, seen,  \* active_sessions, session_simulation_map,
               \* _simulation_subscriptions, _seen_events
  link, heard, todo,  \* the listeners, what the connection is subscribed to,
               \* and what it has still to subscribe to after a reconnection
  deaf,        \* the channels it failed to subscribe to
  work,        \* what each handler of an instance awaits
  chores,      \* calls remove_session scheduled on the loop
  runs, turns, locks,  \* runs triggered and not over, in the order of their
               \* numbers; how often the table of locks was cleared
  forgotten, got, twice, owed, spread, cut, late, missed  \* for the properties

asked     == <<spawned, published, acted, ended, resets, breaks>>
wire      == <<queue, pokes, mail, registered>>
sessions  == <<active, mapped, subs, seen>>
links     == <<link, heard, todo, deaf>>
running   == <<runs, turns, locks>>
delivered == <<got, twice, owed>>
causes    == <<forgotten, spread, cut, late, missed>>
vars == <<asked, wire, sessions, links, work, chores, running, delivered, causes>>

Idle == [at |-> "idle"]

-----------------------------------------------------------------------------
(* Events. *)

SpawnEvent(s)  == [type |-> "spawn_agent", id |-> <<"spawn", s>>, sid |-> s]
ResetEvent     == [type |-> "environment_reset", id |-> <<"reset", resets>>]
EndEvent(x)    == [type |-> "end_simulation", id |-> <<"end", x>>, sim |-> x]
ActionEvent(s) == [type |-> "a2ui_action", id |-> <<"action", s>>, sid |-> s,
                   name |-> "action"]
BroadcastEvent(p) ==
  [type |-> "broadcast", id |-> IF p.hasId THEN <<"pulse", p.name>> ELSE None,
   name |-> p.name, sim |-> p.sim, targets |-> p.targets, again |-> p.again,
   excluded |-> p.excluded, relayed |-> FALSE]

\* What is relayed names a target once.
Relay(i, h, e, unmatched) ==
  [e EXCEPT !.id = RelayId(i, h, e.name), !.relayed = TRUE, !.targets = unmatched, !.again = {}]

ChannelOf(e) == IF e.sim = None THEN Global ELSE e.sim

Publish(channel, e) ==
  mail' = [i \in Instance |-> IF channel \in heard[i] THEN Append(mail[i], e) ELSE mail[i]]

-----------------------------------------------------------------------------
(* Sets of sessions. *)

Of(i, x) == {s \in mapped[i] : SimOf[s] = x}

\* to_trigger: a simulation id goes before the targets.
Matched(i, e) ==
  (CASE e.sim # None -> active[i] \cap Of(i, e.sim)
     [] e.sim = None /\ e.targets # {} /\ AgentType \notin e.targets -> active[i] \cap e.targets
     [] OTHER -> active[i]) \ e.excluded

\* The sessions that to_trigger has twice, when e means them: the list of targets
\* is read as it was sent.
Repeated(e) == IF e.type = "broadcast" /\ AgentType \notin e.targets THEN e.again ELSE {}

\* What the broadcast e owes: the sessions it means in the instances it reaches.
Owes(e, reached) == UNION {{<<s, e.name>> : s \in Matched(i, e)} : i \in reached}

Duplicate(i, e) == e.id # None /\ e.id \in seen[i]

\* _seen_events after e, of which any may be dropped when it is too large.
Remembered(i, e) ==
  LET all == seen[i] \cup {e.id}
  IN  IF e.id = None THEN {seen[i]}
      ELSE IF Cardinality(all) > SeenLimit THEN {all \ {old} : old \in all} ELSE {all}

-----------------------------------------------------------------------------
(* Runs: _trigger_agent_run schedules them, _locked_trigger takes the lock
   of the session, made on first use; asyncio's lock is first come first
   served.  A lock is known by its session and by how often the table was
   cleared before it was made. *)

Scheduled(S, no) ==
  {[no |-> no, sid |-> s, lock |-> None, on |-> FALSE, live |-> TRUE] : s \in S}

Trigger(i, T, e) ==
  LET again == T \cap Repeated(e)
  IN  /\ runs' = [runs EXCEPT ![i] = @ \cup Scheduled(T, turns[i]) \cup Scheduled(again, turns[i] + 1)]
      /\ turns' = [turns EXCEPT ![i] = IF T = {} THEN @ ELSE @ + 2]
      /\ got' = [got EXCEPT ![i] = @ \cup {<<s, e.name>> : s \in T}]
      /\ twice' = [twice EXCEPT ![i] = @ \cup (got[i] \cap {<<s, e.name>> : s \in T})
                                       \cup {<<s, e.name>> : s \in again}]

Holding(r, lock, on) ==
  [no |-> r.no, sid |-> r.sid, lock |-> lock, on |-> on, live |-> r.live]

\* Runs that hold a lock or wait for it.
InLine(i, sid, lock) == {r \in runs[i] : r.sid = sid /\ r.lock = lock}

\* Slip: a run does not wait for the lock.
GetsLockAnyhow(i, r) == TRUE

GetsLock(i, r) == InLine(i, r.sid, locks[i]) = {}

\* A run starts: it takes the lock if nobody has it, or waits for it.
Begin(i, r) ==
  /\ r.lock = None
  /\ \A q \in runs[i] : q.lock = None => r.no <= q.no
  /\ runs' = [runs EXCEPT ![i] = (@ \ {r}) \cup {Holding(r, locks[i], GetsLock(i, r))}]
  /\ UNCHANGED <<asked, wire, sessions, links, work, chores, locks, turns, delivered, causes>>

\* A run ends, or is cancelled where it awaits; the first in line gets its lock.
Finish(i, r) ==
  /\ r.on \/ ~r.live
  /\ LET line == InLine(i, r.sid, r.lock) \ {r}
         next == IF r.on THEN {q \in line : \A p \in line : q.no <= p.no} ELSE {}
     IN  runs' = [runs EXCEPT ![i] = (@ \ ({r} \cup next)) \cup
                                     {Holding(q, q.lock, TRUE) : q \in next}]
  /\ UNCHANGED <<asked, wire, sessions, links, work, chores, locks, turns, delivered, causes>>

\* Slip: a reset leaves the runs alone.
CancelledNone(i) == runs[i]

\* The runs a reset cancels: all of them.
Cancelled(i) ==
  {[no |-> r.no, sid |-> r.sid, lock |-> r.lock, on |-> r.on, live |-> FALSE] : r \in runs[i]}

-----------------------------------------------------------------------------
(* _process_event, until it returns or awaits. *)

Remember(i, e, also) ==
  \E kept \in Remembered(i, e) :
    /\ seen' = [seen EXCEPT ![i] = kept \cup also]
    /\ forgotten' = [forgotten EXCEPT ![i] = @ \cup ((seen[i] \cup {e.id}) \ (kept \cup {None}))]

Await(i, h, w) == work' = [work EXCEPT ![i][h] = w]

HandleReset(i, h, e) ==
  /\ e.type = "environment_reset"
  /\ runs' = [runs EXCEPT ![i] = Cancelled(i)]
  /\ active' = [active EXCEPT ![i] = {}]
  /\ locks' = [locks EXCEPT ![i] = @ + 1]
  /\ seen' = [seen EXCEPT ![i] = {}]
  /\ forgotten' = [forgotten EXCEPT ![i] = @ \cup seen[i] \cup {e.id}]
  /\ owed' = {o \in owed : o[1] \notin active[i]}
  /\ Await(i, h, [at |-> "clear"])
  /\ UNCHANGED <<registered, mapped, subs, links, chores, turns, got, twice, spread, cut, late, missed>>

\* The session is active at once; the registry and the channel follow.
HandleSpawn(i, h, e) ==
  /\ e.type = "spawn_agent"
  /\ Remember(i, e, {})
  /\ active' = [active EXCEPT ![i] = @ \cup {e.sid}]
  /\ IF SimOf[e.sid] = None THEN UNCHANGED <<mapped, work>>
     ELSE /\ mapped' = [mapped EXCEPT ![i] = @ \cup {e.sid}]
          /\ Await(i, h, [at |-> "register", sid |-> e.sid])
  /\ UNCHANGED <<registered, subs, links, chores, running, delivered, spread, cut, late, missed>>

\* Slip: a broadcast is relayed only when none of its targets is here.
RelaysOnlyAll(e, here) == e.targets # {} /\ here = {} /\ ~e.relayed

\* Targets that are not here are relayed, once, before the others are run.
Relays(e, here) == e.targets \ here # {} /\ ~e.relayed

\* Slip: an instance does not remember the ids of its relays.
MarkedNone(i, h, e, here) == {}

\* The id of the relay is remembered, so that it is not read again here.
Marked(i, h, e, here) == IF Relays(e, here) THEN {RelayId(i, h, e.name)} ELSE {}

HandleBroadcast(i, h, e) ==
  /\ e.type = "broadcast"
  /\ LET here == Matched(i, e)
     IN  /\ Remember(i, e, Marked(i, h, e, here))
         /\ owed' = IF e.targets = {} \/ e.relayed THEN owed
                    ELSE owed \cup Owes(e, {i} \cup {k \in Instance : Global \in heard[k]})
         /\ IF Relays(e, here)
            THEN /\ Await(i, h, [at |-> "relay", event |-> e, to |-> here])
                 /\ UNCHANGED <<runs, turns, got, twice>>
            ELSE Trigger(i, here, e) /\ UNCHANGED work
  /\ UNCHANGED <<registered, active, mapped, subs, links, chores, locks, spread, cut, late,
                 missed>>

HandleEnd(i, h, e) ==
  /\ e.type = "end_simulation"
  /\ Remember(i, e, {})
  /\ LET victims == Of(i, e.sim)
         leaves == victims # {} /\ e.sim \in subs[i]
     IN  /\ active' = [active EXCEPT ![i] = @ \ victims]
         /\ mapped' = [mapped EXCEPT ![i] = @ \ victims]
         /\ subs' = [subs EXCEPT ![i] = IF leaves THEN @ \ {e.sim} ELSE @]
         /\ chores' = [chores EXCEPT ![i] = @ \cup ({"unregister"} \X victims) \cup
                         (IF leaves THEN {<<"unsubscribe", e.sim>>} ELSE {})]
         /\ owed' = {o \in owed : o[1] \notin victims}
  /\ UNCHANGED <<registered, links, work, running, got, twice, spread, cut, late, missed>>

\* An action for a session of another instance is dropped.
HandleAction(i, h, e) ==
  /\ e.type = "a2ui_action"
  /\ Remember(i, e, {})
  /\ Trigger(i, {e.sid} \cap active[i], e)
  /\ UNCHANGED <<registered, active, mapped, subs, links, work, chores, locks, owed,
                 spread, cut, late, missed>>

ProcessEvent(i, h, e) ==
  IF Duplicate(i, e)
  THEN UNCHANGED <<registered, sessions, links, work, chores, running, delivered, causes>>
  ELSE \/ HandleReset(i, h, e) \/ HandleSpawn(i, h, e) \/ HandleBroadcast(i, h, e)
       \/ HandleEnd(i, h, e) \/ HandleAction(i, h, e)

-----------------------------------------------------------------------------
(* The three places where an instance reads events. *)

TakeMail(i) ==
  /\ link[i] = "up" /\ work[i]["pubsub"] = Idle /\ mail[i] # <<>>
  /\ ProcessEvent(i, "pubsub", Head(mail[i]))
  /\ mail' = [mail EXCEPT ![i] = Tail(@)]
  /\ UNCHANGED <<asked, queue, pokes>>

\* The lists are sharded by session: any of them may be the next.
TakeSpawn(i) ==
  /\ link[i] # "down" /\ work[i]["queue"] = Idle
  /\ \E s \in queue :
       /\ ProcessEvent(i, "queue", SpawnEvent(s))
       /\ queue' = queue \ {s}
  /\ UNCHANGED <<asked, pokes, mail>>

TakePoke(i) ==
  /\ work[i]["http"] = Idle
  /\ \E e \in pokes :
       /\ ProcessEvent(i, "http", e)
       /\ pokes' = pokes \ {e}
  /\ UNCHANGED <<asked, queue, mail>>

-----------------------------------------------------------------------------
(* What a handler does when its await returns. *)

\* The registry has the session; only now is the channel subscribed to, by
\* this handler or, without a connection, by the next one.
Registered(i, h) ==
  /\ work[i][h].at = "register"
  /\ LET s == work[i][h].sid
         x == SimOf[s]
     IN  /\ registered' \in {registered \cup {s}} \cup
                            (IF "registry" \in Faults THEN {registered} ELSE {})
         /\ subs' = [subs EXCEPT ![i] = @ \cup {x}]
         /\ Await(i, h, IF x \in subs[i] \/ link[i] = "down" THEN Idle
                        ELSE [at |-> "subscribe", sim |-> x])
  /\ UNCHANGED <<asked, queue, pokes, mail, active, mapped, seen, links, chores, running,
                 delivered, causes>>

\* A subscription that fails is logged and not tried again: the session stays
\* active, and its simulation noted.
Subscribed(i, h) ==
  /\ work[i][h].at = "subscribe"
  /\ \/ heard' = [heard EXCEPT ![i] = @ \cup {work[i][h].sim}] /\ UNCHANGED deaf
     \/ /\ "subscribe" \in Faults /\ UNCHANGED heard
        /\ deaf' = [deaf EXCEPT ![i] = @ \cup {work[i][h].sim}]
  /\ Await(i, h, Idle)
  /\ UNCHANGED <<asked, wire, sessions, link, todo, chores, running, delivered, causes>>

\* The relay is published, or failed; the sessions chosen before are run.
Relayed(i, h) ==
  /\ work[i][h].at = "relay"
  /\ LET w == work[i][h]
     IN  /\ \/ Publish(ChannelOf(w.event), Relay(i, h, w.event, w.event.targets \ w.to)) /\ UNCHANGED owed
            \/ /\ "relay" \in Faults /\ UNCHANGED mail
               /\ owed' = {o \in owed : o[2] # w.event.name}
         /\ Trigger(i, w.to, w.event)
         /\ late' = late \cup {<<i, s>> : s \in w.to \ active[i]}
  /\ Await(i, h, Idle)
  /\ UNCHANGED <<asked, queue, pokes, registered, sessions, links, chores, locks,
                 forgotten, spread, cut, missed>>

Cleared(i, h) ==
  /\ work[i][h].at = "clear"
  /\ registered' = {}
  /\ Await(i, h, Idle)
  /\ UNCHANGED <<asked, queue, pokes, mail, sessions, links, chores, running, delivered, causes>>

\* What remove_session left to the loop.
Chore(i) ==
  /\ \E c \in chores[i] :
       /\ chores' = [chores EXCEPT ![i] = @ \ {c}]
       /\ registered' = IF c[1] = "unregister" THEN registered \ {c[2]} ELSE registered
       /\ heard' = IF c[1] = "unsubscribe" THEN [heard EXCEPT ![i] = @ \ {c[2]}] ELSE heard
  /\ UNCHANGED <<asked, queue, pokes, mail, sessions, link, todo, deaf, work, running,
                 delivered, causes>>

-----------------------------------------------------------------------------
(* The listeners: when one ends, the other is cancelled where it awaits, and
   both are started again on a new connection. *)

Break(i, first) ==
  LET other == IF first = "pubsub" THEN "queue" ELSE "pubsub"
  IN  /\ first \in {"pubsub", "queue"} /\ breaks < MaxBreaks
      /\ link[i] # "down" /\ work[i][first] = Idle
      /\ link' = [link EXCEPT ![i] = "down"]
      /\ heard' = [heard EXCEPT ![i] = {}]
      /\ todo' = [todo EXCEPT ![i] = {}]
      /\ deaf' = [deaf EXCEPT ![i] = {}]
      /\ mail' = [mail EXCEPT ![i] = <<>>]
      /\ work' = [work EXCEPT ![i][other] = Idle,
                              ![i]["http"] = IF @.at = "subscribe" THEN Idle ELSE @]
      /\ cut' = IF work[i][other].at = "register"
                THEN cut \cup {<<i, work[i][other].sid>>} ELSE cut
      \* a spawn event popped for the reader that is cancelled is lost
      /\ \E lost \in SUBSET queue :
           /\ Cardinality(lost) <= IF other = "queue" /\ work[i]["queue"] = Idle THEN 1 ELSE 0
           /\ queue' = queue \ lost
      /\ owed' = {}
      /\ breaks' = breaks + 1
      /\ UNCHANGED <<acted, spawned, published, ended, resets, pokes, registered, sessions, chores,
                     running, got, twice, forgotten, spread, late, missed>>

\* Slip: a new connection is subscribed to the global channel only.
RejoinsNone(i) == {}

\* The channels taken up again: those noted before the connection broke.
Rejoins(i) == subs[i]

Connect(i) ==
  /\ link[i] = "down"
  /\ link' = [link EXCEPT ![i] = IF Rejoins(i) = {} THEN "up" ELSE "joining"]
  /\ heard' = [heard EXCEPT ![i] = {Global}]
  /\ todo' = [todo EXCEPT ![i] = Rejoins(i)]
  /\ UNCHANGED <<asked, wire, sessions, deaf, work, chores, running, delivered, causes>>

Rejoin(i) ==
  /\ \E x \in todo[i] :
       /\ heard' = [heard EXCEPT ![i] = @ \cup {x}]
       /\ todo' = [todo EXCEPT ![i] = @ \ {x}]
  /\ link' = [link EXCEPT ![i] = IF todo'[i] = {} THEN "up" ELSE @]
  /\ UNCHANGED <<asked, wire, sessions, deaf, work, chores, running, delivered, causes>>

-----------------------------------------------------------------------------
(* The gateway and the simulator. *)

\* POST /spawn queues an event per session and pokes the type with the first of
\* them; POST /sessions queues one.
Spawn(S, poked) ==
  /\ S # {} /\ S \cap spawned = {}
  /\ poked \subseteq S /\ Cardinality(poked) <= 1 /\ (poked = {} => Cardinality(S) = 1)
  /\ spawned' = spawned \cup S
  /\ queue' = queue \cup S
  /\ pokes' = pokes \cup {SpawnEvent(s) : s \in poked}
  /\ UNCHANGED <<acted, published, ended, resets, breaks, mail, registered, sessions, links, work,
                 chores, running, delivered, causes>>

Runners(x) == {s \in spawned : SimOf[s] = x}
Fired(x) == \E p \in published : p.from = "gun" /\ p.sim = x

\* fire_start_gun waits until the registry has every runner, or a minute.
FireStartGun(p) ==
  /\ p.from = "gun" /\ Runners(p.sim) # {}
  /\ LET ready == Runners(p.sim) \subseteq registered
         hearers == UNION {active[i] : i \in {k \in Instance : p.sim \in heard[k]}}
     IN  /\ ready \/ "gate" \in Faults
         /\ missed' = IF ready THEN missed \cup (Runners(p.sim) \ hearers) ELSE missed

\* publish_to_runners.
PublishPulse(p) ==
  /\ p \in Pulse \ published /\ p.from # "client"
  /\ IF p.from = "gun" THEN FireStartGun(p) ELSE Fired(p.sim) /\ UNCHANGED missed
  /\ published' = published \cup {p}
  /\ Publish(p.sim, BroadcastEvent(p))
  /\ owed' = owed \cup Owes(BroadcastEvent(p), {i \in Instance : p.sim \in heard[i]})
  /\ UNCHANGED <<acted, spawned, ended, resets, breaks, queue, pokes, registered, sessions, links,
                 work, chores, running, got, twice, forgotten, spread, cut, late>>

\* A client's broadcast to sessions that are known goes to their type by a
\* poke, any other one to the global channel and by a poke as well.
SendPulse(p) ==
  /\ p \in Pulse \ published /\ p.from = "client"
  /\ published' = published \cup {p}
  /\ pokes' = pokes \cup {BroadcastEvent(p)}
  /\ \/ p.targets \cap spawned # {} /\ UNCHANGED <<mail, spread>>
     \/ Publish(Global, BroadcastEvent(p)) /\ spread' = spread \cup {p.name}
  /\ UNCHANGED <<spawned, acted, ended, resets, breaks, queue, registered, sessions, links,
                 work, chores, running, delivered, forgotten, cut, late, missed>>

SendAction(s) ==
  /\ s \in spawned \ acted
  /\ acted' = acted \cup {s}
  /\ pokes' = pokes \cup {ActionEvent(s)}
  /\ UNCHANGED <<spawned, published, ended, resets, breaks, queue, mail, registered, sessions,
                 links, work, chores, running, delivered, causes>>

\* stop_race_collector.
EndSimulation(x) ==
  /\ Fired(x) /\ x \notin ended
  /\ ended' = ended \cup {x}
  /\ Publish(x, EndEvent(x))
  /\ UNCHANGED <<acted, spawned, published, resets, breaks, queue, pokes, registered, sessions,
                 links, work, chores, running, delivered, causes>>

\* POST /environment/reset, of everything: the lists are deleted, and the
\* notification goes out twice, under one id, if the type had sessions.
ResetEnvironment ==
  /\ resets < MaxResets
  /\ resets' = resets + 1
  /\ queue' = {}
  /\ pokes' = IF spawned = {} THEN pokes ELSE pokes \cup {ResetEvent}
  /\ Publish(Global, ResetEvent)
  /\ UNCHANGED <<acted, spawned, published, ended, breaks, registered, sessions, links, work, chores,
                 running, delivered, causes>>

-----------------------------------------------------------------------------
Init ==
  /\ spawned = {} /\ published = {} /\ acted = {} /\ ended = {} /\ resets = 0 /\ breaks = 0
  /\ queue = {} /\ pokes = {} /\ registered = {}
  /\ mail = [i \in Instance |-> <<>>]
  /\ active = [i \in Instance |-> {}] /\ mapped = [i \in Instance |-> {}]
  /\ subs = [i \in Instance |-> {}] /\ seen = [i \in Instance |-> {}]
  /\ link = [i \in Instance |-> "up"] /\ heard = [i \in Instance |-> {Global}]
  /\ todo = [i \in Instance |-> {}] /\ deaf = [i \in Instance |-> {}]
  /\ work = [i \in Instance |-> [h \in Handler |-> Idle]]
  /\ chores = [i \in Instance |-> {}]
  /\ runs = [i \in Instance |-> {}] /\ turns = [i \in Instance |-> 0]
  /\ locks = [i \in Instance |-> 0]
  /\ forgotten = [i \in Instance |-> {}] /\ got = [i \in Instance |-> {}]
  /\ twice = [i \in Instance |-> {}] /\ owed = {} /\ spread = {}
  /\ cut = {} /\ late = {} /\ missed = {}

InstanceNext(i) ==
  \/ TakeMail(i) \/ TakeSpawn(i) \/ TakePoke(i)
  \/ \E h \in Handler : \/ Registered(i, h) \/ Subscribed(i, h)
                        \/ Relayed(i, h) \/ Cleared(i, h)
  \/ Chore(i)
  \/ \E r \in runs[i] : Begin(i, r) \/ Finish(i, r)
  \/ \E h \in Handler : Break(i, h)
  \/ Connect(i) \/ Rejoin(i)

ClientNext ==
  \/ \E S \in SUBSET Session : \E poked \in SUBSET S : Spawn(S, poked)
  \/ \E p \in Pulse : PublishPulse(p) \/ SendPulse(p)
  \/ \E s \in Session : SendAction(s)
  \/ \E x \in Simulation : EndSimulation(x)
  \/ ResetEnvironment

Next == ClientNext \/ \E i \in Instance : InstanceNext(i)

Spec == Init /\ [][Next]_vars

-----------------------------------------------------------------------------
(* Properties. *)

(* In an instance at most one run of a session goes on that was not cancelled,
   and no run overtakes one triggered before it, although a reset drops the
   table of locks while runs hold them (dispatcher.py:355-362, 576-587). *)
RunsAreSerial ==
  \A i \in Instance : \A r, q \in runs[i] :
    r # q /\ r.sid = q.sid /\ r.on /\ r.live /\ q.live => ~q.on /\ q.no > r.no

(* An active session of a simulation that goes on hears its channel whenever
   the instance is connected and at rest, however connections broke and
   simulations ended; but a session whose spawn was cut short between its
   activation and the subscription may never, and after a subscription that
   failed no session of the simulation does until the next connection
   (dispatcher.py:267-271, 374-394). *)
HearsItsSimulation ==
  \A i \in Instance : \A s \in active[i] :
    LET x == SimOf[s]
    IN  /\ x \in Simulation \ ended /\ link[i] = "up" /\ <<i, s>> \notin cut /\ x \notin deaf[i]
        /\ \A h \in Handler : work[i][h].at \notin {"register", "subscribe"}
        => x \in heard[i]

(* A run that was not cancelled is of a session that is active; or its
   simulation ended, whose runs are left to end; or it was triggered after
   the wait for a relay during which its session was dropped
   (dispatcher.py:355-360, 498, 519-522, 535-540). *)
StraysHaveACause ==
  \A i \in Instance : \A r \in runs[i] :
    r.live => r.sid \in active[i] \/ SimOf[r.sid] \in ended \/ <<i, r.sid>> \in late

(* A broadcast runs each session it means once.  In an instance it runs a
   session again only when an id of it was forgotten meanwhile, when its list of
   targets names the session twice, or when it was published as well as poked
   and has no id or is relayed; and when all is at rest no session is left out
   (dispatcher.py:333-341, 430-440, 458-498). *)
Quiet ==
  \A i \in Instance : mail[i] = <<>> /\ \A h \in Handler : work[i][h] = Idle

IdsOf(i, name) == {<<"pulse", name>>} \cup {RelayId(i, h, name) : h \in Handler}

EachPulseOnce ==
  /\ \A i \in Instance : \A t \in twice[i] :
       \/ forgotten[i] \cap IdsOf(i, t[2]) # {}
       \/ \E p \in published : /\ p.name = t[2]
                               /\ \/ t[1] \in Repeated(BroadcastEvent(p))
                                  \/ t[2] \in spread /\ (~p.hasId \/ p.targets # {})
  /\ Quiet => owed \subseteq UNION {got[i] : i \in Instance}

(* preparing-the-race/tools.py:396-398: without the gate the start gun fires
   before all runners have subscribed; with it, it must not. *)
GunIsHeard == missed = {}
=============================================================================
