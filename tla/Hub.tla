--------------------------------- MODULE Hub ---------------------------------
(***************************************************************************)
(* The WebSocket hub of one gateway process (internal/hub/hub.go).         *)
(*                                                                         *)
(* Four kinds of goroutine share the hub's maps under h.mu:                *)
(*   - Run(), the event loop, the only writer of the maps;                 *)
(*   - one reader per connection (cmd/gateway/main.go, GET /ws), which     *)
(*     turns text frames into subscription requests and, when the read     *)
(*     fails, asks for the client to be unregistered;                      *)
(*   - one writePump per connection, which drains the client's send        *)
(*     buffer and unregisters the client itself when a write fails;        *)
(*   - RemoteWorkers workers, which fan remote messages out under RLock,   *)
(*     releasing the lock for the Redis Lookup of phase 3b.                *)
(* A locked section is one step. An unbuffered channel is a hand-over: the *)
(* sender is blocked (a pc of its own) until Run() takes the value.        *)
(*                                                                         *)
(* A client stands for one connection: Register makes a fresh one for      *)
(* every *websocket.Conn, so conn and client are identified.               *)
(***************************************************************************)
EXTENDS Naturals, Sequences, FiniteSets

CONSTANTS
  Client,        \* connections
  Session,       \* session ids other than ""
  Global,        \* the session id "" of the global observers
  Sim,           \* simulation ids other than ""
  NoSim,         \* the simulation id ""
  Message,       \* messages, each published at most once
  Worker,        \* the goroutines of the remote-message worker pool
  None,          \* no client, no message
  SessionOf,     \* the sessionId query parameter of each connection
  AutoSub,       \* its simulationId query parameter, NoSim when absent
  Channel,       \* the hub channel that carries each message
  Targets,       \* the list of sessions a message names, <<>> for all
  SimOf,         \* the simulation_id of a message, NoSim when absent
  SendBuffer,    \* ClientSendBuffer
  ChannelBuffer, \* RemoteMsgBuffer, BroadcastBuffer, SessionMsgBuffer
  MaxFrames      \* bound: text frames per connection

SessionId == Session \cup {Global}
Frame == [op : {"subscribe_simulation", "unsubscribe_simulation"}, sim : Sim]
Channels == {"remoteMsg", "broadcast", "sessionMsg"}

ASSUME HubAssumption ==
  /\ Global \notin Session /\ NoSim \notin Sim
  /\ None \notin Client /\ None \notin Message
  /\ SessionOf \in [Client -> SessionId]
  /\ AutoSub \in [Client -> Sim \cup {NoSim}]
  /\ Channel \in [Message -> Channels]
  /\ Targets \in [Message -> Seq(SessionId)]
  /\ \A m \in Message : Channel[m] = "sessionMsg" => Len(Targets[m]) = 1
  /\ SimOf \in [Message -> Sim \cup {NoSim}]
  /\ SendBuffer \in Nat \ {0} /\ ChannelBuffer \in Nat \ {0}
  /\ MaxFrames \in Nat

VARIABLES
  clients,          \* sessionID -> its registered clients ({}: no key)
  connToClient,     \* the connections text frames can be resolved for
  simSubscriptions, \* client -> allowlist ({}: no key)
  simToClients,     \* simID -> clients, the reverse index ({}: no key)
  simBlocked,       \* client -> blocklist ({}: no key)
  sendClosed,       \* clients whose send channel was closed
  send,             \* client -> its send buffer
  registering,      \* the client Run() took from register and not yet added
  reader,           \* client -> pc of its reader goroutine
  frame,            \* client -> the request its reader is blocked on
  pump,             \* client -> pc of its writePump
  channel,          \* the hub's buffered channels
  worker,           \* worker -> pc, message, clients delivered to
  panicked,         \* a send on a closed channel took the process down
  published,        \* history: messages handed to the hub
  copies,           \* history: copies of a message queued for a client
  frames            \* history: the frames Run() has handled, per client

subVars  == <<simSubscriptions, simToClients, simBlocked>>
mapVars  == <<clients, connToClient, subVars, sendClosed>>
connVars == <<registering, reader, frame, pump, frames>>
msgVars  == <<send, channel, worker, panicked, published, copies>>
vars     == <<mapVars, connVars, msgVars>>

NoFrame == [op |-> "none", sim |-> NoSim]
Idle    == [pc |-> "idle", msg |-> None, delivered |-> {}]

Init ==
  /\ clients = [s \in SessionId |-> {}]
  /\ connToClient = {}
  /\ simSubscriptions = [c \in Client |-> {}]
  /\ simToClients = [s \in Sim |-> {}]
  /\ simBlocked = [c \in Client |-> {}]
  /\ sendClosed = {}
  /\ send = [c \in Client |-> <<>>]
  /\ registering = None
  /\ reader = [c \in Client |-> "new"]
  /\ frame = [c \in Client |-> NoFrame]
  /\ pump = [c \in Client |-> "new"]
  /\ channel = [ch \in Channels |-> <<>>]
  /\ worker = [w \in Worker |-> Idle]
  /\ panicked = FALSE
  /\ published = {}
  /\ copies = [c \in Client |-> [m \in Message |-> 0]]
  /\ frames = [c \in Client |-> <<>>]

-----------------------------------------------------------------------------
(* The connection's own goroutines                                         *)

\* Register hands the client to Run() and starts writePump; GET /ws then
\* starts the reader. Run() adds the client to the maps in a later step.
Register(c) ==
  /\ ~panicked
  /\ reader[c] = "new"
  /\ registering = None
  /\ registering' = c
  /\ reader' = [reader EXCEPT ![c] = "reading"]
  /\ pump' = [pump EXCEPT ![c] = "running"]
  /\ UNCHANGED <<mapVars, msgVars, frame, frames>>

\* HandleTextMessage resolves the connection under RLock, then blocks on the
\* subscription channel. (A frame of an unknown connection is ignored, which
\* changes nothing.)
HandleTextMessage(c, f) ==
  /\ ~panicked
  /\ reader[c] = "reading"
  /\ c \in connToClient
  /\ Len(frames[c]) < MaxFrames
  /\ reader' = [reader EXCEPT ![c] = "sending"]
  /\ frame' = [frame EXCEPT ![c] = f]
  /\ UNCHANGED <<mapVars, msgVars, registering, pump, frames>>

\* The read fails and the reader's deferred Unregister looks the client up
\* under RLock: not found, it returns; found, it blocks on unregister.
Unregister(c) ==
  /\ ~panicked
  /\ reader[c] = "reading"
  /\ reader' = [reader EXCEPT ![c] =
       IF c \in clients[SessionOf[c]] THEN "unregistering" ELSE "done"]
  /\ UNCHANGED <<mapVars, msgVars, registering, frame, pump, frames>>

\* writePump writes the head of the send buffer.
PumpWrite(c) ==
  /\ ~panicked
  /\ pump[c] = "running"
  /\ send[c] # <<>>
  /\ send' = [send EXCEPT ![c] = Tail(@)]
  /\ UNCHANGED <<mapVars, connVars, channel, worker, panicked, published, copies>>

\* Slip: writePump returns without unregistering.
PumpFailsSilently(c) ==
  /\ ~panicked
  /\ pump[c] = "running"
  /\ pump' = [pump EXCEPT ![c] = "failed"]
  /\ UNCHANGED <<mapVars, msgVars, registering, reader, frame, frames>>

\* A write or a ping fails: writePump closes the connection and blocks on
\* unregister.
PumpFails(c) ==
  /\ ~panicked
  /\ pump[c] = "running"
  /\ pump' = [pump EXCEPT ![c] = "unregistering"]
  /\ \/ UNCHANGED send
     \/ send[c] # <<>> /\ send' = [send EXCEPT ![c] = Tail(@)]
  /\ UNCHANGED <<mapVars, registering, reader, frame, frames,
                 channel, worker, panicked, published, copies>>

\* writePump drained the buffer and finds the channel closed by Run().
PumpClosed(c) ==
  /\ ~panicked
  /\ pump[c] = "running"
  /\ c \in sendClosed /\ send[c] = <<>>
  /\ pump' = [pump EXCEPT ![c] = "closed"]
  /\ UNCHANGED <<mapVars, msgVars, registering, reader, frame, frames>>

-----------------------------------------------------------------------------
(* Run(), the event loop                                                   *)

AtSelect == registering = None

AddSubscription(c, s) ==
  /\ simSubscriptions' = [simSubscriptions EXCEPT ![c] = @ \cup {s}]
  /\ simToClients' = [simToClients EXCEPT ![s] = @ \cup {c}]

\* case c := <-h.register, with the inline auto-subscription.
RunRegister ==
  /\ ~panicked
  /\ registering # None
  /\ LET c == registering IN
     /\ clients' = [clients EXCEPT ![SessionOf[c]] = @ \cup {c}]
     /\ connToClient' = connToClient \cup {c}
     /\ IF AutoSub[c] = NoSim
        THEN UNCHANGED <<simSubscriptions, simToClients>>
        ELSE AddSubscription(c, AutoSub[c])
  /\ registering' = None
  /\ UNCHANGED <<simBlocked, sendClosed, msgVars, reader, frame, pump, frames>>

\* Slips of RemoveClient: the reverse index, the registration or the blocklist
\* of the client is left behind.
RemoveClientKeepsIndex(c) ==
  /\ clients' = [clients EXCEPT ![SessionOf[c]] = @ \ {c}]
  /\ sendClosed' = IF c \in clients[SessionOf[c]] THEN sendClosed \cup {c} ELSE sendClosed
  /\ simSubscriptions' = [simSubscriptions EXCEPT ![c] = {}]
  /\ simBlocked' = [simBlocked EXCEPT ![c] = {}]
  /\ connToClient' = connToClient \ {c}
  /\ UNCHANGED simToClients

RemoveClientKeepsKey(c) ==
  /\ sendClosed' = sendClosed \cup {c}
  /\ simToClients' = [s \in Sim |-> simToClients[s] \ {c}]
  /\ simSubscriptions' = [simSubscriptions EXCEPT ![c] = {}]
  /\ simBlocked' = [simBlocked EXCEPT ![c] = {}]
  /\ connToClient' = connToClient \ {c}
  /\ UNCHANGED clients

RemoveClientKeepsBlocked(c) ==
  /\ clients' = [clients EXCEPT ![SessionOf[c]] = @ \ {c}]
  /\ sendClosed' = IF c \in clients[SessionOf[c]] THEN sendClosed \cup {c} ELSE sendClosed
  /\ simToClients' = [s \in Sim |-> simToClients[s] \ {c}]
  /\ simSubscriptions' = [simSubscriptions EXCEPT ![c] = {}]
  /\ connToClient' = connToClient \ {c}
  /\ UNCHANGED simBlocked

\* case c := <-h.unregister: close the channel if the client is registered,
\* then forget its subscriptions whether or not it is.
RemoveClient(c) ==
  /\ clients' = [clients EXCEPT ![SessionOf[c]] = @ \ {c}]
  /\ sendClosed' = IF c \in clients[SessionOf[c]] THEN sendClosed \cup {c} ELSE sendClosed
  /\ simToClients' = [s \in Sim |-> IF s \in simSubscriptions[c]
                                    THEN simToClients[s] \ {c} ELSE simToClients[s]]
  /\ simSubscriptions' = [simSubscriptions EXCEPT ![c] = {}]
  /\ simBlocked' = [simBlocked EXCEPT ![c] = {}]
  /\ connToClient' = connToClient \ {c}

\* The request comes from the reader's Unregister or from writePump.
RunUnregister(c) ==
  /\ ~panicked
  /\ AtSelect
  /\ \/ /\ reader[c] = "unregistering"
        /\ reader' = [reader EXCEPT ![c] = "done"]
        /\ UNCHANGED pump
     \/ /\ pump[c] = "unregistering"
        /\ pump' = [pump EXCEPT ![c] = "failed"]
        /\ UNCHANGED reader
  /\ RemoveClient(c)
  /\ UNCHANGED <<msgVars, registering, frame, frames>>

\* The reader's request is taken and the reader goes back to reading.
TakeFrame(c, op) ==
  /\ ~panicked
  /\ AtSelect
  /\ reader[c] = "sending" /\ frame[c].op = op
  /\ reader' = [reader EXCEPT ![c] = "reading"]
  /\ frame' = [frame EXCEPT ![c] = NoFrame]
  /\ frames' = [frames EXCEPT ![c] = Append(@, frame[c])]

\* case sub := <-h.simSubscribe
RunSubscribe(c) ==
  /\ TakeFrame(c, "subscribe_simulation")
  /\ AddSubscription(c, frame[c].sim)
  /\ simBlocked' = [simBlocked EXCEPT ![c] = {}]
  /\ UNCHANGED <<clients, connToClient, sendClosed, msgVars, registering, pump>>

\* Slip: no blocklist, an emptied allowlist admits the refused simulation.
RunUnsubscribeNoBlock(c) ==
  /\ TakeFrame(c, "unsubscribe_simulation")
  /\ simSubscriptions' = [simSubscriptions EXCEPT ![c] = @ \ {frame[c].sim}]
  /\ simToClients' = [simToClients EXCEPT ![frame[c].sim] = @ \ {c}]
  /\ UNCHANGED <<clients, connToClient, sendClosed, simBlocked, msgVars, registering, pump>>

\* case unsub := <-h.simUnsubscribe
RunUnsubscribe(c) ==
  /\ TakeFrame(c, "unsubscribe_simulation")
  /\ LET s == frame[c].sim IN
     /\ simSubscriptions' = [simSubscriptions EXCEPT ![c] = @ \ {s}]
     /\ simToClients' = [simToClients EXCEPT ![s] = @ \ {c}]
     /\ simBlocked' = [simBlocked EXCEPT ![c] = @ \cup {s}]
  /\ UNCHANGED <<clients, connToClient, sendClosed, msgVars, registering, pump>>

-----------------------------------------------------------------------------
(* Message delivery                                                        *)

HasRoom(c) == Len(send[c]) < SendBuffer

\* The non-blocking sends of one locked section, times[c] of them to each
\* client c in to: what does not fit in a buffer is dropped, and a send on a
\* closed channel panics, which ends the process.
Queued(to) == {c \in to : HasRoom(c)}
Fit(c, n)  == IF n < SendBuffer - Len(send[c]) THEN n ELSE SendBuffer - Len(send[c])
Enqueue(m, to, times) ==
  /\ panicked' = (to \cap sendClosed # {})
  /\ send' = [c \in Client |-> IF c \in Queued(to)
                               THEN send[c] \o [i \in 1..Fit(c, times[c]) |-> m] ELSE send[c]]
  /\ copies' = [c \in Client |-> IF c \in Queued(to)
                                 THEN [copies[c] EXCEPT ![m] = @ + Fit(c, times[c])]
                                 ELSE copies[c]]

Once == [c \in Client |-> 1]

\* HandleRemoteMessage, Publish and SendMessage put a message in its channel.
Publish(m) ==
  /\ ~panicked
  /\ m \notin published
  /\ Len(channel[Channel[m]]) < ChannelBuffer
  /\ published' = published \cup {m}
  /\ channel' = [channel EXCEPT ![Channel[m]] = Append(@, m)]
  /\ UNCHANGED <<mapVars, connVars, send, worker, panicked, copies>>

\* case message := <-h.broadcast and case sm := <-h.sessionMsg
Deliver(ch, to) ==
  /\ ~panicked
  /\ AtSelect
  /\ channel[ch] # <<>>
  /\ channel' = [channel EXCEPT ![ch] = Tail(@)]
  /\ Enqueue(Head(channel[ch]), to, Once)
  /\ UNCHANGED <<mapVars, connVars, worker, published>>

\* The sessions a message names.
Named(m) == {Targets[m][i] : i \in DOMAIN Targets[m]}

RunBroadcast == Deliver("broadcast", UNION {clients[s] : s \in SessionId})

RunSessionMsg ==
  /\ channel["sessionMsg"] # <<>>
  /\ Deliver("sessionMsg", UNION {clients[s] : s \in Named(Head(channel["sessionMsg"]))})

\* A worker receives from h.remoteMsg.
WorkerTake(w) ==
  /\ ~panicked
  /\ worker[w].pc = "idle"
  /\ channel["remoteMsg"] # <<>>
  /\ worker' = [worker EXCEPT ![w] =
       [pc |-> "fanout", msg |-> Head(channel["remoteMsg"]), delivered |-> {}]]
  /\ channel' = [channel EXCEPT !["remoteMsg"] = Tail(@)]
  /\ UNCHANGED <<mapVars, connVars, send, panicked, published, copies>>

\* Phase 1: global observers, filtered by allowlist, then by blocklist.
Observers(m) ==
  {c \in clients[Global] :
     \/ SimOf[m] = NoSim
     \/ SimOf[m] \in simSubscriptions[c]
     \/ simSubscriptions[c] = {} /\ SimOf[m] \notin simBlocked[c]}

\* Phase 2: the sessions on the list, or all of them when there is none.
Targeted(m) ==
  UNION {clients[s] : s \in IF Targets[m] = <<>> THEN Session ELSE Named(m) \ {Global}}

\* The list is walked as it was sent, without a look at delivered: a client is
\* sent one copy for each time the list names its session.
Namings(m) ==
  [c \in Client |->
     LET n == Cardinality({i \in DOMAIN Targets[m] : Targets[m][i] = SessionOf[c]}) IN
     IF SessionOf[c] = Global \/ n = 0 THEN 1 ELSE n]

\* Phase 3: the reverse index.
Subscribers(m) == IF SimOf[m] = NoSim THEN {} ELSE simToClients[SimOf[m]]

\* Phases 1 to 3 are one read-locked section. A message of a simulation then
\* waits for the Redis Lookup with the lock released.
WorkerFanOut(w) ==
  LET m  == worker[w].msg
      to == Observers(m) \cup Targeted(m) \cup Subscribers(m) IN
  /\ ~panicked
  /\ worker[w].pc = "fanout"
  /\ Enqueue(m, to, Namings(m))
  /\ worker' = [worker EXCEPT ![w] = IF SimOf[m] = NoSim THEN Idle
                  ELSE [pc |-> "lookup", msg |-> m, delivered |-> Queued(to)]]
  /\ UNCHANGED <<mapVars, connVars, channel, published>>

\* Slips of phase 3b: no check of delivered, or no check of the local allowlist.
CrossInstanceAgain(w, found) ==
  {c \in UNION {clients[s] : s \in found} : SimOf[worker[w].msg] \in simSubscriptions[c]}

CrossInstanceTrusting(w, found) ==
  (UNION {clients[s] : s \in found}) \ worker[w].delivered

\* Phase 3b: Lookup returned the sessions in found ({} on an error); their
\* clients get the message unless they have it or are not subscribed here.
CrossInstance(w, found) ==
  {c \in (UNION {clients[s] : s \in found}) \ worker[w].delivered :
     SimOf[worker[w].msg] \in simSubscriptions[c]}

\* Slip: the Lookup has no timeout, and one that gets no answer hangs.
WorkerLookupHangs(w, found) ==
  /\ ~panicked
  /\ worker[w].pc = "lookup"
  /\ Enqueue(worker[w].msg, CrossInstance(w, found), Once)
  /\ worker' = [worker EXCEPT ![w] = IF found = {} THEN [@ EXCEPT !.pc = "hung"] ELSE Idle]
  /\ UNCHANGED <<mapVars, connVars, channel, published>>

WorkerLookup(w, found) ==
  /\ ~panicked
  /\ worker[w].pc = "lookup"
  /\ Enqueue(worker[w].msg, CrossInstance(w, found), Once)
  /\ worker' = [worker EXCEPT ![w] = Idle]
  /\ UNCHANGED <<mapVars, connVars, channel, published>>

-----------------------------------------------------------------------------
ReaderNext(c) ==
  \/ Register(c)
  \/ \E f \in Frame : HandleTextMessage(c, f)
  \/ Unregister(c)

PumpNext(c) == PumpWrite(c) \/ PumpFails(c) \/ PumpClosed(c)

RunNext ==
  \/ RunRegister
  \/ \E c \in Client : RunUnregister(c) \/ RunSubscribe(c) \/ RunUnsubscribe(c)
  \/ RunBroadcast
  \/ RunSessionMsg

\* Redis is shared with the other gateways and updated asynchronously: a
\* Lookup may return any sessions.
WorkerNext(w) ==
  \/ WorkerTake(w)
  \/ WorkerFanOut(w)
  \/ \E found \in SUBSET SessionId : WorkerLookup(w, found)

Next ==
  \/ \E c \in Client : ReaderNext(c) \/ PumpNext(c)
  \/ RunNext
  \/ \E m \in Message : Publish(m)
  \/ \E w \in Worker : WorkerNext(w)

Spec == Init /\ [][Next]_vars

\* The goroutines keep running: Run() serves every ready case in the end (Go
\* picks among the ready cases at random), workers and pumps make progress,
\* and the ping of a connection whose reader has failed fails too.
Fairness ==
  /\ \A c \in Client :
       /\ SF_vars(RunUnregister(c))
       /\ SF_vars(RunSubscribe(c))
       /\ SF_vars(RunUnsubscribe(c))
       /\ WF_vars(PumpWrite(c) \/ PumpClosed(c))
       /\ WF_vars(reader[c] = "done" /\ PumpFails(c))
  /\ WF_vars(RunRegister)
  /\ SF_vars(RunBroadcast)
  /\ SF_vars(RunSessionMsg)
  /\ \A w \in Worker : WF_vars(WorkerNext(w))

FairSpec == Spec /\ Fairness

-----------------------------------------------------------------------------
(* Type invariant                                                          *)

ReaderPCs == {"new", "reading", "sending", "unregistering", "done"}
PumpPCs   == {"new", "running", "unregistering", "failed", "closed"}
WorkerState ==
  [pc : {"idle", "fanout", "lookup"}, msg : Message \cup {None}, delivered : SUBSET Client]

TypeOK ==
  /\ clients \in [SessionId -> SUBSET Client]
  /\ connToClient \in SUBSET Client
  /\ simSubscriptions \in [Client -> SUBSET Sim]
  /\ simToClients \in [Sim -> SUBSET Client]
  /\ simBlocked \in [Client -> SUBSET Sim]
  /\ sendClosed \in SUBSET Client
  /\ send \in [Client -> Seq(Message)]
  /\ registering \in Client \cup {None}
  /\ reader \in [Client -> ReaderPCs]
  /\ frame \in [Client -> Frame \cup {NoFrame}]
  /\ \A c \in Client : reader[c] = "sending" <=> frame[c] # NoFrame
  /\ pump \in [Client -> PumpPCs]
  /\ channel \in [Channels -> Seq(Message)]
  /\ worker \in [Worker -> WorkerState]
  /\ \A w \in Worker : worker[w].pc # "idle" => worker[w].msg \in Message
  /\ panicked \in BOOLEAN
  /\ published \in SUBSET Message
  /\ copies \in [Client -> [Message -> Nat]]
  /\ frames \in [Client -> Seq(Frame)]

-----------------------------------------------------------------------------
(* Safety                                                                  *)

\* The allowlist and its reverse index name the same pairs, in every
\* interleaving of registration, text frames and the two ways a client is
\* unregistered: phase 3 reaches exactly the clients the filters admit.
IndexesAgree ==
  \A c \in Client, s \in Sim : c \in simToClients[s] <=> s \in simSubscriptions[c]

\* A registered client can be found by its connection and its send channel
\* is open, so phases 1, 2, broadcasts and session messages never panic,
\* although reader and writePump may both ask for the unregistration.
RegisteredIsOpen ==
  \A s \in SessionId : \A c \in clients[s] :
    SessionOf[c] = s /\ c \in connToClient /\ c \notin sendClosed

Forgotten(c) ==
  /\ c \notin connToClient /\ c \notin clients[SessionOf[c]]
  /\ simSubscriptions[c] = {} /\ simBlocked[c] = {}
  /\ \A s \in Sim : c \notin simToClients[s]

\* A client whose reader ended the connection leaves nothing in the hub's
\* maps once its channel is closed.
CleanDisconnect ==
  \A c \in sendClosed : pump[c] # "failed" => Forgotten(c)

\* What Run() keeps of its clients agrees, in every order of registration, text
\* frames and the two ways to unregister.
RoutingMapsAgree == IndexesAgree /\ RegisteredIsOpen /\ CleanDisconnect

\* The process is only ever lost to one interleaving: a subscription request
\* in flight while writePump unregistered its client (see
\* SelfUnregisterCleansUp).
OnlyLateFramesPanic ==
  panicked => \E c \in sendClosed : pump[c] = "failed" /\ frames[c] # <<>>
                                    /\ simSubscriptions[c] # {}

\* What makes the four invariants above inductive: a client is unknown to
\* the hub until Run() adds it; when its channel is closed it can no longer
\* be resolved, and only a client that writePump unregistered still has a
\* reader that may speak for it.
Fresh(c) == reader[c] = "new" \/ registering = c

ConnectionInv ==
  \A c \in Client :
    /\ Fresh(c) => Forgotten(c) /\ c \notin sendClosed
    /\ registering = c => reader[c] # "new"
    /\ c \in sendClosed => c \notin connToClient
    /\ c \in sendClosed /\ pump[c] # "failed" => reader[c] = "done" /\ Forgotten(c)
    /\ c \in sendClosed /\ simSubscriptions[c] # {} => frames[c] # <<>>

HubInv ==
  TypeOK /\ IndexesAgree /\ RegisteredIsOpen /\ ConnectionInv /\ OnlyLateFramesPanic

\* No client gets a message twice, whichever of phases 1, 2, 3 and 3b it
\* matches, before and after the lock is released for the Lookup, but for the
\* copies its own session asked for: a Destination that names the session n
\* times queues n of them in phase 2, which does not ask delivered although
\* its comment says "to avoid double-delivery" (hub.go:432).
OncePerNaming == \A c \in Client, m \in Message : copies[c][m] <= Namings(m)[c]

\* What makes OncePerNaming inductive: a message is in one place at a time, and
\* has been queued for a client only if a worker that waits for its Lookup
\* remembers the client, or nobody has the message any more.
HeldBy(w, m) == worker[w].pc # "idle" /\ worker[w].msg = m
At(ch, i, m) == i \in DOMAIN channel[ch] /\ channel[ch][i] = m
InChannel(m) == \E ch \in Channels : \E i \in DOMAIN channel[ch] : At(ch, i, m)
Unsent(m) == \A c \in Client : copies[c][m] = 0

OnePlace(m, ch, i) ==
  /\ Unsent(m)
  /\ \A w \in Worker : ~HeldBy(w, m)
  /\ \A ch2 \in Channels : \A j \in DOMAIN channel[ch2] : At(ch2, j, m) => ch2 = ch /\ j = i

CopiesInv ==
  /\ \A m \in Message \ published :
       Unsent(m) /\ ~InChannel(m) /\ \A w \in Worker : ~HeldBy(w, m)
  /\ \A m \in Message, ch \in Channels : \A i \in DOMAIN channel[ch] :
       At(ch, i, m) => OnePlace(m, ch, i)
  /\ \A w \in Worker, m \in Message : HeldBy(w, m) =>
       /\ worker[w].pc = "fanout" => Unsent(m)
       /\ \A c \in Client : copies[c][m] > 0 => c \in worker[w].delivered
       /\ \A v \in Worker : HeldBy(v, m) => v = w

\* The frames of a client, its auto-subscription first.
Requests(c) ==
  IF AutoSub[c] = NoSim THEN frames[c]
  ELSE <<[op |-> "subscribe_simulation", sim |-> AutoSub[c]]>> \o frames[c]

LastOn(c, s) ==
  LET on == {i \in DOMAIN Requests(c) : Requests(c)[i].sim = s} IN
  IF on = {} THEN "none"
  ELSE Requests(c)[CHOOSE i \in on : \A j \in on : j <= i].op

Wanted(c) == {s \in Sim : LastOn(c, s) = "subscribe_simulation"}

\* Refused by an unsubscribe no later subscribe has followed: any subscribe
\* clears the blocklist.
Refused(c) ==
  {s \in Sim : \E i \in DOMAIN Requests(c) :
     /\ Requests(c)[i] = [op |-> "unsubscribe_simulation", sim |-> s]
     /\ \A j \in DOMAIN Requests(c) : j > i => Requests(c)[j].op # "subscribe_simulation"}

Received(c, m) == copies'[c][m] > copies[c][m]

\* What a global observer is sent of a simulation is decided by the requests
\* it has made and nothing else: only its simulations while it wants any,
\* everything but the refused ones when it wants none.
ObserverFilter ==
  [][\A c \in Client, m \in Message :
       Received(c, m) /\ SessionOf[c] = Global /\ Channel[m] = "remoteMsg" /\ SimOf[m] # NoSim
         => IF Wanted(c) # {} THEN SimOf[m] \in Wanted(c) ELSE SimOf[m] \notin Refused(c)]_vars

\* A client of a session gets a remote message only if the message names its
\* session or no session, or the client wants the simulation at that moment.
SessionFilter ==
  [][\A c \in Client, m \in Message :
       Received(c, m) /\ SessionOf[c] # Global /\ Channel[m] = "remoteMsg"
         => Targets[m] = <<>> \/ SessionOf[c] \in Named(m) \/ SimOf[m] \in Wanted(c)]_vars

-----------------------------------------------------------------------------
(* Liveness                                                                *)

InHub(m) == InChannel(m) \/ \E w \in Worker : HeldBy(w, m)

\* Every message handed to the hub is fanned out in the end: no goroutine
\* blocks the others for ever.
MessagesDrain == \A m \in Message : m \in published ~> (panicked \/ ~InHub(m))

\* Every connection whose reader has stopped is removed from the routing
\* maps in the end, even when its Unregister ran before Run() had added it.
DisconnectedIsForgotten ==
  \A c \in Client : reader[c] = "done" ~>
    (panicked \/ (c \notin clients[SessionOf[c]] /\ pump[c] \in {"failed", "closed"}))

-----------------------------------------------------------------------------
(* What a comment promises                                                 *)

\* hub.go, writePump: "Self-unregister: notify the Hub so it cleans up maps
\* and simulation subscriptions."
SelfUnregisterCleansUp ==
  \A c \in Client : pump[c] = "failed" => Forgotten(c)
=============================================================================
