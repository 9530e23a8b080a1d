------------------------ MODULE GatewayClientProofs ------------------------
(***************************************************************************)
(* Proofs about GatewayClient for any simulations, sessions, messages and  *)
(* recordings and any number of replays, started and stopped at any time.  *)
(***************************************************************************)
EXTENDS GatewayClient, TLAPS

(* A replay: of a recording while it is fetched or played. *)
Replays ==
    [rec : Recordings \cup {<<>>}, pos : Nat, phase : {"idle", "fetching", "playing"}]

Busy(i) == Fetching(i) \/ Playing(i)

(* What makes OneReplay true of every step: of the replays that did not go
   astray at most one is fetched or plays, and a replay that plays has frames
   left and was begun with the proto loaded. *)
ReplayInv ==
    /\ run \in [Runs -> Replays]
    /\ OneReplay
    /\ astray \subseteq Runs /\ \A i \in astray : Busy(i)
    /\ \A i, j \in Runs \ astray : Busy(i) /\ Busy(j) => i = j
    /\ \A i \in Runs : ~Playing(i) => run[i].pos = 0
    /\ \A i \in Runs : Busy(i) => run[i].rec \in Recordings /\ run[i].rec # <<>>
    /\ \A i \in Runs : Playing(i) => run[i].pos < Len(run[i].rec) /\ proto

ClientInv == ReplayInv /\ WireFollowsSubscription

-----------------------------------------------------------------------------
(* The handler of messages                                                 *)

LEMMA HandlerCases ==
  ASSUME NEW m, HandleMessage(m)
  PROVE /\ UNCHANGED <<proto, socket, redial>>
        /\ \/ UNCHANGED <<wire, subscribed>>
           \/ Unsubscribe
           \/ /\ subscribed = None /\ m.sim # None /\ subscribed' = m.sim
              /\ wire' = Wired(m.sim) \/ (replayActive /\ wire' = wire)
  <1>1. CASE Ignore(m)
    BY <1>1 DEF Ignore, connVars
  <1>2. CASE RunStart(m) \/ ToolStart(m) \/ ToolError(m) \/ ToolEnd(m) \/ SpawnRunners(m)
    BY <1>2 DEF RunStart, ToolStart, ToolError, ToolEnd, SpawnRunners, connVars
  <1>3. CASE RunEnd(m)
    BY <1>3 DEF RunEnd
  <1>4. CASE StartSimulation(m)
    BY <1>4 DEF StartSimulation
  <1>5. CASE StartRace(m) \/ AdvanceTick(m) \/ ProcessTick(m) \/ CheckRaceStatus(m)
    BY <1>5 DEF StartRace, AdvanceTick, ProcessTick, CheckRaceStatus, connVars
  <1>6. CASE ModelStart(m)
    BY <1>6 DEF ModelStart
  <1>7. CASE JsonAnswer(m) \/ Text(m) \/ A2ui(m)
    BY <1>7 DEF JsonAnswer, Text, A2ui, connVars
  <1> QED
    BY <1>1, <1>2, <1>3, <1>4, <1>5, <1>6, <1>7 DEF HandleMessage

LEMMA UnsubscribeKeepsWire ==
  ASSUME WireFollowsSubscription, Unsubscribe, socket' = socket
  PROVE WireFollowsSubscription'
  BY ClientAssumption DEF WireFollowsSubscription, Unsubscribe, Unwired

(* A message leaves the wire as the subscription has it, provided that what a
   replay delivers is of no live simulation. *)
LEMMA HandlerKeepsWire ==
  ASSUME NEW m, HandleMessage(m), WireFollowsSubscription,
         replayActive => m.sim \in RecordedSims \cup {None}
  PROVE WireFollowsSubscription'
  <1>1. socket' = socket
    BY HandlerCases
  <1>2. CASE UNCHANGED <<wire, subscribed>>
    BY <1>1, <1>2 DEF WireFollowsSubscription
  <1>3. CASE Unsubscribe
    BY <1>1, <1>3, UnsubscribeKeepsWire
  <1>4. CASE /\ subscribed = None /\ m.sim # None /\ subscribed' = m.sim
             /\ wire' = Wired(m.sim) \/ (replayActive /\ wire' = wire)
    <2>1. CASE wire' = Wired(m.sim)
      BY <1>1, <1>4, <2>1 DEF WireFollowsSubscription, Wired
    <2>2. CASE replayActive /\ wire' = wire
      BY <1>1, <1>4, <2>2 DEF WireFollowsSubscription
    <2> QED BY <1>4, <2>1, <2>2
  <1> QED BY <1>2, <1>3, <1>4, HandlerCases

-----------------------------------------------------------------------------
(* Initial state and the steps of the replay                               *)

LEMMA InitClientInv == Init => ClientInv
  <1> SUFFICES ASSUME Init PROVE ClientInv
    OBVIOUS
  <1>1. run \in [Runs -> Replays]
    BY DEF Init, Replays, Idle
  <1>2. \A i \in Runs : run[i].pos = 0 /\ ~Playing(i) /\ ~Busy(i)
    BY DEF Init, Idle, Busy, Playing, Fetching
  <1>3. OneReplay
    BY <1>2 DEF Init, OneReplay, Running
  <1>4. WireFollowsSubscription
    BY DEF Init, WireFollowsSubscription
  <1> QED BY <1>1, <1>2, <1>3, <1>4 DEF ClientInv, ReplayInv, Init

(* Every frame of a replay is one of its recording, of no live simulation. *)
LEMMA NextFrame ==
  ASSUME ReplayInv, NEW i \in Runs, Playing(i)
  PROVE /\ run[i].pos + 1 \in DOMAIN run[i].rec
        /\ run[i].rec[run[i].pos + 1].sim \in RecordedSims \cup {None}
        /\ run[i].pos + 1 # Len(run[i].rec) => run[i].pos + 1 < Len(run[i].rec)
  <1> DEFINE rec == run[i].rec
             frames == {rec[k] : k \in DOMAIN rec}
  <1>1. rec \in Recordings /\ run[i].pos < Len(rec) /\ run[i].pos \in Nat
    BY DEF ReplayInv, Replays, Busy
  <1>2. rec \in Seq(frames) /\ \A k \in DOMAIN rec : rec[k].sim \in RecordedSims \cup {None}
    BY <1>1, RecordingsAssumption
  <1> HIDE DEF frames, rec
  <1>3. Len(rec) \in Nat /\ DOMAIN rec = 1 .. Len(rec)
    BY <1>2
  <1>4. run[i].pos + 1 \in DOMAIN rec
    BY <1>1, <1>3
  <1> QED BY <1>1, <1>2, <1>3, <1>4 DEF rec

LEMMA UnchangedReplayInv ==
  ASSUME ReplayInv, UNCHANGED replayVars, proto => proto'
  PROVE ReplayInv'
  BY DEF ReplayInv, replayVars, histVars, OneReplay, Running, Busy, Playing, Fetching

(* stop() reaches the replay that plays without having gone astray. *)
LEMMA StoppedRuns ==
  ASSUME ReplayInv
  PROVE /\ Stopped \in [Runs -> Replays]
        /\ \A i \in Runs :
              Stopped[i] = Idle \/ (Stopped[i] = run[i] /\ (i \in astray \/ ~Playing(i)))
  <1>1. Idle \in Replays
    BY DEF Idle, Replays
  <1>2. \A i \in Runs : run[i] \in Replays
    BY DEF ReplayInv
  <1>3. Stopped \in [Runs -> Replays]
    BY <1>1, <1>2 DEF Stopped
  <1>4. \A i \in Runs :
            Stopped[i] = Idle \/ (Stopped[i] = run[i] /\ (i \in astray \/ ~Playing(i)))
    <2> TAKE i \in Runs
    <2>1. CASE i = stopper /\ Playing(i)
      <3>1. Stopped[i] = Idle
        BY <2>1 DEF Stopped
      <3> QED BY <3>1
    <2>2. CASE ~(i = stopper /\ Playing(i))
      <3>1. Stopped[i] = run[i]
        BY <2>2 DEF Stopped
      <3>2. i \in astray \/ ~Playing(i)
        BY <2>2 DEF ReplayInv, OneReplay, Running
      <3> QED BY <3>1, <3>2
    <2> QED BY <2>1, <2>2
  <1> QED BY <1>3, <1>4

(* What run() and stop() leave: of the old replays only those that are astray
   from now on. *)
LEMMA OvertakesRuns ==
  ASSUME ReplayInv, Overtakes
  PROVE /\ astray' \subseteq Runs /\ blind' = FALSE
        /\ \A i \in astray' : Stopped[i] = run[i] /\ Busy(i)
        /\ \A i \in Runs \ astray' : Stopped[i].phase = "idle" /\ Stopped[i].pos = 0
  <1> USE StoppedRuns
  <1>1. Idle.phase = "idle" /\ Idle.pos = 0
    BY DEF Idle
  <1>2. astray' = {i \in Runs : Stopped[i] # Idle /\ (i \in astray \/ Fetching(i))}
    BY DEF Overtakes
  <1>3. \A i \in astray' : Stopped[i] = run[i] /\ Busy(i)
    BY <1>2 DEF ReplayInv, Busy
  <1>4. ASSUME NEW i \in Runs, i \notin astray'
        PROVE Stopped[i].phase = "idle" /\ Stopped[i].pos = 0
    <2>1. CASE Stopped[i] = Idle
      BY <1>1, <2>1
    <2>2. CASE Stopped[i] = run[i] /\ Stopped[i] # Idle
      <3>1. ~Fetching(i) /\ i \notin astray
        BY <1>2, <1>4, <2>2
      <3>2. ~Playing(i) /\ run[i] \in Replays
        BY <2>2, <3>1, StoppedRuns DEF ReplayInv
      <3> QED BY <2>2, <3>1, <3>2 DEF ReplayInv, Replays, Fetching, Playing
    <2> QED BY <2>1, <2>2
  <1> QED BY <1>2, <1>3, <1>4 DEF Overtakes

LEMMA StopReplayInv ==
  ASSUME ReplayInv, StopReplay
  PROVE ReplayInv'
  <1>1. /\ run' = Stopped /\ proto' = proto /\ replayActive' = FALSE /\ stopper' = None
        /\ Overtakes
    BY DEF StopReplay, connVars
  <1> USE StoppedRuns, OvertakesRuns
  <1>2. \A i \in Runs : i \notin astray' => ~Busy(i)' /\ ~Playing(i)' /\ run'[i].pos = 0
    BY <1>1 DEF Busy, Playing, Fetching
  <1>3. astray' \subseteq Runs /\ \A i \in astray' : run'[i] = run[i] /\ Busy(i)
    BY <1>1
  <1>4. OneReplay'
    BY <1>1, <1>2 DEF OneReplay, Running
  <1>5. run' \in [Runs -> Replays]
    BY <1>1
  <1> QED BY ReplayInv, <1>1, <1>2, <1>3, <1>4, <1>5 DEF ReplayInv, Busy, Playing, Fetching

LEMMA RunReplayInv ==
  ASSUME ReplayInv, NEW i \in Runs, NEW rec \in Recordings, RunReplay(i, rec)
  PROVE ReplayInv'
  <1> DEFINE new == [rec |-> rec, pos |-> 0, phase |-> "fetching"]
  <1> USE StoppedRuns
  <1>1. proto' = proto /\ replayActive' = FALSE /\ Overtakes
    BY DEF RunReplay, connVars
  <1>2. /\ astray' \subseteq Runs /\ i \notin astray'
        /\ \A j \in astray' : Stopped[j] = run[j] /\ Busy(j)
        /\ \A j \in Runs \ astray' : Stopped[j].phase = "idle" /\ Stopped[j].pos = 0
    <2>1. i \notin astray'
      BY <1>1 DEF RunReplay, Overtakes
    <2> QED BY <1>1, <2>1, OvertakesRuns
  <1>3. new \in Replays
    BY DEF Replays
  <1>4. /\ run' \in [Runs -> Replays]
        /\ \A j \in Runs : run'[j] = Stopped[j] \/ (j = i /\ rec # <<>> /\ run'[j] = new)
    BY <1>3 DEF RunReplay
  <1>5. \A j \in Runs : j \notin astray' =>
            /\ ~Playing(j)' /\ run'[j].pos = 0
            /\ Busy(j)' => j = i /\ rec # <<>> /\ run'[j] = new
    BY <1>2, <1>4 DEF Busy, Playing, Fetching
  <1>6. \A j \in astray' : run'[j] = run[j] /\ Busy(j)
    BY <1>2, <1>4
  <1>7. OneReplay'
    BY <1>1, <1>5 DEF OneReplay, Running
  <1> QED BY <1>1, <1>2, <1>4, <1>5, <1>6, <1>7 DEF ReplayInv, Busy, Playing, Fetching

LEMMA IdleReplay ==
  Idle \in Replays /\ Idle.phase = "idle" /\ Idle.pos = 0
  BY DEF Idle, Replays

LEMMA FetchFailsInv ==
  ASSUME ReplayInv, NEW i \in Runs, FetchFails(i)
  PROVE ReplayInv'
  <1>1. /\ run' \in [Runs -> Replays]
        /\ run'[i] = Idle /\ \A j \in Runs : j # i => run'[j] = run[j]
        /\ astray' = astray \ {i}
        /\ UNCHANGED <<proto, replayActive, stopper, blind>>
    BY IdleReplay DEF FetchFails, connVars, ReplayInv
  <1>2. ~Busy(i)' /\ ~Playing(i)' /\ ~Playing(i)
    BY <1>1, IdleReplay DEF FetchFails, Busy, Fetching, Playing
  <1>3. \A j \in Runs : j # i => (Busy(j)' <=> Busy(j)) /\ (Playing(j)' <=> Playing(j))
    BY <1>1 DEF Busy, Fetching, Playing
  <1>4. Running' = Running /\ i \notin Running
    BY <1>2, <1>3 DEF Running
  <1>5. OneReplay'
    BY <1>1, <1>4 DEF ReplayInv, OneReplay
  <1> QED BY <1>1, <1>2, <1>3, <1>5, IdleReplay DEF ReplayInv

(* A recording that is there has a first frame. *)
LEMMA HasFrames ==
  ASSUME NEW rec \in Recordings, rec # <<>>
  PROVE 0 < Len(rec)
  <1> DEFINE frames == {rec[k] : k \in DOMAIN rec}
  <1>1. rec \in Seq(frames)
    BY RecordingsAssumption
  <1> HIDE DEF frames
  <1> QED BY <1>1

LEMMA BeginReplayInv ==
  ASSUME ReplayInv, NEW i \in Runs, BeginReplay(i)
  PROVE ReplayInv'
  <1> DEFINE begun == [run[i] EXCEPT !.phase = "playing"]
  <1>1. /\ run[i] \in Replays /\ Fetching(i) /\ Busy(i) /\ ~Playing(i) /\ i \notin Running
        /\ run[i].pos = 0
    BY DEF ReplayInv, BeginReplay, Busy, Playing, Fetching, Running
  <1>2. CASE proto
    <2>1. /\ begun \in Replays /\ begun.phase = "playing"
          /\ begun.rec = run[i].rec /\ begun.pos = 0
      BY <1>1 DEF Replays
    <2>2. /\ run' \in [Runs -> Replays]
          /\ run'[i] = begun /\ \A j \in Runs : j # i => run'[j] = run[j]
          /\ stopper' = i /\ replayActive' /\ proto' /\ astray' = astray \cup Led(i)
      BY <1>2, <2>1 DEF BeginReplay, connVars, ReplayInv
    <2>3. run[i].rec \in Recordings /\ run[i].rec # <<>> /\ 0 < Len(run[i].rec)
      BY <1>1, HasFrames DEF ReplayInv
    <2>4. Busy(i)' /\ Playing(i)'
      BY <2>1, <2>2 DEF Busy, Playing
    <2>5. \A j \in Runs : j # i => (Busy(j)' <=> Busy(j)) /\ (Playing(j)' <=> Playing(j))
      BY <2>2 DEF Busy, Fetching, Playing
    <2>6. Running' = Running \cup {i}
      BY <2>4, <2>5 DEF Running
    <2>9. /\ \A j \in Runs : ~Playing(j)' => run'[j].pos = 0
          /\ \A j \in Runs : Busy(j)' => run'[j].rec \in Recordings /\ run'[j].rec # <<>>
          /\ \A j \in Runs : Playing(j)' => run'[j].pos < Len(run'[j].rec) /\ proto'
      <3>1. ASSUME NEW j \in Runs, j # i
            PROVE /\ ~Playing(j)' => run'[j].pos = 0
                  /\ Busy(j)' => run'[j].rec \in Recordings /\ run'[j].rec # <<>>
                  /\ Playing(j)' => run'[j].pos < Len(run'[j].rec)
        BY <2>2, <2>5, <3>1 DEF ReplayInv
      <3>2. /\ run'[i].pos = 0 /\ run'[i].rec \in Recordings /\ run'[i].rec # <<>>
            /\ run'[i].pos < Len(run'[i].rec)
        BY <2>1, <2>2, <2>3
      <3> QED BY <2>2, <3>1, <3>2
    <2>7. CASE i \in astray
      <3>1. astray' = astray \cup Running
        BY <2>2, <2>7 DEF Led
      <3>2. astray' \subseteq Runs /\ \A j \in astray' : Busy(j)'
        BY <2>4, <2>5, <3>1 DEF ReplayInv, Running, Busy
      <3>3. Running' \subseteq astray'
        BY <2>6, <2>7, <3>1
      <3>4. \A j, k \in Runs \ astray' : Busy(j)' /\ Busy(k)' => j = k
        BY <2>5, <2>7, <3>1 DEF ReplayInv
      <3>5. OneReplay'
        BY <2>2, <2>6, <3>3 DEF OneReplay
      <3> QED BY <2>2, <2>9, <3>2, <3>4, <3>5 DEF ReplayInv
    <2>8. CASE i \notin astray
      <3>1. astray' = astray
        BY <2>2, <2>8 DEF Led
      <3>2. astray' \subseteq Runs /\ \A j \in astray' : Busy(j)'
        BY <2>4, <2>5, <3>1 DEF ReplayInv
      <3>3. \A j, k \in Runs \ astray' : Busy(j)' /\ Busy(k)' => j = k
        BY <1>1, <2>5, <2>8, <3>1 DEF ReplayInv
      <3>4. Running' \ astray' \subseteq {i}
        BY <1>1, <2>6, <2>8, <3>1 DEF ReplayInv, Running, Busy
      <3>5. OneReplay'
        BY <2>2, <2>6, <3>4 DEF OneReplay
      <3> QED BY <2>2, <2>9, <3>2, <3>3, <3>5 DEF ReplayInv
    <2> QED BY <2>7, <2>8
  <1>3. CASE ~proto
    <2>1. /\ run' \in [Runs -> Replays]
          /\ run'[i] = Idle /\ \A j \in Runs : j # i => run'[j] = run[j]
          /\ stopper' = None /\ blind' /\ ~proto' /\ astray' = astray \ {i}
      BY <1>3, IdleReplay DEF BeginReplay, connVars, ReplayInv
    <2>2. ~Busy(i)' /\ ~Playing(i)'
      BY <2>1, IdleReplay DEF Busy, Fetching, Playing
    <2>3. \A j \in Runs : j # i => (Busy(j)' <=> Busy(j)) /\ (Playing(j)' <=> Playing(j))
      BY <2>1 DEF Busy, Fetching, Playing
    <2>4. \A j \in Runs : ~Playing(j)'
      BY <1>3, <2>2, <2>3 DEF ReplayInv
    <2>5. OneReplay'
      BY <2>1, <2>4 DEF OneReplay, Running
    <2> QED BY <2>1, <2>2, <2>3, <2>4, <2>5, IdleReplay DEF ReplayInv
  <1> QED BY <1>2, <1>3

LEMMA PlayFrameInv ==
  ASSUME ReplayInv, NEW i \in Runs, PlayFrame(i)
  PROVE ReplayInv'
  <1> DEFINE next == run[i].pos + 1
             moved == [run[i] EXCEPT !.pos = next]
  <1>1. run[i] \in Replays /\ Playing(i) /\ Busy(i) /\ i \in Running
    BY DEF ReplayInv, PlayFrame, Running, Busy
  <1>2. proto' = proto
    BY HandlerCases DEF PlayFrame
  <1>3. CASE next = Len(run[i].rec)
    <2>1. /\ run' \in [Runs -> Replays]
          /\ run'[i] = Idle /\ \A j \in Runs : j # i => run'[j] = run[j]
          /\ replayActive' = FALSE /\ astray' = (astray \cup Led(i)) \ {i}
      BY <1>3, IdleReplay DEF PlayFrame, ReplayInv
    <2>2. ~Busy(i)' /\ ~Playing(i)'
      BY <2>1, IdleReplay DEF Busy, Fetching, Playing
    <2>3. \A j \in Runs : j # i => (Busy(j)' <=> Busy(j)) /\ (Playing(j)' <=> Playing(j))
      BY <2>1 DEF Busy, Fetching, Playing
    <2>4. Led(i) \subseteq Runs /\ \A j \in Led(i) : Busy(j)
      BY DEF Led, Running, Busy
    <2>5. astray' \subseteq Runs /\ \A j \in astray' : Busy(j)'
      BY <2>1, <2>3, <2>4 DEF ReplayInv
    <2>6. \A j, k \in Runs \ astray' : Busy(j)' /\ Busy(k)' => j = k
      BY <2>1, <2>2, <2>3 DEF ReplayInv
    <2>7. Running' \subseteq astray'
      <3>1. CASE i \in astray
        BY <2>1, <2>2, <2>3, <3>1 DEF Led, Running
      <3>2. CASE i \notin astray
        BY <1>1, <2>1, <2>2, <2>3, <3>2 DEF ReplayInv, Running, Busy
      <3> QED BY <3>1, <3>2
    <2>8. OneReplay'
      BY <2>1, <2>7 DEF OneReplay
    <2> QED BY <1>2, <2>1, <2>2, <2>3, <2>5, <2>6, <2>8, IdleReplay DEF ReplayInv
  <1>4. CASE next # Len(run[i].rec)
    <2>1. /\ moved \in Replays /\ moved.phase = "playing"
          /\ moved.rec = run[i].rec /\ moved.pos = next
      BY <1>1 DEF Replays, Playing
    <2>2. /\ run' \in [Runs -> Replays]
          /\ run'[i] = moved /\ \A j \in Runs : j # i => run'[j] = run[j]
          /\ UNCHANGED <<stopper, astray>>
          /\ (replayActive' <=> replayActive) /\ (blind' <=> blind)
      BY <1>4, <2>1 DEF PlayFrame, ReplayInv
    <2>3. \A j \in Runs : (Busy(j)' <=> Busy(j)) /\ (Playing(j)' <=> Playing(j))
      BY <1>1, <2>1, <2>2 DEF Busy, Fetching, Playing
    <2>4. Running' = Running
      BY <2>3 DEF Running
    <2>5. OneReplay'
      BY <2>2, <2>4 DEF ReplayInv, OneReplay
    <2>6. /\ run[i].rec \in Recordings /\ run[i].rec # <<>> /\ next < Len(run[i].rec)
          /\ proto
      BY <1>1, <1>4, NextFrame DEF ReplayInv
    <2> QED BY <1>1, <1>2, <2>1, <2>2, <2>3, <2>5, <2>6 DEF ReplayInv
  <1> QED BY <1>3, <1>4

-----------------------------------------------------------------------------
(* Every step                                                              *)

LEMMA ReplayInvStep == ReplayInv /\ [Next]_vars => ReplayInv'
  <1> SUFFICES ASSUME ReplayInv, [Next]_vars PROVE ReplayInv'
    OBVIOUS
  <1>1. CASE UNCHANGED vars
    BY <1>1, UnchangedReplayInv DEF vars, connVars
  <1>2. CASE ConnStep
    <2>1. UNCHANGED replayVars /\ (proto => proto')
      BY <1>2 DEF ConnStep, LoadProto, SocketOpens, SocketCloses, Redial, replayVars
    <2> QED BY <2>1, UnchangedReplayInv
  <1>3. CASE LiveMessage
    <2>1. UNCHANGED replayVars /\ proto' = proto
      BY <1>3, HandlerCases DEF LiveMessage
    <2> QED BY <2>1, UnchangedReplayInv
  <1>4. CASE ScreenStep
    <2>1. UNCHANGED replayVars /\ proto' = proto
      BY <1>4 DEF ScreenStep, AddAgent, RemoveAgent, SendBroadcast, AddAgentFails,
         RemoveCurrentSimulationId, ResetDemoChatPipelineState, SetFilterSettings,
         replayVars, connVars
    <2> QED BY <2>1, UnchangedReplayInv
  <1>5. CASE UserActs
    BY <1>5, StopReplayInv, RunReplayInv DEF UserActs
  <1>6. CASE CountdownFires
    BY <1>6 DEF CountdownFires, ReplayInv, OneReplay, Running, Busy, Playing, Fetching,
       connVars, histVars
  <1>7. CASE \E i \in Runs : FetchFails(i) \/ BeginReplay(i) \/ PlayFrame(i)
    BY <1>7, FetchFailsInv, BeginReplayInv, PlayFrameInv
  <1> QED BY <1>1, <1>2, <1>3, <1>4, <1>5, <1>6, <1>7 DEF Next, ReplayStep

LEMMA WireStep ==
  ReplayInv /\ WireFollowsSubscription /\ [Next]_vars => WireFollowsSubscription'
  <1> SUFFICES ASSUME ReplayInv, WireFollowsSubscription, [Next]_vars
               PROVE WireFollowsSubscription'
    OBVIOUS
  <1>1. CASE UNCHANGED <<socket, wire, subscribed>>
    BY <1>1 DEF WireFollowsSubscription
  <1>2. CASE ConnStep
    BY <1>2 DEF ConnStep, LoadProto, SocketOpens, SocketCloses, Redial,
       WireFollowsSubscription
  <1>3. CASE LiveMessage
    BY <1>3, HandlerKeepsWire DEF LiveMessage
  <1>4. CASE RemoveCurrentSimulationId
    BY <1>4, UnsubscribeKeepsWire DEF RemoveCurrentSimulationId
  <1>5. CASE ScreenStep /\ ~RemoveCurrentSimulationId
    BY <1>1, <1>5 DEF ScreenStep, AddAgent, RemoveAgent, SendBroadcast, AddAgentFails,
       ResetDemoChatPipelineState, SetFilterSettings, connVars
  <1>6. CASE UserActs
    BY <1>1, <1>6 DEF UserActs, StopReplay, RunReplay, connVars
  <1>7. CASE CountdownFires \/ \E i \in Runs : FetchFails(i) \/ BeginReplay(i)
    BY <1>1, <1>7 DEF CountdownFires, FetchFails, BeginReplay, connVars
  <1>8. ASSUME NEW i \in Runs, PlayFrame(i) PROVE WireFollowsSubscription'
    BY <1>8, NextFrame, HandlerKeepsWire DEF PlayFrame
  <1>9. CASE UNCHANGED vars
    BY <1>1, <1>9 DEF vars, connVars
  <1> QED BY <1>2, <1>3, <1>4, <1>5, <1>6, <1>7, <1>8, <1>9 DEF Next, ReplayStep

(* The client's invariant: of the replays that did not go astray at most one
   feeds the handler, the one that stop() would cancel, and the wire carries what is subscribed
   (AgentGateway, AgentCachedGatewayReplayService). *)
THEOREM ClientInvariant == Spec => []ClientInv
  <1>1. ClientInv /\ [Next]_vars => ClientInv'
    BY ReplayInvStep, WireStep DEF ClientInv
  <1> QED BY InitClientInv, <1>1, PTL DEF Spec

(* Replay mode is on only while a recording plays, and a recording plays in
   replay mode, alone, as the one stop() would cancel, unless it or one beside
   it was overtaken by run() or stop() while it was fetched
   (AgentCachedGatewayReplayService.run, stop). *)
THEOREM OneReplaySafe == Spec => []OneReplay
  <1>1. ClientInv => OneReplay
    BY DEF ClientInv, ReplayInv
  <1> QED BY ClientInvariant, <1>1, PTL

(* While the socket is open the gateway streams the simulation followed and no
   other, over any number of reconnections (AgentGateway.connectMonitor). *)
THEOREM WireSafe == Spec => []WireFollowsSubscription
  <1>1. ClientInv => WireFollowsSubscription
    BY DEF ClientInv
  <1> QED BY ClientInvariant, <1>1, PTL

(* Once stop() has returned no frame is delivered until a replay begins again,
   but for those of replays that went astray
   (AgentCachedGatewayReplayService.stop). *)
THEOREM StopFinal == Spec => StopIsFinal
  <1>1. ASSUME ReplayInv, Next, ~replayActive, stopper = None,
               NEW i \in Runs, i \notin astray
        PROVE run'[i].pos = run[i].pos
    <2>1. ~Playing(i) /\ run[i].pos = 0
      BY <1>1 DEF ReplayInv, OneReplay, Running
    <2>2. CASE ConnStep \/ ScreenStep \/ LiveMessage \/ CountdownFires
      BY <2>2 DEF ConnStep, LoadProto, SocketOpens, SocketCloses, Redial, ScreenStep,
         AddAgent, RemoveAgent, SendBroadcast, AddAgentFails, RemoveCurrentSimulationId,
         ResetDemoChatPipelineState, SetFilterSettings, LiveMessage, CountdownFires, replayVars
    <2>3. CASE StopReplay
      BY <2>1, <2>3, StoppedRuns, IdleReplay, <1>1 DEF StopReplay
    <2>4. ASSUME NEW j \in Runs, NEW rec \in Recordings, RunReplay(j, rec)
          PROVE run'[i].pos = run[i].pos
      <3> DEFINE new == [rec |-> rec, pos |-> 0, phase |-> "fetching"]
      <3>1. run'[i] = Stopped[i] \/ run'[i] = new
        BY <1>1, <2>4, StoppedRuns DEF RunReplay
      <3>2. Stopped[i].pos = 0 /\ new.pos = 0
        BY <1>1, <2>1, StoppedRuns, IdleReplay
      <3> QED BY <2>1, <3>1, <3>2
    <2>5. ASSUME NEW j \in Runs, FetchFails(j) PROVE run'[i].pos = run[i].pos
      <3>1. run'[i] = run[i] \/ run'[i] = Idle
        BY <1>1, <2>5 DEF FetchFails, ReplayInv
      <3> QED BY <2>1, <3>1, IdleReplay
    <2>6. ASSUME NEW j \in Runs, BeginReplay(j) PROVE run'[i].pos = run[i].pos
      <3>1. \/ run'[i] = run[i] \/ run'[i] = Idle
            \/ run'[i] = [run[i] EXCEPT !.phase = "playing"]
        BY <1>1, <2>6 DEF BeginReplay, ReplayInv
      <3> QED BY <1>1, <2>1, <3>1, IdleReplay DEF ReplayInv, Replays
    <2>7. ASSUME NEW j \in Runs, PlayFrame(j) PROVE run'[i].pos = run[i].pos
      <3>1. i # j
        BY <2>1, <2>7 DEF PlayFrame
      <3>2. run'[i] = run[i]
        BY <1>1, <2>7, <3>1 DEF PlayFrame, ReplayInv
      <3> QED BY <3>2
    <2> QED BY <1>1, <2>2, <2>3, <2>4, <2>5, <2>6, <2>7 DEF Next, ReplayStep, UserActs
  <1>2. ReplayInv /\ [Next]_vars =>
          [(~replayActive /\ stopper = None) =>
               \A i \in Runs \ astray : run'[i].pos = run[i].pos]_vars
    BY <1>1
  <1>3. ClientInv => ReplayInv
    BY DEF ClientInv
  <1> QED BY ClientInvariant, <1>2, <1>3, PTL DEF Spec, StopIsFinal
=============================================================================
