------------------------- MODULE RedisRegistryProofs -------------------------
(***************************************************************************)
(* What holds of the registry in Redis for any sessions, types and         *)
(* simulations, any number of gateways, and any interleaving of their      *)
(* commands, cut short anywhere: every key keeps a value of its kind, and  *)
(* a live session leaves an index only as the operations intend. A spawn   *)
(* that is rolled back leaves nothing behind but what it failed to look    *)
(* up. And clients that work one at a time see the in-memory service.      *)
(***************************************************************************)
EXTENDS RedisRegistry, SequenceTheorems, TLAPS

(***************************************************************************)
(* Commands and keys.                                                      *)
(***************************************************************************)
TypeSets == {"agent-sessions"} \X AgentType
SimulationSets == {"simulation-sessions"} \X Simulation

LEMMA KeysAre ==
  /\ \A s \in Session : SessionKey(s) \in StringKeys /\ SessionSimulation(s) \in StringKeys
  /\ \A t \in AgentType : AgentSessions(t) \in TypeSets
  /\ \A m \in Simulation : SimulationSessions(m) \in SimulationSets
  /\ IndexKeys = TypeSets \cup SimulationSets
  /\ ActiveAgents \in ActiveKeys /\ ActiveSimulations \in ActiveKeys
  /\ Key = StringKeys \cup IndexKeys \cup ActiveKeys
BY DEF SessionKey, SessionSimulation, AgentSessions, SimulationSessions, StringKeys, IndexKeys,
       TypeSets, SimulationSets, ActiveKeys, Key

(* Keys of two kinds differ, and a session's key names the session. *)
LEMMA KeysDiffer ==
  /\ \A k \in IndexKeys : k \notin StringKeys /\ k \notin ActiveKeys
  /\ \A k \in ActiveKeys : k \notin StringKeys
  /\ \A s, z \in Session : SessionKey(s) = SessionKey(z) => s = z
  /\ \A s, z \in Session : SessionKey(s) # SessionSimulation(z)
  /\ ActiveAgents # ActiveSimulations
BY DEF SessionKey, SessionSimulation, StringKeys, IndexKeys, ActiveKeys, ActiveAgents,
       ActiveSimulations

LEMMA CommandsAre ==
  /\ \A s \in Session, t \in AgentType : Set(SessionKey(s), t) \in Commands
  /\ \A s \in Session, m \in Simulation : Set(SessionSimulation(s), m) \in Commands
  /\ \A k \in IndexKeys, s \in Session : SAdd(k, s) \in Commands
  /\ \A k \in IndexKeys, ss \in SUBSET Session : SRem(k, ss) \in Commands
  /\ \A t \in AgentType : SAdd(ActiveAgents, t) \in Commands /\ SRem(ActiveAgents, {t}) \in Commands
  /\ \A m \in Simulation :
       SAdd(ActiveSimulations, m) \in Commands /\ SRem(ActiveSimulations, {m}) \in Commands
  /\ \A k \in Key : Del(k) \in Commands
BY DEF Commands, Set, SAdd, SRem, Del, SessionKey, SessionSimulation

(* What a key may hold, and a database of which every key does. *)
Kind(k) ==
  IF k \in {"session"} \X Session THEN AgentType \cup {Nil}
  ELSE IF k \in {"session-simulation"} \X Session THEN Simulation \cup {Nil}
  ELSE IF k \in IndexKeys THEN SUBSET Session
  ELSE SUBSET Owners(k)

DbOK(d) == d = [k \in Key |-> d[k]] /\ \A k \in Key : d[k] \in Kind(k)

LEMMA KindsAre ==
  /\ \A s \in Session : /\ Kind(SessionKey(s)) = AgentType \cup {Nil}
                        /\ Kind(SessionSimulation(s)) = Simulation \cup {Nil}
  /\ \A k \in IndexKeys : Kind(k) = SUBSET Session
  /\ \A k \in ActiveKeys : Kind(k) = SUBSET Owners(k)
  /\ \A k \in StringKeys : Nil \in Kind(k)
  /\ \A k \in Key : Absent(k) \in Kind(k)
<1>1. \A s \in Session : /\ Kind(SessionKey(s)) = AgentType \cup {Nil}
                         /\ Kind(SessionSimulation(s)) = Simulation \cup {Nil}
  BY DEF Kind, SessionKey, SessionSimulation
<1>2. \A k \in IndexKeys : Kind(k) = SUBSET Session
  BY DEF Kind, IndexKeys
<1>3. \A k \in ActiveKeys : Kind(k) = SUBSET Owners(k)
  BY DEF Kind, IndexKeys, ActiveKeys, ActiveAgents, ActiveSimulations
<1>4. \A k \in StringKeys : Nil \in Kind(k)
  BY DEF Kind, StringKeys
<1>5. \A k \in IndexKeys \cup ActiveKeys : Absent(k) \in Kind(k)
  BY <1>2, <1>3, KeysDiffer DEF Absent
<1>. QED  BY <1>1, <1>2, <1>3, <1>4, <1>5 DEF Absent, Key

(* The type invariant's part about Redis says just that. *)
LEMMA DbTypes ==
  DbOK(db) <=> /\ db = [k \in Key |-> db[k]]
               /\ \A s \in Session : /\ db[SessionKey(s)] \in AgentType \cup {Nil}
                                     /\ db[SessionSimulation(s)] \in Simulation \cup {Nil}
               /\ \A k \in IndexKeys : db[k] \subseteq Session
               /\ \A k \in ActiveKeys : db[k] \subseteq Owners(k)
<1>1. \A k \in StringKeys : \E s \in Session : k = SessionKey(s) \/ k = SessionSimulation(s)
  BY DEF StringKeys, SessionKey, SessionSimulation
<1>. QED  BY <1>1, KindsAre, KeysAre DEF DbOK

LEMMA CommandKinds ==
  ASSUME NEW cmd \in Commands
  PROVE  /\ cmd.key \in Key
         /\ \/ cmd.op = "SET" /\ cmd.key \in StringKeys /\ cmd.arg \in Kind(cmd.key)
            \/ cmd.op \in {"SADD", "SREM"} /\ cmd.key \in IndexKeys /\ cmd.arg \subseteq Session
            \/ /\ cmd.op \in {"SADD", "SREM"} /\ cmd.key \in ActiveKeys
               /\ cmd.arg \subseteq Owners(cmd.key)
            \/ cmd.op = "DEL"
<1>1. CASE cmd \in [op : {"SET"}, key : {"session"} \X Session, arg : AgentType]
  BY <1>1 DEF Kind, Key, StringKeys
<1>2. CASE cmd \in [op : {"SET"}, key : {"session-simulation"} \X Session, arg : Simulation]
  BY <1>2 DEF Kind, Key, StringKeys
<1>3. CASE cmd \in [op : {"SADD", "SREM"}, key : IndexKeys, arg : SUBSET Session]
  BY <1>3 DEF Key
<1>4. CASE cmd \in [op : {"SADD", "SREM"}, key : {ActiveAgents}, arg : SUBSET AgentType]
  BY <1>4 DEF Key, ActiveKeys, Owners
<1>5. CASE cmd \in [op : {"SADD", "SREM"}, key : {ActiveSimulations}, arg : SUBSET Simulation]
  BY <1>5, KeysDiffer DEF Key, ActiveKeys, Owners
<1>6. CASE cmd \in [op : {"DEL"}, key : Key, arg : {Nil}]
  BY <1>6
<1>. QED  BY <1>1, <1>2, <1>3, <1>4, <1>5, <1>6 DEF Commands

(* What a command makes of a key, and that it keeps the kinds. *)
LEMMA RunsAre ==
  ASSUME NEW d, DbOK(d), NEW cmd \in Commands
  PROVE  /\ Run(cmd, d) = [k \in Key |-> Run(cmd, d)[k]]
         /\ \A k \in Key : Run(cmd, d)[k] = IF k = cmd.key THEN Result(cmd, d) ELSE d[k]
BY CommandKinds DEF Run, DbOK

LEMMA RunKeepsKinds ==
  ASSUME NEW d, DbOK(d), NEW cmd \in Commands
  PROVE  DbOK(Run(cmd, d))
<1>1. Result(cmd, d) \in Kind(cmd.key)
  <2>1. CASE cmd.op = "SET" /\ cmd.arg \in Kind(cmd.key)
    BY <2>1 DEF Result
  <2>2. CASE cmd.op \in {"SADD", "SREM"} /\ cmd.key \in IndexKeys /\ cmd.arg \subseteq Session
    <3>1. Result(cmd, d) \subseteq d[cmd.key] \cup cmd.arg
      BY <2>2 DEF Result
    <3>2. d[cmd.key] \subseteq Session
      <4>1. d[cmd.key] \in Kind(cmd.key)
        BY CommandKinds DEF DbOK
      <4>. QED  BY <4>1, <2>2, KindsAre
    <3>. QED  BY <2>2, <3>1, <3>2, KindsAre
  <2>3. CASE /\ cmd.op \in {"SADD", "SREM"} /\ cmd.key \in ActiveKeys
             /\ cmd.arg \subseteq Owners(cmd.key)
    <3>1. Result(cmd, d) \subseteq d[cmd.key] \cup cmd.arg
      BY <2>3 DEF Result
    <3>2. d[cmd.key] \subseteq Owners(cmd.key)
      <4>1. d[cmd.key] \in Kind(cmd.key)
        BY CommandKinds DEF DbOK
      <4>. QED  BY <4>1, <2>3, KindsAre
    <3>. QED  BY <2>3, <3>1, <3>2, KindsAre
  <2>4. CASE cmd.op = "DEL"
    BY <2>4, KindsAre, CommandKinds DEF Result
  <2>. QED  BY <2>1, <2>2, <2>3, <2>4, CommandKinds
<1>. QED  BY <1>1, RunsAre DEF DbOK

(* What a command may add: a value to the key it sets, members to the set it
   adds to. *)
LEMMA RunAddsItsOwn ==
  ASSUME NEW d, DbOK(d), NEW cmd \in Commands
  PROVE  /\ \A s \in Session :
              d[SessionKey(s)] = Nil /\ Run(cmd, d)[SessionKey(s)] # Nil
                => cmd.op = "SET" /\ cmd.key = SessionKey(s)
         /\ \A k \in IndexKeys, s \in Session :
              s \in Run(cmd, d)[k] => s \in d[k] \/ (cmd.op = "SADD" /\ cmd.key = k /\ s \in cmd.arg)
<1>1. ASSUME NEW s \in Session, d[SessionKey(s)] = Nil, Run(cmd, d)[SessionKey(s)] # Nil
      PROVE  cmd.op = "SET" /\ cmd.key = SessionKey(s)
  <2>1. cmd.key = SessionKey(s) /\ Result(cmd, d) # Nil
    BY <1>1, RunsAre, KeysAre
  <2>2. cmd.op \in {"SET", "DEL"} /\ Absent(cmd.key) = Nil
    BY <2>1, KeysAre, KeysDiffer, CommandKinds DEF Absent
  <2>. QED  BY <2>1, <2>2 DEF Result
<1>2. ASSUME NEW k \in IndexKeys, NEW s \in Session, s \in Run(cmd, d)[k], s \notin d[k]
      PROVE  cmd.op = "SADD" /\ cmd.key = k /\ s \in cmd.arg
  <2>1. cmd.key = k /\ s \in Result(cmd, d)
    BY <1>2, RunsAre, KeysAre
  <2>2. cmd.op \in {"SADD", "SREM", "DEL"} /\ Absent(cmd.key) = {}
    BY <2>1, KeysAre, KeysDiffer, CommandKinds DEF Absent
  <2>. QED  BY <1>2, <2>1, <2>2 DEF Result
<1>. QED  BY <1>1, <1>2, Zenon

(***************************************************************************)
(* The invariant.                                                          *)
(***************************************************************************)
Untracking == {"simulation", "count type", "count simulation", "untracked"}

(* The commands of an entry: they add its session to sets, and only the first
   sets a session key, the entry's. *)
TrackPipe(p, l) ==
  \A i \in DOMAIN p :
    /\ l.next > 1
    /\ p[i].key \in IndexKeys => p[i].arg = {l.batch[l.next - 1].session}
    /\ \A s \in Session : p[i].key = SessionKey(s) => i = 1 /\ s = l.batch[l.next - 1].session

(* A client c at a whose pipeline is p and whose locals are l. *)
ClientOK(c, a, p, l) ==
  /\ a \in Control /\ p \in Seq(Commands) /\ l \in Locals
  /\ a = "idle" => l = NoLocals /\ p = <<>>
  /\ c \in Flusher => p = <<>>
  /\ c \in Handler => /\ l.next \in 1 .. Len(l.batch) + 1
                      /\ a \in Untracking => l.next <= Len(l.batch)
  /\ c \in Reaper => /\ a \in {"reap", "check type", "card type"} => l.todo \subseteq TypeSets
                     /\ a \in {"check type", "card type"} => l.visit \in TypeSets
                     /\ a \in {"sweep", "check simulation", "card simulation"}
                          => l.todo \subseteq SimulationSets
                     /\ a \in {"check simulation", "card simulation"} => l.visit \in SimulationSets
  /\ IF c \in Handler /\ a = "track" THEN TrackPipe(p, l)
     ELSE \A i \in DOMAIN p : p[i].op \in {"SREM", "DEL"}

Sane ==
  /\ DbOK(db)
  /\ at = [c \in Client |-> at[c]] /\ pipe = [c \in Client |-> pipe[c]]
  /\ local = [c \in Client |-> local[c]]
  /\ \A c \in Client : ClientOK(c, at[c], pipe[c], local[c])
  /\ used \subseteq Session /\ rolledBack \subseteq used
  /\ flushes \in 0 .. MaxFlushes /\ errors \in 0 .. MaxErrors

(* Session ids are handed out once. *)
BatchesApart ==
  /\ \A h \in Handler : \A i \in DOMAIN local[h].batch : local[h].batch[i].session \in used
  /\ \A g, h \in Handler : \A i \in DOMAIN local[g].batch, j \in DOMAIN local[h].batch :
       local[g].batch[i].session = local[h].batch[j].session => g = h /\ i = j

(* A session whose key may be set yet: its id is not handed out, or the command
   that sets the key has not been executed. *)
Coming(s) ==
  \E h \in Handler :
    /\ at[h] = "track"
    /\ \/ \E i \in DOMAIN local[h].batch :
            i >= local[h].next /\ local[h].batch[i].session = s
       \/ pipe[h] # <<>> /\ Head(pipe[h]).key = SessionKey(s)

Fresh(s) == s \notin used \/ Coming(s)

(* No set names such a session, and no reaper has seen it. *)
FreshUnseen ==
  \A s \in Session : Fresh(s) =>
    /\ \A k \in IndexKeys : s \notin db[k]
    /\ \A r \in Reaper : s \notin local[r].ids /\ s \notin local[r].stale

RegistryInv == Sane /\ BatchesApart /\ FreshUnseen /\ StaleIsDead

LEMMA SaneTypes == Sane /\ unfound \subseteq Session => TypeOK
<1>. SUFFICES ASSUME Sane, unfound \subseteq Session PROVE TypeOK
  OBVIOUS
<1>1. /\ DOMAIN db = Key
      /\ \A s \in Session : /\ db[SessionKey(s)] \in AgentType \cup {Nil}
                            /\ db[SessionSimulation(s)] \in Simulation \cup {Nil}
      /\ \A k \in IndexKeys : db[k] \subseteq Session
      /\ \A k \in ActiveKeys : db[k] \subseteq Owners(k)
  BY DbTypes DEF Sane, DbOK
<1>2. /\ at \in [Client -> Control] /\ pipe \in [Client -> Seq(Commands)]
      /\ local \in [Client -> Locals]
  BY DEF Sane, ClientOK
<1>. QED  BY <1>1, <1>2 DEF Sane, TypeOK

LEMMA NoLocalsOK ==
  \A c \in Client : ClientOK(c, "idle", <<>>, NoLocals)
<1>1. NoLocals \in Locals /\ NoLocals.next = 1 /\ NoLocals.batch = <<>>
  BY DEF NoLocals, Locals
<1>. QED  BY <1>1 DEF ClientOK, Control, Untracking

LEMMA RegistryInvInit == ASSUME RegistryAssumption PROVE Init => RegistryInv
<1>. SUFFICES ASSUME Init PROVE RegistryInv
  OBVIOUS
<1>1. DbOK(db)
  BY KindsAre DEF Init, DbOK
<1>2. Sane
  BY <1>1, NoLocalsOK DEF Init, Sane, RegistryAssumption
<1>3. \A c \in Client : local[c] = NoLocals /\ at[c] = "idle"
  BY DEF Init
<1>4. NoLocals.batch = <<>> /\ NoLocals.ids = {} /\ NoLocals.stale = {}
  BY DEF NoLocals
<1>5. BatchesApart
  BY <1>3, <1>4 DEF BatchesApart, Client
<1>6. \A k \in IndexKeys : db[k] = {}
  BY KeysAre, KeysDiffer DEF Init, Absent
<1>7. FreshUnseen /\ StaleIsDead
  BY <1>3, <1>4, <1>6 DEF FreshUnseen, StaleIsDead, Client
<1>. QED  BY <1>2, <1>5, <1>7 DEF RegistryInv

(***************************************************************************)
(* Steps.                                                                  *)
(***************************************************************************)
(* Of all clients, only c does something. *)
Moves(c) ==
  /\ at' = [at EXCEPT ![c] = at'[c]] /\ pipe' = [pipe EXCEPT ![c] = pipe'[c]]
  /\ local' = [local EXCEPT ![c] = local'[c]]

(* Redis executes a command, or none. *)
Obeys(cmd) == cmd \in Commands /\ db' = Run(cmd, db)

LEMMA SaneStep ==
  ASSUME Sane, NEW c \in Client, Moves(c), ClientOK(c, at'[c], pipe'[c], local'[c]),
         db' = db \/ \E cmd : Obeys(cmd),
         used' \subseteq Session, rolledBack' \subseteq used',
         flushes' \in 0 .. MaxFlushes, errors' \in 0 .. MaxErrors
  PROVE  Sane'
<1>1. DbOK(db')
  BY RunKeepsKinds DEF Sane, Obeys
<1>2. /\ at' = [d \in Client |-> at'[d]] /\ pipe' = [d \in Client |-> pipe'[d]]
      /\ local' = [d \in Client |-> local'[d]]
      /\ \A d \in Client \ {c} : at'[d] = at[d] /\ pipe'[d] = pipe[d] /\ local'[d] = local[d]
  BY DEF Sane, Moves
<1>3. \A d \in Client : ClientOK(d, at'[d], pipe'[d], local'[d])
  BY <1>2 DEF Sane
<1>. QED  BY <1>1, <1>2, <1>3 DEF Sane

LEMMA TailOK ==
  ASSUME NEW S, NEW q \in Seq(S), q # <<>>
  PROVE  /\ Head(q) \in S /\ Head(q) = q[1] /\ 1 \in DOMAIN q /\ Tail(q) \in Seq(S)
         /\ \A i \in DOMAIN Tail(q) : i \in Nat \ {0} /\ i + 1 \in DOMAIN q /\ Tail(q)[i] = q[i + 1]
OBVIOUS

LEMMA Joined ==
  ASSUME NEW S, NEW p \in Seq(S), NEW q \in Seq(S)
  PROVE  /\ p \o q \in Seq(S)
         /\ \A i \in DOMAIN (p \o q) :
              \/ i \in DOMAIN p /\ (p \o q)[i] = p[i]
              \/ i - Len(p) \in DOMAIN q /\ i > Len(p) /\ (p \o q)[i] = q[i - Len(p)]
OBVIOUS

LEMMA JoinedHead ==
  ASSUME NEW S, NEW p \in Seq(S), NEW q \in Seq(S), p # <<>>
  PROVE  p \o q # <<>> /\ Head(p \o q) = Head(p)
OBVIOUS

(* What TrackSession sends. *)
LEMMA TrackCommandsOK ==
  ASSUME NEW e \in Entry
  PROVE  /\ TrackCommands(e) \in Seq(Commands)
         /\ TrackCommands(e) # <<>> /\ Head(TrackCommands(e)).key = SessionKey(e.session)
         /\ \A i \in DOMAIN TrackCommands(e) :
              LET cmd == TrackCommands(e)[i] IN
              /\ cmd.key \in IndexKeys => cmd.arg = {e.session}
              /\ \A s \in Session : cmd.key = SessionKey(s) => i = 1 /\ s = e.session
<1>. DEFINE p == <<Set(SessionKey(e.session), e.type), SAdd(AgentSessions(e.type), e.session),
                   SAdd(ActiveAgents, e.type)>>
            q == IF e.sim = Nil THEN <<>> ELSE
                   <<SAdd(SimulationSessions(e.sim), e.session),
                     Set(SessionSimulation(e.session), e.sim),
                     SAdd(ActiveSimulations, e.sim)>>
<1>1. e.session \in Session /\ e.type \in AgentType /\ (e.sim # Nil => e.sim \in Simulation)
  BY DEF Entry
<1>2. p \in Seq(Commands) /\ q \in Seq(Commands)
  <2>1. /\ Set(SessionKey(e.session), e.type) \in Commands
        /\ SAdd(AgentSessions(e.type), e.session) \in Commands
        /\ SAdd(ActiveAgents, e.type) \in Commands
    BY <1>1, CommandsAre, KeysAre
  <2>2. e.sim # Nil => /\ SAdd(SimulationSessions(e.sim), e.session) \in Commands
                       /\ Set(SessionSimulation(e.session), e.sim) \in Commands
                       /\ SAdd(ActiveSimulations, e.sim) \in Commands
    BY <1>1, CommandsAre, KeysAre
  <2>. QED  BY <2>1, <2>2
<1>3. \A i \in DOMAIN p :
        /\ p[i].key \in IndexKeys => p[i].arg = {e.session}
        /\ \A s \in Session : p[i].key = SessionKey(s) => i = 1 /\ s = e.session
  <2>1. /\ DOMAIN p = 1 .. 3 /\ p[1] = Set(SessionKey(e.session), e.type)
        /\ p[2] = SAdd(AgentSessions(e.type), e.session) /\ p[3] = SAdd(ActiveAgents, e.type)
    OBVIOUS
  <2>2. /\ p[1].key = SessionKey(e.session)
        /\ p[2].key = AgentSessions(e.type) /\ p[2].arg = {e.session}
        /\ p[3].key = ActiveAgents
    BY <2>1 DEF Set, SAdd
  <2>. HIDE DEF p
  <2>. QED  BY <1>1, <2>1, <2>2, KeysAre, KeysDiffer
<1>4. \A i \in DOMAIN q :
        /\ q[i].key \in IndexKeys => q[i].arg = {e.session}
        /\ \A s \in Session : q[i].key # SessionKey(s)
  <2>1. CASE e.sim = Nil
    BY <2>1
  <2>2. CASE e.sim # Nil
    <3>1. /\ DOMAIN q = 1 .. 3 /\ q[1] = SAdd(SimulationSessions(e.sim), e.session)
          /\ q[2] = Set(SessionSimulation(e.session), e.sim) /\ q[3] = SAdd(ActiveSimulations, e.sim)
      BY <2>2
    <3>2. /\ q[1].key = SimulationSessions(e.sim) /\ q[1].arg = {e.session}
          /\ q[2].key = SessionSimulation(e.session) /\ q[3].key = ActiveSimulations
      BY <3>1 DEF Set, SAdd
    <3>. HIDE DEF q
    <3>. QED  BY <1>1, <2>2, <3>1, <3>2, KeysAre, KeysDiffer
  <2>. QED  BY <2>1, <2>2
<1>5. Len(p) = 3 /\ Head(p) = Set(SessionKey(e.session), e.type)
  OBVIOUS
<1>6. TrackCommands(e) = p \o q
  BY DEF TrackCommands
<1>. HIDE DEF p, q
<1>7. Head(p \o q) = Head(p) /\ p \o q # <<>>
  <2>1. p # <<>>
    BY <1>5
  <2>. QED  BY <1>2, <2>1, JoinedHead
<1>8. \A i \in DOMAIN (p \o q) :
        /\ (p \o q)[i].key \in IndexKeys => (p \o q)[i].arg = {e.session}
        /\ \A s \in Session : (p \o q)[i].key = SessionKey(s) => i = 1 /\ s = e.session
  BY <1>2, <1>3, <1>4, Joined
<1>. QED  BY <1>2, <1>5, <1>6, <1>7, <1>8, Joined DEF Set

(* What UntrackSession sends. *)
LEMMA UntrackCommandsOK ==
  ASSUME NEW s \in Session, NEW t \in AgentType \cup {Nil}, NEW m \in Simulation \cup {Nil}
  PROVE  /\ UntrackCommands(s, t, m) \in Seq(Commands)
         /\ \A i \in DOMAIN UntrackCommands(s, t, m) :
              UntrackCommands(s, t, m)[i].op \in {"SREM", "DEL"}
<1>. DEFINE Removing == {cmd \in Commands : cmd.op \in {"SREM", "DEL"}}
            p == <<Del(SessionKey(s)), Del(SessionSimulation(s))>>
            q == IF t = Nil THEN <<>> ELSE <<SRem(AgentSessions(t), {s})>>
            r == IF m = Nil THEN <<>> ELSE <<SRem(SimulationSessions(m), {s})>>
<1>1. \A k \in Key : Del(k) \in Removing
  BY CommandsAre DEF Del
<1>2. \A k \in IndexKeys : SRem(k, {s}) \in Removing
  BY CommandsAre DEF SRem
<1>. HIDE DEF Removing
<1>3. p \in Seq(Removing)
  BY <1>1, KeysAre
<1>4. q \in Seq(Removing)
  BY <1>2, KeysAre
<1>5. r \in Seq(Removing)
  BY <1>2, KeysAre
<1>6. UntrackCommands(s, t, m) = (p \o q) \o r
  BY DEF UntrackCommands
<1>. HIDE DEF p, q, r
<1>7. UntrackCommands(s, t, m) \in Seq(Removing)
  BY <1>3, <1>4, <1>5, <1>6
<1>8. \A cmd \in Removing : cmd \in Commands /\ cmd.op \in {"SREM", "DEL"}
  BY DEF Removing
<1>. QED  BY <1>7, <1>8

LEMMA Roles ==
  ASSUME RegistryAssumption
  PROVE  /\ \A h \in Handler : h \in Client /\ h \notin Flusher /\ h \notin Reaper
         /\ \A f \in Flusher : f \in Client /\ f \notin Handler /\ f \notin Reaper
         /\ \A r \in Reaper : r \in Client /\ r \notin Handler /\ r \notin Flusher
BY DEF RegistryAssumption, Client

(* A client's variable that is updated at the client. *)
LEMMA Updates ==
  ASSUME NEW f, NEW S, f = [x \in S |-> f[x]], NEW c \in S, NEW v, NEW g, g = [f EXCEPT ![c] = v]
  PROVE  g = [f EXCEPT ![c] = g[c]] /\ g[c] = v
OBVIOUS

LEMMA Stays ==
  ASSUME NEW f, NEW S, f = [x \in S |-> f[x]], NEW c \in S, NEW g, g = f
  PROVE  g = [f EXCEPT ![c] = g[c]] /\ g[c] = f[c]
OBVIOUS

(* c sends commands, goes on and changes its locals; or leaves one of them. *)
LEMMA MovesOf ==
  ASSUME Sane, NEW c \in Client,
         NEW a, NEW p, NEW l,
         at' = [at EXCEPT ![c] = a] \/ (at' = at /\ a = at[c]),
         pipe' = [pipe EXCEPT ![c] = p] \/ (pipe' = pipe /\ p = pipe[c]),
         local' = [local EXCEPT ![c] = l] \/ (local' = local /\ l = local[c]),
         ClientOK(c, a, p, l)
  PROVE  /\ Moves(c) /\ ClientOK(c, at'[c], pipe'[c], local'[c])
         /\ at'[c] = a /\ pipe'[c] = p /\ local'[c] = l
<1>1. at' = [at EXCEPT ![c] = at'[c]] /\ at'[c] = a
  BY Updates, Stays DEF Sane
<1>2. pipe' = [pipe EXCEPT ![c] = pipe'[c]] /\ pipe'[c] = p
  BY Updates, Stays DEF Sane
<1>3. local' = [local EXCEPT ![c] = local'[c]] /\ local'[c] = l
  BY Updates, Stays DEF Sane
<1>. QED  BY <1>1, <1>2, <1>3 DEF Moves

(* A step of c: what it makes of its control, pipeline and locals is sane. *)
Acts(c) ==
  /\ Moves(c) /\ ClientOK(c, at'[c], pipe'[c], local'[c])

LEMMA ExecuteActs ==
  ASSUME RegistryAssumption, Sane, NEW c \in Client, Execute(c)
  PROVE  Acts(c) /\ Obeys(Head(pipe[c]))
<1>. DEFINE p == pipe[c]
<1>1. ClientOK(c, at[c], p, local[c]) /\ p # <<>>
  BY DEF Execute, Sane
<1>2. /\ p \in Seq(Commands) /\ Head(p) \in Commands /\ Tail(p) \in Seq(Commands)
      /\ \A i \in DOMAIN Tail(p) : i \in Nat \ {0} /\ i + 1 \in DOMAIN p /\ Tail(p)[i] = p[i + 1]
  <2>1. p \in Seq(Commands)
    BY <1>1 DEF ClientOK
  <2>. QED  BY <1>1, <2>1, TailOK
<1>3. at[c] # "idle" /\ c \notin Flusher
  BY <1>1 DEF ClientOK
<1>4. TrackPipe(p, local[c]) => TrackPipe(Tail(p), local[c])
  <2>. SUFFICES ASSUME TrackPipe(p, local[c]), NEW i \in DOMAIN Tail(p)
                PROVE  /\ local[c].next > 1
                       /\ Tail(p)[i].key \in IndexKeys =>
                            Tail(p)[i].arg = {local[c].batch[local[c].next - 1].session}
                       /\ \A s \in Session : Tail(p)[i].key = SessionKey(s) =>
                            i = 1 /\ s = local[c].batch[local[c].next - 1].session
    BY DEF TrackPipe
  <2>1. i + 1 # 1
    BY <1>2
  <2>. QED  BY <1>2, <2>1 DEF TrackPipe
<1>5. ClientOK(c, at[c], Tail(p), local[c])
  BY <1>1, <1>2, <1>3, <1>4 DEF ClientOK
<1>6. pipe' = [pipe EXCEPT ![c] = Tail(p)] /\ at' = at /\ local' = local
  BY DEF Execute, Send
<1>7. Moves(c) /\ ClientOK(c, at'[c], pipe'[c], local'[c])
  BY <1>5, <1>6, MovesOf
<1>. QED  BY <1>2, <1>7 DEF Acts, Obeys, Execute

LEMMA CancelActs ==
  ASSUME RegistryAssumption, Sane, NEW c \in Client, Cancel(c)
  PROVE  Acts(c)
BY NoLocalsOK, MovesOf DEF Acts, Cancel, Return, Goto, Send

(* Requests. *)
LEMMA BatchTrackSessionsActs ==
  ASSUME RegistryAssumption, Sane, NEW h \in Handler, BatchTrackSessions(h)
  PROVE  Acts(h) /\ used' \subseteq Session /\ used \subseteq used'
<1>1. h \in Client /\ h \notin Flusher /\ h \notin Reaper /\ at[h] = "idle"
  BY Roles DEF BatchTrackSessions, MayStart
<1>2. local[h] = NoLocals /\ pipe[h] = <<>> /\ local[h] \in Locals
  BY <1>1 DEF Sane, ClientOK
<1>3. PICK n \in 1 .. MaxBatch, sim \in Simulation \cup {Nil} :
      \E ids \in [1 .. n -> Session \ used], type \in [1 .. n -> AgentType] :
        /\ \A i, j \in 1 .. n : ids[i] = ids[j] => i = j
        /\ local' = [local EXCEPT ![h].batch =
             [i \in 1 .. n |-> [session |-> ids[i], type |-> type[i], sim |-> sim]]]
        /\ used' = used \cup {ids[i] : i \in 1 .. n}
  BY DEF BatchTrackSessions
<1>4. PICK ids \in [1 .. n -> Session \ used], type \in [1 .. n -> AgentType] :
        /\ \A i, j \in 1 .. n : ids[i] = ids[j] => i = j
        /\ local' = [local EXCEPT ![h].batch =
             [i \in 1 .. n |-> [session |-> ids[i], type |-> type[i], sim |-> sim]]]
        /\ used' = used \cup {ids[i] : i \in 1 .. n}
  BY <1>3
<1>. DEFINE b == [i \in 1 .. n |-> [session |-> ids[i], type |-> type[i], sim |-> sim]]
            l == [local[h] EXCEPT !.batch = b]
<1>5. b \in Seq(Entry) /\ n \in Nat
  BY DEF Entry, RegistryAssumption
<1>6. l \in Locals /\ l.next = 1 /\ l.batch = b
  <2>1. l \in Locals
    BY <1>2, <1>5 DEF Locals
  <2>2. l.next = local[h].next /\ l.batch = b /\ local[h].next = 1
    BY <1>2 DEF NoLocals
  <2>. QED  BY <2>1, <2>2
<1>7. ClientOK(h, "track", <<>>, l)
  <2>1. 1 \in 1 .. Len(b) + 1
    BY <1>5
  <2>. HIDE DEF b, l
  <2>. QED  BY <1>1, <1>6, <2>1 DEF ClientOK, Control, TrackPipe, Untracking
<1>8. local' = [local EXCEPT ![h] = l] /\ at' = [at EXCEPT ![h] = "track"] /\ pipe' = pipe
  BY <1>4 DEF BatchTrackSessions, Goto
<1>9. Acts(h)
  <2>. HIDE DEF l
  <2>. QED  BY <1>1, <1>2, <1>7, <1>8, MovesOf DEF Acts
<1>10. used' \subseteq Session /\ used \subseteq used'
  BY <1>4 DEF Sane
<1>. QED  BY <1>9, <1>10

LEMMA TrackEntryActs ==
  ASSUME RegistryAssumption, Sane, NEW h \in Handler, TrackEntry(h)
  PROVE  Acts(h)
<1>. DEFINE n == local[h].next
            l == [local[h] EXCEPT !.next = n + 1]
            p == TrackCommands(local[h].batch[n])
<1>1. h \in Client /\ h \notin Flusher /\ h \notin Reaper /\ at[h] = "track"
  BY Roles DEF TrackEntry, Ready
<1>2. /\ local[h] \in Locals /\ n \in 1 .. Len(local[h].batch) /\ local[h].batch \in Seq(Entry)
  <2>1. ClientOK(h, at[h], pipe[h], local[h])
    BY <1>1 DEF Sane
  <2>2. local[h] \in Locals /\ n \in 1 .. Len(local[h].batch) + 1
    BY <1>1, <2>1 DEF ClientOK
  <2>3. local[h].batch \in Seq(Entry)
    BY <2>2 DEF Locals
  <2>4. n <= Len(local[h].batch)
    BY DEF TrackEntry
  <2>. QED  BY <2>2, <2>3, <2>4
<1>3. l \in Locals /\ l.next = n + 1 /\ l.batch = local[h].batch
  BY <1>2 DEF Locals
<1>4. local[h].batch[n] \in Entry
  BY <1>2
<1>5. p \in Seq(Commands) /\ TrackPipe(p, l)
  <2>. HIDE DEF l
  <2>1. l.next - 1 = n /\ l.next > 1
    BY <1>2, <1>3
  <2>. QED  BY <1>3, <1>4, <2>1, TrackCommandsOK DEF TrackPipe
<1>6. ClientOK(h, "track", p, l)
  <2>1. l.next \in 1 .. Len(l.batch) + 1
    BY <1>2, <1>3, SMTT(20)
  <2>. HIDE DEF l, p
  <2>. QED  BY <1>1, <1>3, <1>5, <2>1 DEF ClientOK, Control, Untracking
<1>7. local' = [local EXCEPT ![h] = l] /\ pipe' = [pipe EXCEPT ![h] = p] /\ at' = at
  BY DEF TrackEntry, Send
<1>. QED  BY <1>1, <1>6, <1>7, MovesOf DEF Acts

(* What a handler relies on, and what makes a handler sane that untracks. *)
LEMMA HandlerFacts ==
  ASSUME RegistryAssumption, Sane, NEW h \in Handler
  PROVE  /\ h \in Client /\ h \notin Flusher /\ h \notin Reaper
         /\ local[h] \in Locals /\ local[h].batch \in Seq(Entry)
         /\ local[h].next \in 1 .. Len(local[h].batch) + 1
         /\ local[h].type \in AgentType \cup {Nil} /\ local[h].sim \in Simulation \cup {Nil}
         /\ at[h] \in Untracking => local[h].next <= Len(local[h].batch)
         /\ local[h].next <= Len(local[h].batch) => Current(h) \in Session
<1>1. h \in Client /\ h \notin Flusher /\ h \notin Reaper
  BY Roles
<1>2. ClientOK(h, at[h], pipe[h], local[h])
  BY <1>1 DEF Sane
<1>3. /\ local[h] \in Locals /\ local[h].next \in 1 .. Len(local[h].batch) + 1
      /\ at[h] \in Untracking => local[h].next <= Len(local[h].batch)
  BY <1>2 DEF ClientOK
<1>4. /\ local[h].batch \in Seq(Entry)
      /\ local[h].type \in AgentType \cup {Nil} /\ local[h].sim \in Simulation \cup {Nil}
  BY <1>3 DEF Locals
<1>5. ASSUME local[h].next <= Len(local[h].batch)
      PROVE  Current(h) \in Session
  <2>1. local[h].batch[local[h].next] \in Entry
    BY <1>3, <1>4, <1>5
  <2>. QED  BY <2>1 DEF Current, Entry
<1>. QED  BY <1>1, <1>3, <1>4, <1>5

LEMMA HandlerOK ==
  ASSUME RegistryAssumption, NEW h \in Handler,
         NEW a \in {"untrack"} \cup Untracking, NEW p \in Seq(Commands), NEW l \in Locals,
         \A i \in DOMAIN p : p[i].op \in {"SREM", "DEL"},
         l.next \in 1 .. Len(l.batch) + 1,
         a \in Untracking => l.next <= Len(l.batch)
  PROVE  ClientOK(h, a, p, l)
BY Roles DEF ClientOK, Untracking, Control

LEMMA NoCommands == <<>> \in Seq(Commands) /\ DOMAIN <<>> = {}
OBVIOUS

LEMMA HandlerWaits ==
  ASSUME RegistryAssumption, NEW h \in Handler,
         NEW a \in {"untrack"} \cup Untracking, NEW l \in Locals,
         l.next \in 1 .. Len(l.batch) + 1,
         a \in Untracking => l.next <= Len(l.batch)
  PROVE  ClientOK(h, a, <<>>, l)
BY NoCommands, HandlerOK

LEMMA FlusherOK ==
  ASSUME RegistryAssumption, Sane, NEW f \in Flusher,
         NEW a \in {"flush types", "scan simulations", "flush simulations", "scan sessions",
                    "flush sessions"},
         NEW todo \in SUBSET Key
  PROVE  /\ f \in Client /\ pipe[f] = <<>> /\ local[f] \in Locals
         /\ ClientOK(f, a, <<>>, [local[f] EXCEPT !.todo = todo])
         /\ at[f] # "idle" => ClientOK(f, a, <<>>, local[f])
<1>1. f \in Client /\ f \notin Handler /\ f \notin Reaper
  BY Roles
<1>2. pipe[f] = <<>> /\ local[f] \in Locals
  BY <1>1 DEF Sane, ClientOK
<1>3. [local[f] EXCEPT !.todo = todo] \in Locals
  BY <1>2 DEF Locals
<1>4. ASSUME NEW l \in Locals
      PROVE  ClientOK(f, a, <<>>, l)
  <2>1. <<>> \in Seq(Commands) /\ DOMAIN <<>> = {}
    BY NoCommands
  <2>2. a \in Control /\ a # "idle"
    BY DEF Control
  <2>. QED  BY <1>1, <2>1, <2>2 DEF ClientOK
<1>. QED  BY <1>1, <1>2, <1>3, <1>4

LEMMA EnqueueActs ==
  ASSUME RegistryAssumption, Sane, NEW h \in Handler, Enqueue(h)
  PROVE  Acts(h)
<1>1. h \in Client /\ pipe[h] = <<>> /\ pipe' = pipe
  BY HandlerFacts DEF Enqueue, Ready
<1>2. CASE Return(h)
  BY <1>1, <1>2, NoLocalsOK, MovesOf DEF Acts, Return, Goto
<1>3. CASE Goto(h, "untrack") /\ local' = [local EXCEPT ![h].next = 1]
  <2>. DEFINE l == [local[h] EXCEPT !.next = 1]
  <2>1. l \in Locals /\ l.next = 1 /\ l.batch = local[h].batch
    BY HandlerFacts DEF Locals
  <2>2. 1 \in 1 .. Len(l.batch) + 1
    BY <2>1, HandlerFacts
  <2>3. local' = [local EXCEPT ![h] = l] /\ at' = [at EXCEPT ![h] = "untrack"]
    BY <1>3 DEF Goto
  <2>. HIDE DEF l
  <2>4. ClientOK(h, "untrack", <<>>, l)
    BY <2>1, <2>2, HandlerWaits DEF Untracking
  <2>. QED  BY <1>1, <2>3, <2>4, MovesOf DEF Acts
<1>. QED  BY <1>2, <1>3 DEF Enqueue

LEMMA FindAgentTypeActs ==
  ASSUME RegistryAssumption, Sane, NEW h \in Handler, FindAgentType(h)
  PROVE  Acts(h)
<1>. DEFINE l == [local[h] EXCEPT !.type = db[SessionKey(Current(h))]]
<1>1. h \in Client /\ pipe[h] = <<>> /\ pipe' = pipe /\ local[h].next <= Len(local[h].batch)
  BY HandlerFacts DEF FindAgentType, Ready
<1>2. db[SessionKey(Current(h))] \in AgentType \cup {Nil}
  BY <1>1, HandlerFacts, DbTypes DEF Sane
<1>3. l \in Locals /\ l.next = local[h].next /\ l.batch = local[h].batch
  BY <1>2, HandlerFacts DEF Locals
<1>4. local' = [local EXCEPT ![h] = l] /\ at' = [at EXCEPT ![h] = "simulation"]
  BY DEF FindAgentType, Goto
<1>. HIDE DEF l
<1>5. ClientOK(h, "simulation", <<>>, l)
  <2>1. l.next \in 1 .. Len(l.batch) + 1 /\ l.next <= Len(l.batch)
    BY <1>1, <1>3, HandlerFacts
  <2>. QED  BY <1>3, <2>1, HandlerWaits DEF Untracking
<1>. QED  BY <1>1, <1>4, <1>5, MovesOf DEF Acts

(* The session leaves the set of a simulation, the one found or none. *)
LEMMA LeaveActs ==
  ASSUME RegistryAssumption, Sane, NEW h \in Handler, Ready(h, "simulation"),
         NEW sim \in Simulation \cup {Nil}, Leave(h, sim)
  PROVE  /\ Acts(h) /\ at'[h] = "count type"
         /\ pipe'[h] = UntrackCommands(Current(h), local[h].type, sim)
         /\ local'[h] = [local[h] EXCEPT !.sim = sim]
         /\ local'[h].batch = local[h].batch /\ local'[h].next = local[h].next
<1>. DEFINE l == [local[h] EXCEPT !.sim = sim]
            p == UntrackCommands(Current(h), local[h].type, sim)
<1>1. h \in Client /\ at[h] \in Untracking /\ local[h].next <= Len(local[h].batch)
  BY HandlerFacts DEF Ready, Untracking
<1>2. Current(h) \in Session
  BY <1>1, HandlerFacts
<1>3. l \in Locals /\ l.next = local[h].next /\ l.batch = local[h].batch
  BY <1>2, HandlerFacts DEF Locals
<1>4. p \in Seq(Commands) /\ \A i \in DOMAIN p : p[i].op \in {"SREM", "DEL"}
  BY <1>2, HandlerFacts, UntrackCommandsOK
<1>5. /\ local' = [local EXCEPT ![h] = l] /\ at' = [at EXCEPT ![h] = "count type"]
      /\ pipe' = [pipe EXCEPT ![h] = p]
  BY DEF Leave, Goto, Send
<1>. HIDE DEF l, p
<1>6. ClientOK(h, "count type", p, l)
  BY <1>1, <1>3, <1>4, HandlerFacts, HandlerOK DEF Untracking
<1>7. Acts(h) /\ at'[h] = "count type" /\ pipe'[h] = p /\ local'[h] = l
  BY <1>1, <1>5, <1>6, MovesOf DEF Acts
<1>. QED  BY <1>3, <1>7 DEF l, p

LEMMA FindSimulationActs ==
  ASSUME RegistryAssumption, Sane, NEW h \in Handler, FindSimulation(h)
  PROVE  /\ Acts(h) /\ at'[h] = "count type" /\ local'[h].batch = local[h].batch
         /\ errors' \in 0 .. MaxErrors
         /\ Current(h) \in Session /\ unfound' \subseteq unfound \cup {Current(h)}
<1>1. /\ Current(h) \in Session /\ Nil \in Simulation \cup {Nil}
      /\ db[SessionSimulation(Current(h))] \in Simulation \cup {Nil}
  <2>1. Current(h) \in Session
    BY HandlerFacts DEF FindSimulation, Ready, Untracking
  <2>. QED  BY <2>1, DbTypes DEF Sane
<1>2. Ready(h, "simulation") /\ \E sim \in Simulation \cup {Nil} : Leave(h, sim)
  BY <1>1 DEF FindSimulation
<1>3. /\ errors' = errors \/ (errors < MaxErrors /\ errors' = errors + 1)
      /\ unfound' \subseteq unfound \cup {Current(h)}
  BY DEF FindSimulation
<1>4. errors' \in 0 .. MaxErrors
  BY <1>3 DEF Sane, RegistryAssumption
<1>. QED  BY <1>1, <1>2, <1>3, <1>4, LeaveActs

LEMMA CountTypeActs ==
  ASSUME RegistryAssumption, Sane, NEW h \in Handler, CountType(h)
  PROVE  Acts(h)
<1>. DEFINE type == local[h].type
            p == IF type # Nil /\ db[AgentSessions(type)] = {}
                 THEN <<SRem(ActiveAgents, {type})>> ELSE <<>>
<1>1. h \in Client /\ at[h] \in Untracking /\ local[h].next <= Len(local[h].batch)
  BY HandlerFacts DEF CountType, Ready, Untracking
<1>2. type # Nil => SRem(ActiveAgents, {type}) \in Commands
  BY HandlerFacts, CommandsAre
<1>3. p \in Seq(Commands) /\ \A i \in DOMAIN p : p[i].op \in {"SREM", "DEL"}
  <2>1. SRem(ActiveAgents, {type}).op = "SREM"
    BY DEF SRem
  <2>2. CASE type # Nil /\ db[AgentSessions(type)] = {}
    BY <1>2, <2>1, <2>2
  <2>3. CASE ~(type # Nil /\ db[AgentSessions(type)] = {})
    BY <2>3
  <2>. QED  BY <2>2, <2>3
<1>4. /\ local' = local /\ at' = [at EXCEPT ![h] = "count simulation"]
      /\ pipe' = [pipe EXCEPT ![h] = p]
  BY DEF CountType, Goto, Send
<1>. HIDE DEF p
<1>5. ClientOK(h, "count simulation", p, local[h])
  BY <1>1, <1>3, HandlerFacts, HandlerOK DEF Untracking
<1>. QED  BY <1>1, <1>4, <1>5, MovesOf DEF Acts

LEMMA CountSimulationActs ==
  ASSUME RegistryAssumption, Sane, NEW h \in Handler, CountSimulation(h)
  PROVE  Acts(h)
<1>. DEFINE sim == local[h].sim
            p == IF sim # Nil /\ db[SimulationSessions(sim)] = {}
                 THEN <<Del(SimulationSessions(sim)), SRem(ActiveSimulations, {sim})>> ELSE <<>>
<1>1. h \in Client /\ at[h] \in Untracking /\ local[h].next <= Len(local[h].batch)
  BY HandlerFacts DEF CountSimulation, Ready, Untracking
<1>2. sim # Nil => /\ Del(SimulationSessions(sim)) \in Commands
                   /\ SRem(ActiveSimulations, {sim}) \in Commands
  BY HandlerFacts, CommandsAre, KeysAre
<1>3. p \in Seq(Commands) /\ \A i \in DOMAIN p : p[i].op \in {"SREM", "DEL"}
  <2>1. SRem(ActiveSimulations, {sim}).op = "SREM" /\ Del(SimulationSessions(sim)).op = "DEL"
    BY DEF SRem, Del
  <2>2. CASE sim # Nil /\ db[SimulationSessions(sim)] = {}
    BY <1>2, <2>1, <2>2
  <2>3. CASE ~(sim # Nil /\ db[SimulationSessions(sim)] = {})
    BY <2>3
  <2>. QED  BY <2>2, <2>3
<1>4. /\ local' = local /\ at' = [at EXCEPT ![h] = "untracked"]
      /\ pipe' = [pipe EXCEPT ![h] = p]
  BY DEF CountSimulation, Goto, Send
<1>. HIDE DEF p
<1>5. ClientOK(h, "untracked", p, local[h])
  BY <1>1, <1>3, HandlerFacts, HandlerOK DEF Untracking
<1>. QED  BY <1>1, <1>4, <1>5, MovesOf DEF Acts

LEMMA UntrackedActs ==
  ASSUME RegistryAssumption, Sane, BatchesApart, NEW h \in Handler, Untracked(h)
  PROVE  Acts(h) /\ rolledBack' \subseteq used
<1>1. h \in Client /\ pipe[h] = <<>> /\ pipe' = pipe
  BY HandlerFacts DEF Untracked, Ready
<1>0. local[h].next <= Len(local[h].batch)
  BY HandlerFacts DEF Untracked, Ready, Untracking
<1>4. rolledBack' \subseteq used
  <2>1. local[h].next \in DOMAIN local[h].batch
    BY <1>0, HandlerFacts
  <2>2. Current(h) \in used
    BY <2>1 DEF BatchesApart, Current
  <2>. QED  BY <2>2 DEF Untracked, Sane
<1>2. CASE Return(h)
  <2>1. at' = [at EXCEPT ![h] = "idle"] /\ local' = [local EXCEPT ![h] = NoLocals]
    BY <1>2 DEF Return, Goto
  <2>2. ClientOK(h, "idle", <<>>, NoLocals)
    BY <1>1, NoLocalsOK
  <2>. QED  BY <1>1, <1>4, <2>1, <2>2, MovesOf DEF Acts
<1>3. CASE /\ local[h].next < Len(local[h].batch)
           /\ local' = [local EXCEPT ![h].next = @ + 1] /\ Goto(h, "untrack")
  <2>. DEFINE l == [local[h] EXCEPT !.next = @ + 1]
  <2>1. l \in Locals /\ l.next = local[h].next + 1 /\ l.batch = local[h].batch
    BY HandlerFacts, SMTT(20) DEF Locals
  <2>2. local' = [local EXCEPT ![h] = l] /\ at' = [at EXCEPT ![h] = "untrack"]
    BY <1>3 DEF Goto
  <2>. HIDE DEF l
  <2>3. l.next \in 1 .. Len(l.batch) + 1
    BY <1>3, <2>1, HandlerFacts
  <2>4. ClientOK(h, "untrack", <<>>, l)
    BY <2>1, <2>3, HandlerWaits DEF Untracking
  <2>5. h \in Client /\ pipe[h] = <<>> /\ pipe' = pipe
    BY <1>1
  <2>. QED  BY <1>4, <2>2, <2>4, <2>5, MovesOf DEF Acts
<1>. QED  BY <1>2, <1>3 DEF Untracked

(* Flushes. *)
LEMMA FlusherActs ==
  ASSUME RegistryAssumption, Sane, NEW f \in Flusher,
         FlusherNext(f) \/ Flush(f)
  PROVE  /\ Acts(f)
         /\ db' = db \/ \E k \in Key : db' = Run(Del(k), db)
         /\ flushes' \in 0 .. MaxFlushes
<1>1. /\ f \in Client /\ pipe[f] = <<>> /\ local[f] \in Locals /\ local[f].todo \subseteq Key
  BY FlusherOK DEF Locals
<1>2. ASSUME NEW a \in {"flush types", "scan simulations", "flush simulations", "scan sessions",
                        "flush sessions"},
             NEW todo \in SUBSET Key,
             local' = [local EXCEPT ![f] = [local[f] EXCEPT !.todo = todo]],
             at' = [at EXCEPT ![f] = a], pipe' = pipe
      PROVE  Acts(f)
  <2>1. ClientOK(f, a, <<>>, [local[f] EXCEPT !.todo = todo])
    BY FlusherOK
  <2>. QED  BY <1>1, <1>2, <2>1, MovesOf DEF Acts
<1>3. ASSUME NEW a \in {"flush types", "scan simulations", "flush simulations", "scan sessions",
                        "flush sessions"},
             at[f] # "idle", local' = local, at' = [at EXCEPT ![f] = a], pipe' = pipe
      PROVE  Acts(f)
  BY <1>1, <1>3, FlusherOK, MovesOf DEF Acts
<1>4. /\ {AgentSessions(t) : t \in db[ActiveAgents]} \subseteq Key
      /\ Present({SimulationSessions(m) : m \in Simulation}) \subseteq Key
      /\ Present(StringKeys) \subseteq Key
      /\ ActiveAgents \in Key /\ ActiveSimulations \in Key
  <2>1. db[ActiveAgents] \subseteq AgentType
    BY DbTypes, KeysAre DEF Sane, Owners
  <2>. QED  BY <2>1, KeysAre DEF Present
<1>5. CASE Delete(f)
  <2>1. PICK k \in local[f].todo :
          /\ at[f] \in {"flush types", "flush simulations", "flush sessions"}
          /\ Do(f, Del(k), at[f])
          /\ local' = [local EXCEPT ![f].todo = @ \ {k}]
          /\ pipe' = pipe /\ flushes' = flushes
    BY <1>5 DEF Delete
  <2>2. k \in Key /\ local[f].todo \ {k} \subseteq Key
    BY <1>1
  <2>3. /\ local' = [local EXCEPT ![f] = [local[f] EXCEPT !.todo = local[f].todo \ {k}]]
        /\ at' = [at EXCEPT ![f] = at[f]] /\ db' = Run(Del(k), db)
    BY <2>1 DEF Do
  <2>4. Acts(f)
    BY <1>2, <2>1, <2>2, <2>3
  <2>. QED  BY <2>1, <2>2, <2>3, <2>4 DEF Sane
<1>6. CASE Flush(f)
  <2>1. /\ local' = [local EXCEPT ![f] = [local[f] EXCEPT !.todo =
                        {AgentSessions(t) : t \in db[ActiveAgents]}]]
        /\ at' = [at EXCEPT ![f] = "flush types"] /\ pipe' = pipe /\ db' = db
        /\ flushes < MaxFlushes /\ flushes' = flushes + 1
    BY <1>6 DEF Flush, Goto
  <2>2. Acts(f)
    BY <1>2, <1>4, <2>1
  <2>3. flushes' \in 0 .. MaxFlushes
    <3>1. flushes \in 0 .. MaxFlushes /\ MaxFlushes \in Nat
      BY DEF Sane, RegistryAssumption
    <3>2. flushes < MaxFlushes /\ flushes' = flushes + 1
      BY <2>1
    <3>. QED  BY <3>1, <3>2
  <2>. QED  BY <2>1, <2>2, <2>3
<1>7. CASE FlushActiveAgents(f)
  <2>1. /\ local' = local /\ at[f] # "idle" /\ at' = [at EXCEPT ![f] = "scan simulations"]
        /\ pipe' = pipe /\ db' = Run(Del(ActiveAgents), db) /\ flushes' = flushes
    BY <1>7 DEF FlushActiveAgents, Do
  <2>2. Acts(f)
    BY <1>3, <2>1
  <2>. QED  BY <1>4, <2>1, <2>2 DEF Sane
<1>8. CASE ScanSimulations(f)
  <2>1. /\ local' = [local EXCEPT ![f] = [local[f] EXCEPT !.todo =
                        Present({SimulationSessions(m) : m \in Simulation})]]
        /\ at' = [at EXCEPT ![f] = "flush simulations"] /\ pipe' = pipe /\ db' = db
        /\ flushes' = flushes
    BY <1>8 DEF ScanSimulations, Goto
  <2>2. Acts(f)
    BY <1>2, <1>4, <2>1
  <2>. QED  BY <2>1, <2>2 DEF Sane
<1>9. CASE FlushActiveSimulations(f)
  <2>1. /\ local' = local /\ at[f] # "idle" /\ at' = [at EXCEPT ![f] = "scan sessions"]
        /\ pipe' = pipe /\ db' = Run(Del(ActiveSimulations), db) /\ flushes' = flushes
    BY <1>9 DEF FlushActiveSimulations, Do
  <2>2. Acts(f)
    BY <1>3, <2>1
  <2>. QED  BY <1>4, <2>1, <2>2 DEF Sane
<1>10. CASE ScanSessions(f)
  <2>1. /\ local' = [local EXCEPT ![f] = [local[f] EXCEPT !.todo = Present(StringKeys)]]
        /\ at' = [at EXCEPT ![f] = "flush sessions"] /\ pipe' = pipe /\ db' = db
        /\ flushes' = flushes
    BY <1>10 DEF ScanSessions, Goto
  <2>2. Acts(f)
    BY <1>2, <1>4, <2>1
  <2>. QED  BY <2>1, <2>2 DEF Sane
<1>11. CASE Flushed(f)
  <2>1. /\ at' = [at EXCEPT ![f] = "idle"] /\ local' = [local EXCEPT ![f] = NoLocals]
        /\ pipe' = pipe /\ db' = db /\ flushes' = flushes
    BY <1>11 DEF Flushed, Return, Goto
  <2>2. Acts(f)
    BY <1>1, <2>1, NoLocalsOK, MovesOf DEF Acts
  <2>. QED  BY <2>1, <2>2 DEF Sane
<1>. QED  BY <1>5, <1>6, <1>7, <1>8, <1>9, <1>10, <1>11 DEF FlusherNext

(* Reaps. *)
LEMMA ReaperFacts ==
  ASSUME RegistryAssumption, Sane, NEW r \in Reaper
  PROVE  /\ r \in Client /\ r \notin Flusher /\ r \notin Handler
         /\ local[r] \in Locals /\ local[r].todo \subseteq Key
         /\ local[r].ids \subseteq Session /\ local[r].stale \subseteq Session
         /\ at[r] \in {"reap", "check type", "card type"} => local[r].todo \subseteq TypeSets
         /\ at[r] \in {"check type", "card type"} => local[r].visit \in TypeSets
         /\ at[r] \in {"sweep", "check simulation", "card simulation"}
              => local[r].todo \subseteq SimulationSets
         /\ at[r] \in {"check simulation", "card simulation"} => local[r].visit \in SimulationSets
<1>1. r \in Client /\ r \notin Flusher /\ r \notin Handler
  BY Roles
<1>2. ClientOK(r, at[r], pipe[r], local[r])
  BY <1>1 DEF Sane
<1>3. local[r] \in Locals
  BY <1>2 DEF ClientOK
<1>4. /\ local[r].todo \subseteq Key
      /\ local[r].ids \subseteq Session /\ local[r].stale \subseteq Session
  BY <1>3 DEF Locals
<1>. QED  BY <1>1, <1>2, <1>3, <1>4 DEF ClientOK

Visiting == {"reap", "check type", "card type"}
Sweeping == {"sweep", "check simulation", "card simulation"}

LEMMA ReaperOK ==
  ASSUME RegistryAssumption, NEW r \in Reaper,
         NEW a, NEW p \in Seq(Commands), NEW l \in Locals,
         \A i \in DOMAIN p : p[i].op \in {"SREM", "DEL"},
         \/ a \in Visiting /\ l.todo \subseteq TypeSets /\ (a = "reap" \/ l.visit \in TypeSets)
         \/ /\ a \in Sweeping /\ l.todo \subseteq SimulationSets
            /\ (a = "sweep" \/ l.visit \in SimulationSets)
  PROVE  ClientOK(r, a, p, l)
BY Roles DEF ClientOK, Control, Visiting, Sweeping

(* The pipelines of a reaper. *)
LEMMA ReaperPipes ==
  /\ <<>> \in Seq(Commands)
  /\ \A i \in DOMAIN <<>> : <<>>[i].op \in {"SREM", "DEL"}
  /\ \A k \in Key : /\ <<Del(k)>> \in Seq(Commands)
                    /\ \A i \in DOMAIN <<Del(k)>> : <<Del(k)>>[i].op \in {"SREM", "DEL"}
  /\ \A t \in AgentType, k \in Key :
       LET p == <<SRem(ActiveAgents, {t}), Del(k)>> IN
       p \in Seq(Commands) /\ \A i \in DOMAIN p : p[i].op \in {"SREM", "DEL"}
  /\ \A m \in Simulation, k \in Key :
       LET p == <<Del(k), SRem(ActiveSimulations, {m})>> IN
       p \in Seq(Commands) /\ \A i \in DOMAIN p : p[i].op \in {"SREM", "DEL"}
<1>. DEFINE Removing == {cmd \in Commands : cmd.op \in {"SREM", "DEL"}}
<1>1. \A k \in Key : Del(k) \in Removing
  BY CommandsAre DEF Del
<1>2. /\ \A t \in AgentType : SRem(ActiveAgents, {t}) \in Removing
      /\ \A m \in Simulation : SRem(ActiveSimulations, {m}) \in Removing
  BY CommandsAre DEF SRem
<1>3. \A x, y \in Removing :
        /\ <<x>> \in Seq(Commands) /\ \A i \in DOMAIN <<x>> : <<x>>[i].op \in {"SREM", "DEL"}
        /\ <<x, y>> \in Seq(Commands) /\ \A i \in DOMAIN <<x, y>> : <<x, y>>[i].op \in {"SREM", "DEL"}
  OBVIOUS
<1>. HIDE DEF Removing
<1>. QED  BY <1>1, <1>2, <1>3, NoCommands

LEMMA ReapActs ==
  ASSUME RegistryAssumption, Sane, NEW r \in Reaper, Reap(r)
  PROVE  Acts(r)
<1>. DEFINE l == [local[r] EXCEPT !.todo = {AgentSessions(t) : t \in db[ActiveAgents]}]
<1>1. r \in Client /\ at[r] = "idle" /\ pipe[r] = <<>>
  BY ReaperFacts DEF Reap, MayStart, Sane, ClientOK
<1>2. {AgentSessions(t) : t \in db[ActiveAgents]} \subseteq TypeSets
  BY DbTypes, KeysAre DEF Sane, Owners
<1>3. l \in Locals /\ l.todo \subseteq TypeSets
  <2>1. TypeSets \subseteq Key
    BY KeysAre
  <2>. QED  BY <1>2, <2>1, ReaperFacts DEF Locals
<1>4. local' = [local EXCEPT ![r] = l] /\ at' = [at EXCEPT ![r] = "reap"] /\ pipe' = pipe
  BY DEF Reap, Goto
<1>. HIDE DEF l
<1>5. ClientOK(r, "reap", <<>>, l)
  BY <1>3, ReaperPipes, ReaperOK DEF Visiting
<1>. QED  BY <1>1, <1>4, <1>5, MovesOf DEF Acts

LEMMA VisitActs ==
  ASSUME RegistryAssumption, Sane, NEW r \in Reaper, Visit(r)
  PROVE  /\ Acts(r)
         /\ \/ local'[r].ids = local[r].ids /\ local'[r].stale = local[r].stale
            \/ local'[r].stale = {} /\ \E k \in IndexKeys : local'[r].ids = db[k]
<1>1. r \in Client /\ at[r] \in {"reap", "sweep"} /\ pipe[r] = <<>> /\ pipe' = pipe
  BY ReaperFacts DEF Visit, Ready
<1>2. PICK k \in local[r].todo :
        IF at[r] = "reap" /\ db[k] = {}
        THEN /\ local' = [local EXCEPT ![r].todo = @ \ {k}]
             /\ UNCHANGED at
        ELSE /\ local' = [local EXCEPT ![r].todo = @ \ {k}, ![r].visit = k,
                                       ![r].ids = db[k], ![r].stale = {}]
             /\ Goto(r, IF at[r] = "reap" THEN "check type" ELSE "check simulation")
  BY DEF Visit
<1>3. /\ at[r] = "reap" => local[r].todo \subseteq TypeSets
      /\ at[r] = "sweep" => local[r].todo \subseteq SimulationSets
      /\ k \in IndexKeys /\ db[k] \subseteq Session
  BY <1>1, ReaperFacts, DbTypes, KeysAre DEF Sane
<1>4. CASE at[r] = "reap" /\ db[k] = {}
  <2>. DEFINE l == [local[r] EXCEPT !.todo = @ \ {k}]
  <2>1. /\ l \in Locals /\ l.todo \subseteq TypeSets
        /\ l.ids = local[r].ids /\ l.stale = local[r].stale
    BY <1>3, <1>4, ReaperFacts DEF Locals
  <2>2. local' = [local EXCEPT ![r] = l] /\ at' = at
    BY <1>2, <1>4
  <2>. HIDE DEF l
  <2>3. ClientOK(r, at[r], <<>>, l)
    BY <1>4, <2>1, ReaperPipes, ReaperOK DEF Visiting
  <2>4. Acts(r) /\ local'[r] = l
    BY <1>1, <2>2, <2>3, MovesOf DEF Acts
  <2>. QED  BY <2>1, <2>4
<1>5. CASE ~(at[r] = "reap" /\ db[k] = {})
  <2>. DEFINE l == [local[r] EXCEPT !.todo = @ \ {k}, !.visit = k, !.ids = db[k], !.stale = {}]
              a == IF at[r] = "reap" THEN "check type" ELSE "check simulation"
  <2>1. /\ l \in Locals /\ l.todo \subseteq local[r].todo /\ l.visit = k
        /\ l.ids = db[k] /\ l.stale = {}
    BY <1>3, ReaperFacts DEF Locals
  <2>2. local' = [local EXCEPT ![r] = l] /\ at' = [at EXCEPT ![r] = a]
    BY <1>2, <1>5 DEF Goto
  <2>3. k \in local[r].todo
    OBVIOUS
  <2>. HIDE DEF l
  <2>4. ClientOK(r, a, <<>>, l)
    BY <1>1, <1>3, <2>1, <2>3, ReaperPipes, ReaperOK DEF Visiting, Sweeping
  <2>. HIDE DEF a
  <2>5. Acts(r) /\ local'[r] = l
    BY <1>1, <2>2, <2>4, MovesOf DEF Acts
  <2>. QED  BY <1>3, <2>1, <2>5
<1>. QED  BY <1>4, <1>5

LEMMA CheckActs ==
  ASSUME RegistryAssumption, Sane, NEW r \in Reaper, Check(r)
  PROVE  /\ Acts(r)
         /\ local'[r].ids \subseteq local[r].ids
         /\ \A s \in local'[r].stale : \/ s \in local[r].stale
                                       \/ s \in local[r].ids /\ db[SessionKey(s)] = Nil
<1>1. /\ r \in Client /\ at[r] \in {"check type", "check simulation"} /\ pipe[r] = <<>>
      /\ at' = at
  BY ReaperFacts DEF Check, Ready
<1>2. PICK s \in local[r].ids :
        /\ local' = [local EXCEPT ![r].ids = @ \ {s},
                                  ![r].stale = IF db[SessionKey(s)] = Nil THEN @ \cup {s} ELSE @]
        /\ pipe' = [pipe EXCEPT ![r] =
             IF db[SessionKey(s)] = Nil /\ at[r] = "check simulation"
             THEN <<Del(SessionSimulation(s))>> ELSE <<>>]
  BY DEF Check, Send
<1>. DEFINE stale == IF db[SessionKey(s)] = Nil THEN local[r].stale \cup {s} ELSE local[r].stale
            l == [local[r] EXCEPT !.ids = @ \ {s}, !.stale = stale]
            p == IF db[SessionKey(s)] = Nil /\ at[r] = "check simulation"
                 THEN <<Del(SessionSimulation(s))>> ELSE <<>>
<1>3. s \in Session /\ s \in local[r].ids /\ stale \subseteq Session
  BY ReaperFacts
<1>4. /\ l \in Locals /\ l.todo = local[r].todo /\ l.visit = local[r].visit
      /\ l.ids = local[r].ids \ {s} /\ l.stale = stale
  BY <1>3, ReaperFacts DEF Locals
<1>5. local' = [local EXCEPT ![r] = l] /\ pipe' = [pipe EXCEPT ![r] = p]
  BY <1>2
<1>6. p \in Seq(Commands) /\ \A i \in DOMAIN p : p[i].op \in {"SREM", "DEL"}
  <2>1. SessionSimulation(s) \in Key
    BY <1>3, KeysAre
  <2>2. CASE db[SessionKey(s)] = Nil /\ at[r] = "check simulation"
    BY <2>1, <2>2, ReaperPipes
  <2>3. CASE ~(db[SessionKey(s)] = Nil /\ at[r] = "check simulation")
    BY <2>3, ReaperPipes
  <2>. QED  BY <2>2, <2>3
<1>. HIDE DEF l, p
<1>7. ClientOK(r, at[r], p, l)
  BY <1>1, <1>4, <1>6, ReaperFacts, ReaperOK DEF Visiting, Sweeping
<1>8. Acts(r) /\ local'[r] = l
  BY <1>1, <1>5, <1>7, MovesOf DEF Acts
<1>. QED  BY <1>3, <1>4, <1>8

LEMMA PruneActs ==
  ASSUME RegistryAssumption, Sane, NEW r \in Reaper, Prune(r)
  PROVE  /\ Acts(r) /\ local' = local
         /\ \E k \in IndexKeys, ss \in SUBSET Session : db' = Run(SRem(k, ss), db)
<1>1. /\ r \in Client /\ pipe[r] = <<>> /\ pipe' = pipe /\ local' = local
      /\ at[r] \in {"check type", "check simulation"}
  BY ReaperFacts DEF Prune, Ready
<1>. DEFINE a == IF at[r] = "check type" THEN "card type" ELSE "card simulation"
<1>2. at' = [at EXCEPT ![r] = a] /\ db' = Run(SRem(local[r].visit, local[r].stale), db)
  BY DEF Prune, Do
<1>3. ClientOK(r, a, <<>>, local[r])
  BY <1>1, ReaperPipes, ReaperFacts, ReaperOK DEF Visiting, Sweeping
<1>. HIDE DEF a
<1>4. Acts(r)
  BY <1>1, <1>2, <1>3, MovesOf DEF Acts
<1>5. local[r].visit \in IndexKeys /\ local[r].stale \in SUBSET Session
  BY <1>1, ReaperFacts, KeysAre
<1>. QED  BY <1>1, <1>2, <1>4, <1>5

LEMMA CountReapedActs ==
  ASSUME RegistryAssumption, Sane, NEW r \in Reaper, CountReaped(r)
  PROVE  Acts(r)
<1>. DEFINE k == local[r].visit
            p == IF db[k] = {} THEN <<SRem(ActiveAgents, {k[2]}), Del(k)>> ELSE <<>>
<1>1. r \in Client /\ at[r] = "card type" /\ local' = local
  BY ReaperFacts DEF CountReaped, Ready
<1>2. k \in TypeSets /\ k \in Key /\ k[2] \in AgentType
  <2>1. k \in TypeSets
    BY <1>1, ReaperFacts
  <2>. QED  BY <2>1, KeysAre DEF TypeSets
<1>3. p \in Seq(Commands) /\ \A i \in DOMAIN p : p[i].op \in {"SREM", "DEL"}
  <2>. HIDE DEF k
  <2>1. CASE db[k] = {}
    BY <1>2, <2>1, ReaperPipes
  <2>2. CASE db[k] # {}
    BY <2>2, ReaperPipes
  <2>. QED  BY <2>1, <2>2
<1>4. at' = [at EXCEPT ![r] = "reap"] /\ pipe' = [pipe EXCEPT ![r] = p]
  BY DEF CountReaped, Goto, Send
<1>. HIDE DEF p
<1>5. ClientOK(r, "reap", p, local[r])
  BY <1>1, <1>3, ReaperFacts, ReaperOK DEF Visiting
<1>. QED  BY <1>1, <1>4, <1>5, MovesOf DEF Acts

LEMMA CountSweptActs ==
  ASSUME RegistryAssumption, Sane, NEW r \in Reaper, CountSwept(r)
  PROVE  Acts(r)
<1>. DEFINE k == local[r].visit
            p == IF db[k] = {} THEN <<Del(k), SRem(ActiveSimulations, {k[2]})>> ELSE <<>>
<1>1. r \in Client /\ at[r] = "card simulation" /\ local' = local
  BY ReaperFacts DEF CountSwept, Ready
<1>2. k \in SimulationSets /\ k \in Key /\ k[2] \in Simulation
  <2>1. k \in SimulationSets
    BY <1>1, ReaperFacts
  <2>. QED  BY <2>1, KeysAre DEF SimulationSets
<1>3. p \in Seq(Commands) /\ \A i \in DOMAIN p : p[i].op \in {"SREM", "DEL"}
  <2>. HIDE DEF k
  <2>1. CASE db[k] = {}
    BY <1>2, <2>1, ReaperPipes
  <2>2. CASE db[k] # {}
    BY <2>2, ReaperPipes
  <2>. QED  BY <2>1, <2>2
<1>4. at' = [at EXCEPT ![r] = "sweep"] /\ pipe' = [pipe EXCEPT ![r] = p]
  BY DEF CountSwept, Goto, Send
<1>. HIDE DEF p
<1>5. ClientOK(r, "sweep", p, local[r])
  BY <1>1, <1>3, ReaperFacts, ReaperOK DEF Sweeping
<1>. QED  BY <1>1, <1>4, <1>5, MovesOf DEF Acts

LEMMA ReapSimulationsActs ==
  ASSUME RegistryAssumption, Sane, NEW r \in Reaper, ReapSimulations(r)
  PROVE  /\ Acts(r)
         /\ local'[r].ids = local[r].ids /\ local'[r].stale = local[r].stale
<1>. DEFINE todo == Present({SimulationSessions(m) : m \in Simulation})
            l == [local[r] EXCEPT !.todo = todo]
<1>1. r \in Client /\ pipe[r] = <<>> /\ pipe' = pipe
  BY ReaperFacts DEF ReapSimulations, Ready
<1>2. todo \subseteq SimulationSets /\ todo \subseteq Key
  BY KeysAre DEF Present
<1>3. /\ l \in Locals /\ l.todo \subseteq SimulationSets
      /\ l.ids = local[r].ids /\ l.stale = local[r].stale
  BY <1>2, ReaperFacts DEF Locals
<1>4. local' = [local EXCEPT ![r] = l] /\ at' = [at EXCEPT ![r] = "sweep"]
  BY DEF ReapSimulations, Goto
<1>. HIDE DEF l
<1>5. ClientOK(r, "sweep", <<>>, l)
  BY <1>3, ReaperPipes, ReaperOK DEF Sweeping
<1>6. Acts(r) /\ local'[r] = l
  BY <1>1, <1>4, <1>5, MovesOf DEF Acts
<1>. QED  BY <1>3, <1>6

LEMMA ReapedActs ==
  ASSUME RegistryAssumption, Sane, NEW r \in Reaper, Reaped(r)
  PROVE  Acts(r)
<1>1. r \in Client /\ pipe[r] = <<>> /\ pipe' = pipe
  BY ReaperFacts DEF Reaped, Ready
<1>2. at' = [at EXCEPT ![r] = "idle"] /\ local' = [local EXCEPT ![r] = NoLocals]
  BY DEF Reaped, Return, Goto
<1>. QED  BY <1>1, <1>2, NoLocalsOK, MovesOf DEF Acts

(***************************************************************************)
(* Preservation.                                                           *)
(***************************************************************************)
LEMMA OthersStay ==
  ASSUME Sane, NEW c \in Client, Moves(c)
  PROVE  \A d \in Client \ {c} : at'[d] = at[d] /\ pipe'[d] = pipe[d] /\ local'[d] = local[d]
BY DEF Sane, Moves

LEMMA BatchesKept ==
  ASSUME RegistryAssumption, Sane, BatchesApart, NEW c \in Client, Moves(c), used \subseteq used',
         c \in Handler => local'[c].batch \in {local[c].batch, <<>>}
  PROVE  BatchesApart'
<1>1. \A h \in Handler : local'[h].batch \in {local[h].batch, <<>>}
  BY OthersStay, Roles
<1>2. \A h \in Handler : \A i \in DOMAIN local'[h].batch :
        i \in DOMAIN local[h].batch /\ local'[h].batch[i] = local[h].batch[i]
  BY <1>1
<1>. QED  BY <1>2 DEF BatchesApart

(* Once handed out, an id whose key is set or will not be set stays so. *)
LEMMA FreshFalls ==
  ASSUME RegistryAssumption, Sane, NEW c \in Client, Moves(c), used \subseteq used',
         c \notin Handler \/ at'[c] # "track", NEW s \in Session, Fresh(s)'
  PROVE  Fresh(s)
<1>1. CASE s \notin used'
  BY <1>1 DEF Fresh
<1>2. CASE Coming(s)'
  <2>1. PICK h \in Handler :
          /\ at'[h] = "track"
          /\ \/ \E i \in DOMAIN local'[h].batch :
                  i >= local'[h].next /\ local'[h].batch[i].session = s
             \/ pipe'[h] # <<>> /\ Head(pipe'[h]).key = SessionKey(s)
    BY <1>2 DEF Coming
  <2>2. h # c
    BY <2>1
  <2>3. at'[h] = at[h] /\ pipe'[h] = pipe[h] /\ local'[h] = local[h]
    BY <2>2, OthersStay, Roles
  <2>. QED  BY <2>1, <2>3 DEF Fresh, Coming
<1>. QED  BY <1>1, <1>2 DEF Fresh

(* A step that adds nothing in Redis, and whose reaper, if it is one, sees only
   members of sets. *)
LEMMA CalmStep ==
  ASSUME RegistryAssumption, Sane, FreshUnseen, StaleIsDead, NEW c \in Client, Moves(c),
         \A s \in Session : Fresh(s)' => Fresh(s),
         db' = db \/ \E cmd : cmd.op \in {"SREM", "DEL"} /\ Obeys(cmd),
         c \in Reaper =>
           /\ \A s \in local'[c].ids : s \in local[c].ids \/ \E k \in IndexKeys : s \in db[k]
           /\ \A s \in local'[c].stale : \/ s \in local[c].stale
                                         \/ s \in local[c].ids /\ db[SessionKey(s)] = Nil
  PROVE  FreshUnseen' /\ StaleIsDead'
<1>1. /\ \A s \in Session : db[SessionKey(s)] = Nil => db'[SessionKey(s)] = Nil
      /\ \A k \in IndexKeys, s \in Session : s \in db'[k] => s \in db[k]
  BY RunAddsItsOwn DEF Obeys, Sane
<1>2. \A r \in Reaper :
        /\ \A s \in local'[r].ids : s \in local[r].ids \/ \E k \in IndexKeys : s \in db[k]
        /\ \A s \in local'[r].stale : \/ s \in local[r].stale
                                      \/ s \in local[r].ids /\ db[SessionKey(s)] = Nil
  BY OthersStay, Roles
<1>3. \A r \in Reaper : local[r].ids \subseteq Session /\ local[r].stale \subseteq Session
  BY ReaperFacts
<1>4. FreshUnseen'
  BY <1>1, <1>2 DEF FreshUnseen
<1>5. StaleIsDead'
  BY <1>1, <1>2, <1>3 DEF StaleIsDead
<1>. QED  BY <1>4, <1>5

LEMMA CalmActs ==
  ASSUME RegistryAssumption, RegistryInv, NEW c \in Client, Acts(c),
         used' = used, rolledBack' \subseteq used,
         flushes' \in 0 .. MaxFlushes, errors' \in 0 .. MaxErrors,
         c \in Handler => at'[c] # "track" /\ local'[c].batch \in {local[c].batch, <<>>},
         db' = db \/ \E cmd : cmd.op \in {"SREM", "DEL"} /\ Obeys(cmd),
         c \in Reaper =>
           /\ \A s \in local'[c].ids : s \in local[c].ids \/ \E k \in IndexKeys : s \in db[k]
           /\ \A s \in local'[c].stale : \/ s \in local[c].stale
                                         \/ s \in local[c].ids /\ db[SessionKey(s)] = Nil
  PROVE  RegistryInv'
<1>1. Moves(c) /\ ClientOK(c, at'[c], pipe'[c], local'[c])
  BY DEF Acts
<1>2. Sane'
  BY <1>1, SaneStep DEF RegistryInv, Sane
<1>3. BatchesApart'
  BY <1>1, BatchesKept DEF RegistryInv
<1>4. \A s \in Session : Fresh(s)' => Fresh(s)
  BY <1>1, FreshFalls DEF RegistryInv
<1>5. FreshUnseen' /\ StaleIsDead'
  BY <1>1, <1>4, CalmStep DEF RegistryInv
<1>. QED  BY <1>2, <1>3, <1>5 DEF RegistryInv

(* The ids of a new batch were fresh. *)
LEMMA BatchTrackSessionsPreserves ==
  ASSUME RegistryAssumption, RegistryInv, NEW h \in Handler, BatchTrackSessions(h)
  PROVE  RegistryInv'
<1>0. /\ Moves(h) /\ ClientOK(h, at'[h], pipe'[h], local'[h])
      /\ used' \subseteq Session /\ used \subseteq used'
      /\ Sane /\ BatchesApart /\ FreshUnseen /\ StaleIsDead
      /\ h \in Client /\ h \notin Reaper
  BY BatchTrackSessionsActs, Roles DEF Acts, RegistryInv
<1>1. /\ at[h] = "idle" /\ pipe' = pipe /\ db' = db /\ rolledBack' = rolledBack
      /\ flushes' = flushes /\ errors' = errors
  BY DEF BatchTrackSessions, MayStart
<1>2. local[h] = NoLocals /\ pipe'[h] = <<>>
  BY <1>0, <1>1 DEF Sane, ClientOK
<1>3. PICK n \in 1 .. MaxBatch, sim \in Simulation \cup {Nil} :
      \E ids \in [1 .. n -> Session \ used], type \in [1 .. n -> AgentType] :
        /\ \A i, j \in 1 .. n : ids[i] = ids[j] => i = j
        /\ local' = [local EXCEPT ![h].batch =
             [i \in 1 .. n |-> [session |-> ids[i], type |-> type[i], sim |-> sim]]]
        /\ used' = used \cup {ids[i] : i \in 1 .. n}
  BY DEF BatchTrackSessions
<1>4. PICK ids \in [1 .. n -> Session \ used], type \in [1 .. n -> AgentType] :
        /\ \A i, j \in 1 .. n : ids[i] = ids[j] => i = j
        /\ local' = [local EXCEPT ![h].batch =
             [i \in 1 .. n |-> [session |-> ids[i], type |-> type[i], sim |-> sim]]]
        /\ used' = used \cup {ids[i] : i \in 1 .. n}
  BY <1>3
<1>5. /\ DOMAIN local'[h].batch = 1 .. n
      /\ \A i \in 1 .. n : local'[h].batch[i].session = ids[i]
  <2>1. local'[h].batch = [i \in 1 .. n |-> [session |-> ids[i], type |-> type[i], sim |-> sim]]
    BY <1>0, <1>2, <1>4 DEF Sane, NoLocals
  <2>. QED  BY <2>1
<1>6. Sane'
  <2>1. rolledBack' \subseteq used'
    BY <1>0, <1>1 DEF Sane
  <2>. QED  BY <1>0, <1>1, <2>1, SaneStep DEF Sane
<1>7. \A g \in Handler \ {h} : local'[g] = local[g]
  BY <1>0, OthersStay, Roles
<1>8. BatchesApart'
  <2>1. \A g \in Handler : \A i \in DOMAIN local'[g].batch : local'[g].batch[i].session \in used'
    BY <1>0, <1>4, <1>5, <1>7 DEF BatchesApart
  <2>2. \A g \in Handler \ {h} : \A i \in DOMAIN local'[g].batch, j \in 1 .. n :
          local'[g].batch[i].session # ids[j]
    BY <1>0, <1>4, <1>7 DEF BatchesApart
  <2>3. \A f, g \in Handler : \A i \in DOMAIN local'[f].batch, j \in DOMAIN local'[g].batch :
          local'[f].batch[i].session = local'[g].batch[j].session => f = g /\ i = j
    BY <1>0, <1>4, <1>5, <1>7, <2>2 DEF BatchesApart
  <2>. QED  BY <2>1, <2>3 DEF BatchesApart
<1>9. ASSUME NEW s \in Session, Fresh(s)'
      PROVE  Fresh(s)
  <2>1. CASE s \notin used'
    BY <1>0, <2>1 DEF Fresh
  <2>2. CASE Coming(s)'
    <3>1. PICK g \in Handler :
            /\ at'[g] = "track"
            /\ \/ \E i \in DOMAIN local'[g].batch :
                    i >= local'[g].next /\ local'[g].batch[i].session = s
               \/ pipe'[g] # <<>> /\ Head(pipe'[g]).key = SessionKey(s)
      BY <2>2 DEF Coming
    <3>2. CASE g = h
      <4>1. PICK i \in 1 .. n : s = ids[i]
        BY <1>2, <1>5, <3>1, <3>2
      <4>. QED  BY <4>1 DEF Fresh
    <3>3. CASE g # h
      <4>1. at'[g] = at[g] /\ pipe'[g] = pipe[g] /\ local'[g] = local[g]
        BY <1>0, <3>3, OthersStay, Roles
      <4>. QED  BY <3>1, <4>1 DEF Fresh, Coming
    <3>. QED  BY <3>2, <3>3
  <2>. QED  BY <1>9, <2>1, <2>2 DEF Fresh
<1>10. FreshUnseen' /\ StaleIsDead'
  BY <1>0, <1>1, <1>9, CalmStep
<1>. QED  BY <1>6, <1>8, <1>10 DEF RegistryInv

(* The entry that is sent stays to come, by the head of the pipeline. *)
LEMMA TrackEntryPreserves ==
  ASSUME RegistryAssumption, RegistryInv, NEW h \in Handler, TrackEntry(h)
  PROVE  RegistryInv'
<1>0. /\ Moves(h) /\ ClientOK(h, at'[h], pipe'[h], local'[h])
      /\ Sane /\ BatchesApart /\ FreshUnseen /\ StaleIsDead
      /\ h \in Client /\ h \notin Reaper
  BY TrackEntryActs, Roles DEF Acts, RegistryInv
<1>. DEFINE n == local[h].next
            p == TrackCommands(local[h].batch[n])
<1>1. /\ at[h] = "track" /\ n \in 1 .. Len(local[h].batch) /\ local[h].batch \in Seq(Entry)
      /\ db' = db /\ used' = used /\ rolledBack' = rolledBack
      /\ flushes' = flushes /\ errors' = errors
  BY <1>0, HandlerFacts DEF TrackEntry, Ready
<1>2. /\ pipe'[h] = p /\ local'[h].batch = local[h].batch /\ local'[h].next = n + 1
  <2>1. pipe'[h] = p
    BY <1>0 DEF TrackEntry, Send, Sane
  <2>2. local'[h] = [local[h] EXCEPT !.next = n + 1]
    BY <1>0 DEF TrackEntry, Sane
  <2>3. local[h] \in Locals
    BY HandlerFacts, <1>0
  <2>. QED  BY <2>1, <2>2, <2>3 DEF Locals
<1>3. Head(p).key = SessionKey(local[h].batch[n].session)
  BY <1>1, TrackCommandsOK
<1>4. local[h].batch[n].session \in Session
  <2>1. local[h].batch[n] \in Entry
    BY <1>1
  <2>. QED  BY <2>1 DEF Entry
<1>. HIDE DEF p
<1>5. Sane'
  BY <1>0, <1>1, SaneStep DEF Sane
<1>6. BatchesApart'
  BY <1>0, <1>1, <1>2, BatchesKept
<1>7. ASSUME NEW s \in Session, Fresh(s)'
      PROVE  Fresh(s)
  <2>1. CASE s \notin used'
    BY <1>1, <2>1 DEF Fresh
  <2>2. CASE Coming(s)'
    <3>1. PICK g \in Handler :
            /\ at'[g] = "track"
            /\ \/ \E i \in DOMAIN local'[g].batch :
                    i >= local'[g].next /\ local'[g].batch[i].session = s
               \/ pipe'[g] # <<>> /\ Head(pipe'[g]).key = SessionKey(s)
      BY <2>2 DEF Coming
    <3>2. CASE g = h
      <4>1. n \in DOMAIN local[h].batch
        BY <1>1
      <4>2. CASE Head(pipe'[g]).key = SessionKey(s)
        <5>1. local[h].batch[n].session = s
          BY <1>2, <1>3, <1>4, <3>2, <4>2, KeysDiffer
        <5>. QED  BY <1>1, <4>1, <5>1 DEF Fresh, Coming
      <4>3. CASE \E i \in DOMAIN local'[g].batch :
                   i >= local'[g].next /\ local'[g].batch[i].session = s
        <5>1. PICK i \in DOMAIN local[h].batch : i >= n + 1 /\ local[h].batch[i].session = s
          BY <1>2, <3>2, <4>3
        <5>2. i >= n
          BY <1>1, <5>1
        <5>. QED  BY <1>1, <5>1, <5>2 DEF Fresh, Coming
      <4>. QED  BY <3>1, <4>2, <4>3
    <3>3. CASE g # h
      <4>1. at'[g] = at[g] /\ pipe'[g] = pipe[g] /\ local'[g] = local[g]
        BY <1>0, <3>3, OthersStay, Roles
      <4>. QED  BY <3>1, <4>1 DEF Fresh, Coming
    <3>. QED  BY <3>2, <3>3
  <2>. QED  BY <1>7, <2>1, <2>2 DEF Fresh
<1>8. FreshUnseen' /\ StaleIsDead'
  BY <1>0, <1>1, <1>7, CalmStep
<1>. QED  BY <1>5, <1>6, <1>8 DEF RegistryInv

(* While the commands of an entry are executed: the first makes the session live,
   which was fresh until then; the others add it to sets, when it is not any more. *)
LEMMA ExecuteTrackPreserves ==
  ASSUME RegistryAssumption, RegistryInv, NEW h \in Handler, Execute(h), at[h] = "track"
  PROVE  RegistryInv'
<1>0. /\ Moves(h) /\ ClientOK(h, at'[h], pipe'[h], local'[h])
      /\ Sane /\ BatchesApart /\ FreshUnseen /\ StaleIsDead
      /\ h \in Client /\ h \notin Reaper /\ Obeys(Head(pipe[h]))
  BY ExecuteActs, Roles DEF Acts, RegistryInv
<1>. DEFINE p == pipe[h]
            l == local[h]
            z == l.batch[l.next - 1].session
<1>1. /\ at' = at /\ local' = local /\ used' = used /\ rolledBack' = rolledBack
      /\ flushes' = flushes /\ errors' = errors
      /\ pipe'[h] = Tail(p) /\ p # <<>>
  BY <1>0 DEF Execute, Send, Sane
<1>2. p \in Seq(Commands) /\ TrackPipe(p, l) /\ l.next \in 1 .. Len(l.batch) + 1
  BY <1>0 DEF Sane, ClientOK
<1>3. /\ Head(p) \in Commands /\ Head(p) = p[1] /\ 1 \in DOMAIN p /\ Tail(p) \in Seq(Commands)
      /\ \A i \in DOMAIN Tail(p) : i \in Nat \ {0} /\ i + 1 \in DOMAIN p /\ Tail(p)[i] = p[i + 1]
  BY <1>1, <1>2, TailOK
<1>4. /\ l.next - 1 \in DOMAIN l.batch
      /\ Head(p).key \in IndexKeys => Head(p).arg = {z}
      /\ \A s \in Session : Head(p).key = SessionKey(s) => s = z
  <2>1. /\ l.next > 1 /\ (Head(p).key \in IndexKeys => Head(p).arg = {z})
        /\ \A s \in Session : Head(p).key = SessionKey(s) => s = z
    BY <1>2, <1>3 DEF TrackPipe
  <2>2. l.batch \in Seq(Entry)
    BY <1>0, HandlerFacts
  <2>. QED  BY <1>2, <2>1, <2>2
<1>5. \A s \in Session : Tail(p) # <<>> => Head(Tail(p)).key # SessionKey(s)
  <2>1. Tail(p) # <<>> => 1 \in DOMAIN Tail(p) /\ Head(Tail(p)) = Tail(p)[1]
    BY <1>3, TailOK
  <2>2. Tail(p) # <<>> => 2 \in DOMAIN p /\ Head(Tail(p)) = p[2]
    BY <1>3, <2>1
  <2>. QED  BY <1>2, <2>2 DEF TrackPipe
<1>. HIDE DEF p
<1>6. Sane'
  BY <1>0, <1>1, SaneStep DEF Sane
<1>7. BatchesApart'
  BY <1>1, <1>0 DEF BatchesApart
<1>8. z \in used
  BY <1>0, <1>4 DEF BatchesApart
<1>9. ASSUME NEW s \in Session, Fresh(s)'
      PROVE  Fresh(s) /\ s # z
  <2>1. CASE s \notin used'
    BY <1>1, <1>8, <2>1 DEF Fresh
  <2>2. CASE Coming(s)'
    <3>1. PICK g \in Handler :
            /\ at[g] = "track"
            /\ \/ \E i \in DOMAIN local[g].batch :
                    i >= local[g].next /\ local[g].batch[i].session = s
               \/ pipe'[g] # <<>> /\ Head(pipe'[g]).key = SessionKey(s)
      BY <1>1, <2>2 DEF Coming
    <3>2. CASE \E i \in DOMAIN local[g].batch :
                 i >= local[g].next /\ local[g].batch[i].session = s
      <4>1. PICK i \in DOMAIN local[g].batch :
              i >= local[g].next /\ local[g].batch[i].session = s
        BY <3>2
      <4>2. g = h => i # l.next - 1
        BY <1>2, <4>1
      <4>3. s # z
        BY <1>0, <1>4, <4>1, <4>2 DEF BatchesApart
      <4>. QED  BY <3>1, <4>1, <4>3 DEF Fresh, Coming
    <3>3. CASE pipe'[g] # <<>> /\ Head(pipe'[g]).key = SessionKey(s)
      <4>1. g # h
        BY <1>1, <1>5, <3>3
      <4>2. pipe'[g] = pipe[g] /\ g \in Client
        BY <1>0, <4>1, OthersStay, Roles
      <4>3. Fresh(s)
        BY <3>1, <3>3, <4>2 DEF Fresh, Coming
      <4>4. /\ s = local[g].batch[local[g].next - 1].session
            /\ local[g].next - 1 \in DOMAIN local[g].batch
        <5>1. ClientOK(g, at[g], pipe[g], local[g])
          BY <1>0, <4>2 DEF Sane
        <5>2. pipe[g] \in Seq(Commands) /\ TrackPipe(pipe[g], local[g])
          BY <3>1, <5>1 DEF ClientOK
        <5>3. 1 \in DOMAIN pipe[g] /\ Head(pipe[g]) = pipe[g][1]
          BY <3>3, <4>2, <5>2, TailOK
        <5>4. local[g].next > 1 /\ s = local[g].batch[local[g].next - 1].session
          BY <3>3, <4>2, <5>2, <5>3 DEF TrackPipe
        <5>5. local[g].batch \in Seq(Entry) /\ local[g].next \in 1 .. Len(local[g].batch) + 1
          BY <1>0, HandlerFacts
        <5>. QED  BY <5>4, <5>5
      <4>5. s # z
        BY <1>0, <1>4, <4>1, <4>4 DEF BatchesApart
      <4>. QED  BY <4>3, <4>5
    <3>. QED  BY <3>1, <3>2, <3>3
  <2>. QED  BY <1>9, <2>1, <2>2 DEF Fresh
<1>10. /\ \A s \in Session : db[SessionKey(s)] = Nil /\ db'[SessionKey(s)] # Nil =>
             Head(p).key = SessionKey(s)
       /\ \A k \in IndexKeys, s \in Session :
            s \in db'[k] => s \in db[k] \/ (Head(p).key = k /\ s \in Head(p).arg)
  <2>1. DbOK(db) /\ db' = Run(Head(p), db)
    BY <1>0 DEF Sane, Obeys, p
  <2>. QED  BY <1>3, <2>1, RunAddsItsOwn
<1>11. FreshUnseen'
  <2>. SUFFICES ASSUME NEW s \in Session, Fresh(s)'
                PROVE  /\ \A k \in IndexKeys : s \notin db'[k]
                       /\ \A r \in Reaper : s \notin local'[r].ids /\ s \notin local'[r].stale
    BY DEF FreshUnseen
  <2>1. \A k \in IndexKeys : s \notin db'[k]
    BY <1>0, <1>4, <1>9, <1>10 DEF FreshUnseen
  <2>. QED  BY <1>0, <1>1, <1>9, <2>1 DEF FreshUnseen
<1>12. StaleIsDead'
  <2>. SUFFICES ASSUME NEW r \in Reaper, NEW s \in local[r].stale
                PROVE  db'[SessionKey(s)] = Nil
    BY <1>1 DEF StaleIsDead
  <2>1. s \in Session /\ db[SessionKey(s)] = Nil
    BY <1>0, ReaperFacts DEF StaleIsDead
  <2>2. Head(p).key # SessionKey(s)
    <3>1. Head(p).key = SessionKey(s) => Coming(s)
      BY <1>1 DEF Coming, p
    <3>. QED  BY <1>0, <2>1, <3>1 DEF FreshUnseen, Fresh
  <2>. QED  BY <1>10, <2>1, <2>2
<1>. QED  BY <1>6, <1>7, <1>11, <1>12 DEF RegistryInv

(* A command of any other pipeline removes something. *)
LEMMA ExecutePreserves ==
  ASSUME RegistryAssumption, RegistryInv, NEW c \in Handler \cup Reaper, Execute(c)
  PROVE  RegistryInv'
<1>1. CASE c \in Handler /\ at[c] = "track"
  BY <1>1, ExecuteTrackPreserves
<1>2. CASE ~(c \in Handler /\ at[c] = "track")
  <2>1. c \in Client /\ Sane
    BY DEF Client, RegistryInv
  <2>2. Acts(c) /\ Obeys(Head(pipe[c]))
    BY <2>1, ExecuteActs
  <2>3. pipe[c] \in Seq(Commands) /\ \A i \in DOMAIN pipe[c] : pipe[c][i].op \in {"SREM", "DEL"}
    BY <1>2, <2>1 DEF Sane, ClientOK
  <2>4. Head(pipe[c]).op \in {"SREM", "DEL"}
    BY <2>3, TailOK DEF Execute
  <2>5. /\ at' = at /\ local' = local /\ used' = used /\ rolledBack' = rolledBack
        /\ flushes' = flushes /\ errors' = errors
    BY DEF Execute
  <2>. QED  BY <1>2, <2>1, <2>2, <2>4, <2>5, CalmActs DEF Sane
<1>. QED  BY <1>1, <1>2

(* Which locals an assignment to another leaves alone. *)
LEMMA OtherLocals ==
  ASSUME NEW l \in Locals, NEW v
  PROVE  [l EXCEPT !.type = v].batch = l.batch
BY DEF Locals

LEMMA HandlerPreserves ==
  ASSUME RegistryAssumption, RegistryInv, NEW h \in Handler, HandlerNext(h) \/ BatchTrackSessions(h)
  PROVE  RegistryInv'
<1>0. /\ Sane /\ BatchesApart /\ h \in Client /\ h \notin Reaper
      /\ local = [c \in Client |-> local[c]] /\ at = [c \in Client |-> at[c]]
      /\ rolledBack \subseteq used /\ flushes \in 0 .. MaxFlushes /\ errors \in 0 .. MaxErrors
  BY Roles DEF RegistryInv, Sane
<1>l. local[h] \in Locals /\ NoLocals.batch = <<>>
  BY <1>0, HandlerFacts DEF NoLocals
<1>. DEFINE Calm == /\ Acts(h) /\ used' = used /\ rolledBack' \subseteq used
                    /\ flushes' = flushes /\ errors' = errors /\ db' = db
                    /\ at'[h] # "track" /\ local'[h].batch \in {local[h].batch, <<>>}
<1>1. Calm => RegistryInv'
  BY <1>0, CalmActs
<1>2. CASE Execute(h)
  BY <1>2, ExecutePreserves
<1>3. CASE TrackEntry(h) \/ BatchTrackSessions(h)
  BY <1>3, TrackEntryPreserves, BatchTrackSessionsPreserves
<1>4. CASE Enqueue(h)
  <2>1. /\ at' = [at EXCEPT ![h] = "idle"] \/ at' = [at EXCEPT ![h] = "untrack"]
        /\ \/ local' = [local EXCEPT ![h] = NoLocals]
           \/ local' = [local EXCEPT ![h] = [local[h] EXCEPT !.next = 1]]
    BY <1>4 DEF Enqueue, Return, Goto
  <2>3. local'[h] = NoLocals \/ \E v : local'[h] = [local[h] EXCEPT !.next = v]
    BY <1>0, <2>1
  <2>4. ASSUME NEW v, local'[h] = [local[h] EXCEPT !.next = v]
        PROVE  local'[h].batch = local[h].batch
    BY <1>l, <2>4 DEF Locals
  <2>5. at'[h] # "track" /\ local'[h].batch \in {local[h].batch, <<>>}
    BY <1>0, <1>l, <2>1, <2>3, <2>4
  <2>2. used' = used /\ rolledBack' = rolledBack /\ flushes' = flushes /\ errors' = errors /\ db' = db
    BY <1>4 DEF Enqueue
  <2>. QED  BY <1>0, <1>1, <1>4, <2>2, <2>5, EnqueueActs
<1>5. CASE FindAgentType(h)
  <2>1. /\ at' = [at EXCEPT ![h] = "simulation"]
        /\ local' = [local EXCEPT ![h] = [local[h] EXCEPT !.type = db[SessionKey(Current(h))]]]
    BY <1>5 DEF FindAgentType, Goto
  <2>3. at'[h] # "track" /\ local'[h].batch \in {local[h].batch, <<>>}
    BY <1>0, <1>l, <2>1, OtherLocals
  <2>2. used' = used /\ rolledBack' = rolledBack /\ flushes' = flushes /\ errors' = errors /\ db' = db
    BY <1>5 DEF FindAgentType
  <2>. QED  BY <1>0, <1>1, <1>5, <2>2, <2>3, FindAgentTypeActs
<1>6. CASE FindSimulation(h)
  <2>1. /\ Acts(h) /\ at'[h] # "track" /\ local'[h].batch \in {local[h].batch, <<>>}
        /\ errors' \in 0 .. MaxErrors
    BY <1>0, <1>6, FindSimulationActs
  <2>2. used' = used /\ rolledBack' = rolledBack /\ flushes' = flushes /\ db' = db
    BY <1>6 DEF FindSimulation
  <2>. QED  BY <1>0, <2>1, <2>2, CalmActs
<1>7. CASE CountType(h)
  <2>1. at'[h] # "track" /\ local'[h].batch \in {local[h].batch, <<>>}
    BY <1>0, <1>7 DEF CountType, Goto
  <2>2. used' = used /\ rolledBack' = rolledBack /\ flushes' = flushes /\ errors' = errors /\ db' = db
    BY <1>7 DEF CountType
  <2>. QED  BY <1>0, <1>1, <1>7, <2>1, <2>2, CountTypeActs
<1>8. CASE CountSimulation(h)
  <2>1. at'[h] # "track" /\ local'[h].batch \in {local[h].batch, <<>>}
    BY <1>0, <1>8 DEF CountSimulation, Goto
  <2>2. used' = used /\ rolledBack' = rolledBack /\ flushes' = flushes /\ errors' = errors /\ db' = db
    BY <1>8 DEF CountSimulation
  <2>. QED  BY <1>0, <1>1, <1>8, <2>1, <2>2, CountSimulationActs
<1>9. CASE Untracked(h)
  <2>1. /\ at' = [at EXCEPT ![h] = "idle"] \/ at' = [at EXCEPT ![h] = "untrack"]
        /\ \/ local' = [local EXCEPT ![h] = NoLocals]
           \/ local' = [local EXCEPT ![h] = [local[h] EXCEPT !.next = @ + 1]]
    BY <1>9 DEF Untracked, Return, Goto
  <2>3. local'[h] = NoLocals \/ \E v : local'[h] = [local[h] EXCEPT !.next = v]
    BY <1>0, <2>1
  <2>4. ASSUME NEW v, local'[h] = [local[h] EXCEPT !.next = v]
        PROVE  local'[h].batch = local[h].batch
    BY <1>l, <2>4 DEF Locals
  <2>5. at'[h] # "track" /\ local'[h].batch \in {local[h].batch, <<>>}
    BY <1>0, <1>l, <2>1, <2>3, <2>4
  <2>2. used' = used /\ flushes' = flushes /\ errors' = errors /\ db' = db
    BY <1>9 DEF Untracked
  <2>. QED  BY <1>0, <1>1, <1>9, <2>2, <2>5, UntrackedActs
<1>. QED  BY <1>2, <1>3, <1>4, <1>5, <1>6, <1>7, <1>8, <1>9 DEF HandlerNext

LEMMA FlusherPreserves ==
  ASSUME RegistryAssumption, RegistryInv, NEW f \in Flusher, FlusherNext(f) \/ Flush(f)
  PROVE  RegistryInv'
<1>1. /\ Sane /\ f \in Client /\ f \notin Reaper /\ f \notin Handler
      /\ rolledBack \subseteq used /\ errors \in 0 .. MaxErrors
  BY Roles DEF RegistryInv, Sane
<1>2. used' = used /\ rolledBack' = rolledBack /\ errors' = errors
  BY DEF FlusherNext, Delete, Flush, FlushActiveAgents, ScanSimulations, FlushActiveSimulations,
         ScanSessions, Flushed
<1>3. Acts(f) /\ flushes' \in 0 .. MaxFlushes /\ (db' = db \/ \E k \in Key : db' = Run(Del(k), db))
  BY <1>1, FlusherActs
<1>4. db' = db \/ \E cmd : cmd.op \in {"SREM", "DEL"} /\ Obeys(cmd)
  <2>1. ASSUME NEW k \in Key, db' = Run(Del(k), db)
        PROVE  Del(k).op \in {"SREM", "DEL"} /\ Obeys(Del(k))
    BY <2>1, CommandsAre DEF Obeys, Del
  <2>. QED  BY <1>3, <2>1
<1>. QED  BY <1>1, <1>2, <1>3, <1>4, CalmActs

LEMMA ReaperPreserves ==
  ASSUME RegistryAssumption, RegistryInv, NEW r \in Reaper, ReaperNext(r)
  PROVE  RegistryInv'
<1>0. /\ Sane /\ r \in Client /\ r \notin Handler
      /\ local = [c \in Client |-> local[c]]
      /\ rolledBack \subseteq used /\ flushes \in 0 .. MaxFlushes /\ errors \in 0 .. MaxErrors
  BY Roles DEF RegistryInv, Sane
<1>. DEFINE Counters == /\ used' = used /\ rolledBack' = rolledBack
                        /\ flushes' = flushes /\ errors' = errors
            Same == local'[r].ids = local[r].ids /\ local'[r].stale = local[r].stale
<1>1. Acts(r) /\ Counters /\ db' = db /\ Same => RegistryInv'
  BY <1>0, CalmActs
<1>2. CASE Execute(r)
  BY <1>2, ExecutePreserves
<1>3. CASE Reap(r)
  <2>1. Counters /\ db' = db
    BY <1>3 DEF Reap
  <2>2. \E v : local' = [local EXCEPT ![r] = [local[r] EXCEPT !.todo = v]]
    BY <1>3 DEF Reap
  <2>3. Same
    <3>1. \E v : local'[r] = [local[r] EXCEPT !.todo = v]
      BY <1>0, <2>2
    <3>2. ASSUME NEW v, local'[r] = [local[r] EXCEPT !.todo = v] PROVE Same
      <4>1. local[r] \in Locals
        BY <1>0, ReaperFacts
      <4>. QED  BY <3>2, <4>1 DEF Locals
    <3>. QED  BY <3>1, <3>2
  <2>. QED  BY <1>0, <1>1, <1>3, <2>1, <2>3, ReapActs
<1>4. CASE Visit(r)
  <2>1. Counters /\ db' = db
    BY <1>4 DEF Visit
  <2>2. /\ Acts(r)
        /\ \/ Same
           \/ local'[r].stale = {} /\ \E k \in IndexKeys : local'[r].ids = db[k]
    BY <1>0, <1>4, VisitActs
  <2>. QED  BY <1>0, <2>1, <2>2, CalmActs
<1>5. CASE Check(r)
  <2>1. Counters /\ db' = db
    BY <1>5 DEF Check
  <2>. QED  BY <1>0, <1>5, <2>1, CheckActs, CalmActs
<1>6. CASE Prune(r)
  <2>1. Counters
    BY <1>6 DEF Prune
  <2>2. /\ Acts(r) /\ local' = local
        /\ \E k \in IndexKeys, ss \in SUBSET Session : db' = Run(SRem(k, ss), db)
    BY <1>0, <1>6, PruneActs
  <2>3. \E cmd : cmd.op \in {"SREM", "DEL"} /\ Obeys(cmd)
    <3>1. ASSUME NEW k \in IndexKeys, NEW ss \in SUBSET Session, db' = Run(SRem(k, ss), db)
          PROVE  SRem(k, ss).op \in {"SREM", "DEL"} /\ Obeys(SRem(k, ss))
      BY <3>1, CommandsAre DEF Obeys, SRem
    <3>. QED  BY <2>2, <3>1
  <2>. QED  BY <1>0, <2>1, <2>2, <2>3, CalmActs
<1>7. CASE CountReaped(r)
  <2>1. Counters /\ db' = db /\ Same
    BY <1>7 DEF CountReaped
  <2>. QED  BY <1>0, <1>1, <1>7, <2>1, CountReapedActs
<1>8. CASE CountSwept(r)
  <2>1. Counters /\ db' = db /\ Same
    BY <1>8 DEF CountSwept
  <2>. QED  BY <1>0, <1>1, <1>8, <2>1, CountSweptActs
<1>9. CASE ReapSimulations(r)
  <2>1. Counters /\ db' = db
    BY <1>9 DEF ReapSimulations
  <2>. QED  BY <1>0, <1>1, <1>9, <2>1, ReapSimulationsActs
<1>10. CASE Reaped(r)
  <2>1. Counters /\ db' = db /\ local'[r].ids = {} /\ local'[r].stale = {}
    BY <1>0, <1>10 DEF Reaped, Return, NoLocals
  <2>. QED  BY <1>0, <1>10, <2>1, ReapedActs, CalmActs
<1>. QED
  BY <1>2, <1>3, <1>4, <1>5, <1>6, <1>7, <1>8, <1>9, <1>10 DEF ReaperNext

LEMMA CancelPreserves ==
  ASSUME RegistryAssumption, RegistryInv, NEW c \in Client, Cancel(c)
  PROVE  RegistryInv'
<1>1. /\ Sane /\ local = [d \in Client |-> local[d]] /\ at = [d \in Client |-> at[d]]
      /\ rolledBack \subseteq used /\ flushes \in 0 .. MaxFlushes
  BY DEF RegistryInv, Sane
<1>2. /\ used' = used /\ rolledBack' = rolledBack /\ flushes' = flushes /\ db' = db
      /\ at'[c] = "idle" /\ local'[c] = NoLocals
  BY <1>1 DEF Cancel, Return, Goto
<1>3. errors' \in 0 .. MaxErrors
  BY DEF Cancel, RegistryInv, Sane, RegistryAssumption
<1>4. NoLocals.batch = <<>> /\ NoLocals.ids = {} /\ NoLocals.stale = {}
  BY DEF NoLocals
<1>. QED  BY <1>1, <1>2, <1>3, <1>4, CancelActs, CalmActs

(* A key that expires. *)
LEMMA ExpiryPreserves ==
  ASSUME RegistryAssumption, RegistryInv, NEW k \in Key, db' = Run(Del(k), db),
         UNCHANGED <<at, pipe, local, used, rolledBack, unfound, flushes, errors>>
  PROVE  RegistryInv'
<1>1. Del(k) \in Commands /\ Del(k).op = "DEL" /\ DbOK(db)
  BY CommandsAre DEF Del, RegistryInv, Sane
<1>2. DbOK(db')
  BY <1>1, RunKeepsKinds
<1>3. /\ \A s \in Session : db[SessionKey(s)] = Nil => db'[SessionKey(s)] = Nil
      /\ \A i \in IndexKeys, s \in Session : s \in db'[i] => s \in db[i]
  BY <1>1, RunAddsItsOwn
<1>4. Sane'
  BY <1>2 DEF RegistryInv, Sane
<1>5. BatchesApart'
  BY DEF RegistryInv, BatchesApart
<1>6. \A s \in Session : Fresh(s)' => Fresh(s)
  BY DEF Fresh, Coming
<1>7. FreshUnseen'
  BY <1>3, <1>6 DEF RegistryInv, FreshUnseen
<1>8. \A r \in Reaper : local[r].stale \subseteq Session
  BY ReaperFacts DEF RegistryInv
<1>9. StaleIsDead'
  BY <1>3, <1>8 DEF RegistryInv, StaleIsDead
<1>. QED  BY <1>4, <1>5, <1>7, <1>9 DEF RegistryInv

LEMMA RegistryInvStep ==
  ASSUME RegistryAssumption, RegistryInv, [Next]_vars
  PROVE  RegistryInv'
<1>1. ASSUME NEW h \in Handler, HandlerNext(h) \/ BatchTrackSessions(h) PROVE RegistryInv'
  BY <1>1, HandlerPreserves
<1>2. ASSUME NEW f \in Flusher, FlusherNext(f) \/ Flush(f) PROVE RegistryInv'
  BY <1>2, FlusherPreserves
<1>3. ASSUME NEW r \in Reaper, ReaperNext(r) PROVE RegistryInv'
  BY <1>3, ReaperPreserves
<1>4. ASSUME NEW c \in Client, Cancel(c) PROVE RegistryInv'
  BY <1>4, CancelPreserves
<1>5. ASSUME NEW k \in StringKeys, Expire(k) PROVE RegistryInv'
  <2>1. k \in Key
    BY DEF Key
  <2>. QED  BY <1>5, <2>1, ExpiryPreserves DEF Expire
<1>6. ASSUME NEW m \in Simulation, ExpireSimulation(m) PROVE RegistryInv'
  <2>1. SimulationSessions(m) \in Key
    BY KeysAre
  <2>. QED  BY <1>6, <2>1, ExpiryPreserves DEF ExpireSimulation
<1>7. CASE UNCHANGED vars
  <2>1. /\ db' = db /\ at' = at /\ pipe' = pipe /\ local' = local /\ used' = used
        /\ rolledBack' = rolledBack /\ flushes' = flushes /\ errors' = errors
    BY <1>7 DEF vars
  <2>2. Sane'
    BY <2>1 DEF RegistryInv, Sane
  <2>3. BatchesApart'
    BY <2>1 DEF RegistryInv, BatchesApart
  <2>4. \A s \in Session : Fresh(s)' <=> Fresh(s)
    BY <2>1 DEF Fresh, Coming
  <2>5. FreshUnseen' /\ StaleIsDead'
    BY <2>1, <2>4 DEF RegistryInv, FreshUnseen, StaleIsDead
  <2>. QED  BY <2>2, <2>3, <2>5 DEF RegistryInv
<1>. QED  BY <1>1, <1>2, <1>3, <1>4, <1>5, <1>6, <1>7 DEF Next

(***************************************************************************)
(* Theorems.                                                               *)
(***************************************************************************)
(* Whatever requests, flushes and reapers of any number of gateways do, and
   wherever they are cut short, what they share in Redis stays sane, no two
   requests hold the same session, and no set names a session before its key. *)
THEOREM RegistryInvariant == Spec => []RegistryInv
<1>1. RegistryAssumption
  BY RegistryAssumption
<1>2. Init => RegistryInv
  BY <1>1, RegistryInvInit
<1>3. RegistryInv /\ [Next]_vars => RegistryInv'
  BY <1>1, RegistryInvStep
<1>. QED  BY <1>2, <1>3, PTL DEF Spec

(* The sessions whose simulation was not found are sessions. *)
LEMMA UnfoundStep ==
  ASSUME RegistryAssumption, RegistryInv, unfound \subseteq Session, [Next]_vars
  PROVE  unfound' \subseteq Session
<1>1. ASSUME NEW h \in Handler, FindSimulation(h) PROVE unfound' \subseteq Session
  BY <1>1, FindSimulationActs DEF RegistryInv
<1>2. CASE \A h \in Handler : ~FindSimulation(h)
  <2>1. unfound' = unfound
    BY <1>2 DEF Next, vars, HandlerNext, Execute, BatchTrackSessions, TrackEntry, Enqueue,
       FindAgentType, CountType, CountSimulation, Untracked, FlusherNext, Delete, Flush,
       FlushActiveAgents, ScanSimulations, FlushActiveSimulations, ScanSessions, Flushed,
       ReaperNext, Reap, Visit, Check, Prune, CountReaped, CountSwept, ReapSimulations, Reaped,
       Cancel, Expire, ExpireSimulation
  <2>. QED  BY <2>1
<1>. QED  BY <1>1, <1>2

(* Every Redis key holds a value of its kind: GetAgentType never answers anything
   but an agent type of the catalog, and the sets name sessions only. *)
THEOREM TypeCorrect == Spec => []TypeOK
<1>1. RegistryAssumption
  BY RegistryAssumption
<1>2. Init => unfound \subseteq Session
  BY DEF Init
<1>3. RegistryInv /\ unfound \subseteq Session /\ [Next]_vars => (unfound \subseteq Session)'
  BY <1>1, UnfoundStep
<1>4. RegistryInv /\ unfound \subseteq Session => TypeOK
  BY SaneTypes DEF RegistryInv
<1>. QED  BY <1>2, <1>3, <1>4, RegistryInvariant, PTL DEF Spec

(***************************************************************************)
(* How sessions leave the indexes.                                         *)
(***************************************************************************)
(* The only member a pipeline removes from an index is the session of the
   UntrackSession it belongs to. *)
TakesOwn(c, a, p, l) ==
  \A i \in DOMAIN p : p[i].op = "SREM" /\ p[i].key \in IndexKeys =>
    c \in Handler /\ a = "count type" /\ p[i].arg = {l.batch[l.next].session}

OwnTaken == \A c \in Client : TakesOwn(c, at[c], pipe[c], local[c])

(* A command that removes no member of an index. *)
Spares(cmd) == cmd.op = "DEL" \/ cmd.key \in ActiveKeys

LEMMA TakesNothing ==
  ASSUME NEW c, NEW a, NEW l
  PROVE  /\ TakesOwn(c, a, <<>>, l)
         /\ \A x : Spares(x) => TakesOwn(c, a, <<x>>, l)
         /\ \A x, y : Spares(x) /\ Spares(y) => TakesOwn(c, a, <<x, y>>, l)
<1>1. TakesOwn(c, a, <<>>, l)
  BY NoCommands DEF TakesOwn
<1>2. \A x : Spares(x) => ~(x.op = "SREM" /\ x.key \in IndexKeys)
  BY KeysDiffer DEF Spares
<1>3. ASSUME NEW x, Spares(x) PROVE TakesOwn(c, a, <<x>>, l)
  <2>1. \A i \in DOMAIN <<x>> : <<x>>[i] = x
    OBVIOUS
  <2>. QED  BY <1>2, <1>3, <2>1 DEF TakesOwn
<1>4. ASSUME NEW x, NEW y, Spares(x), Spares(y) PROVE TakesOwn(c, a, <<x, y>>, l)
  <2>1. \A i \in DOMAIN <<x, y>> : <<x, y>>[i] = x \/ <<x, y>>[i] = y
    OBVIOUS
  <2>. DEFINE p == <<x, y>>
  <2>2. \A i \in DOMAIN p : p[i] = x \/ p[i] = y
    BY <2>1
  <2>. HIDE DEF p
  <2>3. TakesOwn(c, a, p, l)
    BY <1>2, <1>4, <2>2 DEF TakesOwn
  <2>. QED  BY <2>3 DEF p
<1>. QED  BY <1>1, <1>3, <1>4

LEMMA SparingAre ==
  /\ \A k : Spares(Del(k))
  /\ \A v : Spares(SRem(ActiveAgents, v)) /\ Spares(SRem(ActiveSimulations, v))
BY KeysAre DEF Spares, SRem, Del

(* A step of one client. *)
LEMMA OwnTakenStep ==
  ASSUME RegistryAssumption, RegistryInv, OwnTaken, NEW c \in Client, Moves(c),
         TakesOwn(c, at'[c], pipe'[c], local'[c])
  PROVE  OwnTaken'
BY OthersStay DEF OwnTaken, RegistryInv

LEMMA OwnTakenExecute ==
  ASSUME RegistryAssumption, RegistryInv, OwnTaken, NEW c \in Client, Execute(c)
  PROVE  OwnTaken'
<1>. DEFINE p == pipe[c]
<1>1. Moves(c) /\ Sane /\ p \in Seq(Commands)
  BY ExecuteActs DEF Acts, RegistryInv, Sane, ClientOK
<1>2. p # <<>> /\ pipe'[c] = Tail(p) /\ at' = at /\ local' = local
  BY <1>1 DEF Execute, Send, Sane
<1>3. \A i \in DOMAIN Tail(p) : i + 1 \in DOMAIN p /\ Tail(p)[i] = p[i + 1]
  BY <1>1, <1>2, TailOK
<1>4. TakesOwn(c, at[c], p, local[c])
  BY DEF OwnTaken
<1>5. TakesOwn(c, at[c], Tail(p), local[c])
  BY <1>3, <1>4 DEF TakesOwn
<1>. QED  BY <1>1, <1>2, <1>5, OwnTakenStep

(* TrackSession removes nothing. *)
LEMMA TrackTakesNothing ==
  ASSUME NEW e
  PROVE  \A i \in DOMAIN TrackCommands(e) : TrackCommands(e)[i].op # "SREM"
<1>. DEFINE Adding == {cmd \in {Set(SessionKey(e.session), e.type),
                                SAdd(AgentSessions(e.type), e.session), SAdd(ActiveAgents, e.type),
                                SAdd(SimulationSessions(e.sim), e.session),
                                Set(SessionSimulation(e.session), e.sim),
                                SAdd(ActiveSimulations, e.sim)} : cmd.op # "SREM"}
            p == <<Set(SessionKey(e.session), e.type), SAdd(AgentSessions(e.type), e.session),
                   SAdd(ActiveAgents, e.type)>>
            q == IF e.sim = Nil THEN <<>> ELSE
                   <<SAdd(SimulationSessions(e.sim), e.session),
                     Set(SessionSimulation(e.session), e.sim),
                     SAdd(ActiveSimulations, e.sim)>>
<1>1. \A k, v : Set(k, v).op # "SREM" /\ SAdd(k, v).op # "SREM"
  BY DEF Set, SAdd
<1>2. p \in Seq(Adding) /\ q \in Seq(Adding)
  <2>1. /\ Set(SessionKey(e.session), e.type) \in Adding
        /\ SAdd(AgentSessions(e.type), e.session) \in Adding /\ SAdd(ActiveAgents, e.type) \in Adding
        /\ SAdd(SimulationSessions(e.sim), e.session) \in Adding
        /\ Set(SessionSimulation(e.session), e.sim) \in Adding
        /\ SAdd(ActiveSimulations, e.sim) \in Adding
    BY <1>1
  <2>2. \A x, y, z \in Adding : <<x, y, z>> \in Seq(Adding)
    <3>. HIDE DEF Adding
    <3>. QED  OBVIOUS
  <2>3. p \in Seq(Adding)
    <3>. HIDE DEF Adding
    <3>. QED  BY <2>1, <2>2
  <2>4. q \in Seq(Adding)
    <3>. HIDE DEF Adding
    <3>. QED  BY <2>1, <2>2
  <2>. QED  BY <2>3, <2>4
<1>3. TrackCommands(e) = p \o q
  BY DEF TrackCommands
<1>4. \A cmd \in Adding : cmd.op # "SREM"
  OBVIOUS
<1>. HIDE DEF p, q, Adding
<1>5. p \o q \in Seq(Adding)
  BY <1>2
<1>. QED  BY <1>3, <1>4, <1>5

(* UntrackSession removes its session. *)
LEMMA UntrackTakesOwn ==
  ASSUME NEW s, NEW t, NEW m
  PROVE  \A i \in DOMAIN UntrackCommands(s, t, m) :
           UntrackCommands(s, t, m)[i].op = "SREM" => UntrackCommands(s, t, m)[i].arg = {s}
<1>. DEFINE Own1 == {cmd \in {Del(SessionKey(s)), Del(SessionSimulation(s)),
                              SRem(AgentSessions(t), {s}), SRem(SimulationSessions(m), {s})} :
                       cmd.op = "SREM" => cmd.arg = {s}}
            p == <<Del(SessionKey(s)), Del(SessionSimulation(s))>>
            q == IF t = Nil THEN <<>> ELSE <<SRem(AgentSessions(t), {s})>>
            r == IF m = Nil THEN <<>> ELSE <<SRem(SimulationSessions(m), {s})>>
<1>1. \A k : Del(k).op # "SREM" /\ SRem(k, {s}).arg = {s}
  BY DEF Del, SRem
<1>2. p \in Seq(Own1) /\ q \in Seq(Own1) /\ r \in Seq(Own1)
  <2>1. /\ Del(SessionKey(s)) \in Own1 /\ Del(SessionSimulation(s)) \in Own1
        /\ SRem(AgentSessions(t), {s}) \in Own1 /\ SRem(SimulationSessions(m), {s}) \in Own1
    BY <1>1
  <2>. HIDE DEF Own1
  <2>. QED  BY <2>1
<1>3. UntrackCommands(s, t, m) = (p \o q) \o r
  BY DEF UntrackCommands
<1>4. \A cmd \in Own1 : cmd.op = "SREM" => cmd.arg = {s}
  OBVIOUS
<1>. HIDE DEF p, q, r, Own1
<1>5. (p \o q) \o r \in Seq(Own1)
  BY <1>2
<1>. QED  BY <1>3, <1>4, <1>5

LEMMA OwnTakenHandler ==
  ASSUME RegistryAssumption, RegistryInv, OwnTaken, NEW h \in Handler,
         HandlerNext(h) \/ BatchTrackSessions(h)
  PROVE  OwnTaken'
<1>0. /\ Sane /\ BatchesApart /\ h \in Client /\ pipe = [c \in Client |-> pipe[c]]
      /\ at = [c \in Client |-> at[c]]
  BY Roles DEF RegistryInv, Sane
<1>1. CASE Execute(h)
  BY <1>0, <1>1, OwnTakenExecute
<1>2. CASE TrackEntry(h)
  <2>1. pipe'[h] = TrackCommands(local[h].batch[local[h].next])
    BY <1>0, <1>2 DEF TrackEntry, Send
  <2>2. TakesOwn(h, at'[h], pipe'[h], local'[h])
    BY <2>1, TrackTakesNothing DEF TakesOwn
  <2>. QED  BY <1>0, <1>2, <2>2, TrackEntryActs, OwnTakenStep DEF Acts
<1>3. CASE FindSimulation(h)
  <2>1. PICK sim \in Simulation \cup {Nil} : Ready(h, "simulation") /\ Leave(h, sim)
    <3>1. db[SessionSimulation(Current(h))] \in Simulation \cup {Nil}
      BY <1>0, <1>3, FindSimulationActs, DbTypes DEF Sane
    <3>. QED  BY <1>3, <3>1 DEF FindSimulation
  <2>2. /\ Acts(h) /\ at'[h] = "count type"
        /\ pipe'[h] = UntrackCommands(Current(h), local[h].type, sim)
        /\ local'[h].batch = local[h].batch /\ local'[h].next = local[h].next
    BY <1>0, <2>1, LeaveActs
  <2>4. /\ \A i \in DOMAIN pipe'[h] : pipe'[h][i].op = "SREM" => pipe'[h][i].arg = {Current(h)}
        /\ Current(h) = local'[h].batch[local'[h].next].session
    <3>. DEFINE p == UntrackCommands(Current(h), local[h].type, sim)
    <3>1. \A i \in DOMAIN p : p[i].op = "SREM" => p[i].arg = {Current(h)}
      BY UntrackTakesOwn
    <3>2. pipe'[h] = p
      BY <2>2
    <3>3. Current(h) = local'[h].batch[local'[h].next].session
      BY <2>2 DEF Current
    <3>. HIDE DEF p
    <3>. QED  BY <3>1, <3>2, <3>3
  <2>3. TakesOwn(h, at'[h], pipe'[h], local'[h])
    BY <2>2, <2>4 DEF TakesOwn
  <2>. QED  BY <1>0, <2>2, <2>3, OwnTakenStep DEF Acts
<1>4. CASE CountType(h) \/ CountSimulation(h)
  <2>1. Acts(h)
    BY <1>0, <1>4, CountTypeActs, CountSimulationActs
  <2>3. TakesOwn(h, at'[h], pipe'[h], local'[h])
    <3>1. \/ pipe'[h] = <<>>
          \/ pipe'[h] = <<SRem(ActiveAgents, {local[h].type})>>
          \/ pipe'[h] = <<Del(SimulationSessions(local[h].sim)),
                          SRem(ActiveSimulations, {local[h].sim})>>
      BY <1>0, <1>4 DEF CountType, CountSimulation, Send
    <3>. QED  BY <3>1, TakesNothing, SparingAre
  <2>. QED  BY <1>0, <2>1, <2>3, OwnTakenStep DEF Acts
<1>5. CASE Enqueue(h) \/ FindAgentType(h) \/ Untracked(h) \/ BatchTrackSessions(h)
  <2>1. Acts(h)
    BY <1>0, <1>5, EnqueueActs, FindAgentTypeActs, UntrackedActs, BatchTrackSessionsActs DEF Acts
  <2>2. pipe'[h] = <<>>
    <3>1. pipe' = pipe /\ (pipe[h] = <<>> \/ at[h] = "idle")
      BY <1>5 DEF Enqueue, FindAgentType, Untracked, BatchTrackSessions, Ready, MayStart
    <3>. QED  BY <1>0, <3>1 DEF Sane, ClientOK
  <2>. QED  BY <1>0, <2>1, <2>2, TakesNothing, OwnTakenStep DEF Acts
<1>. QED  BY <1>1, <1>2, <1>3, <1>4, <1>5 DEF HandlerNext

LEMMA OwnTakenReaper ==
  ASSUME RegistryAssumption, RegistryInv, OwnTaken, NEW r \in Reaper, ReaperNext(r)
  PROVE  OwnTaken'
<1>0. Sane /\ r \in Client /\ pipe = [c \in Client |-> pipe[c]]
  BY Roles DEF RegistryInv, Sane
<1>1. CASE Execute(r)
  BY <1>0, <1>1, OwnTakenExecute
<1>2. CASE ~Execute(r)
  <2>1. Acts(r)
    BY <1>0, <1>2, ReapActs, VisitActs, CheckActs, PruneActs, CountReapedActs, CountSweptActs,
       ReapSimulationsActs, ReapedActs DEF ReaperNext
  <2>3. \/ pipe'[r] = <<>>
        \/ \E k : pipe'[r] = <<Del(k)>>
        \/ \E k, v : pipe'[r] = <<SRem(ActiveAgents, v), Del(k)>>
        \/ \E k, v : pipe'[r] = <<Del(k), SRem(ActiveSimulations, v)>>
    <3>1. CASE Check(r)
      BY <1>0, <3>1 DEF Check, Send
    <3>2. CASE CountReaped(r) \/ CountSwept(r)
      BY <1>0, <3>2 DEF CountReaped, CountSwept, Send
    <3>3. CASE Reap(r) \/ Visit(r) \/ Prune(r) \/ ReapSimulations(r) \/ Reaped(r)
      <4>1. pipe' = pipe /\ (pipe[r] = <<>> \/ at[r] = "idle")
        BY <3>3 DEF Reap, Visit, Prune, ReapSimulations, Reaped, Ready, MayStart
      <4>. QED  BY <1>0, <4>1 DEF Sane, ClientOK
    <3>. QED  BY <1>2, <3>1, <3>2, <3>3 DEF ReaperNext
  <2>4. TakesOwn(r, at'[r], pipe'[r], local'[r])
    <3>1. CASE pipe'[r] = <<>>
      BY <3>1, TakesNothing
    <3>2. CASE \E k : pipe'[r] = <<Del(k)>>
      <4>1. PICK k : pipe'[r] = <<Del(k)>>
        BY <3>2
      <4>2. Spares(Del(k))
        BY SparingAre, Zenon
      <4>3. TakesOwn(r, at'[r], <<Del(k)>>, local'[r])
        BY <4>2, TakesNothing, Zenon
      <4>. QED  BY <4>1, <4>3, Zenon
    <3>3. CASE \E k, v : pipe'[r] = <<SRem(ActiveAgents, v), Del(k)>>
      <4>1. PICK k, v : pipe'[r] = <<SRem(ActiveAgents, v), Del(k)>>
        BY <3>3
      <4>2. Spares(Del(k)) /\ Spares(SRem(ActiveAgents, v))
        BY SparingAre, Zenon
      <4>3. TakesOwn(r, at'[r], <<SRem(ActiveAgents, v), Del(k)>>, local'[r])
        BY <4>2, TakesNothing, Zenon
      <4>. QED  BY <4>1, <4>3, Zenon
    <3>4. CASE \E k, v : pipe'[r] = <<Del(k), SRem(ActiveSimulations, v)>>
      <4>1. PICK k, v : pipe'[r] = <<Del(k), SRem(ActiveSimulations, v)>>
        BY <3>4
      <4>2. Spares(Del(k)) /\ Spares(SRem(ActiveSimulations, v))
        BY SparingAre, Zenon
      <4>3. TakesOwn(r, at'[r], <<Del(k), SRem(ActiveSimulations, v)>>, local'[r])
        BY <4>2, TakesNothing, Zenon
      <4>. QED  BY <4>1, <4>3, Zenon
    <3>. QED  BY <2>3, <3>1, <3>2, <3>3, <3>4
  <2>. QED  BY <1>0, <2>1, <2>4, OwnTakenStep DEF Acts
<1>. QED  BY <1>1, <1>2

LEMMA OwnTakenNext ==
  ASSUME RegistryAssumption, RegistryInv, OwnTaken, [Next]_vars
  PROVE  OwnTaken'
<1>0. Sane /\ pipe = [c \in Client |-> pipe[c]]
  BY DEF RegistryInv, Sane
<1>1. ASSUME NEW f \in Flusher, FlusherNext(f) \/ Flush(f) PROVE OwnTaken'
  <2>1. f \in Client /\ Acts(f)
    BY <1>0, <1>1, Roles, FlusherActs
  <2>2. pipe'[f] = <<>>
    BY <2>1 DEF Acts, ClientOK
  <2>. QED  BY <2>1, <2>2, TakesNothing, OwnTakenStep DEF Acts
<1>2. ASSUME NEW c \in Client, Cancel(c) PROVE OwnTaken'
  <2>1. Acts(c) /\ pipe'[c] = <<>>
    BY <1>0, <1>2, CancelActs DEF Cancel, Send
  <2>. QED  BY <2>1, TakesNothing, OwnTakenStep DEF Acts
<1>3. CASE UNCHANGED <<at, pipe, local>>
  BY <1>3 DEF OwnTaken
<1>4. (\E k \in StringKeys : Expire(k)) \/ (\E m \in Simulation : ExpireSimulation(m))
        => UNCHANGED <<at, pipe, local>>
  BY DEF Expire, ExpireSimulation
<1>. QED  BY <1>1, <1>2, <1>3, <1>4, OwnTakenHandler, OwnTakenReaper DEF Next, vars

(* A step by which a session whose key exists leaves an index. *)
Loses(k, s) == s \in db[k] /\ s \notin db'[k] /\ db[SessionKey(s)] # Nil

LEMMA LeavesByCommand ==
  ASSUME RegistryAssumption, RegistryInv, NEW cmd, Obeys(cmd),
         NEW k \in IndexKeys, NEW s \in Session, Loses(k, s)
  PROVE  cmd.key = k /\ (cmd.op = "DEL" \/ (cmd.op = "SREM" /\ s \in cmd.arg))
<1>1. cmd \in Commands /\ db' = Run(cmd, db) /\ DbOK(db)
  BY DEF Obeys, RegistryInv, Sane
<1>2. cmd.key = k /\ s \notin Result(cmd, db) /\ s \in db[k]
  BY <1>1, RunsAre, KeysAre DEF Loses
<1>3. cmd.op \in {"SADD", "SREM", "DEL"}
  BY <1>1, <1>2, CommandKinds, KeysDiffer
<1>. QED  BY <1>2, <1>3 DEF Result

LEMMA LeavesByExecute ==
  ASSUME RegistryAssumption, RegistryInv, OwnTaken, NEW c \in Client, Execute(c),
         NEW k \in IndexKeys, NEW s \in Session, Loses(k, s)
  PROVE  Emptied(k) \/ Leaves(s)
<1>. DEFINE p == pipe[c]
            cmd == Head(p)
<1>1. Sane /\ Obeys(cmd) /\ p \in Seq(Commands) /\ pipe = [x \in Client |-> pipe[x]]
  BY ExecuteActs DEF RegistryInv, Sane, ClientOK
<1>2. Sent(c)
  BY <1>1 DEF Execute, Send, Sent
<1>3. cmd = p[1] /\ 1 \in DOMAIN p
  BY <1>1, <1>2, TailOK DEF Sent
<1>4. cmd.key = k /\ (cmd.op = "DEL" \/ (cmd.op = "SREM" /\ s \in cmd.arg))
  BY <1>1, LeavesByCommand
<1>5. CASE cmd.op = "DEL"
  <2>1. cmd \in [op : {"DEL"}, key : Key, arg : {Nil}]
    BY <1>1, <1>5 DEF Obeys, Commands
  <2>2. cmd = Del(k)
    BY <1>4, <2>1 DEF Del
  <2>. QED  BY <1>2, <2>2 DEF Emptied
<1>6. CASE cmd.op = "SREM" /\ s \in cmd.arg
  <2>1. c \in Handler /\ at[c] = "count type" /\ cmd.arg = {local[c].batch[local[c].next].session}
    <3>1. TakesOwn(c, at[c], p, local[c])
      BY DEF OwnTaken
    <3>2. p[1].op = "SREM" /\ p[1].key \in IndexKeys
      BY <1>3, <1>4, <1>6
    <3>. QED  BY <1>3, <3>1, <3>2 DEF TakesOwn
  <2>2. Current(c) = s
    BY <1>6, <2>1 DEF Current
  <2>. QED  BY <1>2, <2>1, <2>2 DEF Leaves
<1>. QED  BY <1>4, <1>5, <1>6

LEMMA LeavesByFlush ==
  ASSUME RegistryAssumption, RegistryInv, NEW f \in Flusher, FlusherNext(f) \/ Flush(f),
         NEW k \in IndexKeys, NEW s \in Session, Loses(k, s)
  PROVE  Dropped(k)
<1>0. Sane /\ f \in Client /\ local = [c \in Client |-> local[c]] /\ local[f] \in Locals
  BY Roles DEF RegistryInv, Sane, ClientOK
<1>1. \A i \in Key : Obeys(Del(i)) => i = k
  BY LeavesByCommand DEF Del
<1>2. \A i \in Key : db' = Run(Del(i), db) => i = k
  BY <1>1, CommandsAre DEF Obeys
<1>3. CASE Delete(f)
  <2>1. PICK i \in local[f].todo :
          db' = Run(Del(i), db) /\ local' = [local EXCEPT ![f].todo = @ \ {i}]
    BY <1>3 DEF Delete, Do
  <2>2. i \in Key /\ local'[f].todo = local[f].todo \ {i}
    BY <1>0, <2>1 DEF Locals
  <2>. QED  BY <1>2, <2>1, <2>2 DEF Dropped
<1>4. CASE FlushActiveAgents(f) \/ FlushActiveSimulations(f)
  <2>1. db' = Run(Del(ActiveAgents), db) \/ db' = Run(Del(ActiveSimulations), db)
    BY <1>4 DEF FlushActiveAgents, FlushActiveSimulations, Do
  <2>. QED  BY <1>2, <2>1, KeysAre, KeysDiffer
<1>5. CASE Flush(f) \/ ScanSimulations(f) \/ ScanSessions(f) \/ Flushed(f)
  BY <1>5 DEF Loses, Flush, ScanSimulations, ScanSessions, Flushed
<1>. QED  BY <1>3, <1>4, <1>5 DEF FlusherNext

LEMMA LeavesInOrder ==
  ASSUME RegistryAssumption, RegistryInv, OwnTaken, Next,
         NEW k \in IndexKeys, NEW s \in Session, Loses(k, s)
  PROVE  Dropped(k) \/ Emptied(k) \/ Leaves(s)
<1>0. Sane /\ StaleIsDead /\ Handler \subseteq Client /\ Reaper \subseteq Client
  BY DEF RegistryInv, Client
<1>1. ASSUME NEW h \in Handler, HandlerNext(h) \/ BatchTrackSessions(h)
      PROVE  Emptied(k) \/ Leaves(s)
  <2>1. CASE Execute(h)
    BY <1>0, <2>1, LeavesByExecute
  <2>2. CASE ~Execute(h)
    <3>1. db' = db
      BY <1>1, <2>2 DEF HandlerNext, BatchTrackSessions, TrackEntry, Enqueue, FindAgentType,
         FindSimulation, CountType, CountSimulation, Untracked
    <3>. QED  BY <3>1 DEF Loses
  <2>. QED  BY <2>1, <2>2
<1>2. ASSUME NEW r \in Reaper, ReaperNext(r) PROVE Emptied(k) \/ Leaves(s)
  <2>1. CASE Execute(r)
    BY <1>0, <2>1, LeavesByExecute
  <2>2. CASE Prune(r)
    <3>1. /\ local[r].visit \in IndexKeys /\ local[r].stale \subseteq Session
          /\ db' = Run(SRem(local[r].visit, local[r].stale), db)
      BY <1>0, <2>2, ReaperFacts, KeysAre DEF Prune, Do, Ready
    <3>2. Obeys(SRem(local[r].visit, local[r].stale))
      BY <3>1, CommandsAre DEF Obeys
    <3>3. s \in local[r].stale
      BY <3>2, LeavesByCommand DEF SRem
    <3>. QED  BY <1>0, <3>3 DEF StaleIsDead, Loses
  <2>3. CASE ~Execute(r) /\ ~Prune(r)
    <3>1. db' = db
      BY <1>2, <2>3 DEF ReaperNext, Reap, Visit, Check, CountReaped, CountSwept, ReapSimulations,
         Reaped
    <3>. QED  BY <3>1 DEF Loses
  <2>. QED  BY <2>1, <2>2, <2>3
<1>3. \A c \in Client : ~Cancel(c)
  BY DEF Cancel, Loses
<1>4. \A i \in Key : db' = Run(Del(i), db) => i = k
  BY LeavesByCommand, CommandsAre DEF Obeys, Del
<1>5. \A i \in StringKeys : ~Expire(i)
  BY <1>4, KeysAre, KeysDiffer DEF Expire
<1>6. \A m \in Simulation : ~ExpireSimulation(m)
  BY <1>4, KeysAre DEF ExpireSimulation, Loses
<1>. QED  BY <1>1, <1>2, <1>3, <1>5, <1>6, LeavesByFlush DEF Next

(* A session whose key exists leaves an index by a flush, by the DEL that follows a
   count of zero, or by its own UntrackSession: what the reaper found stale with
   EXISTS is still gone at its SREM. *)
THEOREM LiveSpared == Spec => LiveStayIndexed
<1>1. RegistryAssumption
  BY RegistryAssumption
<1>2. Init => OwnTaken
  BY TakesNothing DEF Init, OwnTaken
<1>3. RegistryInv /\ OwnTaken /\ [Next]_vars => OwnTaken'
  BY <1>1, OwnTakenNext
<1>4. RegistryInv /\ OwnTaken /\ [Next]_vars =>
        [\A k \in IndexKeys, s \in Session :
           s \in db[k] /\ s \notin db'[k] /\ db[SessionKey(s)] # Nil
             => Dropped(k) \/ Emptied(k) \/ Leaves(s)]_vars
  BY <1>1, LeavesInOrder DEF Loses
<1>. QED  BY <1>2, <1>3, <1>4, RegistryInvariant, PTL DEF Spec, LiveStayIndexed

(***************************************************************************)
(* The roll-back.                                                          *)
(***************************************************************************)
(* The commands an entry's session is tracked with. *)
CommandsOf(e) ==
  {Set(SessionKey(e.session), e.type), SAdd(AgentSessions(e.type), e.session),
   SAdd(ActiveAgents, e.type)}
  \cup IF e.sim = Nil THEN {} ELSE
         {SAdd(SimulationSessions(e.sim), e.session), Set(SessionSimulation(e.session), e.sim),
          SAdd(ActiveSimulations, e.sim)}

Sends(p, cmd) == \E i \in DOMAIN p : p[i] = cmd

(* Nothing names the session. *)
Clean(d, s) ==
  /\ d[SessionKey(s)] = Nil /\ d[SessionSimulation(s)] = Nil
  /\ \A k \in IndexKeys : s \notin d[k]

(* Nothing names the session, but for the set of a simulation that was not found. *)
Ghost(u, k, s) == s \in u /\ k \in SimulationSets

Gone(d, u, s) ==
  /\ d[SessionKey(s)] = Nil /\ d[SessionSimulation(s)] = Nil
  /\ \A k \in IndexKeys : s \in d[k] => Ghost(u, k, s)

(* No index names the entry's session but the entry's own two. *)
Own(d, e) ==
  \A k \in IndexKeys : e.session \in d[k] =>
    \/ k = AgentSessions(e.type)
    \/ e.sim # Nil /\ k = SimulationSessions(e.sim)

(* The string keys say what the entry does, or will once the pipeline is done. *)
Stored(d, p, e) ==
  /\ \/ d[SessionKey(e.session)] = e.type
     \/ Sends(p, Set(SessionKey(e.session), e.type))
  /\ \/ e.sim = Nil
     \/ d[SessionSimulation(e.session)] = e.sim
     \/ Sends(p, Set(SessionSimulation(e.session), e.sim))

(* Whatever names the session is removed by the pipeline. *)
Leaving(d, u, p, s) ==
  /\ d[SessionKey(s)] = Nil \/ Sends(p, Del(SessionKey(s)))
  /\ d[SessionSimulation(s)] = Nil \/ Sends(p, Del(SessionSimulation(s)))
  /\ \A k \in IndexKeys : s \in d[k] => Sends(p, SRem(k, {s})) \/ Ghost(u, k, s)

Counting == {"count type", "count simulation", "untracked"}

(* The entries a request at a, with locals l, has stored and not begun to remove. *)
Standing(a, l, i) ==
  \/ a = "track" /\ i < l.next
  \/ a \in {"untrack", "simulation"} /\ i >= l.next
  \/ a \in Counting /\ i > l.next

PipeOK(a, p, l) ==
  /\ a = "track" => \A i \in DOMAIN p : p[i] \in CommandsOf(l.batch[l.next - 1])
  /\ a \in {"untrack", "simulation"} => p = <<>>
  /\ a = "count type" => \A i \in DOMAIN p : p[i].key \in StringKeys =>
       \/ p[i].key = SessionKey(l.batch[l.next].session)
       \/ p[i].key = SessionSimulation(l.batch[l.next].session)
  /\ a \in {"count simulation", "untracked"} => \A i \in DOMAIN p : p[i].key \notin StringKeys

RequestOK(d, u, a, p, l) ==
  /\ a \in {"idle", "track", "untrack"} \cup Untracking
  /\ \A i \in DOMAIN l.batch : a = "track" \/ i >= l.next => Own(d, l.batch[i])
  /\ \A i \in DOMAIN l.batch : Standing(a, l, i) => Stored(d, p, l.batch[i])
  /\ PipeOK(a, p, l)
  /\ a = "simulation" => l.type = l.batch[l.next].type
  /\ a = "count type" => Leaving(d, u, p, l.batch[l.next].session)
  /\ a \in {"count simulation", "untracked"} => Gone(d, u, l.batch[l.next].session)

(* The only string keys a reap deletes are simulations of sessions it found stale. *)
ReaperPipe(p, l) ==
  \A i \in DOMAIN p : p[i].key \in StringKeys => \E s \in l.stale : p[i].key = SessionSimulation(s)

RolledBack(s) ==
  /\ Gone(db, unfound, s)
  /\ \A h \in Handler : at[h] = "track" =>
       \A i \in DOMAIN local[h].batch : local[h].batch[i].session # s

RollBackInv ==
  flushes = 0 =>
    /\ \A f \in Flusher : at[f] = "idle"
    /\ \A h \in Handler : RequestOK(db, unfound, at[h], pipe[h], local[h])
    /\ \A r \in Reaper : ReaperPipe(pipe[r], local[r])
    /\ \A s \in rolledBack : RolledBack(s)

(* What a step may do to the keys of a session: remove them, or leave its own two. *)
Shrinks(s) ==
  /\ db'[SessionKey(s)] \in {db[SessionKey(s)], Nil}
  /\ db'[SessionSimulation(s)] \in {db[SessionSimulation(s)], Nil}
  /\ \A k \in IndexKeys : s \in db'[k] => s \in db[k]

Keeps(s) ==
  /\ Shrinks(s)
  /\ db'[SessionKey(s)] = db[SessionKey(s)]
  /\ db'[SessionSimulation(s)] = db[SessionSimulation(s)]

LEMMA SimulationKeysDiffer ==
  \A s, z \in Session : SessionSimulation(s) = SessionSimulation(z) => s = z
BY DEF SessionSimulation

LEMMA Removes ==
  ASSUME NEW cmd, DbOK(db), Obeys(cmd), cmd.op \in {"SREM", "DEL"}, NEW s \in Session
  PROVE  /\ Shrinks(s)
         /\ cmd.key # SessionKey(s) /\ cmd.key # SessionSimulation(s) => Keeps(s)
<1>1. cmd \in Commands /\ db' = Run(cmd, db)
  BY DEF Obeys
<1>2. \A k \in Key : db'[k] = IF k = cmd.key THEN Result(cmd, db) ELSE db[k]
  BY <1>1, RunsAre
<1>3. \A k \in IndexKeys : s \in db'[k] => s \in db[k]
  BY <1>1, RunAddsItsOwn
<1>4. /\ SessionKey(s) \in StringKeys /\ SessionSimulation(s) \in StringKeys
      /\ StringKeys \subseteq Key
  BY KeysAre
<1>5. cmd.key \in StringKeys => Result(cmd, db) = Nil
  <2>1. cmd.key \in StringKeys => cmd.op = "DEL"
    BY <1>1, CommandKinds, KeysDiffer
  <2>. QED  BY <2>1 DEF Result, Absent
<1>. QED  BY <1>2, <1>3, <1>4, <1>5 DEF Shrinks, Keeps

LEMMA StillClean ==
  ASSUME NEW s, unfound \subseteq unfound', Shrinks(s), Gone(db, unfound, s)
  PROVE  Gone(db', unfound', s)
BY DEF Shrinks, Gone, Ghost

LEMMA StillOwn ==
  ASSUME NEW e, Shrinks(e.session), Own(db, e)
  PROVE  Own(db', e)
BY DEF Shrinks, Own

LEMMA StillStored ==
  ASSUME NEW e, NEW p, Keeps(e.session), Stored(db, p, e)
  PROVE  Stored(db', p, e)
BY DEF Keeps, Stored

LEMMA StillLeaving ==
  ASSUME NEW s, NEW p, unfound \subseteq unfound', Shrinks(s), Leaving(db, unfound, p, s)
  PROVE  Leaving(db', unfound', p, s)
BY DEF Shrinks, Leaving, Ghost

(* A request that stands still is disturbed by no step that only shrinks what
   its sessions have and keeps what it has stored. *)
LEMMA RequestUndisturbed ==
  ASSUME NEW a, NEW p, NEW l, unfound \subseteq unfound',
         RequestOK(db, unfound, a, p, l), a \in Untracking => l.next \in DOMAIN l.batch,
         \A i \in DOMAIN l.batch :
           /\ Shrinks(l.batch[i].session)
           /\ Stored(db, p, l.batch[i]) /\ Standing(a, l, i) => Keeps(l.batch[i].session)
  PROVE  RequestOK(db', unfound', a, p, l)
<1>1. \A i \in DOMAIN l.batch : a = "track" \/ i >= l.next => Own(db', l.batch[i])
  BY StillOwn DEF RequestOK
<1>2. \A i \in DOMAIN l.batch : Standing(a, l, i) => Stored(db', p, l.batch[i])
  BY StillStored DEF RequestOK
<1>3. a = "count type" => Leaving(db', unfound', p, l.batch[l.next].session)
  BY StillLeaving DEF RequestOK, Untracking
<1>4. a \in {"count simulation", "untracked"} => Gone(db', unfound', l.batch[l.next].session)
  BY StillClean DEF RequestOK, Untracking
<1>. QED  BY <1>1, <1>2, <1>3, <1>4 DEF RequestOK

LEMMA EntriesAre ==
  ASSUME RegistryAssumption, Sane, NEW h \in Handler
  PROVE  /\ \A i \in DOMAIN local[h].batch :
              /\ i \in Nat /\ local[h].batch[i] \in Entry /\ local[h].batch[i].session \in Session
              /\ local[h].batch[i].type \in AgentType
              /\ local[h].batch[i].sim # Nil => local[h].batch[i].sim \in Simulation
         /\ at[h] \in Untracking => local[h].next \in DOMAIN local[h].batch
<1>1. local[h].batch \in Seq(Entry) /\ local[h].next \in 1 .. Len(local[h].batch) + 1
  BY HandlerFacts
<1>2. \A i \in DOMAIN local[h].batch : i \in Nat /\ local[h].batch[i] \in Entry
  BY <1>1
<1>3. at[h] \in Untracking => local[h].next <= Len(local[h].batch)
  BY HandlerFacts
<1>. QED  BY <1>1, <1>2, <1>3 DEF Entry

(* A step of c, of which the others see no more than that. *)
LEMMA RollBackStep ==
  ASSUME RegistryAssumption, RegistryInv, RollBackInv, flushes = 0, NEW c \in Client, Moves(c),
         unfound \subseteq unfound',
         c \in Handler => /\ RequestOK(db', unfound', at'[c], pipe'[c], local'[c])
                          /\ at'[c] = "track" => \A i \in DOMAIN local'[c].batch :
                               local'[c].batch[i].session \notin rolledBack,
         c \in Flusher => at'[c] = "idle",
         c \in Reaper => ReaperPipe(pipe'[c], local'[c]),
         \A h \in Handler \ {c} : \A i \in DOMAIN local[h].batch :
           /\ Shrinks(local[h].batch[i].session)
           /\ Stored(db, pipe[h], local[h].batch[i]) /\ Standing(at[h], local[h], i)
                => Keeps(local[h].batch[i].session),
         \A s \in rolledBack : Shrinks(s),
         \A s \in rolledBack' \ rolledBack : RolledBack(s)'
  PROVE  RollBackInv'
<1>1. \A d \in Client \ {c} : at'[d] = at[d] /\ pipe'[d] = pipe[d] /\ local'[d] = local[d]
  BY OthersStay DEF RegistryInv
<1>2. \A f \in Flusher : at'[f] = "idle"
  BY <1>1, Roles DEF RollBackInv
<1>3. \A h \in Handler : RequestOK(db', unfound', at'[h], pipe'[h], local'[h])
  <2>. SUFFICES ASSUME NEW h \in Handler, h # c PROVE RequestOK(db', unfound', at[h], pipe[h], local[h])
    BY <1>1, Roles
  <2>1. at[h] \in Untracking => local[h].next \in DOMAIN local[h].batch
    BY EntriesAre DEF RegistryInv
  <2>. QED  BY <2>1, RequestUndisturbed DEF RollBackInv
<1>4. \A r \in Reaper : ReaperPipe(pipe'[r], local'[r])
  BY <1>1, Roles DEF RollBackInv
<1>5. ASSUME NEW s \in rolledBack PROVE RolledBack(s)'
  <2>1. Gone(db', unfound', s)
    BY <1>5, StillClean DEF RollBackInv, RolledBack
  <2>2. ASSUME NEW h \in Handler, at'[h] = "track", NEW i \in DOMAIN local'[h].batch
        PROVE  local'[h].batch[i].session # s
    BY <1>1, <1>5, <2>2, Roles DEF RollBackInv, RolledBack
  <2>. QED  BY <2>1, <2>2 DEF RolledBack
<1>. QED  BY <1>2, <1>3, <1>4, <1>5 DEF RollBackInv

LEMMA UntouchedDb ==
  ASSUME db' = db
  PROVE  \A s : Keeps(s)
BY DEF Keeps, Shrinks

(* A step that leaves Redis alone, and takes no session for tracking. *)
LEMMA LocalStep ==
  ASSUME RegistryAssumption, RegistryInv, RollBackInv, flushes = 0, NEW c \in Client, Moves(c),
         c \in Handler => /\ RequestOK(db, unfound', at'[c], pipe'[c], local'[c])
                          /\ at'[c] = "track" =>
                               at[c] = "track" /\ local'[c].batch = local[c].batch,
         c \in Flusher => at'[c] = "idle",
         c \in Reaper => ReaperPipe(pipe'[c], local'[c]),
         db' = db, rolledBack' = rolledBack, unfound \subseteq unfound'
  PROVE  RollBackInv'
<1>1. \A s : Keeps(s) /\ Shrinks(s)
  BY UntouchedDb DEF Keeps
<1>2. c \in Handler /\ at'[c] = "track" => \A i \in DOMAIN local'[c].batch :
        local'[c].batch[i].session \notin rolledBack
  BY DEF RollBackInv, RolledBack
<1>. QED  BY <1>1, <1>2, RollBackStep

LEMMA IdleOK ==
  ASSUME NEW d, NEW u
  PROVE  RequestOK(d, u, "idle", <<>>, NoLocals)
<1>1. NoLocals.batch = <<>> /\ DOMAIN <<>> = {}
  BY DEF NoLocals
<1>. QED  BY <1>1 DEF RequestOK, PipeOK

LEMMA SendsNothing ==
  ASSUME NEW cmd
  PROVE  ~Sends(<<>>, cmd)
BY DEF Sends

LEMMA BatchTrackSessionsRollBack ==
  ASSUME RegistryAssumption, RegistryInv, RollBackInv, flushes = 0,
         NEW h \in Handler, BatchTrackSessions(h)
  PROVE  RollBackInv'
<1>0. /\ Moves(h) /\ h \in Client /\ h \notin Flusher /\ h \notin Reaper
      /\ Sane /\ FreshUnseen /\ rolledBack \subseteq used
      /\ local = [c \in Client |-> local[c]] /\ at = [c \in Client |-> at[c]]
  BY BatchTrackSessionsActs, Roles DEF Acts, RegistryInv, Sane
<1>1. /\ at[h] = "idle" /\ pipe' = pipe /\ db' = db /\ rolledBack' = rolledBack /\ unfound' = unfound
      /\ at'[h] = "track"
  BY <1>0 DEF BatchTrackSessions, MayStart, Goto
<1>2. local[h] = NoLocals /\ pipe'[h] = <<>>
  BY <1>0, <1>1 DEF Sane, ClientOK
<1>3. PICK n \in 1 .. MaxBatch, sim \in Simulation \cup {Nil} :
      \E ids \in [1 .. n -> Session \ used], type \in [1 .. n -> AgentType] :
        /\ \A i, j \in 1 .. n : ids[i] = ids[j] => i = j
        /\ local' = [local EXCEPT ![h].batch =
             [i \in 1 .. n |-> [session |-> ids[i], type |-> type[i], sim |-> sim]]]
        /\ used' = used \cup {ids[i] : i \in 1 .. n}
  BY DEF BatchTrackSessions
<1>4. PICK ids \in [1 .. n -> Session \ used], type \in [1 .. n -> AgentType] :
        /\ \A i, j \in 1 .. n : ids[i] = ids[j] => i = j
        /\ local' = [local EXCEPT ![h].batch =
             [i \in 1 .. n |-> [session |-> ids[i], type |-> type[i], sim |-> sim]]]
        /\ used' = used \cup {ids[i] : i \in 1 .. n}
  BY <1>3
<1>5. /\ DOMAIN local'[h].batch = 1 .. n /\ local'[h].next = 1
      /\ \A i \in 1 .. n : local'[h].batch[i].session = ids[i]
  <2>. DEFINE b == [i \in 1 .. n |-> [session |-> ids[i], type |-> type[i], sim |-> sim]]
  <2>1. DOMAIN b = 1 .. n /\ \A i \in 1 .. n : b[i].session = ids[i]
    OBVIOUS
  <2>2. local' = [local EXCEPT ![h].batch = b]
    BY <1>4
  <2>. HIDE DEF b
  <2>3. local'[h] = [NoLocals EXCEPT !.batch = b]
    BY <1>0, <1>2, <2>2
  <2>4. local'[h].batch = b /\ local'[h].next = 1
    BY <2>3 DEF NoLocals
  <2>. QED  BY <2>1, <2>4
<1>6. \A i \in 1 .. n : ids[i] \in Session \ used
  OBVIOUS
<1>7. \A i \in 1 .. n, k \in IndexKeys : ids[i] \notin db[k]
  BY <1>0, <1>6 DEF FreshUnseen, Fresh
<1>8. RequestOK(db, unfound, "track", <<>>, local'[h])
  <2>1. \A i \in DOMAIN local'[h].batch : Own(db, local'[h].batch[i])
    BY <1>5, <1>7 DEF Own
  <2>2. \A i \in DOMAIN local'[h].batch : ~Standing("track", local'[h], i)
    BY <1>5 DEF Standing, Counting
  <2>3. PipeOK("track", <<>>, local'[h])
    BY DEF PipeOK
  <2>. QED  BY <2>1, <2>2, <2>3 DEF RequestOK
<1>9. \A i \in DOMAIN local'[h].batch : local'[h].batch[i].session \notin rolledBack
  BY <1>0, <1>5, <1>6
<1>10. \A s : Keeps(s) /\ Shrinks(s)
  BY <1>1, UntouchedDb DEF Keeps
<1>. QED  BY <1>0, <1>1, <1>2, <1>8, <1>9, <1>10, RollBackStep

(* TrackSession sends the entry's commands, and the two that set its keys. *)
LEMMA TrackCommandsAre ==
  ASSUME NEW e
  PROVE  /\ \A i \in DOMAIN TrackCommands(e) : TrackCommands(e)[i] \in CommandsOf(e)
         /\ Sends(TrackCommands(e), Set(SessionKey(e.session), e.type))
         /\ e.sim # Nil => Sends(TrackCommands(e), Set(SessionSimulation(e.session), e.sim))
<1>. DEFINE p == <<Set(SessionKey(e.session), e.type), SAdd(AgentSessions(e.type), e.session),
                   SAdd(ActiveAgents, e.type)>>
            q == <<SAdd(SimulationSessions(e.sim), e.session),
                   Set(SessionSimulation(e.session), e.sim),
                   SAdd(ActiveSimulations, e.sim)>>
<1>1. CASE e.sim = Nil
  <2>1. TrackCommands(e) = p \o <<>>
    BY <1>1 DEF TrackCommands
  <2>2. p \o <<>> = p /\ DOMAIN p = 1 .. 3
    OBVIOUS
  <2>3. p[1] = Set(SessionKey(e.session), e.type) /\ \A i \in 1 .. 3 : p[i] \in CommandsOf(e)
    BY DEF CommandsOf
  <2>. HIDE DEF p
  <2>. QED  BY <1>1, <2>1, <2>2, <2>3 DEF Sends
<1>2. CASE e.sim # Nil
  <2>1. TrackCommands(e) = p \o q
    BY <1>2 DEF TrackCommands
  <2>2. /\ DOMAIN (p \o q) = 1 .. 6
        /\ \A i \in 1 .. 3 : (p \o q)[i] = p[i]
        /\ \A i \in 4 .. 6 : (p \o q)[i] = q[i - 3]
    OBVIOUS
  <2>3. p[1] = Set(SessionKey(e.session), e.type) /\ \A i \in 1 .. 3 : p[i] \in CommandsOf(e)
    BY DEF CommandsOf
  <2>4. q[2] = Set(SessionSimulation(e.session), e.sim) /\ \A i \in 1 .. 3 : q[i] \in CommandsOf(e)
    BY <1>2 DEF CommandsOf
  <2>. HIDE DEF p, q
  <2>5. \A i \in 1 .. 6 : (p \o q)[i] \in CommandsOf(e)
    <3>1. \A i \in 4 .. 6 : i - 3 \in 1 .. 3
      OBVIOUS
    <3>2. \A i \in 1 .. 6 : i \in 1 .. 3 \/ i \in 4 .. 6
      OBVIOUS
    <3>. QED  BY <2>2, <2>3, <2>4, <3>1, <3>2
  <2>6. (p \o q)[1] = Set(SessionKey(e.session), e.type)
    BY <2>2, <2>3
  <2>7. (p \o q)[5] = Set(SessionSimulation(e.session), e.sim)
    BY <2>2, <2>4
  <2>. QED  BY <2>1, <2>2, <2>5, <2>6, <2>7, SMTT(20) DEF Sends
<1>. QED  BY <1>1, <1>2

LEMMA TrackEntryRollBack ==
  ASSUME RegistryAssumption, RegistryInv, RollBackInv, flushes = 0, NEW h \in Handler, TrackEntry(h)
  PROVE  RollBackInv'
<1>. DEFINE n == local[h].next
            e == local[h].batch[n]
            l == local'[h]
<1>0. /\ Moves(h) /\ h \in Client /\ h \notin Flusher /\ h \notin Reaper
      /\ Sane /\ RequestOK(db, unfound, at[h], pipe[h], local[h])
      /\ local = [c \in Client |-> local[c]] /\ pipe = [c \in Client |-> pipe[c]]
  BY TrackEntryActs, Roles DEF Acts, RegistryInv, Sane, RollBackInv
<1>1. /\ at[h] = "track" /\ at' = at /\ pipe[h] = <<>> /\ pipe'[h] = TrackCommands(e)
      /\ db' = db /\ rolledBack' = rolledBack /\ unfound' = unfound
  BY <1>0 DEF TrackEntry, Ready, Send
<1>2. l.batch = local[h].batch /\ l.next = n + 1 /\ n \in Nat /\ l.next - 1 = n
  <2>1. l = [local[h] EXCEPT !.next = @ + 1] /\ local[h] \in Locals
    BY <1>0, HandlerFacts DEF TrackEntry
  <2>2. n \in Nat
    BY <1>0, HandlerFacts, SMTT(20)
  <2>. QED  BY <2>1, <2>2 DEF Locals
<1>3. \A i \in DOMAIN l.batch : Own(db, l.batch[i])
  BY <1>0, <1>1, <1>2 DEF RequestOK
<1>4. ASSUME NEW i \in DOMAIN l.batch, Standing("track", l, i)
      PROVE  Stored(db, TrackCommands(e), l.batch[i])
  <2>1. i < n + 1 /\ i \in Nat
    BY <1>0, <1>2, <1>4, EntriesAre DEF Standing, Counting
  <2>2. CASE i = n
    BY <1>2, <2>2, TrackCommandsAre DEF Stored
  <2>3. CASE i # n
    <3>1. i < n
      BY <1>2, <2>1, <2>3
    <3>2. Stored(db, <<>>, l.batch[i])
      BY <1>0, <1>1, <1>2, <3>1 DEF RequestOK, Standing
    <3>. QED  BY <3>2, SendsNothing DEF Stored
  <2>. QED  BY <2>2, <2>3
<1>5. PipeOK("track", TrackCommands(e), l)
  <2>1. l.batch[l.next - 1] = e
    BY <1>2
  <2>. QED  BY <2>1, TrackCommandsAre DEF PipeOK
<1>6. RequestOK(db, unfound, "track", TrackCommands(e), l)
  <2>. HIDE DEF e, l
  <2>. QED  BY <1>3, <1>4, <1>5 DEF RequestOK
<1>. QED  BY <1>0, <1>1, <1>2, <1>6, LocalStep

LEMMA EnqueueRollBack ==
  ASSUME RegistryAssumption, RegistryInv, RollBackInv, flushes = 0, NEW h \in Handler, Enqueue(h)
  PROVE  RollBackInv'
<1>. DEFINE l == local'[h]
<1>0. /\ Moves(h) /\ h \in Client /\ h \notin Flusher /\ h \notin Reaper
      /\ Sane /\ RequestOK(db, unfound, at[h], pipe[h], local[h])
      /\ local = [c \in Client |-> local[c]] /\ at = [c \in Client |-> at[c]]
  BY EnqueueActs, Roles DEF Acts, RegistryInv, Sane, RollBackInv
<1>1. /\ at[h] = "track" /\ pipe' = pipe /\ pipe[h] = <<>>
      /\ db' = db /\ rolledBack' = rolledBack /\ unfound' = unfound
  BY DEF Enqueue, Ready
<1>2. CASE Return(h)
  <2>1. at'[h] = "idle" /\ l = NoLocals
    BY <1>0, <1>2 DEF Return, Goto
  <2>. QED  BY <1>0, <1>1, <2>1, IdleOK, LocalStep
<1>3. CASE Goto(h, "untrack") /\ local' = [local EXCEPT ![h].next = 1]
  <2>1. at'[h] = "untrack" /\ l = [local[h] EXCEPT !.next = 1] /\ local[h] \in Locals
    BY <1>0, <1>3, HandlerFacts DEF Goto
  <2>2. l.batch = local[h].batch /\ l.next = 1
    BY <2>1 DEF Locals
  <2>3. \A i \in DOMAIN l.batch : i \in Nat /\ i < local[h].next
    <3>1. local[h].next > Len(local[h].batch)
      BY DEF Enqueue
    <3>2. /\ local[h].batch \in Seq(Entry)
          /\ local[h].next \in 1 .. Len(local[h].batch) + 1
      BY <1>0, HandlerFacts
    <3>. QED  BY <2>2, <3>1, <3>2
  <2>4. \A i \in DOMAIN l.batch : Own(db, l.batch[i]) /\ Stored(db, <<>>, l.batch[i])
    BY <1>0, <1>1, <2>2, <2>3 DEF RequestOK, Standing
  <2>5. RequestOK(db, unfound, "untrack", <<>>, l)
    BY <2>4 DEF RequestOK, PipeOK, Untracking
  <2>. QED  BY <1>0, <1>1, <2>1, <2>5, LocalStep
<1>. QED  BY <1>2, <1>3 DEF Enqueue

LEMMA FindAgentTypeRollBack ==
  ASSUME RegistryAssumption, RegistryInv, RollBackInv, flushes = 0,
         NEW h \in Handler, FindAgentType(h)
  PROVE  RollBackInv'
<1>. DEFINE l == local'[h]
            e == local[h].batch[local[h].next]
<1>0. /\ Moves(h) /\ h \in Client /\ h \notin Flusher /\ h \notin Reaper
      /\ Sane /\ RequestOK(db, unfound, at[h], pipe[h], local[h])
      /\ local = [c \in Client |-> local[c]] /\ at = [c \in Client |-> at[c]]
  BY FindAgentTypeActs, Roles DEF Acts, RegistryInv, Sane, RollBackInv
<1>1. /\ at[h] = "untrack" /\ pipe' = pipe /\ pipe[h] = <<>>
      /\ db' = db /\ rolledBack' = rolledBack /\ unfound' = unfound
      /\ at'[h] = "simulation" /\ local[h].next \in DOMAIN local[h].batch
  <2>1. local[h].next <= Len(local[h].batch)
    BY DEF FindAgentType
  <2>2. local[h].next \in DOMAIN local[h].batch
    <3>1. local[h].batch \in Seq(Entry) /\ local[h].next \in 1 .. Len(local[h].batch) + 1
      BY <1>0, HandlerFacts
    <3>. QED  BY <2>1, <3>1
  <2>. QED  BY <1>0, <2>2 DEF FindAgentType, Ready, Goto
<1>2. l = [local[h] EXCEPT !.type = db[SessionKey(e.session)]] /\ local[h] \in Locals
  BY <1>0, HandlerFacts DEF FindAgentType, Current
<1>3. /\ l.batch = local[h].batch /\ l.next = local[h].next /\ l.type = db[SessionKey(e.session)]
  BY <1>2 DEF Locals
<1>4. Stored(db, <<>>, e)
  <2>1. local[h].next \in Nat
    BY <1>0, <1>1, EntriesAre
  <2>. QED  BY <1>0, <1>1, <2>1 DEF RequestOK, Standing
<1>5. l.type = l.batch[l.next].type
  BY <1>3, <1>4, SendsNothing DEF Stored
<1>6. RequestOK(db, unfound, "simulation", <<>>, l)
  <2>. HIDE DEF l
  <2>1. \A i \in DOMAIN l.batch : i >= l.next => Own(db, l.batch[i]) /\ Stored(db, <<>>, l.batch[i])
    BY <1>0, <1>1, <1>3 DEF RequestOK, Standing
  <2>. QED  BY <1>5, <2>1 DEF RequestOK, PipeOK, Untracking, Standing, Counting
<1>. QED  BY <1>0, <1>1, <1>6, LocalStep

LEMMA SendsJoined ==
  ASSUME NEW S, NEW p \in Seq(S), NEW q \in Seq(S), NEW cmd
  PROVE  Sends(p \o q, cmd) <=> Sends(p, cmd) \/ Sends(q, cmd)
<1>1. Sends(p \o q, cmd) => Sends(p, cmd) \/ Sends(q, cmd)
  BY Joined DEF Sends
<1>2. \A i \in DOMAIN p : i \in DOMAIN (p \o q) /\ (p \o q)[i] = p[i]
  OBVIOUS
<1>3. \A i \in DOMAIN q : Len(p) + i \in DOMAIN (p \o q) /\ (p \o q)[Len(p) + i] = q[i]
  OBVIOUS
<1>. QED  BY <1>1, <1>2, <1>3 DEF Sends

LEMMA SendsListed ==
  ASSUME NEW a, NEW b, NEW cmd
  PROVE  /\ Sends(<<a>>, cmd) <=> cmd = a
         /\ Sends(<<a, b>>, cmd) <=> cmd = a \/ cmd = b
BY DEF Sends

(* What UntrackSession sends: it deletes the session's two keys, and removes it from
   the indexes of its type and its simulation. *)
LEMMA UntrackCommandsAre ==
  ASSUME NEW s \in Session, NEW t \in AgentType, NEW m \in Simulation \cup {Nil}
  PROVE  LET p == UntrackCommands(s, t, m) IN
         /\ Sends(p, Del(SessionKey(s))) /\ Sends(p, Del(SessionSimulation(s)))
         /\ t # Nil => Sends(p, SRem(AgentSessions(t), {s}))
         /\ m # Nil => Sends(p, SRem(SimulationSessions(m), {s}))
         /\ \A i \in DOMAIN p : p[i].key \in StringKeys =>
              p[i].key = SessionKey(s) \/ p[i].key = SessionSimulation(s)
<1>. DEFINE d1 == Del(SessionKey(s))
            d2 == Del(SessionSimulation(s))
            r1 == SRem(AgentSessions(t), {s})
            r2 == SRem(SimulationSessions(m), {s})
            S == {d1, d2, r1, r2}
            x == <<d1, d2>>
            y == IF t = Nil THEN <<>> ELSE <<r1>>
            z == IF m = Nil THEN <<>> ELSE <<r2>>
            p == UntrackCommands(s, t, m)
<1>1. p = (x \o y) \o z
  BY DEF UntrackCommands
<1>2. /\ d1.key = SessionKey(s) /\ d2.key = SessionSimulation(s)
      /\ t # Nil => r1.key \notin StringKeys
      /\ m # Nil => r2.key \notin StringKeys
  BY KeysAre, KeysDiffer DEF Del, SRem
<1>. HIDE DEF d1, d2, r1, r2
<1>3. x \in Seq(S) /\ y \in Seq(S) /\ z \in Seq(S) /\ x \o y \in Seq(S)
  <2>1. <<d1, d2>> \in Seq(S) /\ <<r1>> \in Seq(S) /\ <<r2>> \in Seq(S)
    OBVIOUS
  <2>2. <<>> \in Seq(S)
    OBVIOUS
  <2>3. x \in Seq(S) /\ y \in Seq(S) /\ z \in Seq(S)
    BY <2>1, <2>2
  <2>. HIDE DEF x, y, S
  <2>. QED  BY <2>3
<1>4. ASSUME NEW cmd
      PROVE  /\ Sends(x, cmd) <=> cmd = d1 \/ cmd = d2
             /\ Sends(y, cmd) <=> t # Nil /\ cmd = r1
             /\ Sends(z, cmd) <=> m # Nil /\ cmd = r2
  BY SendsListed, SendsNothing
<1>. HIDE DEF x, y, z, S, p
<1>5. ASSUME NEW cmd
      PROVE  Sends(p, cmd) <=> Sends(x, cmd) \/ Sends(y, cmd) \/ Sends(z, cmd)
  <2>1. Sends(x \o y, cmd) <=> Sends(x, cmd) \/ Sends(y, cmd)
    BY <1>3, SendsJoined
  <2>2. Sends((x \o y) \o z, cmd) <=> Sends(x \o y, cmd) \/ Sends(z, cmd)
    BY <1>3, SendsJoined
  <2>. QED  BY <1>1, <2>1, <2>2
<1>6. /\ Sends(p, d1) /\ Sends(p, d2)
      /\ t # Nil => Sends(p, r1)
      /\ m # Nil => Sends(p, r2)
  BY <1>4, <1>5
<1>7. ASSUME NEW i \in DOMAIN p, p[i].key \in StringKeys
      PROVE  p[i].key = SessionKey(s) \/ p[i].key = SessionSimulation(s)
  <2>1. Sends(p, p[i])
    BY DEF Sends
  <2>. QED  BY <1>2, <1>4, <1>5, <1>7, <2>1
<1>. QED  BY <1>6, <1>7 DEF d1, d2, r1, r2, p

LEMMA FindSimulationRollBack ==
  ASSUME RegistryAssumption, RegistryInv, RollBackInv, flushes = 0,
         NEW h \in Handler, FindSimulation(h)
  PROVE  RollBackInv'
<1>. DEFINE l == local'[h]
            e == local[h].batch[local[h].next]
            s == e.session
            found == db[SessionSimulation(s)]
<1>0. /\ Moves(h) /\ h \in Client /\ h \notin Flusher /\ h \notin Reaper
      /\ Sane /\ RequestOK(db, unfound, at[h], pipe[h], local[h])
      /\ local = [c \in Client |-> local[c]] /\ at = [c \in Client |-> at[c]]
      /\ pipe = [c \in Client |-> pipe[c]]
  BY FindSimulationActs, Roles DEF Acts, RegistryInv, Sane, RollBackInv
<1>1. /\ at[h] = "simulation" /\ pipe[h] = <<>> /\ db' = db /\ rolledBack' = rolledBack
      /\ at'[h] = "count type" /\ local[h].next \in DOMAIN local[h].batch
  BY <1>0, EntriesAre, FindSimulationActs DEF FindSimulation, Ready, Untracking
<1>2. /\ s \in Session /\ e.type \in AgentType /\ local[h].next \in Nat
      /\ e.type # Nil /\ e.sim # Nil => e.sim \in Simulation
      /\ found \in Simulation \cup {Nil} /\ local[h].type = e.type
  <2>1. /\ s \in Session /\ e.type \in AgentType /\ local[h].next \in Nat
        /\ e.sim # Nil => e.sim \in Simulation
    BY <1>0, <1>1, EntriesAre
  <2>2. e.type # Nil
    BY <2>1 DEF RegistryAssumption
  <2>3. local[h].type = e.type
    BY <1>0, <1>1 DEF RequestOK
  <2>4. found \in Simulation \cup {Nil}
    BY <1>0, <2>1, DbTypes DEF Sane
  <2>. QED  BY <2>1, <2>2, <2>3, <2>4
<1>3. PICK sim \in Simulation \cup {Nil} :
        /\ Ready(h, "simulation") /\ Leave(h, sim)
        /\ \/ sim = found /\ unfound' = unfound
           \/ unfound' = unfound \cup {s}
  BY <1>2 DEF FindSimulation, Current
<1>. DEFINE p == UntrackCommands(s, e.type, sim)
<1>4. pipe'[h] = p /\ l.batch = local[h].batch /\ l.next = local[h].next
  <2>1. /\ pipe'[h] = UntrackCommands(Current(h), local[h].type, sim)
        /\ local'[h].batch = local[h].batch /\ local'[h].next = local[h].next
    BY <1>0, <1>3, LeaveActs
  <2>. QED  BY <1>2, <2>1 DEF Current
<1>9. unfound \subseteq unfound'
  BY <1>3
<1>5. Own(db, e) /\ Stored(db, <<>>, e)
  <2>1. local[h].next >= local[h].next
    BY <1>2
  <2>. QED  BY <1>0, <1>1, <2>1 DEF RequestOK, Standing
<1>6. e.sim # Nil => sim = e.sim \/ s \in unfound'
  BY <1>3, <1>5, SendsNothing DEF Stored
<1>7. Leaving(db, unfound', p, s)
  <2>1. ASSUME NEW k \in IndexKeys, s \in db[k] PROVE Sends(p, SRem(k, {s})) \/ Ghost(unfound', k, s)
    <3>1. k = AgentSessions(e.type) \/ (e.sim # Nil /\ k = SimulationSessions(e.sim))
      BY <1>5, <2>1 DEF Own
    <3>2. Sends(p, SRem(AgentSessions(e.type), {s}))
      BY <1>2, UntrackCommandsAre
    <3>3. sim # Nil => Sends(p, SRem(SimulationSessions(sim), {s}))
      BY <1>2, UntrackCommandsAre
    <3>4. e.sim # Nil => SimulationSessions(e.sim) \in SimulationSets
      BY <1>2, KeysAre
    <3>. HIDE DEF p
    <3>. QED  BY <1>6, <3>1, <3>2, <3>3, <3>4 DEF Ghost
  <2>. QED  BY <1>2, <2>1, UntrackCommandsAre DEF Leaving
<1>8. RequestOK(db, unfound', "count type", p, l)
  <2>1. \A i \in DOMAIN l.batch : i >= l.next => Own(db, l.batch[i])
    BY <1>0, <1>1, <1>4 DEF RequestOK
  <2>2. \A i \in DOMAIN l.batch : i > l.next => Stored(db, p, l.batch[i])
    <3>. SUFFICES ASSUME NEW i \in DOMAIN l.batch, i > l.next PROVE Stored(db, p, l.batch[i])
      OBVIOUS
    <3>1. i \in Nat /\ i >= local[h].next
      BY <1>0, <1>2, <1>4, EntriesAre
    <3>2. Stored(db, <<>>, l.batch[i])
      BY <1>0, <1>1, <1>4, <3>1 DEF RequestOK, Standing
    <3>. QED  BY <3>2, SendsNothing DEF Stored
  <2>3. PipeOK("count type", p, l)
    <3>1. \A i \in DOMAIN p : p[i].key \in StringKeys =>
            p[i].key = SessionKey(s) \/ p[i].key = SessionSimulation(s)
      BY <1>2, UntrackCommandsAre
    <3>2. l.batch[l.next].session = s
      BY <1>4
    <3>. HIDE DEF p, l, s
    <3>. QED  BY <3>1, <3>2 DEF PipeOK
  <2>4. Leaving(db, unfound', p, l.batch[l.next].session)
    BY <1>4, <1>7
  <2>. HIDE DEF p, l
  <2>. QED  BY <2>1, <2>2, <2>3, <2>4 DEF RequestOK, Untracking, Standing, Counting
<1>. QED  BY <1>0, <1>1, <1>4, <1>8, <1>9, LocalStep

LEMMA LeftClean ==
  ASSUME NEW d, NEW u, NEW s, Leaving(d, u, <<>>, s)
  PROVE  Gone(d, u, s)
BY SendsNothing DEF Leaving, Gone

LEMMA CountTypeRollBack ==
  ASSUME RegistryAssumption, RegistryInv, RollBackInv, flushes = 0, NEW h \in Handler, CountType(h)
  PROVE  RollBackInv'
<1>. DEFINE l == local[h]
            p == pipe'[h]
<1>0. /\ Moves(h) /\ h \in Client /\ h \notin Flusher /\ h \notin Reaper
      /\ Sane /\ RequestOK(db, unfound, at[h], pipe[h], l)
      /\ at = [c \in Client |-> at[c]] /\ pipe = [c \in Client |-> pipe[c]]
  BY CountTypeActs, Roles DEF Acts, RegistryInv, Sane, RollBackInv
<1>1. /\ at[h] = "count type" /\ pipe[h] = <<>> /\ db' = db /\ rolledBack' = rolledBack /\ unfound' = unfound
      /\ at'[h] = "count simulation" /\ local' = local
  BY <1>0 DEF CountType, Ready, Goto
<1>2. Gone(db, unfound, l.batch[l.next].session)
  BY <1>0, <1>1, LeftClean DEF RequestOK
<1>3. PipeOK("count simulation", p, l)
  <2>1. p = <<SRem(ActiveAgents, {l.type})>> \/ p = <<>>
    BY <1>0 DEF CountType, Send
  <2>2. SRem(ActiveAgents, {l.type}).key \notin StringKeys
    BY KeysAre, KeysDiffer DEF SRem
  <2>3. \A i \in DOMAIN p : p[i].key \notin StringKeys
    BY <2>1, <2>2
  <2>. QED  BY <2>3 DEF PipeOK
<1>4. \A i \in DOMAIN l.batch : i > l.next => Stored(db, p, l.batch[i])
  BY <1>0, <1>1, SendsNothing, ZenonT(40) DEF RequestOK, Standing, Counting, Stored
<1>5. RequestOK(db, unfound, "count simulation", p, l)
  <2>. HIDE DEF p
  <2>. QED  BY <1>0, <1>1, <1>2, <1>3, <1>4 DEF RequestOK, Untracking, Standing, Counting
<1>. QED  BY <1>0, <1>1, <1>5, LocalStep

LEMMA CountSimulationRollBack ==
  ASSUME RegistryAssumption, RegistryInv, RollBackInv, flushes = 0,
         NEW h \in Handler, CountSimulation(h)
  PROVE  RollBackInv'
<1>. DEFINE l == local[h]
            p == pipe'[h]
<1>0. /\ Moves(h) /\ h \in Client /\ h \notin Flusher /\ h \notin Reaper
      /\ Sane /\ RequestOK(db, unfound, at[h], pipe[h], l)
      /\ at = [c \in Client |-> at[c]] /\ pipe = [c \in Client |-> pipe[c]]
  BY CountSimulationActs, Roles DEF Acts, RegistryInv, Sane, RollBackInv
<1>1. /\ at[h] = "count simulation" /\ pipe[h] = <<>> /\ db' = db /\ rolledBack' = rolledBack /\ unfound' = unfound
      /\ at'[h] = "untracked" /\ local' = local
  BY <1>0 DEF CountSimulation, Ready, Goto
<1>2. PipeOK("untracked", p, l)
  <2>1. \/ p = <<>>
        \/ /\ l.sim # Nil
           /\ p = <<Del(SimulationSessions(l.sim)), SRem(ActiveSimulations, {l.sim})>>
    BY <1>0 DEF CountSimulation, Send
  <2>2. l.sim \in Simulation \cup {Nil}
    BY <1>0, HandlerFacts
  <2>3. /\ l.sim # Nil => Del(SimulationSessions(l.sim)).key \notin StringKeys
        /\ SRem(ActiveSimulations, {l.sim}).key \notin StringKeys
    BY <2>2, KeysAre, KeysDiffer DEF SRem, Del
  <2>4. \A i \in DOMAIN p : p[i].key \notin StringKeys
    BY <2>1, <2>3
  <2>. QED  BY <2>4 DEF PipeOK
<1>3. \A i \in DOMAIN l.batch : i > l.next => Stored(db, p, l.batch[i])
  BY <1>0, <1>1, SendsNothing, ZenonT(40) DEF RequestOK, Standing, Counting, Stored
<1>4. RequestOK(db, unfound, "untracked", p, l)
  <2>. HIDE DEF p
  <2>. QED  BY <1>0, <1>1, <1>2, <1>3 DEF RequestOK, Untracking, Standing, Counting
<1>. QED  BY <1>0, <1>1, <1>4, LocalStep

LEMMA UntrackedRollBack ==
  ASSUME RegistryAssumption, RegistryInv, RollBackInv, flushes = 0, NEW h \in Handler, Untracked(h)
  PROVE  RollBackInv'
<1>. DEFINE l == local'[h]
            n == local[h].next
            s == local[h].batch[n].session
<1>0. /\ Moves(h) /\ h \in Client /\ h \notin Flusher /\ h \notin Reaper
      /\ Sane /\ BatchesApart /\ RequestOK(db, unfound, at[h], pipe[h], local[h])
      /\ local = [c \in Client |-> local[c]] /\ at = [c \in Client |-> at[c]]
  BY UntrackedActs, Roles DEF Acts, RegistryInv, Sane, RollBackInv
<1>1. /\ at[h] = "untracked" /\ pipe' = pipe /\ pipe[h] = <<>> /\ db' = db
      /\ rolledBack' = rolledBack \cup {s} /\ unfound' = unfound
      /\ n \in DOMAIN local[h].batch /\ n \in Nat /\ s \in Session
  BY <1>0, EntriesAre DEF Untracked, Ready, Untracking, Current
<1>2. RequestOK(db, unfound, at'[h], <<>>, l) /\ at'[h] # "track"
  <2>1. CASE at'[h] = "idle" /\ l = NoLocals
    BY <2>1, IdleOK
  <2>2. CASE /\ at'[h] = "untrack" /\ l = [local[h] EXCEPT !.next = @ + 1]
    <3>1. l.batch = local[h].batch /\ l.next = n + 1
      BY <1>0, <2>2, HandlerFacts DEF Locals
    <3>2. \A i \in DOMAIN l.batch : i \in Nat
      BY <1>0, <3>1, EntriesAre
    <3>3. \A i \in DOMAIN l.batch : i >= n + 1 => i >= n /\ i > n
      BY <1>1, <3>2
    <3>4. \A i \in DOMAIN l.batch : i >= n + 1 =>
            Own(db, l.batch[i]) /\ Stored(db, <<>>, l.batch[i])
      BY <1>0, <1>1, <3>1, <3>3 DEF RequestOK, Standing, Counting
    <3>. QED  BY <2>2, <3>1, <3>4 DEF RequestOK, PipeOK, Untracking, Standing, Counting
  <2>3. \/ at'[h] = "idle" /\ l = NoLocals
        \/ at'[h] = "untrack" /\ l = [local[h] EXCEPT !.next = @ + 1]
    BY <1>0 DEF Untracked, Return, Goto
  <2>. QED  BY <2>1, <2>2, <2>3
<1>3. \A z : Keeps(z) /\ Shrinks(z)
  BY <1>1, UntouchedDb DEF Keeps
<1>4. ASSUME NEW z, z = s
      PROVE  RolledBack(z)'
  <2>1. Gone(db', unfound', z)
    BY <1>0, <1>1, <1>4 DEF RequestOK
  <2>2. ASSUME NEW g \in Handler, at'[g] = "track", NEW i \in DOMAIN local'[g].batch
        PROVE  local'[g].batch[i].session # z
    <3>1. g # h
      BY <1>2, <2>2
    <3>2. local'[g] = local[g]
      BY <1>0, <3>1, OthersStay, Roles
    <3>3. i \in DOMAIN local[g].batch /\ local[g].batch[i].session # s
      BY <1>0, <1>1, <2>2, <3>1, <3>2, ZenonT(40) DEF BatchesApart
    <3>. QED  BY <1>4, <3>2, <3>3
  <2>. QED  BY <2>1, <2>2 DEF RolledBack
<1>5. \A z \in rolledBack' \ rolledBack : RolledBack(z)'
  <2>. SUFFICES ASSUME NEW z \in rolledBack' \ rolledBack PROVE RolledBack(z)'
    OBVIOUS
  <2>1. z = s
    BY <1>1
  <2>. QED  BY <1>4, <2>1
<1>. QED  BY <1>0, <1>1, <1>2, <1>3, <1>5, RollBackStep

(***************************************************************************)
(* Redis executes the next command.                                        *)
(***************************************************************************)
LEMMA SendsHead ==
  ASSUME NEW S, NEW p \in Seq(S), p # <<>>, NEW cmd, Sends(p, cmd)
  PROVE  cmd = Head(p) \/ Sends(Tail(p), cmd)
<1>1. PICK i \in DOMAIN p : p[i] = cmd
  BY DEF Sends
<1>2. CASE i = 1
  BY <1>1, <1>2
<1>3. CASE i # 1
  <2>1. i - 1 \in DOMAIN Tail(p) /\ Tail(p)[i - 1] = p[i]
    BY <1>3
  <2>. QED  BY <1>1, <2>1 DEF Sends
<1>. QED  BY <1>2, <1>3

(* A command that tracks an entry concerns the entry's session only. *)
LEMMA TrackCommandEffects ==
  ASSUME RegistryAssumption, DbOK(db), NEW e \in Entry, NEW cmd \in CommandsOf(e), Obeys(cmd)
  PROVE  /\ \A s \in Session : s # e.session => Keeps(s)
         /\ Own(db, e) => Own(db', e)
         /\ db'[SessionKey(e.session)] =
              IF cmd = Set(SessionKey(e.session), e.type) THEN e.type ELSE db[SessionKey(e.session)]
         /\ e.sim # Nil => db'[SessionSimulation(e.session)] =
              IF cmd = Set(SessionSimulation(e.session), e.sim) THEN e.sim
              ELSE db[SessionSimulation(e.session)]
<1>1. cmd \in Commands /\ db' = Run(cmd, db)
  BY DEF Obeys
<1>2. \A k \in Key : db'[k] = IF k = cmd.key THEN Result(cmd, db) ELSE db[k]
  BY <1>1, RunsAre
<1>3. e.session \in Session /\ e.type \in AgentType /\ (e.sim # Nil => e.sim \in Simulation)
  BY DEF Entry
<1>4. /\ \A s \in Session : SessionKey(s) \in StringKeys /\ SessionSimulation(s) \in StringKeys
      /\ StringKeys \subseteq Key /\ IndexKeys \subseteq Key
      /\ \A k \in IndexKeys : k \notin StringKeys
  BY KeysAre, KeysDiffer
<1>5. CASE cmd = Set(SessionKey(e.session), e.type)
  <2>1. cmd.key = SessionKey(e.session) /\ Result(cmd, db) = e.type
    BY <1>5 DEF Set, Result
  <2>2. /\ \A s \in Session : s # e.session => cmd.key # SessionKey(s)
        /\ \A s \in Session : cmd.key # SessionSimulation(s)
        /\ \A k \in IndexKeys : cmd.key # k
    BY <1>3, <1>4, <2>1, KeysDiffer
  <2>3. cmd # Set(SessionSimulation(e.session), e.sim)
    BY <1>3, <2>1, KeysDiffer DEF Set
  <2>. QED  BY <1>2, <1>3, <1>4, <1>5, <2>1, <2>2, <2>3 DEF Keeps, Shrinks, Own
<1>6. CASE e.sim # Nil /\ cmd = Set(SessionSimulation(e.session), e.sim)
  <2>1. cmd.key = SessionSimulation(e.session) /\ Result(cmd, db) = e.sim
    BY <1>6 DEF Set, Result
  <2>2. /\ \A s \in Session : s # e.session => cmd.key # SessionSimulation(s)
        /\ \A s \in Session : cmd.key # SessionKey(s)
        /\ \A k \in IndexKeys : cmd.key # k
    BY <1>3, <1>4, <2>1, KeysDiffer, SimulationKeysDiffer
  <2>3. cmd # Set(SessionKey(e.session), e.type)
    BY <1>3, <2>1, KeysDiffer DEF Set
  <2>. QED  BY <1>2, <1>3, <1>4, <1>6, <2>1, <2>2, <2>3 DEF Keeps, Shrinks, Own
<1>7. ASSUME NEW i \in IndexKeys, cmd = SAdd(i, e.session),
             i = AgentSessions(e.type) \/ (e.sim # Nil /\ i = SimulationSessions(e.sim))
      PROVE  /\ \A s \in Session : s # e.session => Keeps(s)
             /\ Own(db, e) => Own(db', e)
             /\ db'[SessionKey(e.session)] = db[SessionKey(e.session)]
             /\ db'[SessionSimulation(e.session)] = db[SessionSimulation(e.session)]
  <2>1. cmd.key = i /\ Result(cmd, db) = db[i] \cup {e.session}
    BY <1>7 DEF SAdd, Result
  <2>2. /\ \A s \in Session : cmd.key # SessionKey(s) /\ cmd.key # SessionSimulation(s)
    BY <1>4, <2>1
  <2>3. \A s \in Session : /\ db'[SessionKey(s)] = db[SessionKey(s)]
                           /\ db'[SessionSimulation(s)] = db[SessionSimulation(s)]
    BY <1>2, <1>4, <2>2
  <2>4. \A k \in IndexKeys : db'[k] = IF k = i THEN db[i] \cup {e.session} ELSE db[k]
    BY <1>2, <1>4, <2>1
  <2>. QED  BY <1>3, <1>7, <2>3, <2>4 DEF Keeps, Shrinks, Own
<1>8. ASSUME cmd.key \in ActiveKeys
      PROVE  /\ \A s \in Session : Keeps(s)
             /\ Own(db, e) => Own(db', e)
  <2>1. \A k \in StringKeys \cup IndexKeys : db'[k] = db[k]
    BY <1>2, <1>4, <1>8, KeysDiffer
  <2>. QED  BY <1>4, <2>1 DEF Keeps, Shrinks, Own
<1>9. \/ cmd = SAdd(AgentSessions(e.type), e.session)
      \/ cmd = SAdd(ActiveAgents, e.type)
      \/ e.sim # Nil /\ cmd = SAdd(SimulationSessions(e.sim), e.session)
      \/ e.sim # Nil /\ cmd = SAdd(ActiveSimulations, e.sim)
      => cmd.op = "SADD" /\ (cmd.key \in IndexKeys \/ cmd.key \in ActiveKeys)
  BY <1>3, KeysAre DEF SAdd
<1>10. cmd.op = "SADD" => /\ cmd # Set(SessionKey(e.session), e.type)
                          /\ cmd # Set(SessionSimulation(e.session), e.sim)
  BY DEF Set
<1>11. CASE cmd = SAdd(AgentSessions(e.type), e.session)
  BY <1>3, <1>7, <1>9, <1>10, <1>11, KeysAre
<1>12. CASE e.sim # Nil /\ cmd = SAdd(SimulationSessions(e.sim), e.session)
  BY <1>3, <1>7, <1>9, <1>10, <1>12, KeysAre
<1>13. CASE \/ cmd = SAdd(ActiveAgents, e.type)
            \/ e.sim # Nil /\ cmd = SAdd(ActiveSimulations, e.sim)
  <2>1. cmd.key \in ActiveKeys
    BY <1>13, KeysAre DEF SAdd
  <2>. QED  BY <1>3, <1>8, <1>9, <1>10, <1>13, <2>1 DEF Keeps
<1>. QED  BY <1>5, <1>6, <1>11, <1>12, <1>13 DEF CommandsOf

LEMMA ExecuteTrackRollBack ==
  ASSUME RegistryAssumption, RegistryInv, RollBackInv, flushes = 0,
         NEW h \in Handler, Execute(h), at[h] = "track"
  PROVE  RollBackInv'
<1>. DEFINE l == local[h]
            p == pipe[h]
            cmd == Head(p)
            e == l.batch[l.next - 1]
<1>0. /\ Moves(h) /\ Obeys(cmd) /\ h \in Client /\ h \notin Flusher /\ h \notin Reaper
      /\ Sane /\ DbOK(db) /\ BatchesApart /\ RequestOK(db, unfound, "track", p, l)
      /\ pipe = [c \in Client |-> pipe[c]]
  BY ExecuteActs, Roles DEF Acts, RegistryInv, Sane, RollBackInv
<1>1. /\ p # <<>> /\ pipe'[h] = Tail(p) /\ at' = at /\ local' = local /\ rolledBack' = rolledBack /\ unfound' = unfound
  BY <1>0 DEF Execute, Send
<1>2. /\ p \in Seq(Commands) /\ TrackPipe(p, l) /\ l.batch \in Seq(Entry)
      /\ l.next \in 1 .. Len(l.batch) + 1
  BY <1>0, HandlerFacts DEF Sane, ClientOK
<1>3. /\ cmd = p[1] /\ 1 \in DOMAIN p
      /\ \A i \in DOMAIN Tail(p) : i + 1 \in DOMAIN p /\ Tail(p)[i] = p[i + 1]
  BY <1>1, <1>2, TailOK
<1>4. l.next > 1 /\ cmd \in CommandsOf(e)
  BY <1>0, <1>2, <1>3 DEF TrackPipe, RequestOK, PipeOK
<1>5. l.next - 1 \in DOMAIN l.batch /\ e \in Entry
  BY <1>2, <1>4
<1>6. e.session \in Session /\ e.type \in AgentType
  BY <1>5 DEF Entry
<1>7. /\ \A s \in Session : s # e.session => Keeps(s)
      /\ Own(db, e) => Own(db', e)
      /\ db'[SessionKey(e.session)] =
           IF cmd = Set(SessionKey(e.session), e.type) THEN e.type ELSE db[SessionKey(e.session)]
      /\ e.sim # Nil => db'[SessionSimulation(e.session)] =
           IF cmd = Set(SessionSimulation(e.session), e.sim) THEN e.sim
           ELSE db[SessionSimulation(e.session)]
  BY <1>0, <1>4, <1>5, TrackCommandEffects
<1>8. \A i \in DOMAIN l.batch : /\ l.batch[i].session \in Session
                                /\ l.batch[i].session = e.session => l.batch[i] = e
  BY <1>0, <1>5, EntriesAre DEF BatchesApart
<1>9. \A z : Sends(p, z) => z = cmd \/ Sends(Tail(p), z)
  BY <1>1, <1>2, SendsHead
<1>17. ASSUME NEW i \in DOMAIN l.batch, l.batch[i].session # e.session
       PROVE  /\ Keeps(l.batch[i].session) /\ Shrinks(l.batch[i].session)
              /\ cmd # Set(SessionKey(l.batch[i].session), l.batch[i].type)
              /\ cmd # Set(SessionSimulation(l.batch[i].session), l.batch[i].sim)
  <2>1. l.batch[i].session \in Session
    BY <1>8
  <2>2. cmd.op = "SET" => cmd.key = SessionKey(e.session) \/ cmd.key = SessionSimulation(e.session)
    BY <1>4, SMTT(20) DEF CommandsOf, Set, SAdd
  <2>. HIDE DEF e, cmd
  <2>3. ASSUME NEW z \in Session, z # e.session, NEW v
        PROVE  Keeps(z) /\ cmd # Set(SessionKey(z), v) /\ cmd # Set(SessionSimulation(z), v)
    BY <1>6, <1>7, <2>2, <2>3, KeysDiffer, SimulationKeysDiffer DEF Set
  <2>. QED  BY <1>17, <2>1, <2>3 DEF Keeps
<1>10. ASSUME NEW i \in DOMAIN l.batch
       PROVE  Own(db', l.batch[i])
  <2>1. Own(db, l.batch[i])
    BY <1>0 DEF RequestOK
  <2>2. CASE l.batch[i].session = e.session
    BY <1>7, <1>8, <2>1, <2>2
  <2>3. CASE l.batch[i].session # e.session
    BY <1>17, <2>1, <2>3, StillOwn
  <2>. QED  BY <2>2, <2>3
<1>11. ASSUME NEW i \in DOMAIN l.batch, Standing("track", l, i)
       PROVE  Stored(db', Tail(p), l.batch[i])
  <2>1. Stored(db, p, l.batch[i])
    BY <1>0, <1>11 DEF RequestOK
  <2>2. CASE l.batch[i].session = e.session
    <3>1. Stored(db, p, e)
      BY <1>8, <2>1, <2>2
    <3>2. Stored(db', Tail(p), e)
      BY <1>7, <1>9, <3>1 DEF Stored
    <3>. QED  BY <1>8, <2>2, <3>2
  <2>3. CASE l.batch[i].session # e.session
    <3>1. Stored(db', p, l.batch[i])
      BY <1>17, <2>1, <2>3, StillStored
    <3>. QED  BY <1>9, <1>17, <2>3, <3>1 DEF Stored
  <2>. QED  BY <2>2, <2>3
<1>12. RequestOK(db', unfound', "track", Tail(p), l)
  <2>1. \A i \in DOMAIN Tail(p) : Tail(p)[i] \in CommandsOf(e)
    BY <1>0, <1>3 DEF RequestOK, PipeOK
  <2>2. PipeOK("track", Tail(p), l)
    BY <2>1 DEF PipeOK
  <2>. HIDE DEF p
  <2>. QED  BY <1>10, <1>11, <2>2 DEF RequestOK
<1>13. \A i \in DOMAIN l.batch : l.batch[i].session \notin rolledBack
  BY DEF RollBackInv, RolledBack
<1>14. ASSUME NEW g \in Handler \ {h}, NEW i \in DOMAIN local[g].batch
       PROVE  Keeps(local[g].batch[i].session)
  <2>1. local[g].batch[i].session # e.session
    BY <1>0, <1>5 DEF BatchesApart
  <2>2. local[g].batch[i].session \in Session
    BY <1>0, EntriesAre
  <2>. QED  BY <1>7, <2>1, <2>2
<1>15. ASSUME NEW s \in rolledBack
       PROVE  Shrinks(s)
  <2>1. s # e.session
    BY <1>5, <1>13
  <2>2. s \in Session
    BY <1>0 DEF Sane
  <2>. QED  BY <1>7, <2>1, <2>2 DEF Keeps
<1>16. \A g \in Handler \ {h} : \A i \in DOMAIN local[g].batch :
         Keeps(local[g].batch[i].session) /\ Shrinks(local[g].batch[i].session)
  BY <1>14 DEF Keeps
<1>. HIDE DEF e, cmd
<1>. QED  BY <1>0, <1>1, <1>12, <1>13, <1>15, <1>16, RollBackStep

(* A pipeline that removes a session goes on to. *)
LEMMA LeavingStep ==
  ASSUME DbOK(db), NEW p \in Seq(Commands), p # <<>>, Obeys(Head(p)),
         Head(p).op \in {"SREM", "DEL"}, NEW s \in Session, Leaving(db, unfound, p, s),
         unfound \subseteq unfound'
  PROVE  Leaving(db', unfound', Tail(p), s)
<1>. DEFINE cmd == Head(p)
<1>1. cmd \in Commands /\ db' = Run(cmd, db)
  BY DEF Obeys
<1>2. \A k \in Key : db'[k] = IF k = cmd.key THEN Result(cmd, db) ELSE db[k]
  BY <1>1, RunsAre
<1>3. Shrinks(s)
  BY Removes
<1>4. \A z : Sends(p, z) => z = cmd \/ Sends(Tail(p), z)
  BY SendsHead
<1>5. /\ SessionKey(s) \in StringKeys /\ SessionSimulation(s) \in StringKeys
      /\ StringKeys \subseteq Key /\ IndexKeys \subseteq Key
  BY KeysAre
<1>6. \A k \in StringKeys : cmd = Del(k) => db'[k] = Nil
  BY <1>2, <1>5 DEF Del, Result, Absent
<1>7. \A k \in IndexKeys : cmd = SRem(k, {s}) => s \notin db'[k]
  BY <1>2, <1>5 DEF SRem, Result
<1>. HIDE DEF cmd
<1>. QED  BY <1>3, <1>4, <1>5, <1>6, <1>7 DEF Shrinks, Leaving, Ghost

LEMMA ExecuteUntrackRollBack ==
  ASSUME RegistryAssumption, RegistryInv, RollBackInv, flushes = 0,
         NEW h \in Handler, Execute(h), at[h] # "track"
  PROVE  RollBackInv'
<1>. DEFINE l == local[h]
            p == pipe[h]
            cmd == Head(p)
            n == l.next
            s == l.batch[n].session
<1>0. /\ Moves(h) /\ Obeys(cmd) /\ h \in Client /\ h \notin Flusher /\ h \notin Reaper
      /\ Sane /\ DbOK(db) /\ BatchesApart /\ RequestOK(db, unfound, at[h], p, l)
      /\ pipe = [c \in Client |-> pipe[c]]
  BY ExecuteActs, Roles DEF Acts, RegistryInv, Sane, RollBackInv
<1>1. /\ p # <<>> /\ pipe'[h] = Tail(p) /\ at' = at /\ local' = local /\ rolledBack' = rolledBack /\ unfound' = unfound
  BY <1>0 DEF Execute, Send
<1>2. p \in Seq(Commands) /\ \A i \in DOMAIN p : p[i].op \in {"SREM", "DEL"}
  BY <1>0 DEF Sane, ClientOK
<1>3. at[h] \in Counting
  <2>1. at[h] # "idle"
    BY <1>0, <1>1 DEF Sane, ClientOK
  <2>2. at[h] \notin {"untrack", "simulation"}
    BY <1>0, <1>1 DEF RequestOK, PipeOK
  <2>. QED  BY <1>0, <2>1, <2>2 DEF RequestOK, Untracking, Counting
<1>4. n \in DOMAIN l.batch /\ n \in Nat /\ s \in Session
  BY <1>0, <1>3, EntriesAre DEF Counting, Untracking
<1>5. /\ cmd = p[1] /\ 1 \in DOMAIN p
      /\ \A i \in DOMAIN Tail(p) : i + 1 \in DOMAIN p /\ Tail(p)[i] = p[i + 1]
  BY <1>1, <1>2, TailOK
<1>6. cmd.op \in {"SREM", "DEL"}
  BY <1>2, <1>5
<1>7. cmd.key \in StringKeys => cmd.key = SessionKey(s) \/ cmd.key = SessionSimulation(s)
  BY <1>0, <1>3, <1>5 DEF RequestOK, PipeOK, Counting
<1>8. ASSUME NEW z \in Session PROVE Shrinks(z) /\ (z # s => Keeps(z))
  <2>1. SessionKey(z) \in StringKeys /\ SessionSimulation(z) \in StringKeys
    BY KeysAre
  <2>2. z # s => cmd.key # SessionKey(z) /\ cmd.key # SessionSimulation(z)
    BY <1>4, <1>7, <2>1, KeysDiffer, SimulationKeysDiffer
  <2>. HIDE DEF s, cmd
  <2>. QED  BY <1>0, <1>6, <2>2, Removes
<1>9. \A i \in DOMAIN l.batch : /\ l.batch[i].session \in Session
                                /\ i > n => l.batch[i].session # s
  BY <1>0, <1>4, EntriesAre DEF BatchesApart
<1>10. RequestOK(db', unfound', at[h], Tail(p), l)
  <2>1. ASSUME NEW i \in DOMAIN l.batch, i >= n PROVE Own(db', l.batch[i])
    <3>1. l.batch[i].session \in Session
      BY <1>9
    <3>3. Own(db, l.batch[i])
      BY <1>0, <2>1 DEF RequestOK
    <3>2. Shrinks(l.batch[i].session)
      BY <1>8, <3>1
    <3>. QED  BY <3>2, <3>3, StillOwn
  <2>2. ASSUME NEW i \in DOMAIN l.batch, i > n PROVE Stored(db', Tail(p), l.batch[i])
    <3>1. Stored(db, p, l.batch[i])
      BY <1>0, <1>3, <2>2 DEF RequestOK, Standing
    <3>2. Keeps(l.batch[i].session)
      <4>1. l.batch[i].session \in Session
        BY <1>9
      <4>2. l.batch[i].session # s
        BY <1>9, <2>2
      <4>. HIDE DEF s
      <4>. QED  BY <1>8, <4>1, <4>2
    <3>3. \A k, v : ~Sends(p, Set(k, v))
      BY <1>2 DEF Sends, Set
    <3>. QED  BY <3>1, <3>2, <3>3 DEF Stored, Keeps
  <2>3. PipeOK(at[h], Tail(p), l)
    <3>1. PipeOK(at[h], p, l) /\ at[h] \in {"count type", "count simulation", "untracked"}
      BY <1>0, <1>3 DEF RequestOK, Counting
    <3>2. CASE at[h] = "count type"
      <4>1. \A i \in DOMAIN p : p[i].key \in StringKeys =>
              p[i].key = SessionKey(s) \/ p[i].key = SessionSimulation(s)
        BY <3>1, <3>2 DEF PipeOK
      <4>2. \A i \in DOMAIN Tail(p) : Tail(p)[i].key \in StringKeys =>
              Tail(p)[i].key = SessionKey(s) \/ Tail(p)[i].key = SessionSimulation(s)
        BY <1>5, <4>1
      <4>. QED  BY <3>2, <4>2 DEF PipeOK
    <3>3. CASE at[h] \in {"count simulation", "untracked"}
      <4>1. \A i \in DOMAIN p : p[i].key \notin StringKeys
        BY <3>1, <3>3 DEF PipeOK
      <4>2. \A i \in DOMAIN Tail(p) : Tail(p)[i].key \notin StringKeys
        BY <1>5, <4>1
      <4>. QED  BY <3>3, <4>2 DEF PipeOK
    <3>. QED  BY <3>1, <3>2, <3>3
  <2>4. at[h] = "count type" => Leaving(db', unfound', Tail(p), s)
    BY <1>0, <1>1, <1>2, <1>4, <1>6, LeavingStep DEF RequestOK
  <2>5. at[h] \in {"count simulation", "untracked"} => Gone(db', unfound', s)
    BY <1>0, <1>1, <1>4, <1>8, StillClean DEF RequestOK
  <2>. HIDE DEF p
  <2>. QED  BY <1>0, <1>3, <2>1, <2>2, <2>3, <2>4, <2>5 DEF RequestOK, Counting, Standing
<1>11. ASSUME NEW g \in Handler \ {h}, NEW i \in DOMAIN local[g].batch
       PROVE  Keeps(local[g].batch[i].session) /\ Shrinks(local[g].batch[i].session)
  <2>1. local[g].batch[i].session # s
    BY <1>0, <1>4 DEF BatchesApart
  <2>2. local[g].batch[i].session \in Session
    BY <1>0, EntriesAre
  <2>. QED  BY <1>8, <2>1, <2>2
<1>12. \A z \in rolledBack : Shrinks(z)
  BY <1>0, <1>8 DEF Sane
<1>13. at'[h] # "track"
  BY <1>1
<1>. HIDE DEF s, cmd
<1>. QED  BY <1>0, <1>1, <1>10, <1>11, <1>12, <1>13, RollBackStep

(* What a request has stored is not what a reaper found stale. *)
LEMMA StoredIsLive ==
  ASSUME RegistryAssumption, RegistryInv, NEW h \in Handler, NEW i \in DOMAIN local[h].batch,
         Stored(db, pipe[h], local[h].batch[i]), NEW r \in Reaper
  PROVE  local[h].batch[i].session \notin local[r].stale
<1>. DEFINE e == local[h].batch[i]
<1>1. /\ Sane /\ FreshUnseen /\ StaleIsDead /\ h \in Client
      /\ e.session \in Session /\ e.type \in AgentType
  BY EntriesAre, Roles DEF RegistryInv
<1>2. CASE db[SessionKey(e.session)] = e.type
  BY <1>1, <1>2 DEF StaleIsDead, RegistryAssumption
<1>3. CASE Sends(pipe[h], Set(SessionKey(e.session), e.type))
  <2>1. PICK j \in DOMAIN pipe[h] : pipe[h][j] = Set(SessionKey(e.session), e.type)
    BY <1>3 DEF Sends
  <2>2. pipe[h][j].op = "SET" /\ pipe[h][j].key = SessionKey(e.session)
    BY <2>1 DEF Set
  <2>3. at[h] = "track" /\ TrackPipe(pipe[h], local[h]) /\ pipe[h] \in Seq(Commands)
    BY <1>1, <2>2 DEF Sane, ClientOK
  <2>4. j = 1
    BY <1>1, <2>2, <2>3 DEF TrackPipe
  <2>5. pipe[h] # <<>> /\ Head(pipe[h]).key = SessionKey(e.session)
    BY <2>2, <2>3, <2>4, TailOK
  <2>6. Fresh(e.session)
    BY <2>3, <2>5 DEF Fresh, Coming
  <2>. QED  BY <1>1, <2>6 DEF FreshUnseen
<1>. QED  BY <1>2, <1>3 DEF Stored

LEMMA ReaperExecuteRollBack ==
  ASSUME RegistryAssumption, RegistryInv, RollBackInv, flushes = 0, NEW r \in Reaper, Execute(r)
  PROVE  RollBackInv'
<1>. DEFINE p == pipe[r]
            cmd == Head(p)
<1>0. /\ Moves(r) /\ Obeys(cmd) /\ r \in Client /\ r \notin Flusher /\ r \notin Handler
      /\ Sane /\ DbOK(db) /\ ReaperPipe(p, local[r]) /\ rolledBack \subseteq Session
      /\ pipe = [c \in Client |-> pipe[c]]
  BY ExecuteActs, Roles DEF Acts, RegistryInv, Sane, RollBackInv
<1>1. /\ p # <<>> /\ pipe'[r] = Tail(p) /\ local' = local /\ rolledBack' = rolledBack /\ unfound' = unfound
  BY <1>0 DEF Execute, Send
<1>2. p \in Seq(Commands) /\ \A i \in DOMAIN p : p[i].op \in {"SREM", "DEL"}
  BY <1>0 DEF Sane, ClientOK
<1>3. /\ cmd = p[1] /\ 1 \in DOMAIN p
      /\ \A i \in DOMAIN Tail(p) : i + 1 \in DOMAIN p /\ Tail(p)[i] = p[i + 1]
  BY <1>1, <1>2, TailOK
<1>4. cmd.op \in {"SREM", "DEL"}
  BY <1>2, <1>3
<1>5. cmd.key \in StringKeys => \E z \in local[r].stale : cmd.key = SessionSimulation(z)
  BY <1>0, <1>3 DEF ReaperPipe
<1>6. local[r].stale \subseteq Session
  BY <1>0, ReaperFacts
<1>7. ASSUME NEW s \in Session
      PROVE  Shrinks(s) /\ (s \notin local[r].stale => Keeps(s))
  <2>1. SessionKey(s) \in StringKeys /\ SessionSimulation(s) \in StringKeys
    BY KeysAre
  <2>2. s \notin local[r].stale => cmd.key # SessionKey(s) /\ cmd.key # SessionSimulation(s)
    BY <1>5, <1>6, <2>1, KeysDiffer, SimulationKeysDiffer
  <2>. HIDE DEF cmd
  <2>. QED  BY <1>0, <1>4, <2>2, Removes
<1>8. ReaperPipe(Tail(p), local[r])
  BY <1>0, <1>3 DEF ReaperPipe
<1>9. ASSUME NEW h \in Handler, NEW i \in DOMAIN local[h].batch
      PROVE  /\ Shrinks(local[h].batch[i].session)
             /\ Stored(db, pipe[h], local[h].batch[i]) => Keeps(local[h].batch[i].session)
  <2>1. local[h].batch[i].session \in Session
    BY <1>0, EntriesAre
  <2>2. Stored(db, pipe[h], local[h].batch[i]) => local[h].batch[i].session \notin local[r].stale
    BY StoredIsLive
  <2>. QED  BY <1>7, <2>1, <2>2
<1>10. \A s \in rolledBack : Shrinks(s)
  BY <1>0, <1>7
<1>. QED  BY <1>0, <1>1, <1>8, <1>9, <1>10, RollBackStep

(* The commands a reaper sends. *)
LEMMA ReaperSends ==
  ASSUME RegistryAssumption, RegistryInv, RollBackInv, flushes = 0, NEW r \in Reaper,
         ReaperNext(r), ~Execute(r)
  PROVE  Moves(r) /\ ReaperPipe(pipe'[r], local'[r]) /\ rolledBack' = rolledBack /\ unfound' = unfound
<1>0. /\ Sane /\ r \in Client /\ ReaperPipe(pipe[r], local[r])
      /\ pipe = [c \in Client |-> pipe[c]] /\ local = [c \in Client |-> local[c]]
      /\ local[r].visit \in IndexKeys \/ at[r] \notin {"card type", "card simulation"}
  BY ReaperFacts, KeysAre DEF RegistryInv, Sane, RollBackInv
<1>1. \A l : ReaperPipe(<<>>, l)
  BY DEF ReaperPipe
<1>2. CASE Reap(r) \/ Visit(r) \/ ReapSimulations(r) \/ Reaped(r) \/ Prune(r)
  <2>1. Moves(r) /\ pipe' = pipe /\ rolledBack' = rolledBack /\ unfound' = unfound
    BY <1>0, <1>2, ReapActs, VisitActs, ReapSimulationsActs, ReapedActs, PruneActs
       DEF Acts, Reap, Visit, ReapSimulations, Reaped, Prune
  <2>2. pipe[r] = <<>>
    <3>1. Ready(r, at[r]) \/ Ready(r, "reap") \/ Ready(r, "sweep") \/ at[r] = "idle"
      BY <1>2 DEF Reap, MayStart, Visit, ReapSimulations, Reaped, Prune
    <3>. QED  BY <1>0, <3>1 DEF Ready, Sane, ClientOK
  <2>. QED  BY <1>1, <2>1, <2>2
<1>3. CASE Check(r)
  <2>1. PICK s \in local[r].ids :
          /\ local' = [local EXCEPT ![r].ids = @ \ {s},
                                    ![r].stale = IF db[SessionKey(s)] = Nil THEN @ \cup {s} ELSE @]
          /\ pipe' = [pipe EXCEPT ![r] =
               IF db[SessionKey(s)] = Nil /\ at[r] = "check simulation"
               THEN <<Del(SessionSimulation(s))>> ELSE <<>>]
    BY <1>3 DEF Check, Send
  <2>4. Moves(r) /\ rolledBack' = rolledBack /\ unfound' = unfound
    <3>1. Acts(r)
      BY <1>0, <1>3, CheckActs
    <3>. QED  BY <1>3, <3>1 DEF Acts, Check
  <2>2. CASE db[SessionKey(s)] = Nil /\ at[r] = "check simulation"
    <3>1. pipe'[r] = <<Del(SessionSimulation(s))>>
      BY <1>0, <2>1, <2>2
    <3>2. s \in local'[r].stale
      <4>1. local'[r] = [local[r] EXCEPT !.ids = @ \ {s}, !.stale = @ \cup {s}]
        BY <1>0, <2>1, <2>2
      <4>2. local[r] \in Locals
        BY <1>0, ReaperFacts
      <4>. QED  BY <4>1, <4>2 DEF Locals
    <3>3. Del(SessionSimulation(s)).key = SessionSimulation(s)
      BY DEF Del
    <3>4. ReaperPipe(pipe'[r], local'[r])
      BY <3>1, <3>2, <3>3 DEF ReaperPipe
    <3>. QED  BY <2>4, <3>4
  <2>3. CASE ~(db[SessionKey(s)] = Nil /\ at[r] = "check simulation")
    <3>1. pipe'[r] = <<>>
      BY <1>0, <2>1, <2>3
    <3>. QED  BY <1>1, <2>4, <3>1
  <2>. QED  BY <2>2, <2>3
<1>4. ASSUME CountReaped(r) \/ CountSwept(r)
      PROVE  ReaperPipe(pipe'[r], local'[r])
  <2>. DEFINE k == local[r].visit
              c1 == SRem(ActiveAgents, {k[2]})
              c2 == SRem(ActiveSimulations, {k[2]})
              c3 == Del(k)
  <2>1. at[r] \in {"card type", "card simulation"}
    BY <1>4 DEF CountReaped, CountSwept, Ready
  <2>2. c1.key \notin StringKeys /\ c2.key \notin StringKeys /\ c3.key \notin StringKeys
    BY <1>0, <2>1, KeysAre, KeysDiffer DEF SRem, Del
  <2>3. pipe'[r] = <<c1, c3>> \/ pipe'[r] = <<c3, c2>> \/ pipe'[r] = <<>>
    BY <1>0, <1>4 DEF CountReaped, CountSwept, Send
  <2>. HIDE DEF c1, c2, c3
  <2>. QED  BY <1>1, <2>2, <2>3 DEF ReaperPipe
<1>5. CASE CountReaped(r)
  BY <1>0, <1>4, <1>5, CountReapedActs DEF Acts, CountReaped
<1>6. CASE CountSwept(r)
  BY <1>0, <1>4, <1>6, CountSweptActs DEF Acts, CountSwept
<1>. QED  BY <1>2, <1>3, <1>5, <1>6 DEF ReaperNext

LEMMA ReaperRollBack ==
  ASSUME RegistryAssumption, RegistryInv, RollBackInv, flushes = 0, NEW r \in Reaper, ReaperNext(r)
  PROVE  RollBackInv'
<1>0. /\ r \in Client /\ r \notin Flusher /\ r \notin Handler /\ Sane /\ DbOK(db)
      /\ rolledBack \subseteq Session
  BY Roles DEF RegistryInv, Sane
<1>1. CASE Execute(r)
  BY <1>1, ReaperExecuteRollBack
<1>2. CASE Prune(r) /\ ~Execute(r)
  <2>1. PICK k \in IndexKeys, ss \in SUBSET Session : db' = Run(SRem(k, ss), db)
    BY <1>0, <1>2, PruneActs
  <2>2. /\ Obeys(SRem(k, ss)) /\ SRem(k, ss).op = "SREM" /\ SRem(k, ss).key \notin StringKeys
    BY <2>1, CommandsAre, KeysDiffer DEF Obeys, SRem
  <2>3. \A s \in Session : Keeps(s) /\ Shrinks(s)
    BY <1>0, <2>2, Removes, KeysAre
  <2>4. \A h \in Handler : \A i \in DOMAIN local[h].batch : local[h].batch[i].session \in Session
    BY <1>0, EntriesAre
  <2>. QED  BY <1>0, <1>2, <2>3, <2>4, ReaperSends, RollBackStep
<1>3. CASE ~Prune(r) /\ ~Execute(r)
  <2>1. db' = db
    BY <1>3 DEF ReaperNext, Reap, Visit, Check, CountReaped, CountSwept, ReapSimulations, Reaped
  <2>. QED  BY <1>0, <1>3, <2>1, ReaperSends, LocalStep
<1>. QED  BY <1>1, <1>2, <1>3

LEMMA HandlerRollBack ==
  ASSUME RegistryAssumption, RegistryInv, RollBackInv, flushes = 0,
         NEW h \in Handler, HandlerNext(h) \/ BatchTrackSessions(h)
  PROVE  RollBackInv'
BY BatchTrackSessionsRollBack, TrackEntryRollBack, EnqueueRollBack, FindAgentTypeRollBack,
   FindSimulationRollBack, CountTypeRollBack, CountSimulationRollBack, UntrackedRollBack,
   ExecuteTrackRollBack, ExecuteUntrackRollBack DEF HandlerNext

LEMMA CancelRollBack ==
  ASSUME RegistryAssumption, RegistryInv, RollBackInv, flushes = 0, NEW c \in Client, Cancel(c)
  PROVE  RollBackInv'
<1>1. Sane /\ Moves(c) /\ db' = db /\ rolledBack' = rolledBack /\ unfound' = unfound
  BY CancelActs DEF Acts, Cancel, RegistryInv
<1>2. at'[c] = "idle" /\ pipe'[c] = <<>> /\ local'[c] = NoLocals
  BY <1>1 DEF Cancel, Return, Goto, Send, Sane
<1>3. ReaperPipe(<<>>, NoLocals)
  BY DEF ReaperPipe
<1>. QED  BY <1>1, <1>2, <1>3, IdleOK, LocalStep

(* A key that expires is in no request's hands. *)
LEMMA ExpiryRollBack ==
  ASSUME RegistryAssumption, RegistryInv, RollBackInv, flushes = 0, NEW k \in Key,
         db' = Run(Del(k), db), UNCHANGED <<at, pipe, local, used, rolledBack, unfound, flushes, errors>>,
         \A h \in Handler : \A i \in DOMAIN local[h].batch :
           /\ k # SessionKey(local[h].batch[i].session)
           /\ k # SessionSimulation(local[h].batch[i].session)
  PROVE  RollBackInv'
<1>0. Sane /\ DbOK(db) /\ rolledBack \subseteq Session
  BY DEF RegistryInv, Sane
<1>1. Obeys(Del(k)) /\ Del(k).op = "DEL" /\ Del(k).key = k
  BY CommandsAre DEF Obeys, Del
<1>2. \A s \in Session : Shrinks(s) /\ (k # SessionKey(s) /\ k # SessionSimulation(s) => Keeps(s))
  BY <1>0, <1>1, Removes
<1>3. ASSUME NEW h \in Handler
      PROVE  RequestOK(db', unfound', at[h], pipe[h], local[h])
  <2>1. \A i \in DOMAIN local[h].batch :
          Shrinks(local[h].batch[i].session) /\ Keeps(local[h].batch[i].session)
    BY <1>0, <1>2, EntriesAre
  <2>2. at[h] \in Untracking => local[h].next \in DOMAIN local[h].batch
    BY <1>0, EntriesAre
  <2>. QED  BY <2>1, <2>2, RequestUndisturbed DEF RollBackInv
<1>4. ASSUME NEW s \in rolledBack
      PROVE  RolledBack(s)'
  <2>1. Gone(db', unfound', s)
    BY <1>0, <1>2, StillClean DEF RollBackInv, RolledBack
  <2>. QED  BY <2>1 DEF RollBackInv, RolledBack
<1>. QED  BY <1>3, <1>4 DEF RollBackInv

LEMMA RollBackInvStep ==
  ASSUME RegistryAssumption, RegistryInv, RollBackInv, [Next]_vars
  PROVE  RollBackInv'
<1>. SUFFICES ASSUME flushes' = 0 PROVE RollBackInv'
  BY DEF RollBackInv
<1>0. flushes = 0
  <2>1. flushes \in Nat
    BY DEF RegistryInv, Sane
  <2>2. flushes' = flushes \/ flushes' = flushes + 1
    BY DEF Next, vars, HandlerNext, Execute, BatchTrackSessions, TrackEntry, Enqueue, FindAgentType,
           FindSimulation, CountType, CountSimulation, Untracked, FlusherNext, Delete, Flush,
           FlushActiveAgents, ScanSimulations, FlushActiveSimulations, ScanSessions, Flushed,
           ReaperNext, Reap, Visit, Check, Prune, CountReaped, CountSwept, ReapSimulations, Reaped,
           Cancel, Expire, ExpireSimulation
  <2>. QED  BY <2>1, <2>2
<1>1. ASSUME NEW h \in Handler, HandlerNext(h) \/ BatchTrackSessions(h) PROVE RollBackInv'
  BY <1>0, <1>1, HandlerRollBack
<1>2. ASSUME NEW f \in Flusher, FlusherNext(f) \/ Flush(f) PROVE FALSE
  <2>1. at[f] = "idle"
    BY <1>0 DEF RollBackInv
  <2>2. ~Flush(f)
    BY <1>0 DEF Flush
  <2>. QED
    BY <1>2, <2>1, <2>2 DEF FlusherNext, Delete, FlushActiveAgents, ScanSimulations,
       FlushActiveSimulations, ScanSessions, Flushed
<1>3. ASSUME NEW r \in Reaper, ReaperNext(r) PROVE RollBackInv'
  BY <1>0, <1>3, ReaperRollBack
<1>4. ASSUME NEW c \in Client, Cancel(c) PROVE RollBackInv'
  BY <1>0, <1>4, CancelRollBack
<1>5. ASSUME NEW k \in StringKeys, Expire(k) PROVE RollBackInv'
  <2>1. k \in Key
    BY DEF Key
  <2>2. ASSUME NEW h \in Handler, NEW i \in DOMAIN local[h].batch
        PROVE  /\ k # SessionKey(local[h].batch[i].session)
               /\ k # SessionSimulation(local[h].batch[i].session)
    <3>1. local[h].batch[i].session # k[2]
      BY <1>5 DEF Expire, InHand
    <3>. QED  BY <3>1 DEF SessionKey, SessionSimulation
  <2>. QED  BY <1>0, <1>5, <2>1, <2>2, ExpiryRollBack DEF Expire
<1>6. ASSUME NEW m \in Simulation, ExpireSimulation(m) PROVE RollBackInv'
  <2>. DEFINE k == SimulationSessions(m)
  <2>1. k \in Key /\ k \notin StringKeys
    BY KeysAre, KeysDiffer
  <2>2. ASSUME NEW h \in Handler, NEW i \in DOMAIN local[h].batch
        PROVE  /\ k # SessionKey(local[h].batch[i].session)
               /\ k # SessionSimulation(local[h].batch[i].session)
    <3>1. local[h].batch[i].session \in Session
      BY EntriesAre DEF RegistryInv
    <3>. QED  BY <2>1, <3>1, KeysAre
  <2>3. db' = Run(Del(k), db) /\ UNCHANGED <<at, pipe, local, used, rolledBack, unfound, flushes, errors>>
    BY <1>6 DEF ExpireSimulation
  <2>. HIDE DEF k
  <2>. QED  BY <1>0, <2>1, <2>2, <2>3, ExpiryRollBack
<1>7. CASE UNCHANGED vars
  <2>1. /\ db' = db /\ at' = at /\ pipe' = pipe /\ local' = local /\ used' = used
        /\ rolledBack' = rolledBack /\ unfound' = unfound /\ flushes' = flushes /\ errors' = errors
    BY <1>7 DEF vars
  <2>2. \A s \in rolledBack : RolledBack(s)'
    BY <1>0, <2>1 DEF RollBackInv, RolledBack
  <2>. QED  BY <1>0, <2>1, <2>2 DEF RollBackInv
<1>. QED  BY <1>1, <1>2, <1>3, <1>4, <1>5, <1>6, <1>7 DEF Next

LEMMA RollBackInvInit == Init => RollBackInv
<1>. SUFFICES ASSUME Init PROVE RollBackInv
  OBVIOUS
<1>1. \A c \in Client : at[c] = "idle" /\ pipe[c] = <<>> /\ local[c] = NoLocals
  BY DEF Init
<1>2. \A h \in Handler : RequestOK(db, unfound, at[h], pipe[h], local[h])
  BY <1>1, IdleOK DEF Client
<1>3. \A r \in Reaper : ReaperPipe(pipe[r], local[r])
  BY <1>1 DEF Client, ReaperPipe
<1>4. \A f \in Flusher : at[f] = "idle"
  BY <1>1 DEF Client
<1>. QED  BY <1>2, <1>3, <1>4 DEF RollBackInv, Init

(* A spawn that was rolled back to its end leaves no ghost: no key and no index names
   any of its sessions, whatever other requests, the reapers and expiry did between
   its commands; but the set of a simulation that UntrackSession failed to look up. *)
THEOREM RolledBackClean == Spec => []RollbackComplete
<1>1. RegistryAssumption
  BY RegistryAssumption
<1>2. Init => RollBackInv
  BY RollBackInvInit
<1>3. RegistryInv /\ RollBackInv /\ [Next]_vars => RollBackInv'
  BY <1>1, RollBackInvStep
<1>4. RollBackInv => RollbackComplete
  <2>. SUFFICES ASSUME RollBackInv, flushes = 0, NEW s \in rolledBack
                PROVE  /\ db[SessionKey(s)] = Nil /\ db[SessionSimulation(s)] = Nil
                       /\ \A t \in AgentType : s \notin db[AgentSessions(t)]
                       /\ s \notin unfound =>
                            \A m \in Simulation : s \notin db[SimulationSessions(m)]
    BY DEF RollbackComplete
  <2>1. Gone(db, unfound, s)
    BY DEF RollBackInv, RolledBack
  <2>2. \A t \in AgentType : AgentSessions(t) \in IndexKeys /\ AgentSessions(t) \notin SimulationSets
    BY KeysAre DEF AgentSessions, SimulationSets
  <2>3. \A m \in Simulation : SimulationSessions(m) \in IndexKeys
    BY KeysAre
  <2>. QED  BY <2>1, <2>2, <2>3 DEF Gone, Ghost
<1>. QED  BY <1>2, <1>3, <1>4, RegistryInvariant, PTL DEF Spec

(***************************************************************************)
(* One client at a time: the registry does what the in-memory service      *)
(* does. The invariant says what the client at work has done so far of its *)
(* operation, and what the rest of its pipeline will do.                   *)
(***************************************************************************)
FlushPhases == {"flush types", "scan simulations", "flush simulations", "scan sessions",
                "flush sessions"}

(* The sets a session is in are those its keys name, and a session with a simulation
   has a type. *)
Agrees(d, s) ==
  /\ \A t \in AgentType : s \in d[AgentSessions(t)] <=> d[SessionKey(s)] = t
  /\ \A m \in Simulation : s \in d[SimulationSessions(m)] <=> d[SessionSimulation(s)] = m
  /\ d[SessionSimulation(s)] # Nil => d[SessionKey(s)] # Nil

(* Exact lists, but perhaps for a type and a simulation that stayed on them. *)
ListedBut(d, type, sim) ==
  /\ \A t \in AgentType : /\ d[AgentSessions(t)] # {} => t \in d[ActiveAgents]
                          /\ t \in d[ActiveAgents] => d[AgentSessions(t)] # {} \/ t = type
  /\ \A m \in Simulation :
       /\ d[SimulationSessions(m)] # {} => m \in d[ActiveSimulations]
       /\ m \in d[ActiveSimulations] => d[SimulationSessions(m)] # {} \/ m = sim

Listed(d) == ListedBut(d, Nil, Nil)

(* What a handler at a, with locals l, finds in a database d in which its pipeline
   is done. *)
Found(a, l, d) ==
  /\ a = "track" =>
       /\ Listed(d)
       /\ \A i \in DOMAIN l.batch :
            IF i < l.next
            THEN /\ Agrees(d, l.batch[i].session)
                 /\ d[SessionKey(l.batch[i].session)] = l.batch[i].type
                 /\ d[SessionSimulation(l.batch[i].session)] = l.batch[i].sim
            ELSE Clean(d, l.batch[i].session)
  /\ a \in {"untrack", "simulation"} => Listed(d)
  /\ a = "simulation" => /\ Agrees(d, l.batch[l.next].session)
                         /\ d[SessionKey(l.batch[l.next].session)] = l.type
  /\ a \in Counting => Clean(d, l.batch[l.next].session)
  /\ a = "count type" => ListedBut(d, l.type, l.sim)
  /\ a = "count simulation" => ListedBut(d, Nil, l.sim)
  /\ a = "untracked" => Listed(d)

(* The sessions the service does not show while a client is at a with locals l. *)
Veiled(a, l) ==
  IF a = "track" THEN {l.batch[i].session : i \in DOMAIN l.batch}
  ELSE IF a \in Untracking THEN {l.batch[l.next].session}
  ELSE IF a \in FlushPhases THEN Session
  ELSE {}

(* Two databases say the same of a session. *)
Alike(d, e, s) ==
  /\ e[SessionKey(s)] = d[SessionKey(s)] /\ e[SessionSimulation(s)] = d[SessionSimulation(s)]
  /\ \A k \in IndexKeys : s \in e[k] <=> s \in d[k]

(* f is how the pipeline p changes d, command by command. *)
Unfolds(d, p, f) ==
  /\ f[0] = d
  /\ \A i \in 1 .. Len(p) : f[i] = Run(p[i], f[i - 1])

(* All a pipeline does on its way concerns the sessions its client hides; done, it
   leaves what the client counts on. *)
Settles(d, p, a, l) ==
  \E f :
    /\ Unfolds(d, p, f)
    /\ Found(a, l, f[Len(p)])
    /\ \A i \in 1 .. Len(p), z \in Session \ Veiled(a, l) : Alike(f[i - 1], f[i], z)

(* Of these keys, only those still to be deleted hold anything. *)
Left(d, keys, todo) == \A k \in keys : d[k] # Absent(k) => k \in todo

(* A client at work. *)
HandlerAlone(d, a, p, l) ==
  /\ a \in {"track", "untrack"} \cup Untracking
  /\ a \in {"untrack", "simulation"} => p = <<>>
  /\ Settles(d, p, a, l)

FlusherAlone(d, a, l) ==
  /\ a \in FlushPhases
  /\ a = "flush types" => Left(d, TypeSets, l.todo)
  /\ a \in {"scan simulations", "flush simulations"} => Left(d, TypeSets \cup {ActiveAgents}, {})
  /\ a = "flush simulations" => Left(d, SimulationSets, l.todo)
  /\ a \in {"scan sessions", "flush sessions"} => Left(d, IndexKeys \cup ActiveKeys, {})
  /\ a = "flush sessions" => Left(d, StringKeys, l.todo)

ReaperAlone(d, a, p, l) ==
  /\ a \in Visiting \cup Sweeping /\ p = <<>> /\ l.stale = {} /\ Listed(d)
  /\ a \in {"check type", "check simulation", "card type", "card simulation"} => d[l.visit] # {}
  /\ a \in {"check type", "check simulation"} => l.ids \subseteq d[l.visit]
  /\ a \in Sweeping => \A k \in l.todo : d[k] # {}

WorksAlone(c, d, a, p, l) ==
  a # "idle" =>
    /\ c \in Handler => HandlerAlone(d, a, p, l)
    /\ c \in Flusher => FlusherAlone(d, a, l)
    /\ c \in Reaper => ReaperAlone(d, a, p, l)

OneAtWork == \A c, d \in Client : at[c] # "idle" /\ at[d] # "idle" => c = d

AloneInv ==
  /\ OneAtWork
  /\ \A s \in Session : ~Hidden(s) => Agrees(db, s)
  /\ (\A c \in Client : at[c] = "idle") => Listed(db)
  /\ \A c \in Client : WorksAlone(c, db, at[c], pipe[c], local[c])

(***************************************************************************)
(* What the commands make of a database.                                   *)
(***************************************************************************)
LEMMA KeysApart ==
  ASSUME NEW s \in Session, NEW z \in Session, NEW t \in AgentType, NEW m \in Simulation
  PROVE  /\ SessionKey(s) # SessionSimulation(z)
         /\ SessionKey(s) = SessionKey(z) => s = z
         /\ SessionSimulation(s) = SessionSimulation(z) => s = z
         /\ SessionKey(s) \notin IndexKeys \cup ActiveKeys
         /\ SessionSimulation(s) \notin IndexKeys \cup ActiveKeys
         /\ AgentSessions(t) \in IndexKeys /\ SimulationSessions(m) \in IndexKeys
         /\ AgentSessions(t) # SimulationSessions(m)
         /\ AgentSessions(t) \notin ActiveKeys /\ SimulationSessions(m) \notin ActiveKeys
         /\ AgentSessions(t) \notin SimulationSets /\ SimulationSessions(m) \notin TypeSets
         /\ ActiveAgents # ActiveSimulations
         /\ ActiveAgents \notin IndexKeys /\ ActiveSimulations \notin IndexKeys
         /\ ActiveAgents \in ActiveKeys /\ ActiveSimulations \in ActiveKeys
BY DEF SessionKey, SessionSimulation, AgentSessions, SimulationSessions, IndexKeys, ActiveKeys,
       ActiveAgents, ActiveSimulations, TypeSets, SimulationSets

LEMMA OwnersApart ==
  /\ \A t, u \in AgentType : AgentSessions(t) = AgentSessions(u) => t = u
  /\ \A m, n \in Simulation : SimulationSessions(m) = SimulationSessions(n) => m = n
  /\ \A k \in TypeSets : \E t \in AgentType : k = AgentSessions(t) /\ k[2] = t
  /\ \A k \in SimulationSets : \E m \in Simulation : k = SimulationSessions(m) /\ k[2] = m
BY DEF AgentSessions, SimulationSessions, TypeSets, SimulationSets

(* The kinds of what the keys hold. *)
LEMMA Holds ==
  ASSUME NEW d, DbOK(d)
  PROVE  /\ \A s \in Session : /\ d[SessionKey(s)] \in AgentType \cup {Nil}
                               /\ d[SessionSimulation(s)] \in Simulation \cup {Nil}
         /\ \A k \in IndexKeys : d[k] \subseteq Session
         /\ d[ActiveAgents] \subseteq AgentType /\ d[ActiveSimulations] \subseteq Simulation
<1>1. \A k \in Key : d[k] \in Kind(k)
  BY DEF DbOK
<1>2. \A k \in IndexKeys : d[k] \subseteq Session
  BY <1>1, KeysAre, KindsAre
<1>3. d[ActiveAgents] \subseteq AgentType /\ d[ActiveSimulations] \subseteq Simulation
  BY <1>1, KeysAre, KindsAre, KeysDiffer DEF Owners
<1>. QED  BY <1>1, <1>2, <1>3, KeysAre, KindsAre

(* Each kind of command changes its key and no other. *)
LEMMA SetEffect ==
  ASSUME NEW d, DbOK(d), NEW k, NEW v, Set(k, v) \in Commands
  PROVE  \A j \in Key : Run(Set(k, v), d)[j] = IF j = k THEN v ELSE d[j]
<1>1. Set(k, v).key = k /\ Result(Set(k, v), d) = v
  BY DEF Set, Result
<1>. QED  BY <1>1, RunsAre

LEMMA SAddEffect ==
  ASSUME NEW d, DbOK(d), NEW k, NEW v, SAdd(k, v) \in Commands
  PROVE  \A j \in Key : Run(SAdd(k, v), d)[j] = IF j = k THEN d[j] \cup {v} ELSE d[j]
<1>1. SAdd(k, v).key = k /\ Result(SAdd(k, v), d) = d[k] \cup {v}
  BY DEF SAdd, Result
<1>. QED  BY <1>1, RunsAre

LEMMA SRemEffect ==
  ASSUME NEW d, DbOK(d), NEW k, NEW vs, SRem(k, vs) \in Commands
  PROVE  \A j \in Key : Run(SRem(k, vs), d)[j] = IF j = k THEN d[j] \ vs ELSE d[j]
<1>1. SRem(k, vs).key = k /\ Result(SRem(k, vs), d) = d[k] \ vs
  BY DEF SRem, Result
<1>. QED  BY <1>1, RunsAre

LEMMA DelEffect ==
  ASSUME NEW d, DbOK(d), NEW k, Del(k) \in Commands
  PROVE  \A j \in Key : Run(Del(k), d)[j] = IF j = k THEN Absent(j) ELSE d[j]
<1>1. Del(k).key = k /\ Result(Del(k), d) = Absent(k)
  BY DEF Del, Result
<1>. QED  BY <1>1, RunsAre

(* Two databases that agree on a session's own keys, and of which the indexes differ
   in other sessions only. *)
LEMMA SpareOther ==
  ASSUME NEW d, DbOK(d), NEW cmd \in Commands, NEW z \in Session,
         cmd.key # SessionKey(z), cmd.key # SessionSimulation(z),
         cmd.key \in IndexKeys => \/ cmd.op \in {"SADD", "SREM"} /\ z \notin cmd.arg
                                  \/ cmd.op = "DEL" /\ z \notin d[cmd.key]
  PROVE  Alike(d, Run(cmd, d), z)
<1>1. \A k \in Key : Run(cmd, d)[k] = IF k = cmd.key THEN Result(cmd, d) ELSE d[k]
  BY RunsAre
<1>2. ASSUME NEW k \in IndexKeys, k = cmd.key
      PROVE  z \in Result(cmd, d) <=> z \in d[k]
  <2>1. Absent(k) = {}
    BY KeysDiffer DEF Absent
  <2>. QED  BY <1>2, <2>1 DEF Result
<1>. QED  BY <1>1, <1>2, KeysAre DEF Alike

(* What is so of one of two databases that say the same of a session is so of the other. *)
LEMMA AgreesAlike ==
  ASSUME NEW d, NEW e, NEW s \in Session, Alike(d, e, s), Agrees(d, s)
  PROVE  Agrees(e, s)
BY KeysAre DEF Alike, Agrees

LEMMA CleanAgrees ==
  ASSUME RegistryAssumption, NEW d, NEW s \in Session, Clean(d, s)
  PROVE  Agrees(d, s)
BY KeysAre DEF Clean, Agrees, RegistryAssumption

(* A session that no index names and of which Redis is consistent is in no key. *)
LEMMA UnseenClean ==
  ASSUME RegistryAssumption, NEW d, DbOK(d), NEW s \in Session, Agrees(d, s),
         \A k \in IndexKeys : s \notin d[k]
  PROVE  Clean(d, s)
BY Holds, KeysAre DEF Clean, Agrees

(* Pipelines, done command by command. *)
LEMMA SettlesNow ==
  ASSUME NEW d, NEW a, NEW l
  PROVE  Settles(d, <<>>, a, l) <=> Found(a, l, d)
<1>1. ASSUME Settles(d, <<>>, a, l) PROVE Found(a, l, d)
  BY <1>1 DEF Settles, Unfolds
<1>2. ASSUME Found(a, l, d) PROVE Settles(d, <<>>, a, l)
  <2>1. Unfolds(d, <<>>, [i \in {0} |-> d])
    BY DEF Unfolds
  <2>2. Found(a, l, [i \in {0} |-> d][Len(<<>>)])
    BY <1>2
  <2>. QED  BY <2>1, <2>2 DEF Settles
<1>. QED  BY <1>1, <1>2

(* Redis executes a command: the rest settles as before. *)
LEMMA SettlesOn ==
  ASSUME NEW d, NEW p \in Seq(Commands), p # <<>>, NEW a, NEW l, Settles(d, p, a, l)
  PROVE  /\ Settles(Run(Head(p), d), Tail(p), a, l)
         /\ \A z \in Session \ Veiled(a, l) : Alike(d, Run(Head(p), d), z)
<1>. DEFINE q == Tail(p)
<1>1. /\ Len(p) \in Nat \ {0} /\ Len(q) = Len(p) - 1 /\ p[1] = Head(p)
      /\ \A i \in 1 .. Len(q) : q[i] = p[i + 1] /\ i + 1 \in 1 .. Len(p) /\ (i + 1) - 1 = i
                                /\ i \in 0 .. Len(q) /\ i - 1 \in 0 .. Len(q) /\ (i - 1) + 1 = i
  OBVIOUS
<1>2. PICK f : /\ Unfolds(d, p, f) /\ Found(a, l, f[Len(p)])
               /\ \A i \in 1 .. Len(p), z \in Session \ Veiled(a, l) : Alike(f[i - 1], f[i], z)
  BY DEF Settles
<1>. DEFINE g == [i \in 0 .. Len(q) |-> f[i + 1]]
<1>3. f[0] = d /\ f[1] = Run(Head(p), d)
  BY <1>1, <1>2 DEF Unfolds
<1>4. g[0] = f[1] /\ g[Len(q)] = f[Len(p)]
  BY <1>1
<1>5. \A i \in 1 .. Len(q) : g[i] = f[i + 1] /\ g[i - 1] = f[i]
  BY <1>1
<1>. HIDE DEF g, q
<1>6. Unfolds(Run(Head(p), d), q, g)
  <2>1. ASSUME NEW i \in 1 .. Len(q) PROVE g[i] = Run(q[i], g[i - 1])
    <3>1. f[i + 1] = Run(p[i + 1], f[(i + 1) - 1])
      BY <1>1, <1>2 DEF Unfolds
    <3>. QED  BY <1>1, <1>5, <3>1
  <2>. QED  BY <1>3, <1>4, <2>1 DEF Unfolds
<1>7. \A i \in 1 .. Len(q), z \in Session \ Veiled(a, l) : Alike(g[i - 1], g[i], z)
  BY <1>1, <1>2, <1>5
<1>8. Settles(Run(Head(p), d), q, a, l)
  BY <1>2, <1>4, <1>6, <1>7 DEF Settles
<1>9. \A z \in Session \ Veiled(a, l) : Alike(d, Run(Head(p), d), z)
  <2>1. 1 \in 1 .. Len(p) /\ 1 - 1 = 0
    BY <1>1
  <2>. QED  BY <1>2, <1>3, <2>1
<1>. QED  BY <1>8, <1>9 DEF q

(* A command before a pipeline that settles. *)
LEMMA SettlesBefore ==
  ASSUME NEW d, NEW c, NEW p \in Seq(Commands), NEW q, q = <<c>> \o p, NEW a, NEW l,
         Settles(Run(c, d), p, a, l),
         \A z \in Session \ Veiled(a, l) : Alike(d, Run(c, d), z)
  PROVE  Settles(d, q, a, l)
<1>1. /\ Len(p) \in Nat /\ Len(q) = Len(p) + 1 /\ q[1] = c
      /\ \A i \in 1 .. Len(q) : /\ i # 1 => /\ q[i] = p[i - 1] /\ i - 1 \in 1 .. Len(p)
                                            /\ (i - 1) - 1 = i - 2
                                /\ i \in 0 .. Len(q) /\ i - 1 \in 0 .. Len(q)
      /\ Len(q) \in 0 .. Len(q) /\ Len(q) # 0 /\ Len(q) - 1 = Len(p) /\ 0 \in 0 .. Len(q)
  OBVIOUS
<1>2. PICK f : /\ Unfolds(Run(c, d), p, f) /\ Found(a, l, f[Len(p)])
               /\ \A i \in 1 .. Len(p), z \in Session \ Veiled(a, l) : Alike(f[i - 1], f[i], z)
  BY DEF Settles
<1>. DEFINE g == [i \in 0 .. Len(q) |-> IF i = 0 THEN d ELSE f[i - 1]]
<1>3. g[0] = d /\ g[1] = Run(c, d) /\ g[Len(q)] = f[Len(p)]
  BY <1>1, <1>2 DEF Unfolds
<1>4. \A i \in 1 .. Len(q) : i # 1 => g[i] = f[i - 1] /\ g[i - 1] = f[(i - 1) - 1]
  BY <1>1
<1>. HIDE DEF g
<1>5. ASSUME NEW i \in 1 .. Len(q) PROVE g[i] = Run(q[i], g[i - 1])
  <2>1. CASE i = 1
    BY <1>1, <1>3, <2>1
  <2>2. CASE i # 1
    <3>1. f[i - 1] = Run(p[i - 1], f[(i - 1) - 1])
      BY <1>1, <1>2, <2>2 DEF Unfolds
    <3>. QED  BY <1>1, <1>4, <2>2, <3>1
  <2>. QED  BY <2>1, <2>2
<1>6. ASSUME NEW i \in 1 .. Len(q), NEW z \in Session \ Veiled(a, l) PROVE Alike(g[i - 1], g[i], z)
  <2>1. CASE i = 1
    BY <1>3, <2>1
  <2>2. CASE i # 1
    <3>1. Alike(f[(i - 1) - 1], f[i - 1], z)
      BY <1>1, <1>2, <2>2
    <3>. QED  BY <1>4, <2>2, <3>1
  <2>. QED  BY <2>1, <2>2
<1>7. Unfolds(d, q, g)
  BY <1>3, <1>5 DEF Unfolds
<1>. QED  BY <1>2, <1>3, <1>6, <1>7 DEF Settles

(* Sequences. *)
LEMMA PairJoined ==
  ASSUME NEW S, NEW a \in S, NEW b \in S
  PROVE  <<a>> \in Seq(S) /\ <<b>> \in Seq(S) /\ <<a, b>> = <<a>> \o <<b>>
<1>1. <<a>> \in Seq(S) /\ <<b>> \in Seq(S) /\ <<a, b>> \in Seq(S)
  OBVIOUS
<1>2. <<a>> \o <<b>> \in Seq(S) /\ Len(<<a>> \o <<b>>) = 2
  BY <1>1
<1>3. \A i \in 1 .. 2 : <<a, b>>[i] = (<<a>> \o <<b>>)[i]
  OBVIOUS
<1>4. Len(<<a, b>>) = 2
  OBVIOUS
<1>. QED  BY <1>1, <1>2, <1>3, <1>4, SeqEqual

LEMMA TripleJoined ==
  ASSUME NEW S, NEW a \in S, NEW b \in S, NEW c \in S
  PROVE  /\ <<a>> \in Seq(S) /\ <<b>> \in Seq(S) /\ <<c>> \in Seq(S)
         /\ <<a, b, c>> = (<<a>> \o <<b>>) \o <<c>>
<1>. DEFINE p == (<<a>> \o <<b>>) \o <<c>>
<1>1. <<a>> \in Seq(S) /\ <<b>> \in Seq(S) /\ <<c>> \in Seq(S) /\ <<a, b, c>> \in Seq(S)
  OBVIOUS
<1>2. <<a>> \o <<b>> \in Seq(S) /\ Len(<<a>> \o <<b>>) = 2
  BY <1>1
<1>3. (<<a>> \o <<b>>)[1] = a /\ (<<a>> \o <<b>>)[2] = b
  OBVIOUS
<1>5. \A i \in 1 .. 3 : <<a, b, c>>[i] = p[i]
  BY <1>1, <1>2, <1>3
<1>4. Len(<<a, b, c>>) = 3 /\ Len(p) = 3 /\ p \in Seq(S)
  BY <1>1, <1>2
<1>. HIDE DEF p
<1>. QED  BY <1>1, <1>4, <1>5, SeqEqual DEF p

LEMMA JoinedNothing ==
  ASSUME NEW S, NEW p \in Seq(S)
  PROVE  p \o <<>> = p /\ <<>> \o p = p
OBVIOUS

(***************************************************************************)
(* The pipelines of a request.                                             *)
(***************************************************************************)
(* The database in which an entry has been tracked. *)
WithEntry(d, e) == [k \in Key |->
  IF k = SessionKey(e.session) THEN e.type
  ELSE IF k = AgentSessions(e.type) THEN d[k] \cup {e.session}
  ELSE IF k = ActiveAgents THEN d[k] \cup {e.type}
  ELSE IF e.sim = Nil THEN d[k]
  ELSE IF k = SimulationSessions(e.sim) THEN d[k] \cup {e.session}
  ELSE IF k = SessionSimulation(e.session) THEN e.sim
  ELSE IF k = ActiveSimulations THEN d[k] \cup {e.sim}
  ELSE d[k]]

LEMMA TrackSettles ==
  ASSUME RegistryAssumption, NEW d, DbOK(d), NEW e \in Entry, NEW a, NEW l,
         e.session \in Veiled(a, l), Found(a, l, WithEntry(d, e))
  PROVE  Settles(d, TrackCommands(e), a, l) /\ DbOK(WithEntry(d, e))
<1>. DEFINE s == e.session
            t == e.type
            m == e.sim
            c1 == Set(SessionKey(s), t)
            c2 == SAdd(AgentSessions(t), s)
            c3 == SAdd(ActiveAgents, t)
            c4 == SAdd(SimulationSessions(m), s)
            c5 == Set(SessionSimulation(s), m)
            c6 == SAdd(ActiveSimulations, m)
            x1 == Run(c1, d)
            x2 == Run(c2, x1)
            x3 == Run(c3, x2)
            x4 == Run(c4, x3)
            x5 == Run(c5, x4)
            x6 == Run(c6, x5)
<1>1. s \in Session /\ t \in AgentType /\ m \in Simulation \cup {Nil}
  BY DEF Entry
<1>2. c1 \in Commands /\ c2 \in Commands /\ c3 \in Commands
  BY <1>1, CommandsAre, KeysAre
<1>3. m # Nil => c4 \in Commands /\ c5 \in Commands /\ c6 \in Commands
  BY <1>1, CommandsAre, KeysAre
<1>4. DbOK(x1) /\ DbOK(x2) /\ DbOK(x3) /\ (m # Nil => DbOK(x4) /\ DbOK(x5) /\ DbOK(x6))
  BY <1>2, <1>3, RunKeepsKinds
<1>5. /\ SessionKey(s) \in Key /\ AgentSessions(t) \in Key /\ ActiveAgents \in Key
      /\ m # Nil => SimulationSessions(m) \in Key /\ SessionSimulation(s) \in Key
                    /\ ActiveSimulations \in Key
  BY <1>1, KeysAre
<1>6. \A k \in Key : /\ x1[k] = IF k = SessionKey(s) THEN t ELSE d[k]
                     /\ x2[k] = IF k = AgentSessions(t) THEN x1[k] \cup {s} ELSE x1[k]
                     /\ x3[k] = IF k = ActiveAgents THEN x2[k] \cup {t} ELSE x2[k]
  <2>1. \A k \in Key : x1[k] = IF k = SessionKey(s) THEN t ELSE d[k]
    BY <1>2, <1>5, SetEffect
  <2>2. \A k \in Key : x2[k] = IF k = AgentSessions(t) THEN x1[k] \cup {s} ELSE x1[k]
    <3>1. DbOK(x1) /\ c2 \in Commands
      BY <1>2, <1>4
    <3>. HIDE DEF x1
    <3>. QED  BY <3>1, SAddEffect
  <2>3. \A k \in Key : x3[k] = IF k = ActiveAgents THEN x2[k] \cup {t} ELSE x2[k]
    <3>1. DbOK(x2) /\ c3 \in Commands
      BY <1>2, <1>4
    <3>. HIDE DEF x2
    <3>. QED  BY <3>1, SAddEffect
  <2>. QED  BY <2>1, <2>2, <2>3
<1>7. m # Nil =>
        \A k \in Key : /\ x4[k] = IF k = SimulationSessions(m) THEN x3[k] \cup {s} ELSE x3[k]
                       /\ x5[k] = IF k = SessionSimulation(s) THEN m ELSE x4[k]
                       /\ x6[k] = IF k = ActiveSimulations THEN x5[k] \cup {m} ELSE x5[k]
  <2>. SUFFICES ASSUME m # Nil
                PROVE  \A k \in Key :
                         /\ x4[k] = IF k = SimulationSessions(m) THEN x3[k] \cup {s} ELSE x3[k]
                         /\ x5[k] = IF k = SessionSimulation(s) THEN m ELSE x4[k]
                         /\ x6[k] = IF k = ActiveSimulations THEN x5[k] \cup {m} ELSE x5[k]
    OBVIOUS
  <2>1. \A k \in Key : x4[k] = IF k = SimulationSessions(m) THEN x3[k] \cup {s} ELSE x3[k]
    <3>1. DbOK(x3) /\ c4 \in Commands
      BY <1>3, <1>4
    <3>. HIDE DEF x3
    <3>. QED  BY <3>1, SAddEffect
  <2>2. \A k \in Key : x5[k] = IF k = SessionSimulation(s) THEN m ELSE x4[k]
    <3>1. DbOK(x4) /\ c5 \in Commands
      BY <1>3, <1>4
    <3>. HIDE DEF x4
    <3>. QED  BY <3>1, SetEffect
  <2>3. \A k \in Key : x6[k] = IF k = ActiveSimulations THEN x5[k] \cup {m} ELSE x5[k]
    <3>1. DbOK(x5) /\ c6 \in Commands
      BY <1>3, <1>4
    <3>. HIDE DEF x5
    <3>. QED  BY <3>1, SAddEffect
  <2>. QED  BY <2>1, <2>2, <2>3
<1>8. /\ SessionKey(s) # AgentSessions(t) /\ SessionKey(s) # ActiveAgents
      /\ AgentSessions(t) # ActiveAgents
      /\ m # Nil => /\ SimulationSessions(m) # SessionKey(s)
                    /\ SimulationSessions(m) # AgentSessions(t)
                    /\ SimulationSessions(m) # ActiveAgents
                    /\ SessionSimulation(s) # SessionKey(s)
                    /\ SessionSimulation(s) # AgentSessions(t)
                    /\ SessionSimulation(s) # ActiveAgents
                    /\ SessionSimulation(s) # SimulationSessions(m)
                    /\ ActiveSimulations # SessionKey(s) /\ ActiveSimulations # AgentSessions(t)
                    /\ ActiveSimulations # ActiveAgents
                    /\ ActiveSimulations # SimulationSessions(m)
                    /\ ActiveSimulations # SessionSimulation(s)
  BY <1>1 DEF SessionKey, SessionSimulation, AgentSessions, SimulationSessions, ActiveAgents,
              ActiveSimulations
<1>9. /\ c1.key = SessionKey(s) /\ c2.key = AgentSessions(t) /\ c3.key = ActiveAgents
      /\ c4.key = SimulationSessions(m) /\ c5.key = SessionSimulation(s)
      /\ c6.key = ActiveSimulations
      /\ c2.op = "SADD" /\ c2.arg = {s} /\ c4.op = "SADD" /\ c4.arg = {s}
  BY DEF Set, SAdd
<1>10. ASSUME NEW z \in Session \ Veiled(a, l)
       PROVE  /\ Alike(d, x1, z) /\ Alike(x1, x2, z) /\ Alike(x2, x3, z)
              /\ m # Nil => Alike(x3, x4, z) /\ Alike(x4, x5, z) /\ Alike(x5, x6, z)
  <2>1. z # s
    OBVIOUS
  <2>2. /\ c1.key # SessionKey(z) /\ c1.key # SessionSimulation(z) /\ c1.key \notin IndexKeys
        /\ c2.key # SessionKey(z) /\ c2.key # SessionSimulation(z) /\ z \notin c2.arg
        /\ c3.key # SessionKey(z) /\ c3.key # SessionSimulation(z) /\ c3.key \notin IndexKeys
    <3>. HIDE DEF c1, c2, c3
    <3>. QED  BY <1>1, <1>9, <2>1, KeysAre, KeysDiffer, SimulationKeysDiffer
  <2>3. m # Nil =>
        /\ c4.key # SessionKey(z) /\ c4.key # SessionSimulation(z) /\ z \notin c4.arg
        /\ c5.key # SessionKey(z) /\ c5.key # SessionSimulation(z) /\ c5.key \notin IndexKeys
        /\ c6.key # SessionKey(z) /\ c6.key # SessionSimulation(z) /\ c6.key \notin IndexKeys
    <3>. HIDE DEF c4, c5, c6
    <3>. QED  BY <1>1, <1>9, <2>1, KeysAre, KeysDiffer, SimulationKeysDiffer
  <2>. HIDE DEF c1, c2, c3, c4, c5, c6
  <2>4. Alike(d, x1, z)
    BY <1>2, <2>2, SpareOther
  <2>5. Alike(x1, x2, z)
    <3>. HIDE DEF x1
    <3>. QED  BY <1>2, <1>4, <1>9, <2>2, SpareOther
  <2>6. Alike(x2, x3, z)
    <3>. HIDE DEF x2
    <3>. QED  BY <1>2, <1>4, <2>2, SpareOther
  <2>7. m # Nil => Alike(x3, x4, z)
    <3>. HIDE DEF x3
    <3>. QED  BY <1>3, <1>4, <1>9, <2>3, SpareOther
  <2>8. m # Nil => Alike(x4, x5, z)
    <3>. HIDE DEF x4
    <3>. QED  BY <1>3, <1>4, <2>3, SpareOther
  <2>9. m # Nil => Alike(x5, x6, z)
    <3>. HIDE DEF x5
    <3>. QED  BY <1>3, <1>4, <2>3, SpareOther
  <2>. QED  BY <2>4, <2>5, <2>6, <2>7, <2>8, <2>9
<1>. DEFINE p6 == <<c6>>
            p5 == <<c5>> \o p6
            p4 == IF m = Nil THEN <<>> ELSE <<c4>> \o p5
            p3 == <<c3>> \o p4
            p2 == <<c2>> \o p3
            x == IF m = Nil THEN x3 ELSE x6
<1>11. m # Nil => p5 \in Seq(Commands) /\ p6 \in Seq(Commands) /\ <<c4, c5, c6>> = <<c4>> \o p5
  <2>. SUFFICES ASSUME m # Nil
                PROVE  p5 \in Seq(Commands) /\ p6 \in Seq(Commands) /\ <<c4, c5, c6>> = <<c4>> \o p5
    OBVIOUS
  <2>. DEFINE q4 == <<c4>>
              q5 == <<c5>>
              q6 == <<c6>>
  <2>1. c4 \in Commands /\ c5 \in Commands /\ c6 \in Commands
    BY <1>3
  <2>. HIDE DEF c4, c5, c6
  <2>2. /\ q4 \in Seq(Commands) /\ q5 \in Seq(Commands) /\ q6 \in Seq(Commands)
        /\ <<c4, c5, c6>> = (q4 \o q5) \o q6
    BY <2>1, TripleJoined
  <2>. HIDE DEF q4, q5, q6
  <2>3. (q4 \o q5) \o q6 = q4 \o (q5 \o q6) /\ q5 \o q6 \in Seq(Commands)
    BY <2>2
  <2>. QED  BY <2>2, <2>3 DEF q4, q5, q6
<1>12. /\ TrackCommands(e) = <<c1>> \o p2
       /\ p2 \in Seq(Commands) /\ p3 \in Seq(Commands) /\ p4 \in Seq(Commands)
  <2>1. TrackCommands(e) = <<c1, c2, c3>> \o (IF m = Nil THEN <<>> ELSE <<c4, c5, c6>>)
    BY DEF TrackCommands
  <2>. HIDE DEF c1, c2, c3, c4, c5, c6
  <2>2. (IF m = Nil THEN <<>> ELSE <<c4, c5, c6>>) = p4
    <3>. HIDE DEF p5
    <3>. QED  BY <1>11
  <2>3. p4 \in Seq(Commands)
    <3>1. <<>> \in Seq(Commands)
      OBVIOUS
    <3>2. m # Nil => <<c4>> \in Seq(Commands)
      BY <1>3
    <3>. HIDE DEF p5
    <3>. QED  BY <1>11, <3>1, <3>2
  <2>. HIDE DEF p4
  <2>. DEFINE q1 == <<c1>>
              q2 == <<c2>>
              q3 == <<c3>>
  <2>4. /\ q1 \in Seq(Commands) /\ q2 \in Seq(Commands) /\ q3 \in Seq(Commands)
        /\ <<c1, c2, c3>> = (q1 \o q2) \o q3
    BY <1>2, TripleJoined
  <2>. HIDE DEF q1, q2, q3
  <2>. DEFINE q12 == q1 \o q2
              q34 == q3 \o p4
              q234 == q2 \o q34
  <2>5. q12 = q1 \o q2 /\ q34 = q3 \o p4 /\ q234 = q2 \o q34
    OBVIOUS
  <2>. HIDE DEF q12, q34, q234
  <2>6. (q12 \o q3) \o p4 = q1 \o q234 /\ q34 \in Seq(Commands) /\ q234 \in Seq(Commands)
    <3>1. q12 \in Seq(Commands) /\ q34 \in Seq(Commands)
      BY <2>3, <2>4, <2>5
    <3>2. q234 \in Seq(Commands)
      BY <2>4, <2>5, <3>1
    <3>3. (q12 \o q3) \o p4 = q12 \o (q3 \o p4)
      BY <2>3, <2>4, <3>1, SMTT(20)
    <3>4. (q1 \o q2) \o q34 = q1 \o (q2 \o q34)
      BY <2>4, <3>1, SMTT(20)
    <3>. QED  BY <2>5, <3>1, <3>2, <3>3, <3>4
  <2>. QED  BY <2>1, <2>2, <2>3, <2>4, <2>5, <2>6 DEF q1, q2, q3
<1>13. x = WithEntry(d, e) /\ DbOK(x)
  <2>. HIDE DEF x1, x2, x3, x4, x5, x6
  <2>1. x = [k \in Key |-> x[k]] /\ DbOK(x)
    BY <1>4 DEF DbOK
  <2>2. \A k \in Key : x[k] = WithEntry(d, e)[k]
    <3>1. CASE m = Nil
      BY <1>6, <1>8, <3>1 DEF WithEntry
    <3>2. CASE m # Nil
      <4>1. ASSUME NEW k \in Key PROVE x6[k] = WithEntry(d, e)[k]
        <5>1. x3[k] = IF k = SessionKey(s) THEN t
                      ELSE IF k = AgentSessions(t) THEN d[k] \cup {s}
                      ELSE IF k = ActiveAgents THEN d[k] \cup {t} ELSE d[k]
          BY <1>6, <1>8
        <5>2. x6[k] = IF k = SimulationSessions(m) THEN x3[k] \cup {s}
                      ELSE IF k = SessionSimulation(s) THEN m
                      ELSE IF k = ActiveSimulations THEN x3[k] \cup {m} ELSE x3[k]
          BY <1>7, <1>8, <3>2
        <5>. QED  BY <1>8, <3>2, <5>1, <5>2 DEF WithEntry
      <4>. QED  BY <3>2, <4>1
    <3>. QED  BY <3>1, <3>2
  <2>. QED  BY <2>1, <2>2 DEF WithEntry
<1>. HIDE DEF c1, c2, c3, c4, c5, c6
<1>14. Settles(x, <<>>, a, l)
  BY <1>13, SettlesNow
<1>15. Settles(x3, p4, a, l)
  <2>1. CASE m = Nil
    BY <1>14, <2>1
  <2>2. CASE m # Nil
    <3>1. Settles(x5, p6, a, l)
      <4>1. p6 = <<c6>> \o <<>>
        BY <1>3, <2>2
      <4>. HIDE DEF x5, p6
      <4>. QED  BY <1>10, <1>14, <2>2, <4>1, SettlesBefore, NoCommands
    <3>2. Settles(x4, p5, a, l)
      <4>. HIDE DEF x4, p6
      <4>. QED  BY <1>10, <1>11, <2>2, <3>1, SettlesBefore
    <3>. HIDE DEF x3, p5
    <3>. QED  BY <1>10, <1>11, <2>2, <3>2, SettlesBefore
  <2>. QED  BY <2>1, <2>2
<1>. HIDE DEF p4
<1>16. Settles(x2, p3, a, l)
  <2>. HIDE DEF x2
  <2>. QED  BY <1>10, <1>12, <1>15, SettlesBefore
<1>. HIDE DEF p3
<1>17. Settles(x1, p2, a, l)
  <2>. HIDE DEF x1
  <2>. QED  BY <1>10, <1>12, <1>16, SettlesBefore
<1>. HIDE DEF p2
<1>18. Settles(d, <<c1>> \o p2, a, l)
  BY <1>10, <1>12, <1>17, SettlesBefore
<1>. QED  BY <1>12, <1>13, <1>18

(* The database from which UntrackSession has removed a session of type t and
   simulation m. *)
WithoutSession(d, s, t, m) == [k \in Key |->
  IF k = SessionKey(s) \/ k = SessionSimulation(s) THEN Nil
  ELSE IF t # Nil /\ k = AgentSessions(t) THEN d[k] \ {s}
  ELSE IF m # Nil /\ k = SimulationSessions(m) THEN d[k] \ {s}
  ELSE d[k]]

LEMMA UntrackSettles ==
  ASSUME RegistryAssumption, NEW d, DbOK(d), NEW s \in Session, NEW t \in AgentType \cup {Nil},
         NEW m \in Simulation \cup {Nil}, NEW a, NEW l,
         s \in Veiled(a, l), Found(a, l, WithoutSession(d, s, t, m))
  PROVE  Settles(d, UntrackCommands(s, t, m), a, l)
<1>. DEFINE c1 == Del(SessionKey(s))
            c2 == Del(SessionSimulation(s))
            c3 == SRem(AgentSessions(t), {s})
            c4 == SRem(SimulationSessions(m), {s})
            p3 == IF t = Nil THEN <<>> ELSE <<c3>>
            p4 == IF m = Nil THEN <<>> ELSE <<c4>>
            x1 == Run(c1, d)
            x2 == Run(c2, x1)
            x3 == IF t = Nil THEN x2 ELSE Run(c3, x2)
            x4 == IF m = Nil THEN x3 ELSE Run(c4, x3)
<1>1. /\ SessionKey(s) \in Key /\ SessionSimulation(s) \in Key
      /\ t # Nil => AgentSessions(t) \in IndexKeys /\ AgentSessions(t) \in Key
      /\ m # Nil => SimulationSessions(m) \in IndexKeys /\ SimulationSessions(m) \in Key
  BY KeysAre
<1>2. /\ c1 \in Commands /\ c2 \in Commands
      /\ t # Nil => c3 \in Commands
      /\ m # Nil => c4 \in Commands
  BY <1>1, CommandsAre
<1>3. DbOK(x1) /\ DbOK(x2) /\ DbOK(x3) /\ DbOK(x4)
  <2>1. DbOK(x1) /\ DbOK(x2)
    BY <1>2, RunKeepsKinds
  <2>. HIDE DEF x1, x2
  <2>2. DbOK(x3)
    BY <1>2, <2>1, RunKeepsKinds
  <2>. HIDE DEF x3
  <2>. QED  BY <1>2, <2>1, <2>2, RunKeepsKinds
<1>4. \A k \in Key : /\ x1[k] = IF k = SessionKey(s) THEN Nil ELSE d[k]
                     /\ x2[k] = IF k = SessionSimulation(s) THEN Nil ELSE x1[k]
                     /\ x3[k] = IF t # Nil /\ k = AgentSessions(t) THEN x2[k] \ {s} ELSE x2[k]
                     /\ x4[k] = IF m # Nil /\ k = SimulationSessions(m) THEN x3[k] \ {s} ELSE x3[k]
  <2>1. Absent(SessionKey(s)) = Nil /\ Absent(SessionSimulation(s)) = Nil
    BY KeysAre DEF Absent
  <2>2. \A k \in Key : x1[k] = IF k = SessionKey(s) THEN Nil ELSE d[k]
    BY <1>1, <1>2, <2>1, DelEffect
  <2>3. \A k \in Key : x2[k] = IF k = SessionSimulation(s) THEN Nil ELSE x1[k]
    <3>. HIDE DEF x1
    <3>. QED  BY <1>1, <1>2, <1>3, <2>1, DelEffect
  <2>4. \A k \in Key : x3[k] = IF t # Nil /\ k = AgentSessions(t) THEN x2[k] \ {s} ELSE x2[k]
    <3>. HIDE DEF x2
    <3>1. CASE t = Nil
      BY <3>1
    <3>2. CASE t # Nil
      <4>1. \A k \in Key : Run(c3, x2)[k] = IF k = AgentSessions(t) THEN x2[k] \ {s} ELSE x2[k]
        <5>1. c3 \in Commands /\ DbOK(x2)
          BY <1>2, <1>3, <3>2
        <5>. QED  BY <5>1, SRemEffect
      <4>. HIDE DEF c3
      <4>. QED  BY <3>2, <4>1
    <3>. QED  BY <3>1, <3>2
  <2>5. \A k \in Key : x4[k] = IF m # Nil /\ k = SimulationSessions(m) THEN x3[k] \ {s} ELSE x3[k]
    <3>. HIDE DEF x3
    <3>1. CASE m = Nil
      BY <3>1
    <3>2. CASE m # Nil
      <4>1. \A k \in Key :
              Run(c4, x3)[k] = IF k = SimulationSessions(m) THEN x3[k] \ {s} ELSE x3[k]
        <5>1. c4 \in Commands /\ DbOK(x3)
          BY <1>2, <1>3, <3>2
        <5>. QED  BY <5>1, SRemEffect
      <4>. HIDE DEF c4
      <4>. QED  BY <3>2, <4>1
    <3>. QED  BY <3>1, <3>2
  <2>. QED  BY <2>2, <2>3, <2>4, <2>5
<1>5. /\ c1.key = SessionKey(s) /\ c2.key = SessionSimulation(s)
      /\ c3.key = AgentSessions(t) /\ c3.op = "SREM" /\ c3.arg = {s}
      /\ c4.key = SimulationSessions(m) /\ c4.op = "SREM" /\ c4.arg = {s}
  BY DEF Del, SRem
<1>6. ASSUME NEW z \in Session \ Veiled(a, l)
      PROVE  /\ Alike(d, x1, z) /\ Alike(x1, x2, z)
             /\ t # Nil => Alike(x2, Run(c3, x2), z)
             /\ m # Nil => Alike(x3, Run(c4, x3), z)
  <2>1. z # s
    OBVIOUS
  <2>. HIDE DEF c1, c2, c3, c4
  <2>2. /\ c1.key # SessionKey(z) /\ c1.key # SessionSimulation(z) /\ c1.key \notin IndexKeys
        /\ c2.key # SessionKey(z) /\ c2.key # SessionSimulation(z) /\ c2.key \notin IndexKeys
    BY <1>5, <2>1, KeysAre, KeysDiffer, SimulationKeysDiffer
  <2>3. /\ t # Nil => c3.key # SessionKey(z) /\ c3.key # SessionSimulation(z) /\ z \notin c3.arg
        /\ m # Nil => c4.key # SessionKey(z) /\ c4.key # SessionSimulation(z) /\ z \notin c4.arg
    BY <1>1, <1>5, <2>1, KeysAre, KeysDiffer
  <2>4. Alike(d, x1, z)
    BY <1>2, <2>2, SpareOther
  <2>5. Alike(x1, x2, z)
    <3>. HIDE DEF x1
    <3>. QED  BY <1>2, <1>3, <2>2, SpareOther
  <2>6. t # Nil => Alike(x2, Run(c3, x2), z)
    <3>. HIDE DEF x2
    <3>. QED  BY <1>2, <1>3, <1>5, <2>3, SpareOther
  <2>7. m # Nil => Alike(x3, Run(c4, x3), z)
    <3>. HIDE DEF x3
    <3>. QED  BY <1>2, <1>3, <1>5, <2>3, SpareOther
  <2>. QED  BY <2>4, <2>5, <2>6, <2>7
<1>7. x4 = WithoutSession(d, s, t, m)
  <2>1. /\ t # Nil => /\ AgentSessions(t) # SessionKey(s) /\ AgentSessions(t) # SessionSimulation(s)
                      /\ m # Nil => AgentSessions(t) # SimulationSessions(m)
        /\ m # Nil => /\ SimulationSessions(m) # SessionKey(s)
                      /\ SimulationSessions(m) # SessionSimulation(s)
    BY DEF AgentSessions, SessionKey, SessionSimulation, SimulationSessions
  <2>. HIDE DEF x1, x2, x3, x4
  <2>2. x4 = [k \in Key |-> x4[k]]
    BY <1>3 DEF DbOK
  <2>3. \A k \in Key : x4[k] = WithoutSession(d, s, t, m)[k]
    BY <1>4, <2>1 DEF WithoutSession
  <2>. QED  BY <2>2, <2>3 DEF WithoutSession
<1>8. UntrackCommands(s, t, m) = (<<c1, c2>> \o p3) \o p4
  BY DEF UntrackCommands
<1>. HIDE DEF c1, c2, c3, c4
<1>9. /\ <<>> \in Seq(Commands) /\ p3 \in Seq(Commands) /\ p4 \in Seq(Commands)
      /\ p3 \o p4 \in Seq(Commands) /\ <<c2>> \o (p3 \o p4) \in Seq(Commands)
      /\ p4 = IF m = Nil THEN <<>> ELSE <<c4>> \o <<>>
      /\ p3 \o p4 = IF t = Nil THEN p4 ELSE <<c3>> \o p4
      /\ (<<c1, c2>> \o p3) \o p4 = <<c1>> \o (<<c2>> \o (p3 \o p4))
  <2>1. <<>> \in Seq(Commands) /\ p3 \in Seq(Commands) /\ p4 \in Seq(Commands)
    BY <1>2
  <2>2. p4 = IF m = Nil THEN <<>> ELSE <<c4>> \o <<>>
    BY <1>2
  <2>. HIDE DEF p4
  <2>3. p3 \o p4 = IF t = Nil THEN p4 ELSE <<c3>> \o p4
    BY <2>1, JoinedNothing
  <2>. HIDE DEF p3
  <2>. DEFINE q1 == <<c1>>
              q2 == <<c2>>
  <2>4. q1 \in Seq(Commands) /\ q2 \in Seq(Commands) /\ <<c1, c2>> = q1 \o q2
    BY <1>2, PairJoined
  <2>. HIDE DEF q1, q2
  <2>. DEFINE q12 == q1 \o q2
              q34 == p3 \o p4
              q234 == q2 \o q34
  <2>5. q12 = q1 \o q2 /\ q34 = p3 \o p4 /\ q234 = q2 \o q34
    OBVIOUS
  <2>. HIDE DEF q12, q34, q234
  <2>6. (q12 \o p3) \o p4 = q1 \o q234 /\ q34 \in Seq(Commands) /\ q234 \in Seq(Commands)
    <3>1. q12 \in Seq(Commands) /\ q34 \in Seq(Commands)
      BY <2>1, <2>4, <2>5
    <3>2. q234 \in Seq(Commands)
      BY <2>4, <2>5, <3>1
    <3>3. (q12 \o p3) \o p4 = q12 \o (p3 \o p4)
      BY <2>1, <2>4, <3>1, SMTT(20)
    <3>4. (q1 \o q2) \o q34 = q1 \o (q2 \o q34)
      BY <2>4, <3>1, SMTT(20)
    <3>. QED  BY <2>5, <3>1, <3>2, <3>3, <3>4
  <2>. QED  BY <2>1, <2>2, <2>3, <2>4, <2>5, <2>6 DEF q1, q2
<1>10. Settles(x4, <<>>, a, l)
  BY <1>7, SettlesNow
<1>11. Settles(x3, p4, a, l)
  <2>1. CASE m = Nil
    BY <1>10, <2>1
  <2>2. CASE m # Nil
    <3>. HIDE DEF x3
    <3>. QED  BY <1>6, <1>9, <1>10, <2>2, SettlesBefore
  <2>. QED  BY <2>1, <2>2
<1>12. Settles(x2, p3 \o p4, a, l)
  <2>1. CASE t = Nil
    BY <1>9, <1>11, <2>1
  <2>2. CASE t # Nil
    <3>. HIDE DEF x2, p4
    <3>. QED  BY <1>6, <1>9, <1>11, <2>2, SettlesBefore
  <2>. QED  BY <2>1, <2>2
<1>. HIDE DEF p3, p4
<1>13. Settles(x1, <<c2>> \o (p3 \o p4), a, l)
  <2>. HIDE DEF x1
  <2>. QED  BY <1>6, <1>9, <1>12, SettlesBefore
<1>14. Settles(d, <<c1>> \o (<<c2>> \o (p3 \o p4)), a, l)
  BY <1>6, <1>9, <1>13, SettlesBefore
<1>. QED  BY <1>8, <1>9, <1>14

(***************************************************************************)
(* Steps of the client at work.                                            *)
(***************************************************************************)
HidesIn(a, l, s) ==
  \/ \E f \in Flusher : a[f] \in FlushPhases
  \/ \E h \in Handler : a[h] = "track" /\ \E i \in DOMAIN l[h].batch : l[h].batch[i].session = s
  \/ \E h \in Handler : a[h] \in Untracking /\ l[h].batch[l[h].next].session = s

LEMMA HiddenIsHidesIn ==
  /\ \A s : Hidden(s) <=> HidesIn(at, local, s)
  /\ \A s : Hidden(s)' <=> HidesIn(at', local', s)
BY DEF Hidden, HidesIn, Flushing, FlushPhases, Untracking, Current

(* A client alone at work hides what it alone hides. *)
LEMMA HidesAlone ==
  ASSUME RegistryAssumption, NEW a, NEW l, NEW d, NEW p, NEW c \in Client,
         \A x \in Client \ {c} : a[x] = "idle", WorksAlone(c, d, a[c], p, l[c])
  PROVE  \A s \in Session : HidesIn(a, l, s) <=> s \in Veiled(a[c], l[c])
<1>1. \A x \in Client \ {c} : a[x] # "track" /\ a[x] \notin Untracking /\ a[x] \notin FlushPhases
  BY DEF Untracking, FlushPhases
<1>2. CASE a[c] = "idle"
  BY <1>1, <1>2, Roles DEF HidesIn, Veiled, Untracking, FlushPhases
<1>3. CASE a[c] # "idle" /\ c \in Handler
  <2>1. a[c] \in {"track", "untrack"} \cup Untracking
    BY <1>3 DEF WorksAlone, HandlerAlone
  <2>2. a[c] \notin FlushPhases /\ "track" \notin Untracking
    BY <2>1 DEF Untracking, FlushPhases
  <2>. QED  BY <1>1, <1>3, <2>1, <2>2, Roles DEF HidesIn, Veiled
<1>4. CASE a[c] # "idle" /\ c \in Flusher
  <2>1. a[c] \in FlushPhases
    BY <1>4 DEF WorksAlone, FlusherAlone
  <2>2. a[c] # "track" /\ a[c] \notin Untracking
    BY <2>1 DEF Untracking, FlushPhases
  <2>. QED  BY <1>1, <1>4, <2>1, <2>2, Roles DEF HidesIn, Veiled
<1>5. CASE a[c] # "idle" /\ c \in Reaper
  <2>1. a[c] \in Visiting \cup Sweeping
    BY <1>5 DEF WorksAlone, ReaperAlone
  <2>2. a[c] # "track" /\ a[c] \notin Untracking /\ a[c] \notin FlushPhases
    BY <2>1 DEF Untracking, FlushPhases, Visiting, Sweeping
  <2>. QED  BY <1>1, <1>5, <2>2, Roles DEF HidesIn, Veiled
<1>. QED  BY <1>2, <1>3, <1>4, <1>5 DEF Client

LEMMA AloneStep ==
  ASSUME RegistryAssumption, RegistryInv, AloneInv, NEW c \in Client, Moves(c),
         at[c] # "idle" \/ \A x \in Client : at[x] = "idle",
         WorksAlone(c, db', at'[c], pipe'[c], local'[c]),
         at'[c] = "idle" => Listed(db'),
         \A s \in Session \ Veiled(at'[c], local'[c]) : Agrees(db', s)
  PROVE  /\ AloneInv'
         /\ \A s \in Session : /\ Hidden(s) <=> s \in Veiled(at[c], local[c])
                               /\ Hidden(s)' <=> s \in Veiled(at'[c], local'[c])
<1>1. Sane /\ \A x \in Client \ {c} : at[x] = "idle"
  BY DEF AloneInv, OneAtWork, RegistryInv
<1>2. \A x \in Client \ {c} : at'[x] = "idle" /\ pipe'[x] = pipe[x] /\ local'[x] = local[x]
  BY <1>1, OthersStay
<1>3. WorksAlone(c, db, at[c], pipe[c], local[c])
  BY DEF AloneInv
<1>4. \A s \in Session : /\ Hidden(s) <=> s \in Veiled(at[c], local[c])
                         /\ Hidden(s)' <=> s \in Veiled(at'[c], local'[c])
  <2>1. \A s \in Session : HidesIn(at, local, s) <=> s \in Veiled(at[c], local[c])
    BY <1>1, <1>3, HidesAlone
  <2>2. \A s \in Session : HidesIn(at', local', s) <=> s \in Veiled(at'[c], local'[c])
    BY <1>2, HidesAlone
  <2>. QED  BY <2>1, <2>2, HiddenIsHidesIn
<1>5. OneAtWork'
  BY <1>2 DEF OneAtWork
<1>6. \A x \in Client : WorksAlone(x, db', at'[x], pipe'[x], local'[x])
  BY <1>2 DEF WorksAlone
<1>7. (\A x \in Client : at'[x] = "idle") => Listed(db')
  OBVIOUS
<1>8. \A s \in Session : ~(Hidden(s)') => Agrees(db', s)
  BY <1>4
<1>. QED  BY <1>4, <1>5, <1>6, <1>7, <1>8 DEF AloneInv

(* What the service shows of a session is what it showed, when the sessions of v were
   hidden and those of w are. *)
Seems(v, w, s) ==
  \/ s \notin v /\ s \notin w /\ Alike(db, db', s)
  \/ (s \in v \/ Clean(db, s)) /\ (s \in w \/ Clean(db', s))

LEMMA Stutter ==
  ASSUME RegistryAssumption, RegistryInv, DbOK(db'), AloneInv, NEW c \in Client, Moves(c),
         at[c] # "idle" \/ \A x \in Client : at[x] = "idle",
         WorksAlone(c, db', at'[c], pipe'[c], local'[c]),
         at'[c] = "idle" => Listed(db'),
         \A s \in Session : Seems(Veiled(at[c], local[c]), Veiled(at'[c], local'[c]), s)
  PROVE  AloneInv' /\ UNCHANGED Service!vars
<1>. DEFINE v == Veiled(at[c], local[c])
            w == Veiled(at'[c], local'[c])
<1>0. DbOK(db)
  BY DEF RegistryInv, Sane
<1>1. \A s \in Session : Hidden(s) <=> s \in v
  <2>1. \A x \in Client \ {c} : at[x] = "idle"
    BY DEF AloneInv, OneAtWork
  <2>2. WorksAlone(c, db, at[c], pipe[c], local[c])
    BY DEF AloneInv
  <2>. QED  BY <2>1, <2>2, HidesAlone, HiddenIsHidesIn
<1>. HIDE DEF v, w
<1>2. \A s \in Session \ w : Agrees(db', s)
  BY <1>1, AgreesAlike, CleanAgrees DEF Seems, AloneInv, v, w
<1>3. AloneInv' /\ \A s \in Session : Hidden(s)' <=> s \in w
  BY <1>2, AloneStep DEF w
<1>4. \A s \in Session : Seems(v, w, s)
  BY DEF v, w
<1>5. \A s \in Session : /\ (IF Hidden(s) THEN Nil ELSE db[SessionKey(s)])'
                              = IF Hidden(s) THEN Nil ELSE db[SessionKey(s)]
                         /\ (IF Hidden(s) THEN Nil ELSE db[SessionSimulation(s)])'
                              = IF Hidden(s) THEN Nil ELSE db[SessionSimulation(s)]
  BY <1>1, <1>3, <1>4 DEF Seems, Alike, Clean
<1>6. ASSUME NEW k \in IndexKeys
      PROVE  {s \in db'[k] : ~(Hidden(s)')} = {s \in db[k] : ~Hidden(s)}
  <2>1. db[k] \subseteq Session /\ db'[k] \subseteq Session
    BY <1>0, Holds
  <2>2. \A s \in Session : (s \in db'[k] /\ ~(Hidden(s)')) <=> (s \in db[k] /\ ~Hidden(s))
    BY <1>1, <1>3, <1>4 DEF Seems, Alike, Clean
  <2>. QED  BY <2>1, <2>2
<1>7. /\ \A t \in AgentType : {s \in db'[AgentSessions(t)] : ~(Hidden(s)')}
                                = {s \in db[AgentSessions(t)] : ~Hidden(s)}
      /\ \A m \in Simulation : {s \in db'[SimulationSessions(m)] : ~(Hidden(s)')}
                                 = {s \in db[SimulationSessions(m)] : ~Hidden(s)}
  BY <1>6, KeysAre
<1>8. UNCHANGED Service!vars
  BY <1>5, <1>7 DEF Service!vars
<1>. QED  BY <1>3, <1>8

(***************************************************************************)
(* A flush.                                                                *)
(***************************************************************************)
(* A key is deleted: of those that still held something, it does not. *)
LEMMA LeftStep ==
  ASSUME DbOK(db), NEW k \in Key, db' = Run(Del(k), db), NEW K \in SUBSET Key, NEW todo,
         Left(db, K, todo)
  PROVE  Left(db', K, todo \ {k})
<1>1. \A j \in Key : db'[j] = IF j = k THEN Absent(j) ELSE db[j]
  BY CommandsAre, DelEffect
<1>. QED  BY <1>1 DEF Left

LEMMA LeftNothing ==
  ASSUME DbOK(db), NEW k \in Key, db' = Run(Del(k), db), NEW K \in SUBSET Key,
         Left(db, K, {})
  PROVE  Left(db', K, {}) /\ Left(db', K \cup {k}, {})
<1>1. \A j \in Key : db'[j] = IF j = k THEN Absent(j) ELSE db[j]
  BY CommandsAre, DelEffect
<1>. QED  BY <1>1 DEF Left

(* A flush that has begun. *)
LEMMA FlushingStep ==
  ASSUME RegistryAssumption, RegistryInv, DbOK(db'), AloneInv, NEW f \in Flusher, FlusherNext(f)
  PROVE  AloneInv' /\ UNCHANGED Service!vars
<1>0. /\ f \in Client /\ f \notin Handler /\ f \notin Reaper /\ Sane /\ DbOK(db)
      /\ at[f] # "idle" /\ local[f] \in Locals
      /\ pipe = [c \in Client |-> pipe[c]] /\ local = [c \in Client |-> local[c]]
      /\ at = [c \in Client |-> at[c]]
  BY Roles DEF RegistryInv, Sane, ClientOK, FlusherNext, Delete, FlushActiveAgents, ScanSimulations,
               FlushActiveSimulations, ScanSessions, Flushed
<1>1. Moves(f)
  BY <1>0, FlusherActs DEF Acts
<1>2. FlusherAlone(db, at[f], local[f])
  BY <1>0 DEF AloneInv, WorksAlone
<1>3. /\ TypeSets \subseteq Key /\ SimulationSets \subseteq Key /\ StringKeys \subseteq Key
      /\ ActiveAgents \in Key /\ ActiveSimulations \in Key
      /\ IndexKeys \cup ActiveKeys \subseteq Key
      /\ IndexKeys = TypeSets \cup SimulationSets /\ ActiveKeys = {ActiveAgents, ActiveSimulations}
  BY KeysAre DEF ActiveKeys
<1>4. Veiled(at[f], local[f]) = Session
  BY <1>2 DEF FlusherAlone, FlushPhases, Veiled, Untracking
<1>5. ASSUME at'[f] \in FlushPhases, FlusherAlone(db', at'[f], local'[f])
      PROVE  AloneInv' /\ UNCHANGED Service!vars
  <2>1. Veiled(at'[f], local'[f]) = Session
    BY <1>5 DEF FlushPhases, Veiled, Untracking
  <2>2. at'[f] # "idle"
    BY <1>5 DEF FlushPhases
  <2>3. WorksAlone(f, db', at'[f], pipe'[f], local'[f])
    BY <1>0, <1>5 DEF WorksAlone
  <2>4. \A s \in Session : Seems(Veiled(at[f], local[f]), Veiled(at'[f], local'[f]), s)
    BY <1>4, <2>1 DEF Seems
  <2>. QED  BY <1>0, <1>1, <2>2, <2>3, <2>4, Stutter
<1>6. CASE Delete(f)
  <2>1. PICK k \in local[f].todo :
          /\ at[f] \in {"flush types", "flush simulations", "flush sessions"}
          /\ db' = Run(Del(k), db) /\ at'[f] = at[f]
          /\ local' = [local EXCEPT ![f].todo = @ \ {k}]
    BY <1>0, <1>6 DEF Delete, Do
  <2>2. k \in Key /\ local'[f].todo = local[f].todo \ {k}
    BY <1>0, <2>1 DEF Locals
  <2>3. FlusherAlone(db', at'[f], local'[f])
    <3>1. CASE at[f] = "flush types"
      <4>3. Left(db, TypeSets, local[f].todo) /\ TypeSets \in SUBSET Key
        BY <1>2, <1>3, <3>1 DEF FlusherAlone
      <4>4. Left(db', TypeSets, local[f].todo \ {k})
        BY <1>0, <2>1, <2>2, <4>3, LeftStep
      <4>1. Left(db', TypeSets, local'[f].todo)
        BY <2>2, <4>4
      <4>. QED  BY <2>1, <3>1, <4>1 DEF FlusherAlone, FlushPhases
    <3>2. CASE at[f] = "flush simulations"
      <4>3. Left(db, SimulationSets, local[f].todo) /\ SimulationSets \in SUBSET Key
        BY <1>2, <1>3, <3>2 DEF FlusherAlone
      <4>4. Left(db', SimulationSets, local[f].todo \ {k})
        BY <1>0, <2>1, <2>2, <4>3, LeftStep
      <4>1. Left(db', SimulationSets, local'[f].todo)
        BY <2>2, <4>4
      <4>2. Left(db', TypeSets \cup {ActiveAgents}, {})
        BY <1>0, <1>2, <1>3, <2>1, <2>2, <3>2, LeftNothing DEF FlusherAlone
      <4>. QED  BY <2>1, <3>2, <4>1, <4>2 DEF FlusherAlone, FlushPhases
    <3>3. CASE at[f] = "flush sessions"
      <4>3. Left(db, StringKeys, local[f].todo) /\ StringKeys \in SUBSET Key
        BY <1>2, <1>3, <3>3 DEF FlusherAlone
      <4>4. Left(db', StringKeys, local[f].todo \ {k})
        BY <1>0, <2>1, <2>2, <4>3, LeftStep
      <4>1. Left(db', StringKeys, local'[f].todo)
        BY <2>2, <4>4
      <4>2. Left(db', IndexKeys \cup ActiveKeys, {})
        BY <1>0, <1>2, <1>3, <2>1, <2>2, <3>3, LeftNothing DEF FlusherAlone
      <4>. QED  BY <2>1, <3>3, <4>1, <4>2 DEF FlusherAlone, FlushPhases
    <3>. QED  BY <2>1, <3>1, <3>2, <3>3
  <2>. QED  BY <1>5, <2>1, <2>3 DEF FlushPhases
<1>7. CASE FlushActiveAgents(f)
  <2>1. /\ at[f] = "flush types" /\ local[f].todo = {} /\ db' = Run(Del(ActiveAgents), db)
        /\ at'[f] = "scan simulations"
    BY <1>0, <1>7 DEF FlushActiveAgents, Do
  <2>2. Left(db, TypeSets, {})
    BY <1>2, <2>1 DEF FlusherAlone
  <2>3. Left(db', TypeSets \cup {ActiveAgents}, {})
    BY <1>0, <1>3, <2>1, <2>2, LeftNothing
  <2>. QED  BY <1>5, <2>1, <2>3 DEF FlusherAlone, FlushPhases
<1>8. CASE ScanSimulations(f)
  <2>1. /\ at[f] = "scan simulations" /\ at'[f] = "flush simulations" /\ db' = db
        /\ local'[f].todo = Present({SimulationSessions(m) : m \in Simulation})
    BY <1>0, <1>8 DEF ScanSimulations, Goto, Locals
  <2>2. Left(db, SimulationSets, local'[f].todo)
    BY <2>1, OwnersApart DEF Left, Present
  <2>. QED  BY <1>2, <1>5, <2>1, <2>2 DEF FlusherAlone, FlushPhases
<1>9. CASE FlushActiveSimulations(f)
  <2>1. /\ at[f] = "flush simulations" /\ local[f].todo = {}
        /\ db' = Run(Del(ActiveSimulations), db) /\ at'[f] = "scan sessions"
    BY <1>0, <1>9 DEF FlushActiveSimulations, Do
  <2>2. Left(db, TypeSets \cup {ActiveAgents} \cup SimulationSets, {})
    BY <1>2, <2>1 DEF FlusherAlone, Left
  <2>3. Left(db', (TypeSets \cup {ActiveAgents} \cup SimulationSets) \cup {ActiveSimulations}, {})
    BY <1>0, <1>3, <2>1, <2>2, LeftNothing
  <2>4. Left(db', IndexKeys \cup ActiveKeys, {})
    BY <1>3, <2>3 DEF Left
  <2>. QED  BY <1>5, <2>1, <2>4 DEF FlusherAlone, FlushPhases
<1>10. CASE ScanSessions(f)
  <2>1. /\ at[f] = "scan sessions" /\ at'[f] = "flush sessions" /\ db' = db
        /\ local'[f].todo = Present(StringKeys)
    BY <1>0, <1>10 DEF ScanSessions, Goto, Locals
  <2>2. Left(db, StringKeys, local'[f].todo)
    BY <2>1 DEF Left, Present
  <2>. QED  BY <1>2, <1>5, <2>1, <2>2 DEF FlusherAlone, FlushPhases
<1>11. CASE Flushed(f)
  <2>1. at[f] = "flush sessions" /\ local[f].todo = {} /\ at'[f] = "idle" /\ db' = db
    BY <1>0, <1>11 DEF Flushed, Return, Goto
  <2>2. Left(db, IndexKeys \cup ActiveKeys, {}) /\ Left(db, StringKeys, {})
    BY <1>2, <2>1 DEF FlusherAlone
  <2>3. /\ \A k \in IndexKeys \cup ActiveKeys : db[k] = {}
        /\ \A k \in StringKeys : db[k] = Nil
    BY <2>2, KeysDiffer DEF Left, Absent
  <2>4. \A s \in Session : Clean(db, s)
    BY <2>3, KeysAre DEF Clean
  <2>5. Listed(db)
    BY <2>3, KeysAre DEF Listed, ListedBut
  <2>6. \A s \in Session : Seems(Veiled(at[f], local[f]), Veiled(at'[f], local'[f]), s)
    BY <1>4, <2>1, <2>4 DEF Seems
  <2>7. WorksAlone(f, db', at'[f], pipe'[f], local'[f])
    BY <2>1 DEF WorksAlone
  <2>. QED  BY <1>0, <1>1, <2>1, <2>5, <2>6, <2>7, Stutter
<1>. QED  BY <1>6, <1>7, <1>8, <1>9, <1>10, <1>11 DEF FlusherNext

(* A flush that begins hides every session: in the service, it is done. *)
LEMMA FlushServes ==
  ASSUME RegistryAssumption, Serial, RegistryInv, AloneInv, NEW f \in Flusher, Flush(f)
  PROVE  AloneInv' /\ Service!Flush
<1>0. /\ f \in Client /\ f \notin Handler /\ f \notin Reaper /\ Sane
      /\ local[f] \in Locals
      /\ local = [c \in Client |-> local[c]] /\ at = [c \in Client |-> at[c]]
  BY Roles DEF RegistryInv, Sane, ClientOK
<1>1. /\ \A x \in Client : at[x] = "idle"
      /\ at'[f] = "flush types" /\ db' = db
      /\ local'[f].todo = {AgentSessions(t) : t \in db[ActiveAgents]}
  BY <1>0 DEF Flush, MayStart, Goto, Locals
<1>2. Moves(f)
  BY <1>0, FlusherActs DEF Acts
<1>3. Listed(db)
  BY <1>1 DEF AloneInv
<1>4. Left(db, TypeSets, local'[f].todo)
  <2>1. ASSUME NEW k \in TypeSets, db[k] # Absent(k) PROVE k \in local'[f].todo
    <3>1. PICK t \in AgentType : k = AgentSessions(t)
      BY OwnersApart
    <3>2. Absent(k) = {}
      BY KeysAre, KeysDiffer DEF Absent
    <3>. QED  BY <1>1, <1>3, <2>1, <3>1, <3>2 DEF Listed, ListedBut
  <2>. QED  BY <2>1 DEF Left
<1>5. WorksAlone(f, db', at'[f], pipe'[f], local'[f])
  BY <1>0, <1>1, <1>4 DEF WorksAlone, FlusherAlone, FlushPhases
<1>6. Veiled(at'[f], local'[f]) = Session
  BY <1>1 DEF Veiled, FlushPhases, Untracking
<1>7. AloneInv' /\ \A s \in Session : Hidden(s)'
  BY <1>0, <1>1, <1>2, <1>5, <1>6, AloneStep
<1>8. \A k \in IndexKeys : db'[k] \subseteq Session
  BY <1>0, <1>1, Holds DEF Sane
<1>9. Service!Flush
  BY <1>7, <1>8, KeysAre DEF Service!Flush
<1>. QED  BY <1>7, <1>9

(***************************************************************************)
(* A reap.                                                                 *)
(***************************************************************************)
LEMMA ReaperServes ==
  ASSUME RegistryAssumption, Serial, RegistryInv, DbOK(db'), AloneInv, NEW r \in Reaper, ReaperNext(r)
  PROVE  AloneInv' /\ UNCHANGED Service!vars
<1>0. /\ r \in Client /\ r \notin Handler /\ r \notin Flusher /\ Sane /\ DbOK(db)
      /\ local[r] \in Locals
      /\ pipe = [c \in Client |-> pipe[c]] /\ local = [c \in Client |-> local[c]]
      /\ at = [c \in Client |-> at[c]]
      /\ at[r] = "idle" => local[r] = NoLocals /\ pipe[r] = <<>>
      /\ at[r] \in {"reap", "check type", "card type"} => local[r].todo \subseteq TypeSets
      /\ at[r] \in {"check type", "card type"} => local[r].visit \in TypeSets
      /\ at[r] \in {"sweep", "check simulation", "card simulation"}
           => local[r].todo \subseteq SimulationSets
      /\ at[r] \in {"check simulation", "card simulation"} => local[r].visit \in SimulationSets
  BY Roles, ReaperFacts DEF RegistryInv, Sane, ClientOK
<1>1. at[r] # "idle" => ReaperAlone(db, at[r], pipe[r], local[r])
  BY <1>0 DEF AloneInv, WorksAlone
<1>2. ~Execute(r)
  BY <1>0, <1>1 DEF Execute, ReaperAlone
<1>3. Moves(r)
  BY <1>0, <1>2, ReapActs, VisitActs, CheckActs, PruneActs, CountReapedActs, CountSweptActs,
     ReapSimulationsActs, ReapedActs DEF Acts, ReaperNext
<1>4. at[r] # "idle" \/ Reap(r)
  BY <1>2 DEF ReaperNext, Visit, Check, Prune, CountReaped, CountSwept, ReapSimulations, Reaped, Ready
<1>5. at[r] # "idle" \/ \A x \in Client : at[x] = "idle"
  BY <1>4 DEF Reap, MayStart
<1>6. Listed(db) /\ \A s \in Session : Agrees(db, s)
  <2>1. Listed(db)
    BY <1>1, <1>5 DEF AloneInv, ReaperAlone
  <2>2. \A s \in Session : ~Hidden(s)
    <3>1. \A x \in Client \ {r} : at[x] = "idle"
      BY <1>0, <1>5 DEF AloneInv, OneAtWork
    <3>2. WorksAlone(r, db, at[r], pipe[r], local[r])
      BY <1>0 DEF AloneInv
    <3>3. Veiled(at[r], local[r]) = {}
      <4>1. at[r] \in Visiting \cup Sweeping \cup {"idle"}
        BY <1>1 DEF ReaperAlone
      <4>. QED  BY <4>1 DEF Veiled, Visiting, Sweeping, Untracking, FlushPhases
    <3>. QED  BY <1>0, <3>1, <3>2, <3>3, HidesAlone, HiddenIsHidesIn
  <2>. QED  BY <2>1, <2>2 DEF AloneInv
<1>7. ASSUME db' = db, at'[r] = "idle" \/ ReaperAlone(db, at'[r], pipe'[r], local'[r])
      PROVE  AloneInv' /\ UNCHANGED Service!vars
  <2>1. Veiled(at[r], local[r]) = {} /\ Veiled(at'[r], local'[r]) = {}
    <3>1. /\ at[r] \in Visiting \cup Sweeping \cup {"idle"}
          /\ at'[r] \in Visiting \cup Sweeping \cup {"idle"}
      BY <1>1, <1>7 DEF ReaperAlone
    <3>. QED  BY <3>1 DEF Veiled, Visiting, Sweeping, Untracking, FlushPhases
  <2>2. \A s \in Session : Seems(Veiled(at[r], local[r]), Veiled(at'[r], local'[r]), s)
    BY <1>7, <2>1 DEF Seems, Alike
  <2>3. WorksAlone(r, db', at'[r], pipe'[r], local'[r])
    BY <1>0, <1>7 DEF WorksAlone
  <2>. QED  BY <1>0, <1>3, <1>5, <1>6, <1>7, <2>2, <2>3, Stutter
<1>8. CASE Reap(r)
  <2>1. /\ at[r] = "idle" /\ at'[r] = "reap" /\ db' = db /\ pipe'[r] = <<>>
        /\ local'[r].stale = local[r].stale
    BY <1>0, <1>8 DEF Reap, MayStart, Goto, Locals
  <2>2. local[r].stale = {}
    BY <1>0, <2>1 DEF NoLocals
  <2>. QED  BY <1>6, <1>7, <2>1, <2>2 DEF ReaperAlone, Visiting, Sweeping
<1>9. CASE Visit(r)
  <2>1. PICK k \in local[r].todo :
          /\ at[r] \in {"reap", "sweep"} /\ db' = db /\ pipe' = pipe
          /\ IF at[r] = "reap" /\ db[k] = {}
             THEN local' = [local EXCEPT ![r].todo = @ \ {k}] /\ at' = at
             ELSE /\ local' = [local EXCEPT ![r].todo = @ \ {k}, ![r].visit = k,
                                            ![r].ids = db[k], ![r].stale = {}]
                  /\ at' = [at EXCEPT ![r] = IF at[r] = "reap" THEN "check type"
                                             ELSE "check simulation"]
    BY <1>9 DEF Visit, Goto
  <2>2. at[r] # "idle" /\ ReaperAlone(db, at[r], pipe[r], local[r])
    BY <1>1, <2>1
  <2>3. CASE at[r] = "reap" /\ db[k] = {}
    <3>1. at'[r] = at[r] /\ local'[r].stale = local[r].stale /\ pipe'[r] = pipe[r]
      BY <1>0, <2>1, <2>3 DEF Locals
    <3>. QED  BY <1>7, <2>1, <2>2, <2>3, <3>1 DEF ReaperAlone, Sweeping
  <2>4. CASE ~(at[r] = "reap" /\ db[k] = {})
    <3>4. at'[r] = (IF at[r] = "reap" THEN "check type" ELSE "check simulation") /\ pipe'[r] = pipe[r]
      BY <1>0, <2>1, <2>4
    <3>5. local' = [local EXCEPT ![r].todo = @ \ {k}, ![r].visit = k, ![r].ids = db[k],
                                 ![r].stale = {}]
      BY <2>1, <2>4
    <3>1. /\ local'[r].stale = {} /\ local'[r].visit = k /\ local'[r].ids = db[k]
          /\ local'[r].todo = local[r].todo \ {k}
      BY <1>0, <3>5 DEF Locals
    <3>2. db[k] # {}
      BY <2>1, <2>2, <2>4 DEF ReaperAlone, Sweeping
    <3>3. at[r] = "sweep" => \A j \in local[r].todo : db[j] # {}
      BY <2>2 DEF ReaperAlone, Sweeping
    <3>. QED  BY <1>7, <2>1, <2>2, <3>1, <3>2, <3>3, <3>4 DEF ReaperAlone, Visiting, Sweeping
  <2>. QED  BY <2>3, <2>4
<1>10. CASE Check(r)
  <2>1. PICK s \in local[r].ids :
          /\ at[r] \in {"check type", "check simulation"} /\ db' = db /\ at' = at
          /\ local' = [local EXCEPT ![r].ids = @ \ {s},
                                    ![r].stale = IF db[SessionKey(s)] = Nil THEN @ \cup {s} ELSE @]
          /\ pipe' = [pipe EXCEPT ![r] =
               IF db[SessionKey(s)] = Nil /\ at[r] = "check simulation"
               THEN <<Del(SessionSimulation(s))>> ELSE <<>>]
    BY <1>10 DEF Check, Send
  <2>2. ReaperAlone(db, at[r], pipe[r], local[r])
    BY <1>1, <2>1
  <2>3. s \in Session /\ s \in db[local[r].visit] /\ Agrees(db, s)
    BY <1>0, <1>6, <2>1, <2>2 DEF ReaperAlone, Locals
  <2>4. db[SessionKey(s)] # Nil
    <3>1. CASE at[r] = "check type"
      <4>1. PICK t \in AgentType : local[r].visit = AgentSessions(t)
        BY <1>0, <3>1, OwnersApart
      <4>. QED  BY <2>3, <4>1 DEF Agrees, RegistryAssumption
    <3>2. CASE at[r] = "check simulation"
      <4>1. PICK m \in Simulation : local[r].visit = SimulationSessions(m)
        BY <1>0, <3>2, OwnersApart
      <4>. QED  BY <2>3, <4>1 DEF Agrees, RegistryAssumption
    <3>. QED  BY <2>1, <3>1, <3>2
  <2>5. local' = [local EXCEPT ![r].ids = local[r].ids \ {s}, ![r].stale = local[r].stale]
    BY <2>1, <2>4
  <2>6. /\ local'[r].stale = local[r].stale /\ local'[r].ids = local[r].ids \ {s}
        /\ local'[r].visit = local[r].visit /\ local'[r].todo = local[r].todo
    BY <1>0, <2>5 DEF Locals
  <2>7. at'[r] = at[r] /\ pipe'[r] = <<>>
    BY <1>0, <2>1, <2>4
  <2>. QED  BY <1>7, <2>1, <2>2, <2>6, <2>7 DEF ReaperAlone
<1>11. CASE Prune(r)
  <2>1. /\ at[r] \in {"check type", "check simulation"} /\ pipe' = pipe /\ local' = local
        /\ db' = Run(SRem(local[r].visit, local[r].stale), db)
        /\ at'[r] = IF at[r] = "check type" THEN "card type" ELSE "card simulation"
    BY <1>0, <1>11 DEF Prune, Do
  <2>2. ReaperAlone(db, at[r], pipe[r], local[r])
    BY <1>1, <2>1
  <2>3. local[r].stale = {} /\ local[r].visit \in IndexKeys
    BY <1>0, <2>1, <2>2, KeysAre DEF ReaperAlone
  <2>4. db' = db
    <3>1. SRem(local[r].visit, {}) \in Commands
      BY <2>3, CommandsAre
    <3>2. Result(SRem(local[r].visit, {}), db) = db[local[r].visit]
      BY DEF Result, SRem
    <3>3. SRem(local[r].visit, {}).key = local[r].visit
      BY DEF SRem
    <3>4. db = [j \in Key |-> db[j]]
      BY <1>0 DEF DbOK
    <3>5. [db EXCEPT ![local[r].visit] = db[local[r].visit]] = db
      BY <3>4
    <3>6. Run(SRem(local[r].visit, {}), db) = db
      BY <3>2, <3>3, <3>5 DEF Run
    <3>. QED  BY <2>1, <2>3, <3>6
  <2>. QED  BY <1>7, <2>1, <2>2, <2>4 DEF ReaperAlone, Visiting, Sweeping
<1>12. CASE CountReaped(r)
  <2>1. at[r] = "card type" /\ db' = db /\ local' = local /\ at'[r] = "reap"
    BY <1>0, <1>12 DEF CountReaped, Goto, Ready
  <2>2. ReaperAlone(db, at[r], pipe[r], local[r]) /\ db[local[r].visit] # {}
    BY <1>1, <2>1 DEF ReaperAlone
  <2>3. pipe'[r] = <<>>
    BY <1>0, <1>12, <2>2 DEF CountReaped, Send
  <2>. QED  BY <1>7, <2>1, <2>2, <2>3 DEF ReaperAlone, Visiting, Sweeping
<1>13. CASE CountSwept(r)
  <2>1. at[r] = "card simulation" /\ db' = db /\ local' = local /\ at'[r] = "sweep"
    BY <1>0, <1>13 DEF CountSwept, Goto, Ready
  <2>2. ReaperAlone(db, at[r], pipe[r], local[r]) /\ db[local[r].visit] # {}
    BY <1>1, <2>1 DEF ReaperAlone
  <2>3. pipe'[r] = <<>>
    BY <1>0, <1>13, <2>2 DEF CountSwept, Send
  <2>. QED  BY <1>7, <2>1, <2>2, <2>3 DEF ReaperAlone, Visiting, Sweeping
<1>14. CASE ReapSimulations(r)
  <2>1. /\ at[r] = "reap" /\ db' = db /\ pipe' = pipe /\ at'[r] = "sweep"
        /\ local'[r].stale = local[r].stale
        /\ local'[r].todo = Present({SimulationSessions(m) : m \in Simulation})
    BY <1>0, <1>14 DEF ReapSimulations, Goto, Ready, Locals
  <2>2. ReaperAlone(db, at[r], pipe[r], local[r])
    BY <1>1, <2>1
  <2>3. \A k \in local'[r].todo : db[k] # {}
    <3>1. ASSUME NEW k \in local'[r].todo PROVE db[k] # {}
      <4>1. PICK m \in Simulation : k = SimulationSessions(m) /\ db[k] # Absent(k)
        BY <2>1, <3>1 DEF Present
      <4>2. Absent(k) = {}
        BY <4>1, KeysAre, KeysDiffer DEF Absent
      <4>. QED  BY <4>1, <4>2
    <3>. QED  BY <3>1
  <2>. QED  BY <1>7, <2>1, <2>2, <2>3 DEF ReaperAlone, Visiting, Sweeping
<1>15. CASE Reaped(r)
  <2>1. db' = db /\ at'[r] = "idle"
    BY <1>0, <1>15 DEF Reaped, Return, Goto
  <2>. QED  BY <1>7, <2>1
<1>. QED  BY <1>2, <1>8, <1>9, <1>10, <1>11, <1>12, <1>13, <1>14, <1>15 DEF ReaperNext

(***************************************************************************)
(* A request.                                                              *)
(***************************************************************************)
LEMMA HandlerFinds ==
  ASSUME RegistryAssumption, RegistryInv, AloneInv, NEW h \in Handler, at[h] # "idle"
  PROVE  /\ Sane /\ DbOK(db) /\ h \in Client /\ h \notin Flusher /\ h \notin Reaper
         /\ HandlerAlone(db, at[h], pipe[h], local[h])
         /\ pipe[h] = <<>> => Found(at[h], local[h], db)
<1>1. Sane /\ DbOK(db) /\ h \in Client /\ h \notin Flusher /\ h \notin Reaper
  BY Roles DEF RegistryInv, Sane
<1>2. HandlerAlone(db, at[h], pipe[h], local[h])
  BY <1>1 DEF AloneInv, WorksAlone
<1>3. pipe[h] = <<>> => Found(at[h], local[h], db)
  BY <1>2, SettlesNow DEF HandlerAlone
<1>. QED  BY <1>1, <1>2, <1>3

LEMMA HandlerWorks ==
  ASSUME RegistryAssumption, NEW h \in Handler, NEW d, NEW a, NEW p, NEW l,
         a = "idle" \/ HandlerAlone(d, a, p, l)
  PROVE  WorksAlone(h, d, a, p, l)
BY Roles DEF WorksAlone

(* What the service shows while one client works. *)
LEMMA Unveiled ==
  ASSUME RegistryAssumption, AloneInv, NEW c \in Client,
         at[c] # "idle" \/ \A x \in Client : at[x] = "idle"
  PROVE  /\ \A s \in Session : Hidden(s) <=> s \in Veiled(at[c], local[c])
         /\ \A s \in Session \ Veiled(at[c], local[c]) : Agrees(db, s)
<1>1. \A x \in Client \ {c} : at[x] = "idle"
  BY DEF AloneInv, OneAtWork
<1>2. WorksAlone(c, db, at[c], pipe[c], local[c])
  BY DEF AloneInv
<1>3. \A s \in Session : Hidden(s) <=> s \in Veiled(at[c], local[c])
  BY <1>1, <1>2, HidesAlone, HiddenIsHidesIn
<1>. QED  BY <1>3 DEF AloneInv

(* Every command of a pipeline stutters. *)
LEMMA ExecuteServes ==
  ASSUME RegistryAssumption, RegistryInv, DbOK(db'), AloneInv, NEW h \in Handler, Execute(h)
  PROVE  AloneInv' /\ UNCHANGED Service!vars
<1>1. /\ Sane /\ h \in Client /\ pipe[h] # <<>> /\ at' = at /\ local' = local
      /\ db' = Run(Head(pipe[h]), db) /\ pipe' = [pipe EXCEPT ![h] = Tail(pipe[h])]
  BY Roles DEF RegistryInv, Execute, Send
<1>2. /\ at[h] # "idle" /\ pipe[h] \in Seq(Commands) /\ pipe'[h] = Tail(pipe[h])
  BY <1>1 DEF Sane, ClientOK
<1>3. HandlerAlone(db, at[h], pipe[h], local[h])
  BY <1>2, HandlerFinds
<1>4. Settles(db, pipe[h], at[h], local[h])
  BY <1>3 DEF HandlerAlone
<1>5. /\ Settles(db', Tail(pipe[h]), at[h], local[h])
      /\ \A z \in Session \ Veiled(at[h], local[h]) : Alike(db, db', z)
  BY <1>1, <1>2, <1>4, SettlesOn
<1>6. HandlerAlone(db', at'[h], pipe'[h], local'[h])
  BY <1>1, <1>2, <1>3, <1>5 DEF HandlerAlone
<1>7. WorksAlone(h, db', at'[h], pipe'[h], local'[h])
  BY <1>6, HandlerWorks
<1>8. \A s \in Session : Seems(Veiled(at[h], local[h]), Veiled(at'[h], local'[h]), s)
  BY <1>1, <1>5 DEF Seems
<1>9. Moves(h)
  BY <1>1, ExecuteActs DEF Acts
<1>10. at'[h] # "idle"
  BY <1>1, <1>2
<1>. QED  BY <1>1, <1>2, <1>7, <1>8, <1>9, <1>10, Stutter

(* Sessions of a new request are in no key, and from now on the service does not
   show them. *)
LEMMA BatchTrackSessionsServes ==
  ASSUME RegistryAssumption, Serial, RegistryInv, DbOK(db'), AloneInv, NEW h \in Handler,
         BatchTrackSessions(h)
  PROVE  AloneInv' /\ UNCHANGED Service!vars
<1>0. /\ Sane /\ DbOK(db) /\ h \in Client /\ \A x \in Client : at[x] = "idle"
      /\ db' = db /\ pipe' = pipe /\ at' = [at EXCEPT ![h] = "track"]
  BY Roles DEF RegistryInv, Sane, BatchTrackSessions, MayStart, Goto
<1>1. local[h] = NoLocals /\ pipe[h] = <<>>
  BY <1>0 DEF Sane, ClientOK
<1>2. PICK n \in 1 .. MaxBatch, sim \in Simulation \cup {Nil} :
      \E ids \in [1 .. n -> Session \ used], type \in [1 .. n -> AgentType] :
        /\ \A i, j \in 1 .. n : ids[i] = ids[j] => i = j
        /\ local' = [local EXCEPT ![h].batch =
             [i \in 1 .. n |-> [session |-> ids[i], type |-> type[i], sim |-> sim]]]
        /\ used' = used \cup {ids[i] : i \in 1 .. n}
  BY DEF BatchTrackSessions
<1>3. PICK ids \in [1 .. n -> Session \ used], type \in [1 .. n -> AgentType] :
        /\ \A i, j \in 1 .. n : ids[i] = ids[j] => i = j
        /\ local' = [local EXCEPT ![h].batch =
             [i \in 1 .. n |-> [session |-> ids[i], type |-> type[i], sim |-> sim]]]
        /\ used' = used \cup {ids[i] : i \in 1 .. n}
  BY <1>2
<1>4. /\ local'[h].batch = [i \in 1 .. n |-> [session |-> ids[i], type |-> type[i], sim |-> sim]]
      /\ local'[h].next = 1
  <2>. DEFINE b == [i \in 1 .. n |-> [session |-> ids[i], type |-> type[i], sim |-> sim]]
  <2>1. local = [c \in Client |-> local[c]] /\ local' = [local EXCEPT ![h].batch = b]
    BY <1>0, <1>3 DEF Sane
  <2>. HIDE DEF b
  <2>2. local'[h] = [NoLocals EXCEPT !.batch = b]
    BY <1>0, <1>1, <2>1
  <2>. QED  BY <2>2 DEF NoLocals, b
<1>5. \A i \in DOMAIN local'[h].batch :
        i \in Nat /\ i >= 1 /\ local'[h].batch[i].session \in Session \ used
  BY <1>4
<1>6. at'[h] = "track" /\ pipe'[h] = <<>>
  BY <1>0, <1>1 DEF Sane
<1>7. Veiled(at[h], local[h]) = {}
  BY <1>0 DEF Veiled, FlushPhases, Untracking
<1>8. \A s \in Session \ used : Clean(db, s)
  <2>1. ASSUME NEW s \in Session \ used PROVE Clean(db, s)
    <3>1. \A k \in IndexKeys : s \notin db[k]
      BY DEF RegistryInv, FreshUnseen, Fresh
    <3>2. Agrees(db, s)
      BY <1>0, <1>7, Unveiled
    <3>. QED  BY <1>0, <3>1, <3>2, UnseenClean
  <2>. QED  BY <2>1
<1>9. Found("track", local'[h], db)
  <2>1. Listed(db)
    BY <1>0 DEF AloneInv
  <2>2. \A i \in DOMAIN local'[h].batch : ~(i < local'[h].next) /\ Clean(db, local'[h].batch[i].session)
    BY <1>4, <1>5, <1>8
  <2>. QED  BY <2>1, <2>2 DEF Found, Counting
<1>10. WorksAlone(h, db', at'[h], pipe'[h], local'[h])
  <2>1. Settles(db, <<>>, "track", local'[h])
    BY <1>9, SettlesNow
  <2>2. HandlerAlone(db, "track", <<>>, local'[h])
    BY <2>1 DEF HandlerAlone
  <2>. QED  BY <1>0, <1>6, <2>2, HandlerWorks
<1>11. \A s \in Session : Seems(Veiled(at[h], local[h]), Veiled(at'[h], local'[h]), s)
  <2>1. \A s \in Veiled(at'[h], local'[h]) : Clean(db, s)
    BY <1>5, <1>6, <1>8 DEF Veiled
  <2>2. \A s \in Session : Alike(db, db', s)
    BY <1>0 DEF Alike
  <2>. QED  BY <1>7, <2>1, <2>2 DEF Seems
<1>12. Moves(h)
  BY <1>0, BatchTrackSessionsActs DEF Acts
<1>. QED  BY <1>0, <1>6, <1>10, <1>11, <1>12, Stutter

(* What an entry that is tracked makes of a database. *)
LEMMA WithEntryIs ==
  ASSUME RegistryAssumption, NEW d, DbOK(d), NEW e \in Entry
  PROVE  /\ \A z \in Session \ {e.session} : Alike(d, WithEntry(d, e), z)
         /\ Listed(d) => Listed(WithEntry(d, e))
         /\ Clean(d, e.session) =>
              /\ Agrees(WithEntry(d, e), e.session)
              /\ WithEntry(d, e)[SessionKey(e.session)] = e.type
              /\ WithEntry(d, e)[SessionSimulation(e.session)] = e.sim
<1>. DEFINE s == e.session
            t == e.type
            m == e.sim
            x == WithEntry(d, e)
<1>1. s \in Session /\ t \in AgentType /\ m \in Simulation \cup {Nil}
  BY DEF Entry
<1>2. \A k \in Key : x[k] =
        IF k = SessionKey(s) THEN t
        ELSE IF k = AgentSessions(t) THEN d[k] \cup {s}
        ELSE IF k = ActiveAgents THEN d[k] \cup {t}
        ELSE IF m = Nil THEN d[k]
        ELSE IF k = SimulationSessions(m) THEN d[k] \cup {s}
        ELSE IF k = SessionSimulation(s) THEN m
        ELSE IF k = ActiveSimulations THEN d[k] \cup {m}
        ELSE d[k]
  BY DEF WithEntry
<1>. HIDE DEF s, t, m, x
<1>13. ASSUME NEW k \in Key, k # SessionKey(s), k # AgentSessions(t), k # ActiveAgents,
              m # Nil => /\ k # SimulationSessions(m) /\ k # SessionSimulation(s)
                         /\ k # ActiveSimulations
       PROVE  x[k] = d[k]
  BY <1>2, <1>13
<1>3. x[SessionKey(s)] = t
  BY <1>1, <1>2, KeysAre
<1>4. ASSUME NEW z \in Session \ {s}
      PROVE  x[SessionKey(z)] = d[SessionKey(z)] /\ x[SessionSimulation(z)] = d[SessionSimulation(z)]
  <2>1. /\ SessionKey(z) \in Key /\ SessionKey(z) \notin IndexKeys \cup ActiveKeys
        /\ SessionSimulation(z) \in Key /\ SessionSimulation(z) \notin IndexKeys \cup ActiveKeys
    BY KeysAre, KeysDiffer
  <2>2. /\ AgentSessions(t) \in IndexKeys /\ ActiveAgents \in ActiveKeys
        /\ ActiveSimulations \in ActiveKeys
        /\ m # Nil => SimulationSessions(m) \in IndexKeys
    BY <1>1, KeysAre
  <2>3. /\ SessionKey(z) # SessionKey(s) /\ SessionKey(z) # SessionSimulation(s)
        /\ SessionSimulation(z) # SessionKey(s) /\ SessionSimulation(z) # SessionSimulation(s)
    BY <1>1, KeysDiffer, SimulationKeysDiffer
  <2>4. \A k \in IndexKeys \cup ActiveKeys : k # SessionKey(z) /\ k # SessionSimulation(z)
    BY <2>1
  <2>5. x[SessionKey(z)] = d[SessionKey(z)]
    BY <1>13, <2>1, <2>2, <2>3, <2>4
  <2>6. x[SessionSimulation(z)] = d[SessionSimulation(z)]
    BY <1>13, <2>1, <2>2, <2>3, <2>4
  <2>. QED  BY <2>5, <2>6
<1>5. ASSUME NEW u \in AgentType
      PROVE  x[AgentSessions(u)] = IF u = t THEN d[AgentSessions(u)] \cup {s} ELSE d[AgentSessions(u)]
  <2>1. m = Nil \/ m \in Simulation
    BY <1>1
  <2>2. /\ AgentSessions(u) \in Key
        /\ AgentSessions(u) = AgentSessions(t) => u = t
    BY <1>1, KeysAre, OwnersApart
  <2>3. /\ AgentSessions(u) # SessionKey(s) /\ AgentSessions(u) # SessionSimulation(s)
        /\ AgentSessions(u) # ActiveAgents /\ AgentSessions(u) # ActiveSimulations
        /\ m \in Simulation => AgentSessions(u) # SimulationSessions(m)
    BY <1>1, KeysAre, KeysDiffer, KeysApart
  <2>4. CASE u = t
    <3>1. AgentSessions(t) \in Key /\ AgentSessions(t) # SessionKey(s)
      BY <2>2, <2>3, <2>4
    <3>2. x[AgentSessions(t)] = d[AgentSessions(t)] \cup {s}
      BY <1>2, <3>1
    <3>. QED  BY <2>4, <3>2
  <2>5. CASE u # t
    <3>1. x[AgentSessions(u)] = d[AgentSessions(u)]
      BY <1>13, <2>1, <2>2, <2>3, <2>5
    <3>. QED  BY <2>5, <3>1
  <2>. QED  BY <2>4, <2>5
<1>6. ASSUME NEW n \in Simulation
      PROVE  x[SimulationSessions(n)] = IF n = m THEN d[SimulationSessions(n)] \cup {s}
                                        ELSE d[SimulationSessions(n)]
  <2>1. m = Nil \/ m \in Simulation
    BY <1>1
  <2>2. /\ SimulationSessions(n) \in Key
        /\ m \in Simulation /\ SimulationSessions(n) = SimulationSessions(m) => n = m
        /\ n # Nil
    BY <1>1, KeysAre, OwnersApart DEF RegistryAssumption
  <2>3. /\ SimulationSessions(n) # SessionKey(s) /\ SimulationSessions(n) # SessionSimulation(s)
        /\ SimulationSessions(n) # ActiveAgents /\ SimulationSessions(n) # ActiveSimulations
        /\ SimulationSessions(n) # AgentSessions(t)
    BY <1>1, KeysAre, KeysDiffer, KeysApart
  <2>. QED  BY <1>2, <2>1, <2>2, <2>3
<1>7. /\ x[ActiveAgents] = d[ActiveAgents] \cup {t}
      /\ x[ActiveSimulations] = IF m = Nil THEN d[ActiveSimulations] ELSE d[ActiveSimulations] \cup {m}
  <2>1. m = Nil \/ m \in Simulation
    BY <1>1
  <2>2. /\ ActiveAgents \in Key /\ ActiveSimulations \in Key /\ ActiveAgents # ActiveSimulations
        /\ ActiveAgents # SessionKey(s) /\ ActiveSimulations # SessionKey(s)
        /\ ActiveSimulations # SessionSimulation(s)
        /\ ActiveAgents # AgentSessions(t) /\ ActiveSimulations # AgentSessions(t)
        /\ m \in Simulation => ActiveSimulations # SimulationSessions(m)
    BY <1>1, KeysAre, KeysDiffer, KeysApart
  <2>. QED  BY <1>2, <2>1, <2>2
<1>8. d[SessionSimulation(s)] = Nil => x[SessionSimulation(s)] = m
  <2>1. m = Nil \/ m \in Simulation
    BY <1>1
  <2>2. /\ SessionSimulation(s) \in Key
        /\ SessionSimulation(s) # SessionKey(s) /\ SessionSimulation(s) # ActiveAgents
        /\ SessionSimulation(s) # AgentSessions(t)
        /\ m \in Simulation => SessionSimulation(s) # SimulationSessions(m)
    BY <1>1, KeysAre, KeysDiffer, KeysApart
  <2>. QED  BY <1>2, <2>1, <2>2
<1>9. ASSUME NEW z \in Session \ {s} PROVE Alike(d, x, z)
  <2>1. ASSUME NEW k \in IndexKeys PROVE z \in x[k] <=> z \in d[k]
    <3>1. CASE k \in TypeSets
      <4>1. PICK u \in AgentType : k = AgentSessions(u)
        BY <3>1, OwnersApart
      <4>. QED  BY <1>5, <4>1
    <3>2. CASE k \in SimulationSets
      <4>1. PICK n \in Simulation : k = SimulationSessions(n)
        BY <3>2, OwnersApart
      <4>. QED  BY <1>6, <4>1
    <3>. QED  BY <3>1, <3>2, KeysAre
  <2>. QED  BY <1>4, <2>1 DEF Alike
<1>10. ASSUME Listed(d) PROVE Listed(x)
  <2>1. ASSUME NEW u \in AgentType
        PROVE  /\ x[AgentSessions(u)] # {} => u \in x[ActiveAgents]
               /\ u \in x[ActiveAgents] => x[AgentSessions(u)] # {} \/ u = Nil
    BY <1>5, <1>7, <1>10 DEF Listed, ListedBut
  <2>2. ASSUME NEW n \in Simulation
        PROVE  /\ x[SimulationSessions(n)] # {} => n \in x[ActiveSimulations]
               /\ n \in x[ActiveSimulations] => x[SimulationSessions(n)] # {} \/ n = Nil
    BY <1>6, <1>7, <1>10 DEF Listed, ListedBut, RegistryAssumption
  <2>. QED  BY <2>1, <2>2 DEF Listed, ListedBut
<1>11. ASSUME Clean(d, s)
       PROVE  Agrees(x, s) /\ x[SessionKey(s)] = t /\ x[SessionSimulation(s)] = m
  <2>1. /\ x[SessionSimulation(s)] = m
        /\ \A u \in AgentType : s \notin d[AgentSessions(u)]
        /\ \A n \in Simulation : s \notin d[SimulationSessions(n)]
    BY <1>8, <1>11, KeysAre DEF Clean
  <2>2. \A u \in AgentType : s \in x[AgentSessions(u)] <=> x[SessionKey(s)] = u
    BY <1>3, <1>5, <2>1
  <2>3. \A n \in Simulation : s \in x[SimulationSessions(n)] <=> x[SessionSimulation(s)] = n
    BY <1>6, <2>1
  <2>4. x[SessionKey(s)] # Nil
    BY <1>1, <1>3 DEF RegistryAssumption
  <2>. QED  BY <1>3, <2>1, <2>2, <2>3, <2>4 DEF Agrees
<1>. QED  BY <1>9, <1>10, <1>11 DEF s, t, m, x

(* Its pipeline is sent. *)
LEMMA TrackEntryServes ==
  ASSUME RegistryAssumption, RegistryInv, DbOK(db'), AloneInv, NEW h \in Handler, TrackEntry(h)
  PROVE  AloneInv' /\ UNCHANGED Service!vars
<1>. DEFINE n == local[h].next
            e == local[h].batch[n]
            l == local'[h]
<1>0. /\ at[h] = "track" /\ pipe[h] = <<>> /\ db' = db /\ at' = at /\ n <= Len(local[h].batch)
      /\ pipe' = [pipe EXCEPT ![h] = TrackCommands(e)]
      /\ local' = [local EXCEPT ![h].next = n + 1]
  BY DEF TrackEntry, Ready, Send
<1>1. /\ Sane /\ DbOK(db) /\ h \in Client
      /\ Found("track", local[h], db)
  BY <1>0, HandlerFinds
<1>2. /\ local[h] \in Locals /\ local[h].batch \in Seq(Entry) /\ n \in 1 .. Len(local[h].batch) + 1
      /\ n \in Nat /\ n \in DOMAIN local[h].batch /\ e \in Entry
      /\ \A i \in DOMAIN local[h].batch : i \in Nat /\ local[h].batch[i].session \in Session
  <2>1. /\ local[h] \in Locals /\ local[h].batch \in Seq(Entry) /\ n \in 1 .. Len(local[h].batch) + 1
    BY <1>1, HandlerFacts
  <2>2. n \in Nat /\ n \in DOMAIN local[h].batch
    BY <1>0, <2>1
  <2>. QED  BY <1>1, <2>1, <2>2, EntriesAre
<1>3. l.batch = local[h].batch /\ l.next = n + 1 /\ pipe'[h] = TrackCommands(e)
  BY <1>0, <1>1, <1>2 DEF Locals, Sane
<1>4. \A i \in DOMAIN local[h].batch : i # n => local[h].batch[i].session # e.session
  BY <1>2 DEF RegistryInv, BatchesApart
<1>5. /\ Listed(db)
      /\ \A i \in DOMAIN local[h].batch :
           IF i < n
           THEN /\ Agrees(db, local[h].batch[i].session)
                /\ db[SessionKey(local[h].batch[i].session)] = local[h].batch[i].type
                /\ db[SessionSimulation(local[h].batch[i].session)] = local[h].batch[i].sim
           ELSE Clean(db, local[h].batch[i].session)
  BY <1>1 DEF Found
<1>. HIDE DEF n, e, l
<1>6. Found("track", l, WithEntry(db, e))
  <2>. DEFINE x == WithEntry(db, e)
  <2>1. /\ \A z \in Session \ {e.session} : Alike(db, x, z)
        /\ Listed(x)
        /\ Clean(db, e.session) => /\ Agrees(x, e.session) /\ x[SessionKey(e.session)] = e.type
                                   /\ x[SessionSimulation(e.session)] = e.sim
    BY <1>1, <1>2, <1>5, WithEntryIs
  <2>2. Clean(db, e.session)
    BY <1>2, <1>5 DEF e
  <2>. HIDE DEF x
  <2>3. ASSUME NEW i \in DOMAIN l.batch
        PROVE  IF i < l.next
               THEN /\ Agrees(x, l.batch[i].session)
                    /\ x[SessionKey(l.batch[i].session)] = l.batch[i].type
                    /\ x[SessionSimulation(l.batch[i].session)] = l.batch[i].sim
               ELSE Clean(x, l.batch[i].session)
    <3>. DEFINE z == local[h].batch[i].session
    <3>1. i \in DOMAIN local[h].batch /\ l.batch[i] = local[h].batch[i] /\ i \in Nat /\ z \in Session
      BY <1>2, <1>3
    <3>2. CASE i = n
      BY <1>2, <1>3, <2>1, <2>2, <3>1, <3>2 DEF e
    <3>3. CASE i < n
      <4>1. Alike(db, x, z)
        BY <1>2, <1>4, <2>1, <3>1, <3>3
      <4>2. Agrees(x, z)
        BY <1>5, <3>1, <3>3, <4>1, AgreesAlike
      <4>3. i < l.next
        BY <1>2, <1>3, <3>1, <3>3
      <4>. QED  BY <1>5, <3>1, <3>3, <4>1, <4>2, <4>3 DEF Alike
    <3>4. CASE i > n
      <4>1. Alike(db, x, z)
        BY <1>2, <1>4, <2>1, <3>1, <3>4
      <4>2. ~(i < l.next) /\ ~(i < n)
        BY <1>2, <1>3, <3>1, <3>4
      <4>3. Clean(db, z)
        BY <1>5, <3>1, <4>2
      <4>4. Clean(x, z)
        BY <4>1, <4>3 DEF Alike, Clean
      <4>. QED  BY <3>1, <4>2, <4>4
    <3>. QED  BY <1>2, <3>1, <3>2, <3>3, <3>4
  <2>. QED  BY <2>1, <2>3 DEF Found, Counting, x
<1>7. Veiled("track", l) = Veiled("track", local[h]) /\ e.session \in Veiled("track", l)
  BY <1>2, <1>3 DEF Veiled, e
<1>8. Settles(db, TrackCommands(e), "track", l)
  BY <1>1, <1>2, <1>6, <1>7, TrackSettles
<1>9. WorksAlone(h, db', at'[h], pipe'[h], local'[h])
  <2>1. HandlerAlone(db, "track", TrackCommands(e), l)
    BY <1>8 DEF HandlerAlone
  <2>. QED  BY <1>0, <1>3, <2>1, HandlerWorks DEF l
<1>10. \A s \in Session : Seems(Veiled(at[h], local[h]), Veiled(at'[h], local'[h]), s)
  BY <1>0, <1>7 DEF Seems, Alike, l
<1>11. Moves(h)
  BY <1>1, TrackEntryActs DEF Acts
<1>. QED  BY <1>0, <1>1, <1>9, <1>10, <1>11, Stutter

(* The batch is tracked: the service shows its sessions, all at once. *)
LEMMA EnqueueServes ==
  ASSUME RegistryAssumption, RegistryInv, DbOK(db'), AloneInv, NEW h \in Handler, Enqueue(h)
  PROVE  AloneInv' /\ Service!Next
<1>. DEFINE b == local[h].batch
            B == {b[i].session : i \in DOMAIN b}
            type == [s \in B |-> db[SessionKey(s)]]
            sim == [s \in B |-> db[SessionSimulation(s)]]
<1>0. /\ at[h] = "track" /\ pipe[h] = <<>> /\ db' = db /\ pipe' = pipe
      /\ local[h].next > Len(b)
      /\ Return(h) \/ (Goto(h, "untrack") /\ local' = [local EXCEPT ![h].next = 1])
  BY DEF Enqueue, Ready
<1>1. Sane /\ DbOK(db) /\ h \in Client /\ Found("track", local[h], db)
  BY <1>0, HandlerFinds
<1>2. \A i \in DOMAIN b : /\ i < local[h].next /\ b[i].session \in Session
                          /\ b[i].type \in AgentType /\ b[i].sim \in Simulation \cup {Nil}
  <2>1. b \in Seq(Entry) /\ local[h].next \in 1 .. Len(b) + 1
    BY <1>1, HandlerFacts
  <2>2. \A i \in DOMAIN b : i < local[h].next
    BY <1>0, <2>1
  <2>. QED  BY <1>1, <2>2, EntriesAre
<1>3. /\ Listed(db)
      /\ \A i \in DOMAIN b : /\ Agrees(db, b[i].session) /\ db[SessionKey(b[i].session)] = b[i].type
                             /\ db[SessionSimulation(b[i].session)] = b[i].sim
  BY <1>1, <1>2 DEF Found
<1>4. Veiled(at[h], local[h]) = B
  BY <1>0 DEF Veiled
<1>. HIDE DEF b
<1>5. /\ B \subseteq Session
      /\ \A s \in B : /\ Agrees(db, s) /\ db[SessionKey(s)] \in AgentType
                      /\ db[SessionSimulation(s)] \in Simulation \cup {Nil}
  BY <1>2, <1>3
<1>. HIDE DEF B
<1>6. \A s \in Session : Agrees(db, s)
  BY <1>0, <1>1, <1>4, <1>5, Unveiled
<1>7. at'[h] \in {"idle", "untrack"} /\ pipe'[h] = <<>>
  BY <1>0, <1>1 DEF Sane, Return, Goto
<1>8. WorksAlone(h, db', at'[h], pipe'[h], local'[h])
  <2>1. Found("untrack", local'[h], db)
    BY <1>3 DEF Found, Counting
  <2>2. HandlerAlone(db, "untrack", <<>>, local'[h])
    BY <2>1, SettlesNow DEF HandlerAlone
  <2>. QED  BY <1>0, <1>7, <2>2, HandlerWorks
<1>9. Veiled(at'[h], local'[h]) = {}
  BY <1>7 DEF Veiled, Untracking, FlushPhases
<1>10. Moves(h) /\ at[h] # "idle"
  BY <1>0, <1>1, EnqueueActs DEF Acts
<1>11. AloneInv' /\ \A s \in Session : (Hidden(s) <=> s \in B) /\ ~(Hidden(s)')
  BY <1>0, <1>1, <1>3, <1>4, <1>6, <1>8, <1>9, <1>10, AloneStep
<1>12. type \in [B -> AgentType] /\ sim \in [B -> Simulation \cup {Nil}] /\ DOMAIN type = B
  BY <1>5
<1>13. \A s \in Session : /\ s \in B => type[s] = db[SessionKey(s)]
                          /\ s \in B => sim[s] = db[SessionSimulation(s)]
  OBVIOUS
<1>. HIDE DEF type, sim
<1>14. \A t \in AgentType : {s \in db'[AgentSessions(t)] : ~(Hidden(s)')}
                              = {s \in db[AgentSessions(t)] : ~Hidden(s)} \cup {s \in B : type[s] = t}
  <2>1. ASSUME NEW t \in AgentType
        PROVE  {s \in db[AgentSessions(t)] : ~(Hidden(s)')}
                 = {s \in db[AgentSessions(t)] : ~Hidden(s)} \cup {s \in B : type[s] = t}
    <3>1. db[AgentSessions(t)] \subseteq Session
      BY <1>1, Holds, KeysAre
    <3>2. \A s \in B : s \in db[AgentSessions(t)] <=> type[s] = t
      BY <1>5, <1>13 DEF Agrees
    <3>. QED  BY <1>5, <1>11, <3>1, <3>2
  <2>. QED  BY <1>0, <2>1
<1>15. \A m \in Simulation : {s \in db'[SimulationSessions(m)] : ~(Hidden(s)')}
                               = {s \in db[SimulationSessions(m)] : ~Hidden(s)} \cup {s \in B : sim[s] = m}
  <2>1. ASSUME NEW m \in Simulation
        PROVE  {s \in db[SimulationSessions(m)] : ~(Hidden(s)')}
                 = {s \in db[SimulationSessions(m)] : ~Hidden(s)} \cup {s \in B : sim[s] = m}
    <3>1. db[SimulationSessions(m)] \subseteq Session
      BY <1>1, Holds, KeysAre
    <3>2. \A s \in B : s \in db[SimulationSessions(m)] <=> sim[s] = m
      BY <1>5, <1>13 DEF Agrees
    <3>. QED  BY <1>5, <1>11, <3>1, <3>2
  <2>. QED  BY <1>0, <2>1
<1>16. Service!BatchTrackSessions(type, sim)
  BY <1>0, <1>5, <1>11, <1>12, <1>13, <1>14, <1>15 DEF Service!BatchTrackSessions
<1>17. Service!Next
  BY <1>5, <1>12, <1>16 DEF Service!Next
<1>. QED  BY <1>11, <1>17

(***************************************************************************)
(* UntrackSession.                                                         *)
(***************************************************************************)
(* The session whose type is read leaves the service. *)
LEMMA FindAgentTypeServes ==
  ASSUME RegistryAssumption, RegistryInv, DbOK(db'), AloneInv, NEW h \in Handler, FindAgentType(h)
  PROVE  AloneInv' /\ Service!Next
<1>. DEFINE s == Current(h)
<1>0. /\ at[h] = "untrack" /\ pipe[h] = <<>> /\ db' = db /\ pipe' = pipe
      /\ local[h].next <= Len(local[h].batch)
      /\ local' = [local EXCEPT ![h].type = db[SessionKey(s)]]
      /\ at' = [at EXCEPT ![h] = "simulation"]
  BY DEF FindAgentType, Ready, Goto
<1>1. Sane /\ DbOK(db) /\ h \in Client /\ Found("untrack", local[h], db)
  BY <1>0, HandlerFinds
<1>2. s \in Session /\ local[h] \in Locals
  BY <1>0, <1>1, HandlerFacts
<1>3. /\ local'[h].batch = local[h].batch /\ local'[h].next = local[h].next
      /\ local'[h].type = db[SessionKey(s)]
      /\ at'[h] = "simulation" /\ pipe'[h] = <<>>
  BY <1>0, <1>1, <1>2 DEF Locals, Sane
<1>4. s = local'[h].batch[local'[h].next].session
  BY <1>3 DEF Current
<1>. HIDE DEF s
<1>5. Veiled(at[h], local[h]) = {} /\ Veiled(at'[h], local'[h]) = {s}
  BY <1>0, <1>3, <1>4 DEF Veiled, Untracking, FlushPhases
<1>6. \A z \in Session : Agrees(db, z)
  BY <1>0, <1>1, <1>5, Unveiled
<1>7. Listed(db)
  BY <1>1 DEF Found
<1>8. WorksAlone(h, db', at'[h], pipe'[h], local'[h])
  <2>1. Found("simulation", local'[h], db)
    BY <1>2, <1>3, <1>4, <1>6, <1>7 DEF Found, Counting
  <2>2. HandlerAlone(db, "simulation", <<>>, local'[h])
    BY <2>1, SettlesNow DEF HandlerAlone, Untracking
  <2>. QED  BY <1>0, <1>3, <2>2, HandlerWorks
<1>9. Moves(h) /\ at[h] # "idle"
  BY <1>0, <1>1, FindAgentTypeActs DEF Acts
<1>10. AloneInv' /\ \A z \in Session : ~Hidden(z) /\ (Hidden(z)' <=> z = s)
  BY <1>0, <1>1, <1>5, <1>6, <1>7, <1>8, <1>9, AloneStep
<1>11. ASSUME NEW t \in AgentType
       PROVE  {z \in db'[AgentSessions(t)] : ~(Hidden(z)')}
                = IF t = (IF Hidden(s) THEN Nil ELSE db[SessionKey(s)])
                  THEN {z \in db[AgentSessions(t)] : ~Hidden(z)} \ {s}
                  ELSE {z \in db[AgentSessions(t)] : ~Hidden(z)}
  <2>1. db[AgentSessions(t)] \subseteq Session /\ ~Hidden(s)
    BY <1>1, <1>2, <1>10, Holds, KeysAre
  <2>2. s \in db[AgentSessions(t)] <=> db[SessionKey(s)] = t
    BY <1>2, <1>6 DEF Agrees
  <2>3. /\ {z \in db'[AgentSessions(t)] : ~(Hidden(z)')} = db[AgentSessions(t)] \ {s}
        /\ {z \in db[AgentSessions(t)] : ~Hidden(z)} = db[AgentSessions(t)]
    BY <1>0, <1>10, <2>1
  <2>. QED  BY <2>1, <2>2, <2>3
<1>12. ASSUME NEW m \in Simulation
       PROVE  {z \in db'[SimulationSessions(m)] : ~(Hidden(z)')}
                = IF m = (IF Hidden(s) THEN Nil ELSE db[SessionSimulation(s)])
                  THEN {z \in db[SimulationSessions(m)] : ~Hidden(z)} \ {s}
                  ELSE {z \in db[SimulationSessions(m)] : ~Hidden(z)}
  <2>1. db[SimulationSessions(m)] \subseteq Session /\ ~Hidden(s)
    BY <1>1, <1>2, <1>10, Holds, KeysAre
  <2>2. s \in db[SimulationSessions(m)] <=> db[SessionSimulation(s)] = m
    BY <1>2, <1>6 DEF Agrees
  <2>3. /\ {z \in db'[SimulationSessions(m)] : ~(Hidden(z)')} = db[SimulationSessions(m)] \ {s}
        /\ {z \in db[SimulationSessions(m)] : ~Hidden(z)} = db[SimulationSessions(m)]
    BY <1>0, <1>10, <2>1
  <2>. QED  BY <2>1, <2>2, <2>3
<1>13. \A z \in Session :
         /\ (IF Hidden(z) THEN Nil ELSE db[SessionKey(z)])'
              = IF z = s THEN Nil ELSE IF Hidden(z) THEN Nil ELSE db[SessionKey(z)]
         /\ (IF Hidden(z) THEN Nil ELSE db[SessionSimulation(z)])'
              = IF z = s THEN Nil ELSE IF Hidden(z) THEN Nil ELSE db[SessionSimulation(z)]
  BY <1>0, <1>10
<1>14. Service!UntrackSession(s)
  BY <1>2, <1>11, <1>12, <1>13 DEF Service!UntrackSession
<1>15. Service!Next
  BY <1>2, <1>14 DEF Service!Next
<1>. QED  BY <1>10, <1>15

(* What is left of a database once a session is removed. *)
LEMMA WithoutSessionIs ==
  ASSUME RegistryAssumption, NEW d, DbOK(d), NEW s \in Session, Agrees(d, s), Listed(d),
         NEW t, NEW m, t = d[SessionKey(s)], m = d[SessionSimulation(s)]
  PROVE  Clean(WithoutSession(d, s, t, m), s) /\ ListedBut(WithoutSession(d, s, t, m), t, m)
<1>. DEFINE x == WithoutSession(d, s, t, m)
<1>1. t \in AgentType \cup {Nil} /\ m \in Simulation \cup {Nil}
  BY Holds
<1>2. \A k \in Key : x[k] =
        IF k = SessionKey(s) \/ k = SessionSimulation(s) THEN Nil
        ELSE IF t # Nil /\ k = AgentSessions(t) THEN d[k] \ {s}
        ELSE IF m # Nil /\ k = SimulationSessions(m) THEN d[k] \ {s}
        ELSE d[k]
  BY DEF WithoutSession
<1>. HIDE DEF x
<1>3. x[SessionKey(s)] = Nil /\ x[SessionSimulation(s)] = Nil
  BY <1>2, KeysAre
<1>4. ASSUME NEW u \in AgentType
      PROVE  x[AgentSessions(u)] = d[AgentSessions(u)] \ {s}
  <2>1. /\ AgentSessions(u) \in Key
        /\ AgentSessions(u) # SessionKey(s) /\ AgentSessions(u) # SessionSimulation(s)
    BY KeysAre, KeysDiffer
  <2>2. m # Nil => AgentSessions(u) # SimulationSessions(m)
    BY <1>1, KeysApart
  <2>3. x[AgentSessions(u)] \in {d[AgentSessions(u)], d[AgentSessions(u)] \ {s}}
    BY <1>2, <2>1
  <2>4. CASE u = t
    <3>1. t # Nil
      BY <2>4 DEF RegistryAssumption
    <3>. QED  BY <1>2, <2>1, <2>4, <3>1
  <2>5. CASE u # t
    <3>1. s \notin d[AgentSessions(u)]
      BY <2>5 DEF Agrees
    <3>. QED  BY <2>3, <3>1
  <2>. QED  BY <2>4, <2>5
<1>5. ASSUME NEW n \in Simulation
      PROVE  x[SimulationSessions(n)] = d[SimulationSessions(n)] \ {s}
  <2>1. /\ SimulationSessions(n) \in Key
        /\ SimulationSessions(n) # SessionKey(s) /\ SimulationSessions(n) # SessionSimulation(s)
    BY KeysAre, KeysDiffer
  <2>2. t # Nil => SimulationSessions(n) # AgentSessions(t)
    BY <1>1, KeysApart
  <2>3. x[SimulationSessions(n)] \in {d[SimulationSessions(n)], d[SimulationSessions(n)] \ {s}}
    BY <1>2, <2>1
  <2>4. CASE n = m
    <3>1. m # Nil
      BY <2>4 DEF RegistryAssumption
    <3>. QED  BY <1>2, <2>1, <2>2, <2>4, <3>1
  <2>5. CASE n # m
    <3>1. s \notin d[SimulationSessions(n)]
      BY <2>5 DEF Agrees
    <3>. QED  BY <2>3, <3>1
  <2>. QED  BY <2>4, <2>5
<1>6. x[ActiveAgents] = d[ActiveAgents] /\ x[ActiveSimulations] = d[ActiveSimulations]
  <2>1. ASSUME NEW k \in ActiveKeys PROVE x[k] = d[k]
    <3>1. /\ k \in Key /\ k # SessionKey(s) /\ k # SessionSimulation(s)
          /\ t # Nil => k # AgentSessions(t)
          /\ m # Nil => k # SimulationSessions(m)
      BY <1>1, KeysAre, KeysDiffer
    <3>. QED  BY <1>2, <3>1
  <2>. QED  BY <2>1, KeysAre
<1>7. Clean(x, s)
  <2>1. ASSUME NEW k \in IndexKeys PROVE s \notin x[k]
    <3>1. CASE k \in TypeSets
      <4>1. PICK u \in AgentType : k = AgentSessions(u)
        BY <3>1, OwnersApart
      <4>. QED  BY <1>4, <4>1
    <3>2. CASE k \in SimulationSets
      <4>1. PICK n \in Simulation : k = SimulationSessions(n)
        BY <3>2, OwnersApart
      <4>. QED  BY <1>5, <4>1
    <3>. QED  BY <3>1, <3>2, KeysAre
  <2>. QED  BY <1>3, <2>1 DEF Clean
<1>8. ListedBut(x, t, m)
  <2>1. ASSUME NEW u \in AgentType
        PROVE  /\ x[AgentSessions(u)] # {} => u \in x[ActiveAgents]
               /\ u \in x[ActiveAgents] => x[AgentSessions(u)] # {} \/ u = t
    <3>3. u # t => s \notin d[AgentSessions(u)]
      BY DEF Agrees
    <3>1. u # t => x[AgentSessions(u)] = d[AgentSessions(u)]
      <4>1. x[AgentSessions(u)] = d[AgentSessions(u)] \ {s}
        BY <1>4
      <4>2. s \notin d[AgentSessions(u)] => d[AgentSessions(u)] \ {s} = d[AgentSessions(u)]
        <5>1. d[AgentSessions(u)] \subseteq Session
          BY Holds, KeysAre
        <5>. QED  BY <5>1
      <4>. QED  BY <3>3, <4>1, <4>2
    <3>2. /\ d[AgentSessions(u)] # {} => u \in d[ActiveAgents]
          /\ u \in d[ActiveAgents] => d[AgentSessions(u)] # {}
      BY DEF Listed, ListedBut, RegistryAssumption
    <3>. QED  BY <1>4, <1>6, <3>1, <3>2
  <2>2. ASSUME NEW n \in Simulation
        PROVE  /\ x[SimulationSessions(n)] # {} => n \in x[ActiveSimulations]
               /\ n \in x[ActiveSimulations] => x[SimulationSessions(n)] # {} \/ n = m
    <3>3. n # m => s \notin d[SimulationSessions(n)]
      BY DEF Agrees
    <3>1. n # m => x[SimulationSessions(n)] = d[SimulationSessions(n)]
      <4>1. x[SimulationSessions(n)] = d[SimulationSessions(n)] \ {s}
        BY <1>5
      <4>2. s \notin d[SimulationSessions(n)] => d[SimulationSessions(n)] \ {s} = d[SimulationSessions(n)]
        <5>1. d[SimulationSessions(n)] \subseteq Session
          BY Holds, KeysAre
        <5>. QED  BY <5>1
      <4>. QED  BY <3>3, <4>1, <4>2
    <3>2. /\ d[SimulationSessions(n)] # {} => n \in d[ActiveSimulations]
          /\ n \in d[ActiveSimulations] => d[SimulationSessions(n)] # {}
      BY DEF Listed, ListedBut, RegistryAssumption
    <3>. QED  BY <1>5, <1>6, <3>1, <3>2
  <2>. QED  BY <2>1, <2>2 DEF ListedBut
<1>. QED  BY <1>7, <1>8 DEF x

(* Its keys are deleted and it is taken out of its sets, which no one sees. *)
LEMMA FindSimulationServes ==
  ASSUME RegistryAssumption, MaxErrors = 0, RegistryInv, DbOK(db'), AloneInv, NEW h \in Handler,
         FindSimulation(h)
  PROVE  AloneInv' /\ UNCHANGED Service!vars
<1>. DEFINE s == Current(h)
            t == local[h].type
            m == db[SessionSimulation(s)]
<1>0. /\ at[h] = "simulation" /\ pipe[h] = <<>> /\ db' = db
      /\ pipe' = [pipe EXCEPT ![h] = UntrackCommands(s, t, m)]
      /\ local' = [local EXCEPT ![h].sim = m]
      /\ at' = [at EXCEPT ![h] = "count type"]
  <2>1. ~(errors < MaxErrors)
    BY DEF RegistryInv, Sane
  <2>. QED  BY <2>1 DEF FindSimulation, Leave, Ready, Goto, Send
<1>1. Sane /\ DbOK(db) /\ h \in Client /\ Found("simulation", local[h], db)
  BY <1>0, HandlerFinds
<1>2. s \in Session /\ local[h] \in Locals /\ t \in AgentType \cup {Nil}
  BY <1>0, <1>1, HandlerFacts DEF Untracking
<1>3. m \in Simulation \cup {Nil}
  BY <1>1, <1>2, Holds
<1>4. /\ local'[h].batch = local[h].batch /\ local'[h].next = local[h].next
      /\ local'[h].type = t /\ local'[h].sim = m
      /\ at'[h] = "count type" /\ pipe'[h] = UntrackCommands(s, t, m)
  BY <1>0, <1>1, <1>2 DEF Locals, Sane
<1>5. s = local[h].batch[local[h].next].session
  BY DEF Current
<1>. HIDE DEF s
<1>6. Veiled(at[h], local[h]) = {s} /\ Veiled(at'[h], local'[h]) = {s}
  BY <1>0, <1>4, <1>5 DEF Veiled, Untracking
<1>7. Listed(db) /\ Agrees(db, s) /\ t = db[SessionKey(s)]
  BY <1>1, <1>5 DEF Found
<1>. HIDE DEF t, m
<1>8. Clean(WithoutSession(db, s, t, m), s) /\ ListedBut(WithoutSession(db, s, t, m), t, m)
  BY <1>1, <1>2, <1>7, WithoutSessionIs DEF m
<1>9. Found("count type", local'[h], WithoutSession(db, s, t, m))
  BY <1>4, <1>5, <1>8 DEF Found, Counting
<1>10. Settles(db, UntrackCommands(s, t, m), "count type", local'[h])
  BY <1>1, <1>2, <1>3, <1>4, <1>6, <1>9, UntrackSettles
<1>11. WorksAlone(h, db', at'[h], pipe'[h], local'[h])
  <2>1. HandlerAlone(db, "count type", UntrackCommands(s, t, m), local'[h])
    BY <1>10 DEF HandlerAlone, Untracking
  <2>. QED  BY <1>0, <1>4, <2>1, HandlerWorks
<1>12. \A z \in Session : Seems(Veiled(at[h], local[h]), Veiled(at'[h], local'[h]), z)
  BY <1>0, <1>6 DEF Seems, Alike
<1>13. Moves(h) /\ at[h] # "idle" /\ at'[h] # "idle"
  BY <1>0, <1>1, <1>4, FindSimulationActs DEF Acts
<1>. QED  BY <1>1, <1>11, <1>12, <1>13, Stutter

(* A command the pipeline may send, alone. *)
LEMMA SettlesOne ==
  ASSUME NEW d, NEW c \in Commands, NEW a, NEW l, Found(a, l, Run(c, d)),
         \A z \in Session \ Veiled(a, l) : Alike(d, Run(c, d), z)
  PROVE  Settles(d, <<c>>, a, l)
<1>1. <<>> \in Seq(Commands) /\ <<c>> = <<c>> \o <<>>
  OBVIOUS
<1>2. Settles(Run(c, d), <<>>, a, l)
  BY SettlesNow
<1>. QED  BY <1>1, <1>2, SettlesBefore

(* The lists are shortened, which no one sees either. *)
LEMMA CountTypeServes ==
  ASSUME RegistryAssumption, RegistryInv, DbOK(db'), AloneInv, NEW h \in Handler, CountType(h)
  PROVE  AloneInv' /\ UNCHANGED Service!vars
<1>. DEFINE s == local[h].batch[local[h].next].session
            t == local[h].type
            m == local[h].sim
            c == SRem(ActiveAgents, {t})
            p == IF t # Nil /\ db[AgentSessions(t)] = {} THEN <<c>> ELSE <<>>
            a == "count simulation"
<1>0. /\ at[h] = "count type" /\ pipe[h] = <<>> /\ db' = db /\ local' = local
      /\ pipe' = [pipe EXCEPT ![h] = p] /\ at' = [at EXCEPT ![h] = a]
  BY DEF CountType, Ready, Goto, Send
<1>1. Sane /\ DbOK(db) /\ h \in Client /\ Found("count type", local[h], db)
  BY <1>0, HandlerFinds
<1>2. t \in AgentType \cup {Nil}
  BY <1>1, HandlerFacts
<1>3. at'[h] = a /\ pipe'[h] = p
  BY <1>0, <1>1 DEF Sane
<1>4. Veiled(at[h], local[h]) = {s} /\ Veiled(a, local[h]) = {s}
  BY <1>0 DEF Veiled, Untracking
<1>5. Clean(db, s) /\ ListedBut(db, t, m)
  BY <1>1 DEF Found, Counting
<1>. HIDE DEF s, t, m, c
<1>6. ASSUME t # Nil, db[AgentSessions(t)] = {}
      PROVE  Settles(db, p, a, local[h])
  <2>1. c \in Commands /\ c.op = "SREM" /\ c.key = ActiveAgents
    BY <1>2, <1>6, CommandsAre DEF SRem, c
  <2>2. \A k \in Key : Run(c, db)[k] = IF k = ActiveAgents THEN db[k] \ {t} ELSE db[k]
    <3>. DEFINE ts == {t}
    <3>1. DbOK(db) /\ SRem(ActiveAgents, ts) \in Commands
      BY <1>1, <2>1 DEF c
    <3>. HIDE DEF ts
    <3>2. \A k \in Key : Run(SRem(ActiveAgents, ts), db)[k]
                           = IF k = ActiveAgents THEN db[k] \ ts ELSE db[k]
      BY <3>1, SRemEffect
    <3>. QED  BY <3>2 DEF c, ts
  <2>3. /\ \A k \in IndexKeys \cup StringKeys : k \in Key /\ k # ActiveAgents
        /\ ActiveAgents \in Key /\ ActiveSimulations \in Key /\ ActiveAgents # ActiveSimulations
    BY KeysAre, KeysDiffer
  <2>4. /\ \A k \in IndexKeys \cup StringKeys : Run(c, db)[k] = db[k]
        /\ Run(c, db)[ActiveAgents] = db[ActiveAgents] \ {t}
        /\ Run(c, db)[ActiveSimulations] = db[ActiveSimulations]
    BY <2>2, <2>3
  <2>. DEFINE x == Run(c, db)
  <2>. HIDE DEF x
  <2>5. \A z \in Session : Alike(db, x, z)
    BY <2>4, KeysAre DEF Alike, x
  <2>6. Clean(x, s) /\ ListedBut(x, Nil, m)
    <3>1. Clean(x, s)
      <4>1. s \in Session
        BY <1>0, <1>1, EntriesAre DEF s, Untracking
      <4>. QED  BY <1>5, <2>5, <4>1 DEF Alike, Clean
    <3>2. ASSUME NEW u \in AgentType
          PROVE  /\ x[AgentSessions(u)] # {} => u \in x[ActiveAgents]
                 /\ u \in x[ActiveAgents] => x[AgentSessions(u)] # {} \/ u = Nil
      <4>1. x[AgentSessions(u)] = db[AgentSessions(u)] /\ x[ActiveAgents] = db[ActiveAgents] \ {t}
        BY <2>4, KeysAre DEF x
      <4>. QED  BY <1>5, <1>6, <4>1 DEF ListedBut
    <3>3. ASSUME NEW n \in Simulation
          PROVE  /\ x[SimulationSessions(n)] # {} => n \in x[ActiveSimulations]
                 /\ n \in x[ActiveSimulations] => x[SimulationSessions(n)] # {} \/ n = m
      <4>1. /\ x[SimulationSessions(n)] = db[SimulationSessions(n)]
            /\ x[ActiveSimulations] = db[ActiveSimulations]
        BY <2>4, KeysAre DEF x
      <4>. QED  BY <1>5, <4>1 DEF ListedBut
    <3>. QED  BY <3>1, <3>2, <3>3 DEF ListedBut
  <2>7. Found(a, local[h], x)
    BY <2>6 DEF Found, Counting, s, m
  <2>8. Settles(db, <<c>>, a, local[h])
    BY <2>1, <2>5, <2>7, SettlesOne DEF x
  <2>9. p = <<c>>
    BY <1>6
  <2>. QED  BY <2>8, <2>9
<1>7. ASSUME ~(t # Nil /\ db[AgentSessions(t)] = {})
      PROVE  Settles(db, p, a, local[h])
  <2>1. ListedBut(db, Nil, m)
    BY <1>5, <1>7 DEF ListedBut, RegistryAssumption
  <2>2. Found(a, local[h], db)
    BY <1>5, <2>1 DEF Found, Counting, s, m
  <2>3. p = <<>>
    BY <1>7
  <2>. HIDE DEF p
  <2>. QED  BY <2>2, <2>3, SettlesNow
<1>8. Settles(db, p, a, local[h])
  BY <1>6, <1>7
<1>. HIDE DEF p
<1>9. WorksAlone(h, db', at'[h], pipe'[h], local'[h])
  <2>1. HandlerAlone(db, a, p, local[h])
    BY <1>8 DEF HandlerAlone, Untracking
  <2>. QED  BY <1>0, <1>3, <2>1, HandlerWorks
<1>10. \A z \in Session : Seems(Veiled(at[h], local[h]), Veiled(at'[h], local'[h]), z)
  BY <1>0, <1>3, <1>4 DEF Seems, Alike
<1>11. Moves(h) /\ at[h] # "idle" /\ at'[h] # "idle"
  BY <1>0, <1>1, <1>3, CountTypeActs DEF Acts
<1>. QED  BY <1>1, <1>9, <1>10, <1>11, Stutter

LEMMA CountSimulationServes ==
  ASSUME RegistryAssumption, RegistryInv, DbOK(db'), AloneInv, NEW h \in Handler, CountSimulation(h)
  PROVE  AloneInv' /\ UNCHANGED Service!vars
<1>. DEFINE s == local[h].batch[local[h].next].session
            m == local[h].sim
            b == Del(SimulationSessions(m))
            c == SRem(ActiveSimulations, {m})
            p == IF m # Nil /\ db[SimulationSessions(m)] = {} THEN <<b, c>> ELSE <<>>
            a == "untracked"
<1>0. /\ at[h] = "count simulation" /\ pipe[h] = <<>> /\ db' = db /\ local' = local
      /\ pipe' = [pipe EXCEPT ![h] = p] /\ at' = [at EXCEPT ![h] = a]
  BY DEF CountSimulation, Ready, Goto, Send
<1>1. Sane /\ DbOK(db) /\ h \in Client /\ Found("count simulation", local[h], db)
  BY <1>0, HandlerFinds
<1>2. m \in Simulation \cup {Nil}
  BY <1>1, HandlerFacts
<1>3. at'[h] = a /\ pipe'[h] = p
  BY <1>0, <1>1 DEF Sane
<1>4. Veiled(at[h], local[h]) = {s} /\ Veiled(a, local[h]) = {s}
  BY <1>0 DEF Veiled, Untracking
<1>5. Clean(db, s) /\ ListedBut(db, Nil, m)
  BY <1>1 DEF Found, Counting
<1>. HIDE DEF s, m, b, c
<1>6. ASSUME m # Nil, db[SimulationSessions(m)] = {}
      PROVE  Settles(db, p, a, local[h])
  <2>1. /\ SimulationSessions(m) \in IndexKeys /\ SimulationSessions(m) \in Key
        /\ Absent(SimulationSessions(m)) = {}
    BY <1>2, <1>6, KeysAre, KeysDiffer DEF Absent
  <2>2. b \in Commands /\ c \in Commands /\ c.op = "SREM" /\ c.key = ActiveSimulations
    BY <1>2, <1>6, <2>1, CommandsAre DEF SRem, b, c
  <2>3. \A k \in Key : Run(b, db)[k] = db[k]
    <3>1. Del(SimulationSessions(m)) \in Commands
      BY <2>2 DEF b
    <3>2. \A k \in Key : Run(Del(SimulationSessions(m)), db)[k]
                           = IF k = SimulationSessions(m) THEN Absent(k) ELSE db[k]
      BY <1>1, <3>1, DelEffect
    <3>. QED  BY <1>6, <2>1, <3>2 DEF b
  <2>. DEFINE y == Run(b, db)
  <2>4. DbOK(y)
    BY <1>1, <2>2, RunKeepsKinds
  <2>5. \A z \in Session : Alike(db, y, z)
    BY <2>3, KeysAre DEF Alike
  <2>6. /\ \A k \in IndexKeys \cup StringKeys : k \in Key /\ k # ActiveSimulations
        /\ ActiveAgents \in Key /\ ActiveSimulations \in Key /\ ActiveAgents # ActiveSimulations
    BY KeysAre, KeysDiffer
  <2>7. \A k \in Key : y[k] = db[k]
    BY <2>3
  <2>. HIDE DEF y
  <2>. DEFINE x == Run(c, y)
  <2>8. \A k \in Key : x[k] = IF k = ActiveSimulations THEN y[k] \ {m} ELSE y[k]
    BY <2>2, <2>4, SRemEffect DEF c
  <2>9. /\ \A k \in IndexKeys \cup StringKeys : x[k] = db[k]
        /\ x[ActiveSimulations] = db[ActiveSimulations] \ {m}
        /\ x[ActiveAgents] = db[ActiveAgents]
    <3>. HIDE DEF x
    <3>. QED  BY <2>6, <2>7, <2>8
  <2>. HIDE DEF x
  <2>10. \A z \in Session : Alike(y, x, z) /\ Alike(db, x, z)
    BY <2>6, <2>7, <2>9, KeysAre DEF Alike
  <2>11. Clean(x, s) /\ Listed(x)
    <3>1. Clean(x, s)
      <4>1. s \in Session
        BY <1>0, <1>1, EntriesAre DEF s, Untracking
      <4>. QED  BY <1>5, <2>10, <4>1 DEF Alike, Clean
    <3>2. ASSUME NEW u \in AgentType
          PROVE  /\ x[AgentSessions(u)] # {} => u \in x[ActiveAgents]
                 /\ u \in x[ActiveAgents] => x[AgentSessions(u)] # {} \/ u = Nil
      <4>1. x[AgentSessions(u)] = db[AgentSessions(u)] /\ x[ActiveAgents] = db[ActiveAgents]
        BY <2>9, KeysAre
      <4>. QED  BY <1>5, <4>1 DEF ListedBut
    <3>3. ASSUME NEW n \in Simulation
          PROVE  /\ x[SimulationSessions(n)] # {} => n \in x[ActiveSimulations]
                 /\ n \in x[ActiveSimulations] => x[SimulationSessions(n)] # {} \/ n = Nil
      <4>1. /\ x[SimulationSessions(n)] = db[SimulationSessions(n)]
            /\ x[ActiveSimulations] = db[ActiveSimulations] \ {m}
        BY <2>9, KeysAre
      <4>. QED  BY <1>5, <1>6, <4>1 DEF ListedBut
    <3>. QED  BY <3>1, <3>2, <3>3 DEF Listed, ListedBut
  <2>12. Found(a, local[h], x)
    BY <2>11 DEF Found, Counting, s
  <2>13. Settles(y, <<c>>, a, local[h])
    BY <2>2, <2>10, <2>12, SettlesOne DEF x
  <2>14. <<c>> \in Seq(Commands)
    BY <2>2
  <2>17. <<b, c>> = <<b>> \o <<c>>
    BY <2>2, PairJoined
  <2>15. Settles(db, <<b, c>>, a, local[h])
    BY <2>5, <2>13, <2>14, <2>17, SettlesBefore DEF y
  <2>16. p = <<b, c>>
    BY <1>6
  <2>. QED  BY <2>15, <2>16
<1>7. ASSUME ~(m # Nil /\ db[SimulationSessions(m)] = {})
      PROVE  Settles(db, p, a, local[h])
  <2>1. Listed(db)
    BY <1>5, <1>7 DEF Listed, ListedBut, RegistryAssumption
  <2>2. Found(a, local[h], db)
    BY <1>5, <2>1 DEF Found, Counting, s
  <2>3. p = <<>>
    BY <1>7
  <2>. HIDE DEF p
  <2>. QED  BY <2>2, <2>3, SettlesNow
<1>8. Settles(db, p, a, local[h])
  BY <1>6, <1>7
<1>. HIDE DEF p
<1>9. WorksAlone(h, db', at'[h], pipe'[h], local'[h])
  <2>1. HandlerAlone(db, a, p, local[h])
    BY <1>8 DEF HandlerAlone, Untracking
  <2>. QED  BY <1>0, <1>3, <2>1, HandlerWorks
<1>10. \A z \in Session : Seems(Veiled(at[h], local[h]), Veiled(at'[h], local'[h]), z)
  BY <1>0, <1>3, <1>4 DEF Seems, Alike
<1>11. Moves(h) /\ at[h] # "idle" /\ at'[h] # "idle"
  BY <1>0, <1>1, <1>3, CountSimulationActs DEF Acts
<1>. QED  BY <1>1, <1>9, <1>10, <1>11, Stutter

(* The call returns: there is nothing left to hide. *)
LEMMA UntrackedServes ==
  ASSUME RegistryAssumption, RegistryInv, DbOK(db'), AloneInv, NEW h \in Handler, Untracked(h)
  PROVE  AloneInv' /\ UNCHANGED Service!vars
<1>. DEFINE s == local[h].batch[local[h].next].session
<1>0. /\ at[h] = "untracked" /\ pipe[h] = <<>> /\ db' = db /\ pipe' = pipe
      /\ at' = [at EXCEPT ![h] = "idle"] \/ at' = [at EXCEPT ![h] = "untrack"]
  BY DEF Untracked, Ready, Return, Goto
<1>1. Sane /\ DbOK(db) /\ h \in Client /\ Found("untracked", local[h], db)
  BY <1>0, HandlerFinds
<1>2. at'[h] \in {"idle", "untrack"} /\ pipe'[h] = <<>>
  BY <1>0, <1>1 DEF Sane
<1>3. Veiled(at[h], local[h]) = {s} /\ Veiled(at'[h], local'[h]) = {}
  BY <1>0, <1>2 DEF Veiled, Untracking, FlushPhases
<1>4. Clean(db, s) /\ Listed(db)
  BY <1>1 DEF Found, Counting
<1>5. WorksAlone(h, db', at'[h], pipe'[h], local'[h])
  <2>1. Found("untrack", local'[h], db)
    BY <1>4 DEF Found, Counting
  <2>2. HandlerAlone(db, "untrack", <<>>, local'[h])
    BY <2>1, SettlesNow DEF HandlerAlone
  <2>. QED  BY <1>0, <1>2, <2>2, HandlerWorks
<1>6. \A z \in Session : Seems(Veiled(at[h], local[h]), Veiled(at'[h], local'[h]), z)
  <2>. HIDE DEF s
  <2>. QED  BY <1>0, <1>3, <1>4 DEF Seems, Alike
<1>7. Moves(h) /\ at[h] # "idle"
  BY <1>0, <1>1, UntrackedActs DEF Acts, RegistryInv
<1>. QED  BY <1>0, <1>1, <1>4, <1>5, <1>6, <1>7, Stutter

(***************************************************************************)
(* The refinement.                                                         *)
(***************************************************************************)
LEMMA AloneInvInit ==
  ASSUME RegistryAssumption, Init
  PROVE  AloneInv /\ Service!Init
<1>1. /\ \A c \in Client : at[c] = "idle"
      /\ \A s \in Session : SessionKey(s) \in StringKeys /\ SessionSimulation(s) \in StringKeys
      /\ \A k \in StringKeys : db[k] = Nil
      /\ \A k \in IndexKeys \cup ActiveKeys : db[k] = {}
  BY KeysAre, KeysDiffer DEF Init, Absent
<1>2. \A s : ~Hidden(s)
  <2>1. \A x \in Handler \cup Flusher :
          at[x] # "track" /\ at[x] \notin FlushPhases /\ at[x] \notin Untracking
    BY <1>1 DEF Client, FlushPhases, Untracking
  <2>2. \A s : ~HidesIn(at, local, s)
    BY <2>1 DEF HidesIn
  <2>. QED  BY <2>2, HiddenIsHidesIn
<1>3. \A s \in Session : Clean(db, s)
  BY <1>1 DEF Clean
<1>4. Listed(db)
  BY <1>1, KeysAre DEF Listed, ListedBut
<1>5. AloneInv
  BY <1>1, <1>3, <1>4, CleanAgrees DEF AloneInv, OneAtWork, WorksAlone
<1>6. /\ \A s \in Session : db[SessionKey(s)] = Nil /\ db[SessionSimulation(s)] = Nil
      /\ \A t \in AgentType : {s \in db[AgentSessions(t)] : ~Hidden(s)} = {}
      /\ \A m \in Simulation : {s \in db[SimulationSessions(m)] : ~Hidden(s)} = {}
  BY <1>1, KeysAre
<1>7. Service!Init
  BY <1>2, <1>6 DEF Service!Init
<1>. QED  BY <1>5, <1>7

LEMMA AloneInvStep ==
  ASSUME RegistryAssumption, Serial, MaxErrors = 0, "expiry" \notin Faults,
         RegistryInv, AloneInv, [Next]_vars
  PROVE  AloneInv' /\ [Service!Next]_(Service!vars)
<1>1. RegistryInv' /\ DbOK(db')
  BY RegistryInvStep DEF RegistryInv, Sane
<1>2. CASE UNCHANGED vars
  <2>1. db' = db /\ at' = at /\ pipe' = pipe /\ local' = local
    BY <1>2 DEF vars
  <2>2. \A s : Hidden(s)' <=> Hidden(s)
    BY <2>1, HiddenIsHidesIn
  <2>3. AloneInv'
    BY <2>1, <2>2 DEF AloneInv, OneAtWork
  <2>4. UNCHANGED Service!vars
    BY <2>1, <2>2 DEF Service!vars
  <2>. QED  BY <2>3, <2>4
<1>3. ASSUME NEW h \in Handler, HandlerNext(h) \/ BatchTrackSessions(h)
      PROVE  AloneInv' /\ [Service!Next]_(Service!vars)
  BY <1>1, <1>3, ExecuteServes, BatchTrackSessionsServes, TrackEntryServes, EnqueueServes,
     FindAgentTypeServes, FindSimulationServes, CountTypeServes, CountSimulationServes,
     UntrackedServes DEF HandlerNext
<1>4. ASSUME NEW f \in Flusher, FlusherNext(f) \/ Flush(f)
      PROVE  AloneInv' /\ [Service!Next]_(Service!vars)
  <2>1. CASE FlusherNext(f)
    BY <1>1, <2>1, FlushingStep
  <2>2. CASE Flush(f)
    BY <2>2, FlushServes DEF Service!Next
  <2>. QED  BY <1>4, <2>1, <2>2
<1>5. ASSUME NEW r \in Reaper, ReaperNext(r)
      PROVE  AloneInv' /\ [Service!Next]_(Service!vars)
  BY <1>1, <1>5, ReaperServes
<1>6. \A c \in Client : ~Cancel(c)
  BY DEF Cancel, RegistryInv, Sane
<1>7. /\ \A k \in StringKeys : ~Expire(k)
      /\ \A m \in Simulation : ~ExpireSimulation(m)
  BY DEF Expire, ExpireSimulation
<1>. QED  BY <1>2, <1>3, <1>4, <1>5, <1>6, <1>7 DEF Next

(* One client at a time, and nothing expires or is cut short: the registry in Redis
   does what the in-memory service does, step for step, for any requests, roll-backs,
   flushes and reaps; and whenever none is running, the lists of types and simulations
   are exact. *)
THEOREM ServesAlone ==
  ASSUME Serial, MaxErrors = 0, "expiry" \notin Faults
  PROVE  Spec => ServesExactly
<1>1. RegistryAssumption
  BY RegistryAssumption
<1>2. Init => AloneInv /\ Service!Init
  BY <1>1, AloneInvInit
<1>3. RegistryInv /\ AloneInv /\ [Next]_vars => AloneInv' /\ [Service!Next]_(Service!vars)
  BY <1>1, AloneInvStep
<1>4. RegistryInv /\ AloneInv => ListsExact
  <2>. SUFFICES ASSUME RegistryInv, AloneInv, \A c \in Client : at[c] = "idle"
                PROVE  /\ db[ActiveAgents] = {t \in AgentType : db[AgentSessions(t)] # {}}
                       /\ db[ActiveSimulations] = {m \in Simulation : db[SimulationSessions(m)] # {}}
    BY DEF ListsExact
  <2>1. db[ActiveAgents] \subseteq AgentType /\ db[ActiveSimulations] \subseteq Simulation
    BY Holds DEF RegistryInv, Sane
  <2>2. Listed(db)
    BY DEF AloneInv
  <2>3. /\ \A t \in AgentType : t \in db[ActiveAgents] <=> db[AgentSessions(t)] # {}
        /\ \A m \in Simulation : m \in db[ActiveSimulations] <=> db[SimulationSessions(m)] # {}
    BY <1>1, <2>2 DEF Listed, ListedBut, RegistryAssumption
  <2>. QED  BY <2>1, <2>3
<1>. QED  BY <1>2, <1>3, <1>4, RegistryInvariant, PTL
          DEF Spec, Service!Spec, ServesExactly, ServiceImplemented
=============================================================================
