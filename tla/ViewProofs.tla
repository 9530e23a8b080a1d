----------------------------- MODULE ViewProofs -----------------------------
(***************************************************************************)
(* Proofs about the race view, each of its parts by itself: an inductive   *)
(* invariant of the part, a lemma for each of its steps, and the theorem,  *)
(* which says of MCView's specification what MCView checks of it.  A step  *)
(* of another part leaves this one's variables alone.                      *)
(*                                                                         *)
(* The adds that go on when a load of the route settles are a recursive    *)
(* function.  The induction it needs, that it exists and what it returns,  *)
(* is done with the least number at which it would fail (LeastNat).        *)
(***************************************************************************)
EXTENDS MCView, TLAPS, WellFoundedInduction

LEMMA LeastNat ==
    ASSUME NEW T \in SUBSET Nat, T # {}
    PROVE  \E n \in T : \A m \in T : n <= m
<1>1. \E x \in T : \A y \in T : ~ (<<y, x>> \in OpToRel(<, Nat))
  BY NatLessThanWellFounded, WFMin
<1>2. PICK x \in T : \A y \in T : ~ (<<y, x>> \in OpToRel(<, Nat))
  BY <1>1
<1>3. \A y \in T : ~(y < x)
  BY <1>2 DEF OpToRel
<1>. QED  BY <1>3

(***************************************************************************)
(* The runners on the course.                                              *)
(***************************************************************************)
Runner == [at : 0 .. Goal, velocity : Speeds, race : Nat,
           status : {"running", "finished", "did-not-finish"}]

Runners == UNION {[D -> Runner] : D \in SUBSET Guids}

Mesh == [guid : Guids, finished : BOOLEAN]

Fields == [runners : Runners, meshes : Seq(Mesh), pending : [Guids -> Speeds \cup {None}]]

Roads == [route : Nat \cup {None}, lut : BOOLEAN, path : BOOLEAN, gen : Nat, shared : Nat \cup {None}]

Adds == [guid : Guids, race : Nat]

LoadSteps == {"texture", "start", "end"}

\* Its runners are of the race `now` and have the speed told last; what was told of a runner that
\* is not there is kept, and nothing else is.
UpToDate(f, now, said) ==
    /\ f \in Fields
    /\ \A g \in DOMAIN f.runners :
          /\ f.runners[g].race = now
          /\ f.runners[g].status = "running" => f.runners[g].velocity = said[g]
    /\ \A g \in Guids : IF f.pending[g] = None THEN g \in DOMAIN f.runners \/ said[g] = 0
                        ELSE f.pending[g] = said[g]

LoadsInv ==
    /\ DOMAIN loads \subseteq Nat /\ loads \in [DOMAIN loads -> LoadSteps]
    /\ waits \in [DOMAIN loads -> Seq(Adds)]

FieldInv ==
    /\ spline \in BOOLEAN /\ import \in {"idle", "approach", "drawing"}
    /\ begun \in BOOLEAN /\ over \in BOOLEAN /\ generation \in Nat
    /\ road \in Roads /\ told \in [Guids -> Speeds]
    /\ LoadsInv
    /\ UpToDate(field, generation, told)

LEMMA RunnersAre ==
    ASSUME NEW r
    PROVE  r \in Runners <=> DOMAIN r \subseteq Guids /\ r \in [DOMAIN r -> Runner]
BY DEF Runners

LEMMA RoadGone ==
    ASSUME NEW r \in Roads
    PROVE  Field!RemoveRunnerRoute(r) \in Roads /\ Field!RemoveRunnerRoute(r).shared = None
<1> DEFINE gen == r.gen + 1
<1>1. gen \in Nat
  BY DEF Roads
<1>2. Field!RemoveRunnerRoute(r) = [r EXCEPT !.route = None, !.lut = FALSE, !.gen = gen, !.shared = None]
  BY DEF Field!RemoveRunnerRoute
<1> HIDE DEF gen
<1>. QED  BY <1>1, <1>2 DEF Roads

\* A runner is put on the course.
LEMMA RunnerAdded ==
    ASSUME NEW f, NEW g \in Guids, NEW now \in Nat, NEW said \in [Guids -> Speeds],
           UpToDate(f, now, said)
    PROVE  UpToDate(Field!AddRunner(f, g, now), now, said)
<1> DEFINE new == [at |-> 0, velocity |-> 0, status |-> "running", race |-> now]
           old == IF g \in DOMAIN f.runners THEN f.runners
                  ELSE [h \in DOMAIN f.runners \cup {g} |-> IF h = g THEN new ELSE f.runners[h]]
           runners == IF f.pending[g] = None THEN old ELSE Field!SetVelocity(old, g, f.pending[g])
           pending == [f.pending EXCEPT ![g] = None]
           meshes == Append(f.meshes, [guid |-> g, finished |-> FALSE])
<1>1. Field!AddRunner(f, g, now) = [runners |-> runners, meshes |-> meshes, pending |-> pending]
  BY DEF Field!AddRunner
<1>2. /\ f.runners \in Runners /\ f.meshes \in Seq(Mesh) /\ f.pending \in [Guids -> Speeds \cup {None}]
      /\ DOMAIN f.runners \subseteq Guids /\ f.runners \in [DOMAIN f.runners -> Runner]
  BY RunnersAre DEF UpToDate, Fields
<1>3. new \in Runner /\ new.velocity = 0 /\ new.race = now
  BY FieldAssumption DEF Runner
<1>4. /\ DOMAIN old = DOMAIN f.runners \cup {g} /\ old \in [DOMAIN old -> Runner]
      /\ \A h \in DOMAIN f.runners : old[h] = f.runners[h]
      /\ g \notin DOMAIN f.runners => old[g] = new
  <2> HIDE DEF new
  <2>. QED  BY <1>2, <1>3
<1>5. old[g] \in Runner /\ old[g].race = now
      /\ (f.pending[g] = None /\ old[g].status = "running" => old[g].velocity = said[g])
  <2>1. CASE g \in DOMAIN f.runners
    BY <1>2, <1>4, <2>1 DEF UpToDate
  <2>2. CASE g \notin DOMAIN f.runners
    <3> HIDE DEF new
    <3>. QED  BY <1>3, <1>4, <2>2 DEF UpToDate
  <2>. QED  BY <2>1, <2>2
<1> HIDE DEF new, old
<1>6. /\ DOMAIN runners = DOMAIN old /\ runners \in [DOMAIN runners -> Runner]
      /\ \A h \in DOMAIN old \ {g} : runners[h] = old[h]
      /\ runners[g].race = now /\ (runners[g].status = "running" => runners[g].velocity = said[g])
  <2>1. CASE f.pending[g] = None
    BY <1>4, <1>5, <2>1
  <2>2. CASE f.pending[g] # None
    <3> DEFINE moved == [old[g] EXCEPT !.velocity = f.pending[g]]
    <3>1. f.pending[g] \in Speeds /\ f.pending[g] = said[g]
      BY <1>2, <2>2 DEF UpToDate
    <3>2. moved \in Runner /\ moved.race = now /\ moved.velocity = said[g]
      BY <1>5, <3>1 DEF Runner
    <3>3. runners = [old EXCEPT ![g] = moved]
      BY <2>2 DEF Field!SetVelocity
    <3> HIDE DEF moved, runners
    <3>. QED  BY <1>4, <3>2, <3>3
  <2>. QED  BY <2>1, <2>2
<1>7. /\ pending \in [Guids -> Speeds \cup {None}] /\ pending[g] = None
      /\ \A h \in Guids \ {g} : pending[h] = f.pending[h]
  BY <1>2
<1>8. meshes \in Seq(Mesh)
  <2> DEFINE mesh == [guid |-> g, finished |-> FALSE]
  <2>1. mesh \in Mesh
    BY DEF Mesh
  <2> HIDE DEF mesh
  <2>2. Append(f.meshes, mesh) \in Seq(Mesh)
    BY <1>2, <2>1
  <2>. QED  BY <2>2 DEF mesh
<1> HIDE DEF runners, pending, meshes
<1>9. runners \in Runners
  BY <1>2, <1>4, <1>6, RunnersAre
<1>10. [runners |-> runners, meshes |-> meshes, pending |-> pending] \in Fields
  BY <1>7, <1>8, <1>9 DEF Fields
<1>11. \A h \in DOMAIN runners : /\ runners[h].race = now
                                 /\ runners[h].status = "running" => runners[h].velocity = said[h]
  BY <1>4, <1>6 DEF UpToDate
<1>12. \A h \in Guids : IF pending[h] = None THEN h \in DOMAIN runners \/ said[h] = 0
                        ELSE pending[h] = said[h]
  BY <1>4, <1>6, <1>7 DEF UpToDate
<1>. QED  BY <1>1, <1>10, <1>11, <1>12 DEF UpToDate

\* What a load leaves: the route and the runners, as an add that goes on finds them.
Both == [road : Roads, field : Fields]

LEMMA AddGoesOn ==
    ASSUME FieldInv, NEW s \in Both, NEW w \in Adds, UpToDate(s.field, generation, told)
    PROVE  Field!Continue(s, w) \in Both /\ UpToDate(Field!Continue(s, w).field, generation, told)
<1>1. s.road \in Roads /\ s.field \in Fields
  BY DEF Both
<1>2. CASE w.race # generation
  <2> DEFINE gone == Field!RemoveRunnerRoute(s.road)
  <2>1. gone \in Roads
    BY <1>1, RoadGone
  <2>2. Field!Continue(s, w) = [s EXCEPT !.road = gone]
    BY <1>2 DEF Field!Continue
  <2> HIDE DEF gone
  <2>. QED  BY <1>1, <2>1, <2>2 DEF Both
<1>3. CASE w.race = generation /\ (s.road.route = None \/ ~(s.road.path \/ s.road.lut))
  BY <1>3 DEF Field!Continue
<1>4. CASE w.race = generation /\ s.road.route # None /\ (s.road.path \/ s.road.lut)
  <2> DEFINE way == [s.road EXCEPT !.path = TRUE]
             there == Field!AddRunner(s.field, w.guid, w.race)
  <2>1. way \in Roads
    BY <1>1 DEF Roads
  <2>2. UpToDate(there, generation, told)
    BY <1>4, RunnerAdded DEF FieldInv, Adds
  <2>3. Field!Continue(s, w) = [road |-> way, field |-> there]
    BY <1>4 DEF Field!Continue
  <2> HIDE DEF way, there
  <2>. QED  BY <2>1, <2>2, <2>3 DEF Both, UpToDate
<1>. QED  BY <1>2, <1>3, <1>4

\* The adds of a load go on one by one: the states they leave, of which the last is there.
Goes(s, first, adds, k) ==
    s = [n \in 0 .. k |-> IF n = 0 THEN first ELSE Field!Continue(s[n - 1], adds[n])]

LEMMA AddsGoOn ==
    ASSUME NEW first, NEW adds, NEW L \in Nat
    PROVE  \E s : Goes(s, first, adds, L)
<1> DEFINE T == {k \in Nat : ~ \E s : Goes(s, first, adds, k)}
<1> SUFFICES ASSUME T # {} PROVE FALSE
  OBVIOUS
<1>1. PICK k \in T : \A m \in T : k <= m
  <2>1. T \in SUBSET Nat
    OBVIOUS
  <2> HIDE DEF T
  <2>. QED  BY <2>1, LeastNat
<1>2. CASE k = 0
  <2>1. Goes([n \in 0 .. 0 |-> first], first, adds, 0)
    BY DEF Goes
  <2>. QED  BY <1>2, <2>1
<1>3. CASE k # 0
  <2>1. k - 1 \in Nat /\ k - 1 \notin T
    BY <1>1, <1>3
  <2>2. PICK s : Goes(s, first, adds, k - 1)
    BY <2>1
  <2> DEFINE t == [n \in 0 .. k |-> IF n = k THEN Field!Continue(s[k - 1], adds[k]) ELSE s[n]]
  <2>3. \A n \in 0 .. k - 1 : t[n] = s[n]
    BY <1>1
  <2>4. \A n \in 0 .. k - 1 : s[n] = IF n = 0 THEN first ELSE Field!Continue(s[n - 1], adds[n])
    BY <2>2 DEF Goes
  <2>5. \A n \in 0 .. k : t[n] = IF n = 0 THEN first ELSE Field!Continue(t[n - 1], adds[n])
    <3> SUFFICES ASSUME NEW n \in 0 .. k
                 PROVE  t[n] = IF n = 0 THEN first ELSE Field!Continue(t[n - 1], adds[n])
      OBVIOUS
    <3>1. CASE n = k
      <4>1. t[k] = Field!Continue(s[k - 1], adds[k])
        BY <1>1
      <4>2. t[k - 1] = s[k - 1]
        BY <1>1, <2>1, <2>3
      <4>. QED  BY <1>3, <3>1, <4>1, <4>2
    <3>2. CASE n # k
      <4>1. n \in 0 .. k - 1 /\ (n # 0 => n - 1 \in 0 .. k - 1)
        BY <1>1, <3>2
      <4> HIDE DEF t
      <4>. QED  BY <2>3, <2>4, <4>1
    <3>. QED  BY <3>1, <3>2
  <2>6. t = [n \in 0 .. k |-> t[n]]
    OBVIOUS
  <2> HIDE DEF t
  <2>7. Goes(t, first, adds, k)
    BY <2>5, <2>6 DEF Goes
  <2>. QED  BY <1>1, <2>7
<1>. QED  BY <1>2, <1>3

LEMMA LoadSettles ==
    ASSUME FieldInv, NEW id \in DOMAIN loads, NEW r \in Roads, Field!Settle(id, r)
    PROVE  road' \in Roads /\ LoadsInv' /\ UpToDate(field', generation, told)
<1> DEFINE adds == waits[id]
           first == Field!Settled(r)
           s[n \in 0 .. Len(adds)] == IF n = 0 THEN first ELSE Field!Continue(s[n - 1], adds[n])
<1>1. adds \in Seq(Adds) /\ Len(adds) \in Nat /\ DOMAIN adds = 1 .. Len(adds)
  BY DEF FieldInv, LoadsInv
<1>2. /\ road' = s[Len(adds)].road /\ field' = s[Len(adds)].field
      /\ loads' = Field!Without(loads, id) /\ waits' = Field!Without(waits, id)
  BY DEF Field!Settle
<1>3. Goes(s, first, adds, Len(adds))
  <2>1. \E t : Goes(t, first, adds, Len(adds))
    BY <1>1, AddsGoOn
  <2>2. \E t : t = [n \in 0 .. Len(adds) |-> IF n = 0 THEN first ELSE Field!Continue(t[n - 1], adds[n])]
    BY <2>1 DEF Goes
  <2>3. s = [n \in 0 .. Len(adds) |-> IF n = 0 THEN first ELSE Field!Continue(s[n - 1], adds[n])]
    BY <2>2, Zenon
  <2>. QED  BY <2>3 DEF Goes
<1> HIDE DEF s
<1>4. first \in Both /\ UpToDate(first.field, generation, told)
  <2> DEFINE free == [r EXCEPT !.shared = None]
  <2>1. free \in Roads
    BY DEF Roads
  <2>2. first = [road |-> free, field |-> field]
    BY DEF Field!Settled
  <2> HIDE DEF free, first
  <2>. QED  BY <2>1, <2>2 DEF Both, FieldInv, UpToDate
<1> HIDE DEF first
<1>5. \A n \in 0 .. Len(adds) : s[n] \in Both /\ UpToDate(s[n].field, generation, told)
  <2> DEFINE T == {n \in 0 .. Len(adds) : ~(s[n] \in Both /\ UpToDate(s[n].field, generation, told))}
  <2> SUFFICES ASSUME T # {} PROVE FALSE
    OBVIOUS
  <2>1. PICK n \in T : \A m \in T : n <= m
    <3>1. T \in SUBSET Nat
      BY <1>1
    <3> HIDE DEF T
    <3>. QED  BY <3>1, LeastNat
  <2>2. n # 0
    <3>1. s[0] = first
      BY <1>1, <1>3 DEF Goes
    <3>. QED  BY <1>4, <3>1
  <2>3. n \in 1 .. Len(adds) /\ n - 1 \in 0 .. Len(adds) /\ n - 1 \notin T
    BY <1>1, <2>1, <2>2
  <2>4. s[n - 1] \in Both /\ UpToDate(s[n - 1].field, generation, told)
    BY <2>3
  <2>5. s[n] = Field!Continue(s[n - 1], adds[n])
    BY <1>1, <1>3, <2>2, <2>3 DEF Goes
  <2>6. adds[n] \in Adds
    BY <1>1, <2>3
  <2>7. s[n] \in Both /\ UpToDate(s[n].field, generation, told)
    <3> HIDE DEF adds
    <3>. QED  BY <2>4, <2>5, <2>6, AddGoesOn
  <2>. QED  BY <2>7
<1>6. s[Len(adds)] \in Both /\ UpToDate(s[Len(adds)].field, generation, told)
  BY <1>1, <1>5
<1>7. LoadsInv'
  BY <1>2 DEF Field!Without, LoadsInv, FieldInv
<1>. QED  BY <1>2, <1>6, <1>7 DEF Both

LEMMA NobodyRuns ==
    ASSUME NEW now \in Nat, NEW said, said = [g \in Guids |-> 0]
    PROVE  UpToDate([runners |-> Field!NoRunners, meshes |-> <<>>, pending |-> Field!NoUpdates], now, said)
<1>1. Field!NoRunners \in Runners /\ DOMAIN Field!NoRunners = {}
  BY RunnersAre DEF Field!NoRunners
<1>2. Field!NoUpdates \in [Guids -> Speeds \cup {None}] /\ \A g \in Guids : Field!NoUpdates[g] = None
  BY DEF Field!NoUpdates
<1>3. <<>> \in Seq(Mesh)
  OBVIOUS
<1>. QED  BY <1>1, <1>2, <1>3 DEF UpToDate, Fields

LEMMA RunnerArrives ==
    ASSUME FieldInv, NEW g \in Guids, Field!OnAddSimRunner(g)
    PROVE  FieldInv'
<1> DEFINE none == [runners |-> Field!NoRunners, meshes |-> <<>>, pending |-> Field!NoUpdates]
           gone == [Field!RemoveRunnerRoute(road) EXCEPT !.path = FALSE]
           clean == IF begun THEN road ELSE gone
           f == IF begun THEN field ELSE none
           now == IF begun THEN generation ELSE generation + 1
           waiting == clean.route = None /\ spline
           begin == waiting /\ clean.shared = None
           fresh == Field!RemoveRunnerRoute(clean)
           id == IF begin THEN fresh.gen ELSE clean.shared
           add == [guid |-> g, race |-> now]
           way == clean.path \/ clean.lut
           there == clean.route # None /\ way
<1>1. /\ begun' = TRUE /\ generation' = now
      /\ over' = (IF begun THEN over ELSE FALSE) /\ UNCHANGED <<spline, import>>
      /\ told' = IF begun THEN told ELSE [h \in Guids |-> 0]
  BY DEF Field!OnAddSimRunner
<1>2. /\ IF waiting
         THEN /\ field' = f
              /\ IF begin
                 THEN /\ road' = [fresh EXCEPT !.shared = id]
                      /\ loads' = Field!With(loads, id, "texture")
                      /\ waits' = Field!With(waits, id, <<add>>)
                 ELSE /\ road' = clean
                      /\ waits' = [waits EXCEPT ![id] = Append(@, add)]
                      /\ UNCHANGED loads
         ELSE /\ field' = IF there THEN Field!AddRunner(f, g, now) ELSE f
              /\ road' = IF there THEN [clean EXCEPT !.path = TRUE] ELSE clean
              /\ UNCHANGED <<waits, loads>>
  BY DEF Field!OnAddSimRunner
<1>3. now \in Nat /\ told' \in [Guids -> Speeds]
  BY <1>1, FieldAssumption DEF FieldInv
<1>4. clean \in Roads
  <2>1. Field!RemoveRunnerRoute(road) \in Roads
    BY RoadGone DEF FieldInv
  <2>2. gone \in Roads
    BY <2>1 DEF Roads
  <2> HIDE DEF gone
  <2>. QED  BY <2>2 DEF FieldInv
<1>5. UpToDate(f, now, told')
  <2>1. CASE begun
    BY <1>1, <2>1 DEF FieldInv
  <2>2. CASE ~begun
    <3>1. f = none /\ told' = [h \in Guids |-> 0]
      BY <1>1, <2>2
    <3> HIDE DEF f, now
    <3>2. UpToDate(none, now, told')
      BY <1>3, <3>1, NobodyRuns
    <3>. QED  BY <3>1, <3>2
  <2>. QED  BY <2>1, <2>2
<1> HIDE DEF clean, f, now
<1>6. fresh \in Roads
  BY <1>4, RoadGone
<1>7. add \in Adds
  BY <1>3 DEF Adds
<1>8. CASE begin
  <2>1. fresh.gen \in Nat
    BY <1>6 DEF Roads
  <2>2. /\ field' = f /\ road' = [fresh EXCEPT !.shared = fresh.gen]
        /\ loads' = Field!With(loads, fresh.gen, "texture")
        /\ waits' = Field!With(waits, fresh.gen, <<add>>)
    BY <1>2, <1>8
  <2> HIDE DEF fresh, add
  <2>3. road' \in Roads
    BY <1>6, <2>1, <2>2 DEF Roads
  <2>4. LoadsInv'
    <3>1. <<add>> \in Seq(Adds)
      BY <1>7
    <3>. QED  BY <2>1, <2>2, <3>1 DEF FieldInv, LoadsInv, LoadSteps, Field!With
  <2>. QED  BY <1>1, <1>3, <1>5, <2>2, <2>3, <2>4 DEF FieldInv
<1>9. CASE waiting /\ ~begin
  <2>1. field' = f /\ road' = clean /\ loads' = loads /\ waits' = [waits EXCEPT ![id] = Append(@, add)]
    BY <1>2, <1>9
  <2> HIDE DEF id, add
  <2>2. \A i \in DOMAIN waits : Append(waits[i], add) \in Seq(Adds)
    BY <1>7 DEF FieldInv, LoadsInv
  <2>3. LoadsInv'
    BY <2>1, <2>2 DEF FieldInv, LoadsInv
  <2>. QED  BY <1>1, <1>3, <1>4, <1>5, <2>1, <2>3 DEF FieldInv
<1>10. CASE ~waiting
  <2>1. /\ field' = IF there THEN Field!AddRunner(f, g, now) ELSE f
        /\ road' = IF there THEN [clean EXCEPT !.path = TRUE] ELSE clean
        /\ UNCHANGED <<waits, loads>>
    BY <1>2, <1>10
  <2>2. road' \in Roads
    BY <1>4, <2>1 DEF Roads
  <2>3. LoadsInv'
    BY <2>1 DEF FieldInv, LoadsInv
  <2>4. UpToDate(field', now, told')
    <3>1. UpToDate(Field!AddRunner(f, g, now), now, told')
      BY <1>3, <1>5, RunnerAdded
    <3>. QED  BY <1>5, <2>1, <3>1
  <2>. QED  BY <1>1, <1>3, <2>2, <2>3, <2>4 DEF FieldInv
<1>. QED  BY <1>8, <1>9, <1>10

LEMMA AllFinish ==
    ASSUME NEW f, NEW now \in Nat, NEW said \in [Guids -> Speeds], UpToDate(f, now, said)
    PROVE  UpToDate(Field!FinishAll(f), now, said)
<1> DEFINE runners == [g \in DOMAIN f.runners |-> Field!Freeze(f.runners[g])]
           done(i) == f.meshes[i].guid \in DOMAIN f.runners
                         /\ \A j \in 1 .. (i - 1) : f.meshes[j].guid # f.meshes[i].guid
           mesh(i) == IF done(i) THEN [f.meshes[i] EXCEPT !.finished = TRUE] ELSE f.meshes[i]
           meshes == [i \in DOMAIN f.meshes |-> mesh(i)]
<1>1. Field!FinishAll(f) = [f EXCEPT !.runners = runners, !.meshes = meshes]
  BY DEF Field!FinishAll
<1>2. /\ f \in Fields /\ f.runners \in Runners /\ f.meshes \in Seq(Mesh)
      /\ DOMAIN f.runners \subseteq Guids /\ f.runners \in [DOMAIN f.runners -> Runner]
  BY RunnersAre DEF UpToDate, Fields
<1>3. ASSUME NEW r \in Runner
      PROVE  /\ Field!Freeze(r) \in Runner /\ Field!Freeze(r).race = r.race
             /\ Field!Freeze(r).status # "running"
  BY FieldAssumption DEF Runner, Field!Freeze
<1>4. /\ runners \in Runners /\ DOMAIN runners = DOMAIN f.runners
      /\ \A g \in DOMAIN runners : runners[g].race = now /\ runners[g].status # "running"
  <2>1. runners \in [DOMAIN f.runners -> Runner] /\ DOMAIN runners = DOMAIN f.runners
    BY <1>2, <1>3
  <2>2. \A g \in DOMAIN runners : runners[g].race = now /\ runners[g].status # "running"
    BY <1>2, <1>3 DEF UpToDate
  <2> HIDE DEF runners
  <2>. QED  BY <1>2, <2>1, <2>2, RunnersAre
<1>5. meshes \in Seq(Mesh)
  <2>1. \A i \in DOMAIN f.meshes : mesh(i) \in Mesh
    <3> SUFFICES ASSUME NEW i \in DOMAIN f.meshes PROVE mesh(i) \in Mesh
      OBVIOUS
    <3>1. f.meshes[i] \in Mesh
      BY <1>2
    <3> HIDE DEF done
    <3>. QED  BY <3>1 DEF Mesh
  <2>2. DOMAIN f.meshes = 1 .. Len(f.meshes) /\ Len(f.meshes) \in Nat
    BY <1>2
  <2> HIDE DEF mesh
  <2>3. meshes \in [1 .. Len(f.meshes) -> Mesh]
    BY <2>1, <2>2
  <2> HIDE DEF meshes
  <2>. QED  BY <2>2, <2>3
<1> HIDE DEF runners, meshes
<1>6. /\ Field!FinishAll(f) \in Fields /\ Field!FinishAll(f).runners = runners
      /\ Field!FinishAll(f).pending = f.pending
  BY <1>1, <1>2, <1>4, <1>5 DEF Fields
<1>. QED  BY <1>4, <1>6 DEF UpToDate

LEMMA FrameOK ==
    ASSUME FieldInv, Field!Frame
    PROVE  FieldInv'
<1> DEFINE runners == [g \in DOMAIN field.runners |-> Field!Run(field.runners[g])]
           mesh(i) == [field.meshes[i] EXCEPT !.finished = @ \/ Field!Done(runners, field.meshes[i].guid)]
           meshes == [i \in DOMAIN field.meshes |-> mesh(i)]
           f == [field EXCEPT !.runners = runners, !.meshes = meshes]
           last == ~over /\ meshes # <<>> /\ \A i \in DOMAIN meshes : meshes[i].finished
<1>1. /\ over' = (over \/ last) /\ begun' = (begun /\ ~last)
      /\ field' = IF last THEN Field!FinishAll(f) ELSE f
      /\ UNCHANGED <<spline, import, road, loads, waits, generation, told>>
  BY DEF Field!Frame
<1>2. /\ field \in Fields /\ field.runners \in Runners /\ field.meshes \in Seq(Mesh)
      /\ DOMAIN field.runners \subseteq Guids /\ field.runners \in [DOMAIN field.runners -> Runner]
      /\ UpToDate(field, generation, told)
  BY RunnersAre DEF FieldInv, UpToDate, Fields
<1>3. ASSUME NEW r \in Runner
      PROVE  /\ Field!Run(r) \in Runner /\ Field!Run(r).race = r.race
             /\ Field!Run(r).status = r.status /\ Field!Run(r).velocity = r.velocity
  <2>1. r.at \in 0 .. Goal /\ r.velocity \in Nat /\ Goal \in Nat
    BY FieldAssumption DEF Runner
  <2> DEFINE at == Field!Min({Goal, r.at + r.velocity})
  <2>2. at \in 0 .. Goal
    <3>1. \E n \in {Goal, r.at + r.velocity} : \A m \in {Goal, r.at + r.velocity} : n =< m
      BY <2>1
    <3>2. /\ at \in {Goal, r.at + r.velocity}
          /\ \A m \in {Goal, r.at + r.velocity} : at =< m
      BY <3>1 DEF Field!Min
    <3> HIDE DEF at
    <3>. QED  BY <2>1, <3>2
  <2>3. Field!Run(r) \in {r, [r EXCEPT !.at = at]}
    BY DEF Field!Run
  <2> HIDE DEF at
  <2>. QED  BY <2>2, <2>3 DEF Runner
<1>4. /\ runners \in Runners /\ DOMAIN runners = DOMAIN field.runners
      /\ \A g \in DOMAIN runners : /\ runners[g].race = generation
                                   /\ runners[g].status = "running" => runners[g].velocity = told[g]
  <2>1. runners \in [DOMAIN field.runners -> Runner] /\ DOMAIN runners = DOMAIN field.runners
    BY <1>2, <1>3
  <2>2. \A g \in DOMAIN runners : /\ runners[g].race = generation
                                  /\ runners[g].status = "running" => runners[g].velocity = told[g]
    BY <1>2, <1>3 DEF UpToDate
  <2> HIDE DEF runners
  <2>. QED  BY <1>2, <2>1, <2>2, RunnersAre
<1> HIDE DEF runners
<1>5. meshes \in Seq(Mesh)
  <2>1. \A i \in DOMAIN field.meshes : mesh(i) \in Mesh
    <3> SUFFICES ASSUME NEW i \in DOMAIN field.meshes PROVE mesh(i) \in Mesh
      OBVIOUS
    <3>1. field.meshes[i] \in Mesh
      BY <1>2
    <3>2. Field!Done(runners, field.meshes[i].guid) \in BOOLEAN
      BY DEF Field!Done
    <3>. QED  BY <3>1, <3>2 DEF Mesh
  <2>2. DOMAIN field.meshes = 1 .. Len(field.meshes) /\ Len(field.meshes) \in Nat
    BY <1>2
  <2> HIDE DEF mesh
  <2>3. meshes \in [1 .. Len(field.meshes) -> Mesh]
    BY <2>1, <2>2
  <2> HIDE DEF meshes
  <2>. QED  BY <2>2, <2>3
<1>6. last \in BOOLEAN
  OBVIOUS
<1> HIDE DEF meshes, last
<1>7. f \in Fields /\ f.runners = runners /\ f.pending = field.pending
  BY <1>2, <1>4, <1>5 DEF Fields
<1> HIDE DEF f
<1>8. UpToDate(f, generation, told)
  BY <1>2, <1>4, <1>7 DEF UpToDate
<1>9. UpToDate(Field!FinishAll(f), generation, told)
  BY <1>8, AllFinish DEF FieldInv
<1>10. UpToDate(field', generation, told)
  BY <1>1, <1>8, <1>9
<1>11. over' \in BOOLEAN /\ begun' \in BOOLEAN
  BY <1>1, <1>6 DEF FieldInv
<1>. QED  BY <1>1, <1>10, <1>11 DEF FieldInv, LoadsInv

LEMMA FieldStep ==
    ASSUME FieldInv, Field!Next
    PROVE  FieldInv'
<1>1. CASE Field!ImportPath \/ Field!DrawPath \/ Field!ImportEnds \/ Field!OnSimRaceStarted
  <2>1. /\ import' \in {"idle", "approach", "drawing"} /\ spline' \in BOOLEAN /\ over' \in BOOLEAN
        /\ UNCHANGED <<loads, waits, generation, begun, field, told>>
        /\ \/ road' = road \/ road' = [road EXCEPT !.path = FALSE]
           \/ road' = Field!RemoveRunnerRoute(road)
    BY <1>1 DEF Field!ImportPath, Field!DrawPath, Field!ImportEnds, Field!OnSimRaceStarted, FieldInv
  <2>2. road' \in Roads
    <3>1. [road EXCEPT !.path = FALSE] \in Roads
      BY DEF FieldInv, Roads
    <3>. QED  BY <2>1, <3>1, RoadGone DEF FieldInv
  <2>. QED  BY <2>1, <2>2 DEF FieldInv, LoadsInv
<1>2. ASSUME NEW g \in Guids, Field!OnAddSimRunner(g)
      PROVE  FieldInv'
  BY <1>2, RunnerArrives
<1>3. ASSUME NEW g \in Guids, Field!OnRunnerCollapsed(g)
      PROVE  FieldInv'
  <2> DEFINE down == Field!Collapse(field.runners[g])
             runners == [field.runners EXCEPT ![g] = down]
  <2>1. /\ g \in DOMAIN field.runners /\ field' = [field EXCEPT !.runners = runners]
        /\ UNCHANGED <<spline, import, road, loads, waits, generation, begun, over, told>>
    BY <1>3 DEF Field!OnRunnerCollapsed
  <2>2. /\ field \in Fields /\ field.runners \in Runners /\ UpToDate(field, generation, told)
        /\ DOMAIN field.runners \subseteq Guids /\ field.runners \in [DOMAIN field.runners -> Runner]
    BY RunnersAre DEF FieldInv, UpToDate, Fields
  <2>3. field.runners[g] \in Runner /\ field.runners[g].race = generation
    BY <2>1, <2>2 DEF UpToDate
  <2>4. down \in Runner /\ down.race = generation /\ down.status # "running"
    BY <2>3, FieldAssumption DEF Runner, Field!Collapse
  <2> HIDE DEF down
  <2>5. /\ DOMAIN runners = DOMAIN field.runners /\ runners \in [DOMAIN runners -> Runner]
        /\ \A h \in DOMAIN runners : runners[h].race = generation
                 /\ (runners[h].status = "running" => runners[h].velocity = told[h])
    BY <2>1, <2>2, <2>4 DEF UpToDate
  <2> HIDE DEF runners
  <2>6. runners \in Runners
    BY <2>2, <2>5, RunnersAre
  <2>7. field' \in Fields /\ field'.runners = runners /\ field'.pending = field.pending
    BY <2>1, <2>2, <2>6 DEF Fields
  <2>8. UpToDate(field', generation, told)
    BY <2>2, <2>5, <2>7 DEF UpToDate
  <2>. QED  BY <2>1, <2>8 DEF FieldInv, LoadsInv
<1>4. ASSUME NEW g \in Guids, NEW v \in Speeds, Field!OnUpdateSimRunner(g, v)
      PROVE  FieldInv'
  <2>1. /\ told' = [told EXCEPT ![g] = v]
        /\ UNCHANGED <<spline, import, road, loads, waits, generation, begun, over>>
    BY <1>4 DEF Field!OnUpdateSimRunner
  <2>2. /\ field \in Fields /\ field.runners \in Runners /\ UpToDate(field, generation, told)
        /\ field.pending \in [Guids -> Speeds \cup {None}]
        /\ DOMAIN field.runners \subseteq Guids /\ field.runners \in [DOMAIN field.runners -> Runner]
        /\ v # None
    BY RunnersAre, FieldAssumption DEF FieldInv, UpToDate, Fields
  <2>3. /\ told' \in [Guids -> Speeds] /\ told'[g] = v
        /\ \A h \in Guids \ {g} : told'[h] = told[h]
    BY <2>1 DEF FieldInv
  <2>4. CASE g \in DOMAIN field.runners
    <3> DEFINE moved == [field.runners[g] EXCEPT !.velocity = v]
               runners == [field.runners EXCEPT ![g] = moved]
               pending == [field.pending EXCEPT ![g] = None]
    <3>1. field' = [field EXCEPT !.runners = runners, !.pending = pending]
      BY <1>4, <2>4 DEF Field!OnUpdateSimRunner, Field!SetVelocity
    <3>2. field.runners[g] \in Runner /\ field.runners[g].race = generation
      BY <2>2, <2>4 DEF UpToDate
    <3>3. moved \in Runner /\ moved.race = generation /\ moved.velocity = v
      BY <3>2 DEF Runner
    <3> HIDE DEF moved
    <3>4. /\ DOMAIN runners = DOMAIN field.runners /\ runners \in [DOMAIN runners -> Runner]
          /\ \A h \in DOMAIN runners : runners[h].race = generation
                   /\ (runners[h].status = "running" => runners[h].velocity = told'[h])
      BY <2>2, <2>3, <2>4, <3>3 DEF UpToDate
    <3> HIDE DEF runners
    <3>5. runners \in Runners
      BY <2>2, <3>4, RunnersAre
    <3>6. /\ pending \in [Guids -> Speeds \cup {None}] /\ pending[g] = None
          /\ \A h \in Guids \ {g} : pending[h] = field.pending[h]
      BY <2>2
    <3> HIDE DEF pending
    <3>7. field' \in Fields /\ field'.runners = runners /\ field'.pending = pending
      BY <2>2, <3>1, <3>5, <3>6 DEF Fields
    <3>8. UpToDate(field', generation, told')
      BY <2>2, <2>3, <2>4, <3>4, <3>6, <3>7 DEF UpToDate
    <3>. QED  BY <2>1, <2>3, <3>8 DEF FieldInv, LoadsInv
  <2>5. CASE g \notin DOMAIN field.runners
    <3> DEFINE pending == [field.pending EXCEPT ![g] = v]
    <3>1. field' = [field EXCEPT !.pending = pending]
      BY <1>4, <2>5 DEF Field!OnUpdateSimRunner
    <3>2. /\ pending \in [Guids -> Speeds \cup {None}] /\ pending[g] = v
          /\ \A h \in Guids \ {g} : pending[h] = field.pending[h]
      BY <2>2
    <3> HIDE DEF pending
    <3>3. field' \in Fields /\ field'.runners = field.runners /\ field'.pending = pending
      BY <2>2, <3>1, <3>2 DEF Fields
    <3>4. UpToDate(field', generation, told')
      BY <2>2, <2>3, <2>5, <3>2, <3>3 DEF UpToDate
    <3>. QED  BY <2>1, <2>3, <3>4 DEF FieldInv, LoadsInv
  <2>. QED  BY <2>4, <2>5
<1>5. ASSUME NEW id \in DOMAIN loads, Field!AssetLoaded(id)
      PROVE  FieldInv'
  <2>1. UNCHANGED <<spline, import, generation, begun, over, told>>
    BY <1>5 DEF Field!AssetLoaded
  <2>2. id \in Nat /\ loads[id] \in LoadSteps /\ road \in Roads
    BY DEF FieldInv, LoadsInv
  <2>3. \/ \E r \in Roads : Field!Settle(id, r)
        \/ \E step \in LoadSteps, r \in Roads : Field!Proceed(id, step, r)
    <3>1. /\ [road EXCEPT !.route = id] \in Roads /\ [road EXCEPT !.lut = TRUE] \in Roads
          /\ Field!RemoveRunnerRoute(road) \in Roads
      BY <2>2, RoadGone DEF Roads
    <3>2. {"start", "end"} \subseteq LoadSteps
      BY DEF LoadSteps
    <3>. QED  BY <1>5, <2>2, <3>1, <3>2 DEF Field!AssetLoaded, LoadSteps
  <2>4. ASSUME NEW r \in Roads, Field!Settle(id, r)
        PROVE  FieldInv'
    <3>1. road' \in Roads /\ LoadsInv' /\ UpToDate(field', generation, told)
      BY <2>4, LoadSettles
    <3>. QED  BY <2>1, <3>1 DEF FieldInv
  <2>5. ASSUME NEW step \in LoadSteps, NEW r \in Roads, Field!Proceed(id, step, r)
        PROVE  FieldInv'
    <3>1. loads' = [loads EXCEPT ![id] = step] /\ road' = r /\ UNCHANGED <<field, waits>>
      BY <2>5 DEF Field!Proceed
    <3>2. LoadsInv'
      BY <3>1 DEF FieldInv, LoadsInv
    <3>. QED  BY <2>1, <3>1, <3>2 DEF FieldInv
  <2>. QED  BY <2>3, <2>4, <2>5
<1>6. ASSUME NEW id \in DOMAIN loads, Field!AssetFails(id)
      PROVE  FieldInv'
  <2>1. /\ road' = [road EXCEPT !.shared = None]
        /\ loads' = Field!Without(loads, id) /\ waits' = Field!Without(waits, id)
        /\ UNCHANGED <<spline, import, generation, begun, over, field, told>>
    BY <1>6 DEF Field!AssetFails
  <2>2. road' \in Roads
    BY <2>1 DEF FieldInv, Roads
  <2>3. LoadsInv'
    BY <2>1 DEF FieldInv, LoadsInv, Field!Without
  <2>. QED  BY <2>1, <2>2, <2>3 DEF FieldInv
<1>7. CASE Field!OnSimFinished
  <2>1. /\ field' = Field!FinishAll(field) /\ begun' = FALSE
        /\ UNCHANGED <<spline, import, road, loads, waits, generation, over, told>>
    BY <1>7 DEF Field!OnSimFinished
  <2>2. UpToDate(field', generation, told)
    BY <2>1, AllFinish DEF FieldInv
  <2>. QED  BY <2>1, <2>2 DEF FieldInv, LoadsInv
<1>8. CASE Field!OnSimReset
  <2> DEFINE now == generation + 1
             said == [g \in Guids |-> 0]
  <2>1. /\ generation' = now /\ begun' = FALSE /\ over' = FALSE /\ told' = said
        /\ field' = [runners |-> Field!NoRunners, meshes |-> <<>>, pending |-> Field!NoUpdates]
        /\ road' = Field!RemoveRunnerRoute(road) /\ UNCHANGED <<spline, import, loads, waits>>
    BY <1>8 DEF Field!OnSimReset
  <2>2. now \in Nat /\ said \in [Guids -> Speeds]
    BY FieldAssumption DEF FieldInv
  <2>3. UpToDate(field', now, said)
    BY <2>1, <2>2, NobodyRuns
  <2>4. road' \in Roads
    BY <2>1, RoadGone DEF FieldInv
  <2> HIDE DEF now, said
  <2>. QED  BY <2>1, <2>2, <2>3, <2>4 DEF FieldInv, LoadsInv
<1>9. CASE Field!Frame
  BY <1>9, FrameOK
<1>. QED  BY <1>1, <1>2, <1>3, <1>4, <1>5, <1>6, <1>7, <1>8, <1>9 DEF Field!Next

(* RunnerField: the runners on the course are those of the race that runs,
   whatever resets, races and loads of the route an add has waited over, and a
   running one moves at the speed the gateway reported last. *)
THEOREM FieldKept == Spec => []FieldIsCurrent
<1>1. Init => FieldInv
  <2> SUFFICES ASSUME Init PROVE FieldInv
    OBVIOUS
  <2>1. /\ spline = FALSE /\ import = "idle" /\ generation = 0 /\ begun = FALSE /\ over = FALSE
        /\ road = [route |-> None, lut |-> FALSE, path |-> FALSE, gen |-> 0, shared |-> None]
        /\ loads = [i \in {} |-> "texture"] /\ waits = [i \in {} |-> <<>>]
        /\ field = [runners |-> Field!NoRunners, meshes |-> <<>>, pending |-> Field!NoUpdates]
        /\ told = [g \in Guids |-> 0]
    BY DEF Init, Field!Init
  <2>2. UpToDate(field, generation, told)
    BY <2>1, NobodyRuns
  <2>3. road \in Roads /\ told \in [Guids -> Speeds] /\ LoadsInv
    BY <2>1, FieldAssumption DEF Roads, LoadsInv
  <2>. QED  BY <2>1, <2>2, <2>3 DEF FieldInv
<1>2. FieldInv /\ [Next]_vars => FieldInv'
  <2>1. ASSUME FieldInv, UNCHANGED fieldVars PROVE FieldInv'
    BY <2>1 DEF FieldInv, LoadsInv, fieldVars
  <2>2. [Next]_vars => Field!Next \/ UNCHANGED fieldVars
    BY DEF Next, vars
  <2>. QED  BY <2>1, <2>2, FieldStep
<1>3. FieldInv => FieldIsCurrent
  <2> SUFFICES ASSUME FieldInv PROVE FieldIsCurrent
    OBVIOUS
  <2>1. /\ field \in Fields /\ field.runners \in Runners
        /\ DOMAIN field.runners \subseteq Guids /\ field.runners \in [DOMAIN field.runners -> Runner]
    BY RunnersAre DEF FieldInv, UpToDate, Fields
  <2>2. Field!TypeOK
    BY <2>1 DEF FieldInv, LoadsInv, Field!TypeOK, Fields, Roads, Adds, LoadSteps, Runner, Mesh
  <2>3. Field!RunnersOfThisRace /\ Field!LatestSpeed
    BY DEF FieldInv, UpToDate, Field!RunnersOfThisRace, Field!LatestSpeed
  <2>. QED  BY <2>2, <2>3 DEF FieldIsCurrent
<1>. QED  BY <1>1, <1>2, <1>3, PTL DEF Spec

(***************************************************************************)
(* The camera and its countdown.                                           *)
(***************************************************************************)
Purpose == {"countdown", "overview", "walk", "approach", "frame", "preset", "add"}

Pans == [for : Purpose \cup {None}, gen : Nat, active : BOOLEAN]
Jobs == [for : Purpose \cup {None}, gen : Nat]

Views ==
    [controls : BOOLEAN, pan : Pans, follow : Guids \cup {"overview", None},
     intro : {"none", "held", "moving", "over"}, walk : BOOLEAN, post : BOOLEAN,
     ready : Seq(Jobs)]

Scenes ==
    [spline : BOOLEAN, goal : BOOLEAN, drawing : BOOLEAN, begun : BOOLEAN, skip : BOOLEAN,
     import : {"idle", "approach", "draw", "frame"},
     runners : [Guids -> {"none", "running", "finished"}]]

Moved(v) == v.pan.active \/ v.intro \in {"held", "moving"} \/ v.walk

\* A view whose controls are off only while something moves the camera.
Good(v) == v \in Views /\ (~v.controls => Moved(v))

Leaders == [active : BOOLEAN, guid : Guids \cup {None}]

Countdowns == [at : {-3, -2, -1} \cup 0 .. 3, panned : BOOLEAN, moved : BOOLEAN, gen : Nat]

CameraInv ==
    /\ schematic \in BOOLEAN /\ moves \in 0 .. MaxMoves /\ gens \in [overview : Nat, walk : Nat]
    /\ scene \in Scenes /\ leader \in Leaders
    /\ countdown \in Countdowns /\ Good(view)

LEMMA ViewIsGood ==
    ASSUME CameraInv, NEW v, Good(v)
    PROVE  /\ Camera!Resolved(v) \in Seq(Jobs)
           /\ \A for \in Purpose, gen \in Nat : Good(Camera!PanCameraTo(v, for, gen))
           /\ Good(Camera!SnapOrbitCameraTo(v)) /\ Good(Camera!StopFollowMesh(v))
           /\ \A who \in Guids \cup {"overview"} : Good(Camera!FollowMesh(v, who))
           /\ Good(Camera!CancelAnyIntro(v))
           /\ \A mode \in {"held", "moving"} : Good(Camera!StartIntro(v, mode))
<1> USE DEF Good, Views, Moved, Pans
<1>1. Camera!Resolved(v) \in Seq(Jobs)
  <2> DEFINE job == [for |-> v.pan.for, gen |-> v.pan.gen]
  <2>1. job \in Jobs
    BY DEF Jobs
  <2>2. Camera!Resolved(v) = <<job>> \/ Camera!Resolved(v) = <<>>
    BY DEF Camera!Resolved
  <2> HIDE DEF job
  <2>3. <<job>> \in Seq(Jobs) /\ <<>> \in Seq(Jobs)
    BY <2>1
  <2>. QED  BY <2>2, <2>3
<1>2. v.ready \o Camera!Resolved(v) \in Seq(Jobs)
  BY <1>1
<1>3. ASSUME NEW for \in Purpose, NEW gen \in Nat
      PROVE  Good(Camera!PanCameraTo(v, for, gen))
  BY <1>2 DEF Camera!PanCameraTo
<1>4. Camera!NoPan \in Pans
  BY DEF Camera!NoPan
<1>5. Good(Camera!SnapOrbitCameraTo(v))
  BY <1>2, <1>4 DEF Camera!SnapOrbitCameraTo
<1>6. Good(Camera!StopFollowMesh(v))
  BY DEF Camera!StopFollowMesh
<1>7. ASSUME NEW who \in Guids \cup {"overview"}
      PROVE  Good(Camera!FollowMesh(v, who))
  BY <1>4 DEF Camera!FollowMesh
<1>8. Good(Camera!CancelAnyIntro(v))
  BY DEF Camera!CancelAnyIntro
<1>9. ASSUME NEW mode \in {"held", "moving"}
      PROVE  Good(Camera!StartIntro(v, mode))
  BY DEF Camera!StartIntro
<1>. QED  BY <1>1, <1>3, <1>5, <1>6, <1>7, <1>8, <1>9

LEMMA ViewStaysGood ==
    ASSUME CameraInv, NEW v, Good(v)
    PROVE  /\ \A who \in Guids : Good(Camera!Attach(v, who))
           /\ Good(Camera!StartOverviewSequence(v)) /\ Good(Camera!CancelPostFinish(v))
           /\ Good(Camera!StartPostFinish(v)) /\ Good(Camera!SchematicCam(v))
           /\ \A gen \in Nat : Good(Camera!TransitionToOverview(v, gen))
           /\ \A skip \in BOOLEAN : Good(Camera!Approach(v, skip))
<1>1. ASSUME NEW who \in Guids
      PROVE  Good(Camera!Attach(v, who))
  <2>1. Good(Camera!FollowMesh(v, who))
    BY ViewIsGood
  <2>. QED  BY <2>1 DEF Camera!Attach, Good, Views, Moved
<1>2. Good([v EXCEPT !.post = TRUE]) /\ Good([v EXCEPT !.post = FALSE])
  BY DEF Good, Views, Moved
<1>3. Good(Camera!StartOverviewSequence(v))
  <2> DEFINE w == Camera!FollowMesh([v EXCEPT !.post = TRUE], "overview")
  <2>1. Good(w)
    BY <1>2, ViewIsGood
  <2>2. Camera!StartOverviewSequence(v) = [w EXCEPT !.controls = TRUE]
    BY DEF Camera!StartOverviewSequence
  <2> HIDE DEF w
  <2>. QED  BY <2>1, <2>2 DEF Good, Views, Moved
<1>4. Good(Camera!CancelPostFinish(v))
  BY <1>2, ViewIsGood DEF Camera!CancelPostFinish
<1>5. Good(Camera!StartPostFinish(v))
  BY <1>3 DEF Camera!StartPostFinish
<1>6. Good(Camera!SchematicCam(v))
  <2> DEFINE w == [v EXCEPT !.walk = FALSE]
  <2>1. w.ready = v.ready /\ Camera!Resolved(w) = Camera!Resolved(v) /\ w \in Views
    BY DEF Camera!Resolved, Good, Views
  <2>2. v.ready \o Camera!Resolved(v) \in Seq(Jobs)
    BY ViewIsGood DEF Good, Views
  <2>3. Camera!SchematicCam(v) = Camera!PanCameraTo(w, "preset", 0)
    BY DEF Camera!SchematicCam
  <2> HIDE DEF w
  <2>4. /\ Camera!PanCameraTo(w, "preset", 0).pan.active
        /\ Camera!PanCameraTo(w, "preset", 0) \in Views
    BY <2>1, <2>2 DEF Camera!PanCameraTo, Views, Pans, Purpose
  <2>. QED  BY <2>3, <2>4 DEF Good, Moved
<1>7. ASSUME NEW gen \in Nat
      PROVE  Good(Camera!TransitionToOverview(v, gen))
  <2>1. Good(Camera!StopFollowMesh(v))
    BY ViewIsGood
  <2>2. Camera!PanCameraTo(Camera!StopFollowMesh(v), "overview", gen)
          = Camera!TransitionToOverview(v, gen)
    BY DEF Camera!TransitionToOverview
  <2>3. Good(Camera!PanCameraTo(Camera!StopFollowMesh(v), "overview", gen))
    BY <2>1, ViewIsGood DEF Purpose
  <2>. QED  BY <2>2, <2>3
<1>8. ASSUME NEW skip \in BOOLEAN
      PROVE  Good(Camera!Approach(v, skip))
  <2>1. Good(Camera!SnapOrbitCameraTo(v)) /\ Good(Camera!PanCameraTo(v, "approach", 0))
    BY ViewIsGood DEF Purpose
  <2>2. Camera!Approach(v, skip) \in
          {Camera!SnapOrbitCameraTo(v), Camera!PanCameraTo(v, "approach", 0), v}
    BY DEF Camera!Approach
  <2>. QED  BY <2>1, <2>2
<1>. QED  BY <1>1, <1>3, <1>4, <1>5, <1>6, <1>7, <1>8

\* The end of an intro, which may import a route.
LEMMA IntroCompleteOK ==
    ASSUME CameraInv, NEW v, Good(v), NEW skip \in BOOLEAN, Camera!IntroComplete(v, skip)
    PROVE  Good(view') /\ scene' \in Scenes
<1>1. Good(Camera!Approach(v, skip))
  BY ViewStaysGood
<1>2. scene \in Scenes /\ Camera!Imported(scene, skip) \in Scenes
  BY DEF CameraInv, Scenes, Camera!Imported
<1>. QED  BY <1>1, <1>2 DEF Camera!IntroComplete

LEMMA EventCounted ==
    ASSUME moves \in 0 .. MaxMoves, MaxMoves \in Nat, Camera!Event
    PROVE  moves' \in 0 .. MaxMoves
BY DEF Camera!Event

LEMMA NoCountdownIs == Camera!NoCountdown \in Countdowns
BY DEF Countdowns, Camera!NoCountdown, Camera!Idle

LEMMA NoLeader ==
    /\ [active |-> FALSE, guid |-> None] \in Leaders
    /\ leader \in Leaders => [leader EXCEPT !.active = FALSE] \in Leaders
    /\ \A g \in Guids \cup {None}, on \in BOOLEAN : [active |-> on, guid |-> g] \in Leaders
    /\ leader \in Leaders => \A g \in Guids : [leader EXCEPT !.guid = g] \in Leaders
BY DEF Leaders

LEMMA ToOverviewOK ==
    ASSUME CameraInv, NEW v, Good(v), Camera!ToOverview(v)
    PROVE  Good(view') /\ countdown' \in Countdowns /\ gens' \in [overview : Nat, walk : Nat]
<1>1. gens.overview + 1 \in Nat
  BY DEF CameraInv
<1>2. Good(Camera!TransitionToOverview(v, gens.overview + 1))
  BY <1>1, ViewStaysGood
<1>. QED  BY <1>1, <1>2 DEF Camera!ToOverview, CameraInv, Countdowns, Camera!Hiding, Scenes

\* What goes on without an event.
LEMMA CameraSystem ==
    ASSUME CameraInv, Camera!System
    PROVE  CameraInv'
<1> USE DEF CameraInv
<1>1. CASE Camera!Resume
  <2> DEFINE job == Head(view.ready)
             v == [view EXCEPT !.ready = Tail(@)]
  <2>1. view.ready \in Seq(Jobs) /\ view.ready # <<>>
    BY <1>1 DEF Camera!Resume, Good, Views
  <2>2. job \in Jobs /\ Tail(view.ready) \in Seq(Jobs)
    BY <2>1
  <2>3. Good(v)
    BY <2>2 DEF Good, Views, Moved
  <2>4. UNCHANGED <<schematic, leader, moves>>
    BY <1>1 DEF Camera!Resume
  <2> HIDE DEF job, v
  <2>5. CASE job.for = "countdown" /\ Camera!ToOverview(v) /\ UNCHANGED scene
    BY <2>3, <2>4, <2>5, ToOverviewOK
  <2>6. CASE /\ countdown' = [countdown EXCEPT !.panned = TRUE]
             /\ view' = v /\ UNCHANGED <<gens, scene>>
    BY <2>3, <2>4, <2>6 DEF Countdowns
  <2>7. CASE /\ view' = IF job.gen = gens.overview THEN Camera!StartOverviewSequence(v) ELSE v
             /\ countdown' \in {countdown, Camera!NoCountdown, [countdown EXCEPT !.moved = TRUE]}
             /\ UNCHANGED <<gens, scene>>
    <3>1. Good(view')
      BY <2>3, <2>7, ViewStaysGood
    <3>2. countdown' \in Countdowns
      <4>1. [countdown EXCEPT !.moved = TRUE] \in Countdowns
        BY DEF Countdowns
      <4>. QED  BY <2>7, <4>1, NoCountdownIs
    <3>. QED  BY <2>4, <2>7, <3>1, <3>2
  <2>8. CASE /\ view' = IF job.gen = gens.walk THEN [v EXCEPT !.controls = FALSE, !.walk = TRUE] ELSE v
             /\ UNCHANGED <<gens, scene, countdown>>
    <3>1. Good(view')
      BY <2>3, <2>8 DEF Good, Views, Moved
    <3>. QED  BY <2>4, <2>8, <3>1
  <2>9. CASE /\ scene' = [scene EXCEPT !.import = IF job.for = "approach" THEN "draw" ELSE "idle"]
             /\ view' = v /\ UNCHANGED <<gens, countdown>>
    BY <2>3, <2>4, <2>9 DEF Scenes
  <2>10. \/ job.for = "countdown" /\ Camera!ToOverview(v) /\ UNCHANGED scene
         \/ /\ countdown' = [countdown EXCEPT !.panned = TRUE]
            /\ view' = v /\ UNCHANGED <<gens, scene>>
         \/ /\ view' = IF job.gen = gens.overview THEN Camera!StartOverviewSequence(v) ELSE v
            /\ countdown' \in {countdown, Camera!NoCountdown, [countdown EXCEPT !.moved = TRUE]}
            /\ UNCHANGED <<gens, scene>>
         \/ /\ view' = IF job.gen = gens.walk THEN [v EXCEPT !.controls = FALSE, !.walk = TRUE] ELSE v
            /\ UNCHANGED <<gens, scene, countdown>>
         \/ /\ scene' = [scene EXCEPT !.import = IF job.for = "approach" THEN "draw" ELSE "idle"]
            /\ view' = v /\ UNCHANGED <<gens, countdown>>
    BY <1>1 DEF Camera!Resume, job, v
  <2>. QED  BY <2>5, <2>6, <2>7, <2>8, <2>9, <2>10
<1>2. CASE Camera!PrepTimer \/ Camera!SlideTimer
  BY <1>2 DEF Camera!PrepTimer, Camera!SlideTimer
<1>3. CASE Camera!CountdownSecond
  <2>1. UNCHANGED <<schematic, scene, leader, moves>> /\ countdown.at \in 1 .. 3
    BY <1>3 DEF Camera!CountdownSecond
  <2>2. CASE Camera!ToOverview(view)
    BY <2>1, <2>2, ToOverviewOK
  <2>3. CASE countdown' = [countdown EXCEPT !.at = @ - 1] /\ UNCHANGED <<view, gens>>
    BY <2>1, <2>3 DEF Countdowns
  <2>. QED  BY <1>3, <2>2, <2>3 DEF Camera!CountdownSecond
<1>4. CASE Camera!HideCountdown
  <2>1. countdown' \in Countdowns
    BY <1>4, NoCountdownIs DEF Camera!HideCountdown, Countdowns, Camera!After
  <2>. QED  BY <1>4, <2>1 DEF Camera!HideCountdown
<1>5. CASE Camera!RouteBuilt
  <2>1. Good(Camera!PanCameraTo(view, "frame", 0))
    BY ViewIsGood DEF Purpose
  <2>2. scene' \in Scenes
    BY <1>5 DEF Camera!RouteBuilt, Scenes
  <2>. QED  BY <1>5, <2>1, <2>2 DEF Camera!RouteBuilt
<1>6. CASE Camera!RouteDrawn
  <2>1. Good(Camera!StopFollowMesh(view))
    BY ViewIsGood
  <2>. QED  BY <1>6, <2>1 DEF Camera!RouteDrawn, Scenes
<1>7. CASE Camera!TickCameraIntro
  <2>1. Good([view EXCEPT !.intro = "over", !.controls = TRUE])
    BY DEF Good, Views, Moved
  <2>2. Good(view') /\ scene' \in Scenes
    BY <1>7, <2>1, IntroCompleteOK DEF Camera!TickCameraIntro
  <2>. QED  BY <1>7, <2>2 DEF Camera!TickCameraIntro
<1>8. CASE Camera!TickCameraPan
  <2>1. Camera!Resolved(view) \in Seq(Jobs)
    BY ViewIsGood
  <2>2. Good(view')
    BY <1>8, <2>1 DEF Camera!TickCameraPan, Good, Views, Pans, Moved
  <2>. QED  BY <1>8, <2>2 DEF Camera!TickCameraPan
<1>. QED  BY <1>1, <1>2, <1>3, <1>4, <1>5, <1>6, <1>7, <1>8 DEF Camera!System

\* The user, and what the camera does on its own: intros, presets and demos.
LEMMA CameraUser ==
    ASSUME CameraInv, MaxMoves \in Nat,
           \/ Camera!StartCountdownSequence \/ Camera!ImportPath \/ Camera!CtrlI
           \/ Camera!SkipIntro \/ Camera!ChooseDemo \/ Camera!PointerDown
           \/ Camera!FollowLeader \/ Camera!FollowRandomRunner
           \/ \E b \in BOOLEAN : Camera!PointerUp(b) \/ Camera!OnFilterChanged(b)
    PROVE  CameraInv'
<1> USE DEF CameraInv
<1>1. CASE Camera!StartCountdownSequence
  <2>1. Good(Camera!StopFollowMesh(view))
    BY ViewIsGood
  <2>2. Good(Camera!PanCameraTo(Camera!StopFollowMesh(view), "countdown", 0))
    BY <2>1, ViewIsGood DEF Purpose
  <2>3. countdown' \in Countdowns
    BY <1>1, NoCountdownIs DEF Camera!StartCountdownSequence, Countdowns
  <2>. QED  BY <1>1, <2>2, <2>3, EventCounted DEF Camera!StartCountdownSequence
<1>2. CASE Camera!ImportPath
  <2>1. Good(Camera!Approach(view, FALSE)) /\ Camera!Imported(scene, FALSE) \in Scenes
    BY ViewStaysGood DEF Scenes, Camera!Imported
  <2>. QED  BY <1>2, <2>1, EventCounted DEF Camera!ImportPath
<1>3. CASE Camera!CtrlI
  <2>1. Good(Camera!StartIntro(view, "moving"))
    BY ViewIsGood
  <2>2. CASE view.intro = "held" /\ view' = [view EXCEPT !.intro = "moving"] /\ UNCHANGED scene
    <3>1. Good(view')
      BY <2>2 DEF Good, Views, Moved
    <3>. QED  BY <1>3, <2>2, <3>1 DEF Camera!CtrlI, Camera!Event
  <2>3. CASE Camera!IntroComplete(Camera!StartIntro(view, "moving"), FALSE)
    <3>1. Good(view') /\ scene' \in Scenes
      BY <2>1, <2>3, IntroCompleteOK
    <3>. QED  BY <1>3, <3>1 DEF Camera!CtrlI, Camera!Event
  <2>4. CASE view' = Camera!StartIntro(view, "moving") /\ UNCHANGED scene
    BY <1>3, <2>1, <2>4 DEF Camera!CtrlI, Camera!Event
  <2>. QED  BY <1>3, <2>2, <2>3, <2>4 DEF Camera!CtrlI
<1>4. CASE Camera!SkipIntro
  <2>1. Good([view EXCEPT !.intro = "none", !.controls = TRUE])
    BY DEF Good, Views, Moved
  <2>2. Good(view') /\ scene' \in Scenes
    BY <1>4, <2>1, IntroCompleteOK DEF Camera!SkipIntro
  <2>. QED  BY <1>4, <2>2 DEF Camera!SkipIntro, Camera!Event
<1>5. CASE Camera!ChooseDemo
  <2> PICK sandbox \in BOOLEAN : Camera!SyncDemoIntro(sandbox, sandbox = demo.sandbox)
    BY <1>5 DEF Camera!ChooseDemo
  <2> DEFINE v == IF sandbox = demo.sandbox THEN Camera!CancelAnyIntro(view) ELSE view
  <2>1. Good(Camera!CancelAnyIntro(view)) /\ Good(v)
    BY ViewIsGood
  <2>2. Good(Camera!StartIntro(v, "held"))
    BY <2>1, ViewIsGood
  <2>3. \/ view' = Camera!CancelAnyIntro(view) /\ UNCHANGED scene
        \/ UNCHANGED <<view, scene>>
        \/ Camera!IntroComplete(Camera!StartIntro(v, "held"), FALSE)
        \/ view' = Camera!StartIntro(v, "held") /\ UNCHANGED scene
    BY DEF Camera!SyncDemoIntro
  <2>4. UNCHANGED <<schematic, leader, gens, countdown>> /\ Camera!Event
    BY DEF Camera!SyncDemoIntro
  <2> HIDE DEF v
  <2>5. Good(view') /\ scene' \in Scenes
    BY <2>1, <2>2, <2>3, IntroCompleteOK
  <2>. QED  BY <2>4, <2>5 DEF Camera!Event
<1>6. CASE Camera!PointerDown
  <2>1. Good(Camera!CancelPostFinish(view))
    BY ViewStaysGood
  <2>. QED  BY <1>6, <2>1 DEF Camera!PointerDown, Camera!Event
<1>7. CASE \E b \in BOOLEAN : Camera!PointerUp(b)
  <2>1. Good(Camera!CancelPostFinish(view)) /\ Good(Camera!StopFollowMesh(view))
    BY ViewIsGood, ViewStaysGood
  <2>2. leader' \in Leaders
    BY <1>7, NoLeader DEF Camera!PointerUp
  <2>3. Good(view')
    BY <1>7, <2>1 DEF Camera!PointerUp
  <2>. QED  BY <1>7, <2>2, <2>3 DEF Camera!PointerUp
<1>8. CASE Camera!FollowLeader \/ Camera!FollowRandomRunner
  <2>1. CASE Camera!ShowSchematic /\ UNCHANGED <<schematic, scene, countdown>> /\ Camera!Event
    <3>1. Good(Camera!SchematicCam(view))
      BY ViewStaysGood
    <3>. QED  BY <2>1, <3>1 DEF Camera!ShowSchematic, Camera!Event
  <2>2. ASSUME NEW g \in Guids, NEW active_ \in BOOLEAN,
               leader' = [active |-> active_, guid |-> g],
               \/ view' = Camera!Attach(Camera!CancelPostFinish(view), g)
               \/ view' = Camera!FollowMesh(view, g),
               UNCHANGED <<schematic, scene, countdown, gens>>, Camera!Event
        PROVE  CameraInv'
    <3>1. Good(Camera!CancelPostFinish(view))
      BY ViewStaysGood
    <3>2. Good(Camera!Attach(Camera!CancelPostFinish(view), g)) /\ Good(Camera!FollowMesh(view, g))
      BY <3>1, ViewIsGood, ViewStaysGood
    <3>. QED  BY <2>2, <3>2, NoLeader, EventCounted
  <2>3. Camera!Running \subseteq Guids
    BY DEF Camera!Running
  <2>. QED  BY <1>8, <2>1, <2>2, <2>3 DEF Camera!FollowLeader, Camera!FollowRandomRunner
<1>9. ASSUME NEW walk \in BOOLEAN, Camera!OnFilterChanged(walk)
      PROVE  CameraInv'
  <2> DEFINE v == Camera!CancelPostFinish(Camera!StopFollowMesh(view))
             w == [v EXCEPT !.walk = FALSE]
  <2>1. Good(v)
    BY ViewIsGood, ViewStaysGood
  <2>2. gens.walk + 1 \in Nat
    OBVIOUS
  <2>3. Good(Camera!SchematicCam(v)) /\ Good(Camera!PanCameraTo(v, "preset", 0))
    BY <2>1, ViewIsGood, ViewStaysGood DEF Purpose
  <2>4. /\ \/ view' \in {v, Camera!SchematicCam(v), Camera!PanCameraTo(v, "preset", 0)}
           \/ view' = Camera!PanCameraTo(w, "walk", gens.walk + 1)
        /\ gens' \in {gens, [gens EXCEPT !.walk = @ + 1]}
        /\ leader' \in {leader, [active |-> FALSE, guid |-> None]}
        /\ UNCHANGED <<schematic, scene, countdown>> /\ Camera!Event
    BY <1>9 DEF Camera!OnFilterChanged
  <2> HIDE DEF v
  <2>5. Good(Camera!PanCameraTo(w, "walk", gens.walk + 1))
    <3>1. v.ready \o Camera!Resolved(v) \in Seq(Jobs)
      BY <2>1, ViewIsGood DEF Good, Views
    <3>2. w.ready = v.ready /\ Camera!Resolved(w) = Camera!Resolved(v) /\ w \in Views
      BY <2>1 DEF Camera!Resolved, Good, Views
    <3> HIDE DEF w
    <3>3. /\ Camera!PanCameraTo(w, "walk", gens.walk + 1).pan.active
          /\ Camera!PanCameraTo(w, "walk", gens.walk + 1) \in Views
      BY <2>2, <3>1, <3>2 DEF Camera!PanCameraTo, Views, Pans, Purpose
    <3>. QED  BY <3>3 DEF Good, Moved
  <2>6. Good(view')
    BY <2>1, <2>3, <2>4, <2>5
  <2>7. leader' \in Leaders
    <3>1. leader' = leader \/ leader' = [active |-> FALSE, guid |-> None]
      BY <2>4
    <3>. QED  BY <3>1, NoLeader
  <2>8. gens' \in [overview : Nat, walk : Nat]
    <3>1. gens' = gens \/ gens' = [gens EXCEPT !.walk = @ + 1]
      BY <2>4
    <3>. QED  BY <2>2, <3>1
  <2>. QED  BY <2>4, <2>6, <2>7, <2>8, EventCounted
<1>. QED  BY <1>1, <1>2, <1>3, <1>4, <1>5, <1>6, <1>7, <1>8, <1>9

\* The race.
LEMMA CameraRace ==
    ASSUME CameraInv, MaxMoves \in Nat,
           \/ \E g \in Guids : \/ Camera!RunnerFinishes(g) \/ Camera!LeaderChanges(g)
                               \/ Camera!AddRunner(g)
           \/ Camera!OnSimRaceStarted \/ Camera!OnSimFinished \/ Camera!OnSimReset
    PROVE  CameraInv'
<1> USE DEF CameraInv
<1>1. ASSUME NEW g \in Guids, Camera!RunnerFinishes(g)
      PROVE  CameraInv'
  <2>1. Good(Camera!StartPostFinish(view))
    BY ViewStaysGood
  <2>2. scene' \in Scenes
    BY <1>1 DEF Camera!RunnerFinishes, Scenes
  <2>3. \/ UNCHANGED <<leader, view>>
        \/ view' = Camera!StartPostFinish(view) /\ leader' = [active |-> FALSE, guid |-> None]
    BY <1>1 DEF Camera!RunnerFinishes
  <2>. QED  BY <1>1, <2>1, <2>2, <2>3, NoLeader DEF Camera!RunnerFinishes
<1>2. ASSUME NEW g \in Guids, Camera!LeaderChanges(g)
      PROVE  CameraInv'
  <2>1. Good(Camera!Attach(view, g))
    BY ViewStaysGood
  <2>. QED  BY <1>2, <2>1, NoLeader DEF Camera!LeaderChanges, Camera!Running
<1>3. ASSUME NEW g \in Guids, Camera!AddRunner(g)
      PROVE  CameraInv'
  <2>1. Good(Camera!PanCameraTo(view, "add", 0))
    BY ViewIsGood DEF Purpose
  <2>2. [scene.runners EXCEPT ![g] = "running"] \in [Guids -> {"none", "running", "finished"}]
    BY DEF Scenes
  <2>3. scene' \in Scenes
    BY <1>3, <2>2 DEF Camera!AddRunner, Scenes
  <2>4. Good(view')
    BY <1>3, <2>1 DEF Camera!AddRunner
  <2>. QED  BY <1>3, <2>3, <2>4, EventCounted DEF Camera!AddRunner
<1>4. CASE Camera!OnSimRaceStarted
  <2>1. gens.overview + 1 \in Nat
    OBVIOUS
  <2>2. Good(Camera!StopFollowMesh(view)) /\ Good(Camera!TransitionToOverview(view, gens.overview + 1))
    BY <2>1, ViewIsGood, ViewStaysGood
  <2>3. Good(view') /\ gens' \in [overview : Nat, walk : Nat]
    BY <1>4, <2>1, <2>2 DEF Camera!OnSimRaceStarted
  <2>4. leader' \in Leaders
    BY <1>4, NoLeader DEF Camera!OnSimRaceStarted
  <2>. QED  BY <1>4, <2>3, <2>4, EventCounted DEF Camera!OnSimRaceStarted
<1>5. CASE Camera!OnSimFinished \/ Camera!OnSimReset
  <2>1. Good(Camera!StopFollowMesh(view))
    BY ViewIsGood
  <2>2. scene' \in Scenes
    <3>1. CASE Camera!OnSimFinished
      <4>1. [g \in Guids |-> IF scene.runners[g] = "none" THEN "none" ELSE "finished"]
              \in [Guids -> {"none", "running", "finished"}]
        OBVIOUS
      <4>. QED  BY <3>1, <4>1 DEF Camera!OnSimFinished, Scenes
    <3>2. CASE Camera!OnSimReset
      <4>1. [g \in Guids |-> "none"] \in [Guids -> {"none", "running", "finished"}]
        OBVIOUS
      <4>. QED  BY <3>2, <4>1 DEF Camera!OnSimReset, Scenes
    <3>. QED  BY <1>5, <3>1, <3>2
  <2>3. leader' \in Leaders
    BY <1>5, NoLeader DEF Camera!OnSimFinished, Camera!OnSimReset
  <2>4. Camera!Event /\ view' = Camera!StopFollowMesh(view) /\ UNCHANGED <<schematic, gens, countdown>>
    BY <1>5 DEF Camera!OnSimFinished, Camera!OnSimReset
  <2>. QED  BY <2>1, <2>2, <2>3, <2>4, EventCounted
<1>. QED  BY <1>1, <1>2, <1>3, <1>4, <1>5

LEMMA CameraInvariant == Spec => []CameraInv
<1>1. Init => CameraInv
  <2> SUFFICES ASSUME Init PROVE CameraInv
    OBVIOUS
  <2>1. Good(view)
    BY DEF Init, Camera!Init, Good, Views, Pans, Camera!NoPan
  <2>2. scene \in Scenes /\ countdown \in Countdowns
    BY DEF Init, Camera!Init, Scenes, Countdowns, Camera!NoCountdown, Camera!Idle
  <2>3. leader \in Leaders /\ gens \in [overview : Nat, walk : Nat]
    BY NoLeader DEF Init, Camera!Init
  <2>4. schematic \in BOOLEAN /\ moves \in 0 .. MaxMoves
    BY CameraAssumption DEF Init, Camera!Init
  <2>. QED  BY <2>1, <2>2, <2>3, <2>4 DEF CameraInv
<1>2. CameraInv /\ [Next]_vars => CameraInv'
  <2>1. ASSUME CameraInv, UNCHANGED cameraVars PROVE CameraInv'
    BY <2>1 DEF CameraInv, cameraVars
  <2>2. [Next]_vars => Camera!Next \/ UNCHANGED cameraVars
    BY DEF Next, vars
  <2>. QED  BY <2>1, <2>2, CameraSystem, CameraUser, CameraRace, CameraAssumption DEF Camera!Next
<1>. QED  BY <1>1, <1>2, PTL DEF Spec

(* RaceCamera: the orbit controls are off only while something moves the
   camera, whatever takes over from a pan, an intro or a walk. *)
THEOREM ControlsReturn == Spec => []ControlsComeBack
<1>1. CameraInv => ControlsComeBack
  BY DEF CameraInv, Good, Views, Moved, Scenes, Countdowns, Leaders, ControlsComeBack, Camera!TypeOK,
         Camera!ControlsComeBack, Camera!Idle, Camera!Hiding, Camera!After
<1>. QED  BY <1>1, CameraInvariant, PTL

\* The overlay of a countdown: the visible slot shows the number sent last, the hidden one has the
\* next or will have it before it is turned up.
Overlays ==
    [entered : BOOLEAN, slot : [{"A", "B"} -> Int \cup {None}], showing : {"A", "B"},
     prep : {<<>>} \cup ({"A", "B"} \X Int), hiding : BOOLEAN]

Prepared ==
    \/ overlay.prep = <<>> /\ overlay.slot[Camera!Other(overlay.showing)] = shown - 1
    \/ overlay.prep = <<Camera!Other(overlay.showing), shown - 1>>

OverlayInv ==
    /\ overlay \in Overlays
    /\ overlay.entered <=> countdown.at \in {-2} \cup 0 .. 3
    /\ overlay.entered =>
          /\ ~overlay.hiding /\ shown \in Int
          /\ overlay.slot[overlay.showing] = shown /\ Prepared
    /\ ~overlay.entered => overlay.prep = <<>>
    /\ countdown.at \in 1 .. 3 => shown = countdown.at

LEMMA ShowOK ==
    ASSUME overlay \in Overlays, NEW n \in Int,
           ~overlay.entered => overlay.prep = <<>>,
           overlay.entered => overlay.prep = <<>> /\ overlay.slot[Camera!Other(overlay.showing)] = n,
           Camera!Show(n)
    PROVE  /\ overlay' \in Overlays /\ shown' = n
           /\ overlay'.entered /\ ~overlay'.hiding
           /\ overlay'.slot[overlay'.showing] = n /\ Prepared'
<1>1. overlay' = Camera!OnShow(overlay, n) /\ shown' = n
  BY DEF Camera!Show
<1>2. CASE ~overlay.entered
  <2> DEFINE slot == [A |-> n, B |-> n - 1]
  <2>1. slot \in [{"A", "B"} -> Int \cup {None}] /\ slot["A"] = n /\ slot["B"] = n - 1
    OBVIOUS
  <2>2. overlay' = [entered |-> TRUE, slot |-> slot, showing |-> "A", prep |-> <<>>, hiding |-> FALSE]
    BY <1>1, <1>2 DEF Camera!OnShow
  <2> HIDE DEF slot
  <2>3. overlay' \in Overlays
    BY <2>1, <2>2 DEF Overlays
  <2>. QED  BY <1>1, <2>1, <2>2, <2>3 DEF Prepared, Camera!Other
<1>3. CASE overlay.entered
  <2> DEFINE seen == Camera!Other(overlay.showing)
  <2>1. overlay' = [overlay EXCEPT !.showing = seen, !.hiding = FALSE,
                                   !.prep = <<overlay.showing, n - 1>>]
    BY <1>1, <1>3 DEF Camera!OnShow
  <2>2. seen \in {"A", "B"} /\ Camera!Other(seen) = overlay.showing
    BY DEF Overlays, Camera!Other
  <2> HIDE DEF seen
  <2>3. <<overlay.showing, n - 1>> \in {"A", "B"} \X Int
    BY DEF Overlays
  <2>4. overlay' \in Overlays
    BY <2>1, <2>2, <2>3 DEF Overlays
  <2>5. /\ overlay'.showing = seen /\ overlay'.slot = overlay.slot /\ overlay'.entered
        /\ ~overlay'.hiding /\ overlay'.prep = <<overlay.showing, n - 1>>
    BY <1>3, <2>1 DEF Overlays
  <2>6. overlay.slot[seen] = n
    BY <1>3 DEF seen
  <2>. QED  BY <1>1, <2>2, <2>4, <2>5, <2>6 DEF Prepared
<1>. QED  BY <1>2, <1>3

LEMMA OverlayStep ==
    ASSUME CameraInv, OverlayInv, Camera!Next
    PROVE  OverlayInv'
<1> USE DEF OverlayInv
<1>0. countdown \in Countdowns
  BY DEF CameraInv
<1>1. CASE UNCHANGED <<overlay, shown>> /\ countdown'.at = countdown.at
  BY <1>1 DEF Prepared
<1>2. CASE Camera!PrepTimer
  <2>1. /\ overlay.prep # <<>> /\ UNCHANGED <<countdown, shown>>
        /\ overlay' = [overlay EXCEPT !.slot = [@ EXCEPT ![overlay.prep[1]] = overlay.prep[2]],
                                      !.prep = <<>>]
    BY <1>2 DEF Camera!PrepTimer, Overlays
  <2>2. overlay.entered /\ overlay.prep = <<Camera!Other(overlay.showing), shown - 1>>
    BY <2>1 DEF Prepared
  <2>3. /\ Camera!Other(overlay.showing) \in {"A", "B"} \ {overlay.showing}
        /\ overlay.slot \in [{"A", "B"} -> Int \cup {None}]
    BY DEF Overlays, Camera!Other
  <2> DEFINE slot == [overlay.slot EXCEPT ![Camera!Other(overlay.showing)] = shown - 1]
  <2>4. /\ slot \in [{"A", "B"} -> Int \cup {None}]
        /\ slot[overlay.showing] = shown /\ slot[Camera!Other(overlay.showing)] = shown - 1
    BY <2>2, <2>3 DEF Overlays
  <2>5. overlay' = [overlay EXCEPT !.slot = slot, !.prep = <<>>]
    BY <2>1, <2>2
  <2> HIDE DEF slot
  <2>6. overlay' \in Overlays
    BY <2>4, <2>5 DEF Overlays
  <2>7. /\ overlay'.slot = slot /\ overlay'.prep = <<>> /\ overlay'.showing = overlay.showing
        /\ overlay'.entered = overlay.entered /\ overlay'.hiding = overlay.hiding
    BY <2>5 DEF Overlays
  <2>. QED  BY <2>1, <2>2, <2>4, <2>6, <2>7 DEF Prepared
<1>3. CASE Camera!SlideTimer
  <2>1. overlay.hiding /\ ~overlay.entered /\ UNCHANGED <<countdown, shown>>
    BY <1>3 DEF Camera!SlideTimer
  <2>2. overlay' = [overlay EXCEPT !.hiding = FALSE, !.slot = Camera!Blank, !.showing = "A"]
    BY <1>3 DEF Camera!SlideTimer
  <2>3. Camera!Blank \in [{"A", "B"} -> Int \cup {None}]
    BY DEF Camera!Blank
  <2>. QED  BY <2>1, <2>2, <2>3 DEF Overlays
<1>4. CASE Camera!StartCountdownSequence
  <2>1. /\ countdown.at = -1 /\ countdown'.at = 3 /\ Camera!Show(3)
    BY <1>4 DEF Camera!StartCountdownSequence, Camera!CountdownPlaying, Camera!Idle,
                Camera!NoCountdown
  <2>2. ~overlay.entered
    BY <2>1
  <2>3. /\ overlay' \in Overlays /\ shown' = 3 /\ overlay'.entered /\ ~overlay'.hiding
        /\ overlay'.slot[overlay'.showing] = 3 /\ Prepared'
    BY <2>1, <2>2, ShowOK
  <2>. QED  BY <2>1, <2>3
<1>5. CASE Camera!CountdownSecond
  <2>1. /\ countdown.at \in 1 .. 3 /\ overlay.prep = <<>> /\ Camera!Show(countdown.at - 1)
        /\ countdown'.at = countdown.at - 1 \/ (countdown.at = 1 /\ countdown'.at = -2)
    BY <1>0, <1>5 DEF Camera!CountdownSecond, Camera!ToOverview, Countdowns, Camera!Hiding
  <2>2. overlay.entered /\ shown = countdown.at
        /\ overlay.slot[Camera!Other(overlay.showing)] = countdown.at - 1
    BY <2>1 DEF Prepared
  <2>3. /\ overlay' \in Overlays /\ shown' = countdown.at - 1 /\ overlay'.entered /\ ~overlay'.hiding
        /\ overlay'.slot[overlay'.showing] = countdown.at - 1 /\ Prepared'
    BY <2>1, <2>2, ShowOK
  <2>. QED  BY <2>1, <2>3
<1>6. CASE Camera!HideCountdown
  <2>1. countdown'.at \in {-1, -3}
    BY <1>0, <1>6 DEF Camera!HideCountdown, Camera!NoCountdown, Camera!Idle, Camera!After, Countdowns
  <2>2. overlay' = [overlay EXCEPT !.prep = <<>>, !.entered = FALSE, !.hiding = TRUE]
    BY <1>6 DEF Camera!HideCountdown, Camera!OnHide
  <2>3. overlay' \in Overlays /\ overlay'.prep = <<>> /\ ~overlay'.entered
    BY <2>2 DEF Overlays
  <2>. QED  BY <2>1, <2>3
<1>7. CASE Camera!Resume
  <2>1. UNCHANGED <<overlay, shown>>
    BY <1>7 DEF Camera!Resume
  <2>2. \/ countdown.at = 0 /\ countdown'.at = -2
        \/ countdown.at = -3 /\ countdown'.at = -1
        \/ countdown'.at = countdown.at
    <3>1. ASSUME NEW v, countdown.at = 0, Camera!ToOverview(v)
          PROVE  countdown.at = 0 /\ countdown'.at = -2
      BY <1>0, <3>1 DEF Camera!ToOverview, Camera!Hiding, Countdowns
    <3>2. /\ [countdown EXCEPT !.panned = TRUE].at = countdown.at
          /\ [countdown EXCEPT !.moved = TRUE].at = countdown.at
      BY <1>0 DEF Countdowns
    <3>3. Camera!NoCountdown.at = -1 /\ Camera!After = -3
      BY DEF Camera!NoCountdown, Camera!Idle, Camera!After
    <3>4. \/ \E v : countdown.at = 0 /\ Camera!ToOverview(v)
          \/ countdown' = [countdown EXCEPT !.panned = TRUE]
          \/ countdown' = [countdown EXCEPT !.moved = TRUE]
          \/ countdown.at = Camera!After /\ countdown' = Camera!NoCountdown
          \/ countdown' = countdown
      BY <1>7 DEF Camera!Resume
    <3>. QED  BY <3>1, <3>2, <3>3, <3>4
  <2>. QED  BY <2>1, <2>2 DEF Prepared
<1>8. \/ Camera!PrepTimer \/ Camera!SlideTimer \/ Camera!StartCountdownSequence
      \/ Camera!CountdownSecond \/ Camera!HideCountdown \/ Camera!Resume
      \/ UNCHANGED <<overlay, shown, countdown>>
  BY DEF Camera!Next, Camera!System, Camera!RouteBuilt, Camera!RouteDrawn, Camera!TickCameraIntro,
         Camera!TickCameraPan, Camera!RunnerFinishes, Camera!LeaderChanges, Camera!AddRunner,
         Camera!ImportPath, Camera!CtrlI, Camera!SkipIntro, Camera!ChooseDemo,
         Camera!SyncDemoIntro, Camera!PointerDown, Camera!FollowLeader,
         Camera!FollowRandomRunner, Camera!PointerUp, Camera!OnFilterChanged,
         Camera!OnSimRaceStarted, Camera!OnSimFinished, Camera!OnSimReset
<1>. QED  BY <1>1, <1>2, <1>3, <1>4, <1>5, <1>6, <1>7, <1>8

(* RaceCamera: the visible slot of the countdown overlay shows the number sent
   last, though it was filled while it was hidden. *)
THEOREM NumberIsShown == Spec => []NumberShown
<1>1. Init => OverlayInv
  <2> SUFFICES ASSUME Init PROVE OverlayInv
    OBVIOUS
  <2>1. Camera!Blank \in [{"A", "B"} -> Int \cup {None}]
    BY DEF Camera!Blank
  <2>2. overlay = [entered |-> FALSE, slot |-> Camera!Blank, showing |-> "A", prep |-> <<>>,
                   hiding |-> FALSE]
    BY DEF Init, Camera!Init
  <2>3. countdown.at = -1
    BY DEF Init, Camera!Init, Camera!NoCountdown, Camera!Idle
  <2>4. overlay \in Overlays
    BY <2>1, <2>2 DEF Overlays
  <2>. QED  BY <2>2, <2>3, <2>4 DEF OverlayInv
<1>2. CameraInv /\ OverlayInv /\ [Next]_vars => OverlayInv'
  <2>1. ASSUME OverlayInv, UNCHANGED cameraVars PROVE OverlayInv'
    BY <2>1 DEF OverlayInv, Prepared, cameraVars
  <2>2. [Next]_vars => Camera!Next \/ UNCHANGED cameraVars
    BY DEF Next, vars
  <2>. QED  BY <2>1, <2>2, OverlayStep
<1>3. OverlayInv => NumberShown
  BY DEF OverlayInv, NumberShown, Camera!NumberShown
<1>. QED  BY <1>1, <1>2, <1>3, CameraInvariant, PTL DEF Spec

(***************************************************************************)
(* What stands beside the route.                                           *)
(***************************************************************************)
\* An icon is told from one placed later by its route: whatever is of the route built last can be
\* picked, so that no zone is placed where something is hovered, focused or pinned.
Placed(x) == x \in Scenery!Icons /\ x.route <= built /\ (x.route = built => x \in picks)

Tips ==
    [on : BOOLEAN, visible : BOOLEAN, expanded : BOOLEAN, icon : Scenery!Icons \cup {None},
     hide : BOOLEAN, expand : BOOLEAN]

TipInv ==
    /\ tip \in Tips
    /\ tip.icon # None => tip.on /\ tip.visible /\ ~tip.hide
    /\ tip.expanded => tip.visible
    /\ tip.expand => tip.visible

IconsInv ==
    /\ built \in Nat /\ filters \in [support : BOOLEAN, entertainment : BOOLEAN]
    /\ picks \subseteq Scenery!Icons /\ \A x \in picks : x.route <= built
    /\ zones \subseteq picks
    /\ pointer \in [over : Scenery!Icons \cup {None}, dirty : BOOLEAN]
    /\ \A x \in pins : Placed(x)
    /\ \A x \in {hovered, focused} : x = None \/ Placed(x)
    /\ \A x \in pins \cap picks : Scenery!Allowed(x.type, filters)
    /\ {hovered, focused} \cap picks \subseteq pins
    /\ Scenery!IconsAreTheZones

LEMMA IconsAre ==
    /\ \A x \in Scenery!Icons : x.route \in Nat /\ x.type \in STRING
    /\ None \notin Scenery!Icons
<1>1. \A n \in DOMAIN Routes : Routes[n] \subseteq STRING /\ n \in Nat
  BY SceneryAssumption
<1>2. \A x \in Scenery!Icons : x \in [route : Nat, type : STRING]
  BY <1>1 DEF Scenery!Icons
<1>. QED  BY <1>2, SceneryAssumption

LEMMA HitOK ==
    ASSUME IconsInv
    PROVE  Scenery!Hit = None \/ (Placed(Scenery!Hit) /\ Scenery!Hit \in pins)
BY DEF IconsInv, Scenery!Hit

LEMMA SceneryStep ==
    ASSUME TipInv, IconsInv, Scenery!Next
    PROVE  TipInv' /\ IconsInv'
<1> USE IconsAre DEF IconsInv
<1>1. CASE Scenery!BuildRoute
  <2>1. TipInv'
    BY <1>1 DEF Scenery!BuildRoute, TipInv
  <2>2. /\ built' = built + 1 /\ picks' = picks \ zones /\ zones' = {}
        /\ UNCHANGED <<pins, hovered, focused, filters, pointer, removed>>
    BY <1>1 DEF Scenery!BuildRoute
  <2>3. \A x : Placed(x) => Placed(x)'
    BY <2>2 DEF Placed
  <2>. QED  BY <2>1, <2>2, <2>3 DEF Scenery!IconsAreTheZones
<1>2. ASSUME NEW type \in Scenery!SupportZones \cup {Scenery!CrowdZone}, Scenery!PlaceZone(type)
      PROVE  TipInv' /\ IconsInv'
  <2> DEFINE zone == [route |-> built, type |-> type]
  <2>1. TipInv'
    BY <1>2 DEF Scenery!PlaceZone, TipInv
  <2>2. /\ zone \in Scenery!Icons \ picks
        /\ picks' = picks \cup {zone} /\ zones' = zones \cup {zone}
        /\ UNCHANGED <<built, pins, hovered, focused, filters, pointer, removed>>
    BY <1>2 DEF Scenery!PlaceZone
  <2>3. zone.route = built
    OBVIOUS
  <2> HIDE DEF zone
  <2>4. \A x : Placed(x) => Placed(x)' /\ x # zone
    BY <2>2, <2>3 DEF Placed
  <2>5. zone # None /\ zone \notin pins
    BY <2>2, <2>4
  <2>. QED  BY <2>1, <2>2, <2>3, <2>4, <2>5 DEF Scenery!IconsAreTheZones
<1>3. CASE Scenery!RouteBuilt
  <2>1. TipInv'
    BY <1>3 DEF Scenery!RouteBuilt, TipInv
  <2>2. /\ pins' = Scenery!Shown(filters)
        /\ UNCHANGED <<built, zones, picks, hovered, focused, filters, pointer, removed>>
    BY <1>3 DEF Scenery!RouteBuilt
  <2>3. \A x : Placed(x) => Placed(x)'
    BY <2>2 DEF Placed
  <2>4. \A x \in picks : Placed(x)
    BY DEF Placed
  <2>. QED  BY <2>1, <2>2, <2>3, <2>4 DEF Scenery!IconsAreTheZones, Scenery!Shown
<1>4. CASE Scenery!RemoveRoute
  <2>1. TipInv'
    BY <1>4 DEF Scenery!RemoveRoute, TipInv
  <2>2. /\ zones' = {} /\ removed'
        /\ UNCHANGED <<built, picks, pins, hovered, focused, filters, pointer>>
    BY <1>4 DEF Scenery!RemoveRoute
  <2>3. \A x : Placed(x) => Placed(x)'
    BY <2>2 DEF Placed
  <2>. QED  BY <2>1, <2>2, <2>3 DEF Scenery!IconsAreTheZones
<1>5. ASSUME NEW name \in DOMAIN filters, Scenery!Filter(name)
      PROVE  TipInv' /\ IconsInv'
  <2> DEFINE f == [filters EXCEPT ![name] = ~@]
  <2>1. TipInv'
    BY <1>5 DEF Scenery!Filter, TipInv
  <2>2. /\ filters' = f /\ pins' = Scenery!Shown(f)
        /\ hovered' = IF f[name] THEN hovered ELSE None
        /\ focused' = IF f[name] THEN focused ELSE None
        /\ UNCHANGED <<built, zones, picks, pointer, removed>>
    BY <1>5 DEF Scenery!Filter
  <2>3. name \in {"support", "entertainment"}
    OBVIOUS
  <2>4. f \in [support : BOOLEAN, entertainment : BOOLEAN]
    BY <2>3
  <2>5. ASSUME NEW type, Scenery!Allowed(type, filters), f[name]
        PROVE  Scenery!Allowed(type, f)
    BY <2>3, <2>5 DEF Scenery!Allowed
  <2> HIDE DEF f
  <2>6. \A x : Placed(x) => Placed(x)'
    BY <2>2 DEF Placed
  <2>7. \A x \in picks : Placed(x)
    BY DEF Placed
  <2>8. \A x \in pins' : Placed(x)
    BY <2>2, <2>7 DEF Scenery!Shown
  <2>9. \A x \in pins' \cap picks : Scenery!Allowed(x.type, f)
    BY <2>2 DEF Scenery!Shown
  <2>10. f[name] => {hovered, focused} \cap picks \subseteq pins'
    BY <2>2, <2>5 DEF Scenery!Shown
  <2>11. {hovered', focused'} \cap picks \subseteq pins'
    BY <2>2, <2>10
  <2>. QED  BY <2>1, <2>2, <2>4, <2>6, <2>8, <2>9, <2>11 DEF Scenery!IconsAreTheZones
<1>6. ASSUME NEW icon \in Scenery!Icons \cup {None}, Scenery!MouseMove(icon) \/ Scenery!CameraMoves(icon)
      PROVE  TipInv' /\ IconsInv'
  <2>1. TipInv'
    BY <1>6 DEF Scenery!MouseMove, Scenery!CameraMoves, TipInv
  <2>0. /\ [pointer EXCEPT !.over = icon] \in [over : Scenery!Icons \cup {None}, dirty : BOOLEAN]
        /\ [over |-> icon, dirty |-> TRUE] \in [over : Scenery!Icons \cup {None}, dirty : BOOLEAN]
    OBVIOUS
  <2>2. /\ pointer' \in [over : Scenery!Icons \cup {None}, dirty : BOOLEAN]
        /\ UNCHANGED <<built, zones, picks, pins, filters, hovered, focused, removed>>
    BY <1>6, <2>0 DEF Scenery!MouseMove, Scenery!CameraMoves
  <2>. QED  BY <2>1, <2>2 DEF Placed, Scenery!IconsAreTheZones
<1>7. CASE Scenery!Click
  <2>1. TipInv'
    BY <1>7 DEF Scenery!Click, TipInv
  <2>2. focused' = Scenery!Hit
        /\ UNCHANGED <<built, zones, picks, pins, filters, pointer, hovered, removed>>
    BY <1>7 DEF Scenery!Click
  <2>3. \A x : Placed(x) => Placed(x)'
    BY <2>2 DEF Placed
  <2>. QED  BY <2>1, <2>2, <2>3, HitOK DEF Scenery!IconsAreTheZones
<1>8. CASE Scenery!Frame
  <2>1. TipInv'
    <3> DEFINE icon == IF hovered # None THEN hovered ELSE focused
    <3>1. icon \in Scenery!Icons \cup {None} /\ tip' = Scenery!TipFor(icon)
      BY <1>8 DEF Scenery!Frame, Placed
    <3> HIDE DEF icon
    <3>2. tip' \in Tips
      BY <3>1 DEF Scenery!TipFor, TipInv, Tips
    <3>. QED  BY <3>1, <3>2 DEF Scenery!TipFor, TipInv, Tips
  <2>2. /\ hovered' \in {hovered, Scenery!Hit}
        /\ pointer' \in [over : Scenery!Icons \cup {None}, dirty : BOOLEAN]
        /\ UNCHANGED <<built, zones, picks, pins, filters, focused, removed>>
    BY <1>8 DEF Scenery!Frame
  <2>3. \A x : Placed(x) => Placed(x)'
    BY <2>2 DEF Placed
  <2>. QED  BY <2>1, <2>2, <2>3, HitOK DEF Scenery!IconsAreTheZones
<1>9. CASE Scenery!HideTimer \/ Scenery!ExpandTimer
  <2>1. TipInv'
    BY <1>9 DEF Scenery!HideTimer, Scenery!ExpandTimer, TipInv, Tips
  <2>2. UNCHANGED <<built, zones, picks, pins, filters, pointer, hovered, focused, removed>>
    BY <1>9 DEF Scenery!HideTimer, Scenery!ExpandTimer
  <2>. QED  BY <2>1, <2>2 DEF Placed, Scenery!IconsAreTheZones
<1>10. CASE Scenery!PaintJam \/ Scenery!ModelLoads \/ \E error \in BOOLEAN : Scenery!SetError(error)
  <2>1. UNCHANGED <<built, zones, picks, pins, filters, pointer, hovered, focused, tip, removed>>
    BY <1>10 DEF Scenery!PaintJam, Scenery!ModelLoads, Scenery!SetError
  <2>. QED  BY <2>1 DEF TipInv, Placed, Scenery!IconsAreTheZones
<1>. QED  BY <1>1, <1>2, <1>3, <1>4, <1>5, <1>6, <1>7, <1>8, <1>9, <1>10 DEF Scenery!Next

(* RaceScenery: the tooltip of an icon stays as long as the icon is hovered,
   whatever timers run; what a filter hides is not hovered; and what answers
   the pointer are the icons of the zones. *)
THEOREM SceneryTrue == Spec => []SceneryIsTrue
<1>1. Init => TipInv /\ IconsInv
  <2> SUFFICES ASSUME Init PROVE TipInv /\ IconsInv
    OBVIOUS
  <2>1. TipInv
    BY DEF Init, Scenery!Init, TipInv, Tips
  <2>2. /\ built = 0 /\ zones = {} /\ picks = {} /\ pins = {} /\ hovered = None /\ focused = None
        /\ pointer = [over |-> None, dirty |-> FALSE] /\ filters = [support |-> TRUE, entertainment |-> TRUE]
    BY DEF Init, Scenery!Init
  <2>. QED  BY <2>1, <2>2 DEF IconsInv, Scenery!IconsAreTheZones
<1>2. TipInv /\ IconsInv /\ [Next]_vars => TipInv' /\ IconsInv'
  <2>1. ASSUME TipInv, IconsInv, UNCHANGED sceneryVars PROVE TipInv' /\ IconsInv'
    BY <2>1 DEF TipInv, IconsInv, Placed, Scenery!IconsAreTheZones, sceneryVars
  <2>2. [Next]_vars => Scenery!Next \/ UNCHANGED sceneryVars
    BY DEF Next, vars
  <2>. QED  BY <2>1, <2>2, SceneryStep
<1>3. TipInv /\ IconsInv => SceneryIsTrue
  BY DEF TipInv, IconsInv, SceneryIsTrue, Scenery!TipIsTrue
<1>. QED  BY <1>1, <1>2, <1>3, PTL DEF Spec

(***************************************************************************)
(* The route and its masks.                                                *)
(***************************************************************************)
LEMMA SeqIs ==
    ASSUME NEW S, NEW q \in Seq(S)
    PROVE  DOMAIN q = 1 .. Len(q) /\ Len(q) \in Nat /\ (q = <<>> <=> Len(q) = 0)
OBVIOUS

Stages == {"approach", "queued", "textures", "start", "goal", "icons", "framing", "done", "failed"}

Imports == [stage : Stages, after : Nat, icons : BOOLEAN]

\* Imports no removal met that wait for their turn or have it.
Due == {i \in Course!Ids \ strays : Course!Loading(i) \/ imports[i].stage = "queued"}

\* They stand in a line: each waits for the one before it, the first for nobody, and the next will
\* wait for the last.
Line(q) ==
    /\ \A m \in DOMAIN q : q[m] \in Due
    /\ \A i \in Due : \E m \in DOMAIN q : q[m] = i
    /\ \A m \in DOMAIN q : IF m = 1 THEN Course!Settled(imports[q[1]].after)
                           ELSE imports[q[m]].after = q[m - 1]
    /\ \A m \in DOMAIN q : Course!Loading(q[m]) => m = 1
    /\ \A m, n \in DOMAIN q : q[m] = q[n] => m = n
    /\ IF q = <<>> THEN Course!Settled(chain) ELSE chain = q[Len(q)]

ImportsInv ==
    /\ imports \in Seq(Imports) /\ chain \in 0 .. Len(imports)
    /\ \A i \in Course!Ids : imports[i].after \in 0 .. Len(imports)
    /\ strays \subseteq Course!Ids /\ \A i \in strays : imports[i].stage # "approach"

TubesInv ==
    /\ route \in [current : Nat, old : Nat, goal : Nat]
    /\ tubes \subseteq Nat \ {0}
    /\ strays = {} =>
          /\ tubes \subseteq {route.current, route.old}
          /\ \A i \in Course!Ids : imports[i].stage = "textures" => route.current = route.old

CourseInv == ImportsInv /\ TubesInv

InLine == \E q \in Seq(Course!Ids) : Line(q)

LEMMA DueAre ==
    ASSUME CourseInv, NEW q \in Seq(Course!Ids), Line(q)
    PROVE  /\ \A i \in Due : ~Course!Settled(i)
           /\ \A i \in Due : Course!Settled(imports[i].after) => q # <<>> /\ i = q[1]
           /\ \A i \in Course!Ids \ strays : Course!Loading(i) => i \in Due /\ q # <<>> /\ i = q[1]
<1>1. \A i \in Due : ~Course!Settled(i)
  BY DEF Due, Course!Settled, Course!Loading, Course!Ids
<1>2. ASSUME NEW i \in Due, Course!Settled(imports[i].after)
      PROVE  q # <<>> /\ i = q[1]
  <2> PICK m \in DOMAIN q : q[m] = i
    BY DEF Line
  <2>1. DOMAIN q = 1 .. Len(q)
    OBVIOUS
  <2>2. CASE m # 1
    <3>1. imports[i].after = q[m - 1] /\ m - 1 \in DOMAIN q
      BY <2>1, <2>2 DEF Line
    <3>2. q[m - 1] \in Due
      BY <3>1 DEF Line
    <3>. QED  BY <1>1, <1>2, <3>1, <3>2
  <2>. QED  BY <2>1, <2>2
<1>3. ASSUME NEW i \in Course!Ids \ strays, Course!Loading(i)
      PROVE  i \in Due /\ q # <<>> /\ i = q[1]
  <2>1. i \in Due
    BY <1>3 DEF Due
  <2> PICK m \in DOMAIN q : q[m] = i
    BY <2>1 DEF Line
  <2>. QED  BY <1>3, <2>1 DEF Line
<1>. QED  BY <1>1, <1>2, <1>3

\* An import gets to another stage.
LEMMA ToOK ==
    ASSUME CourseInv, NEW i \in Course!Ids, NEW stage \in Stages, Course!To(i, stage)
    PROVE  /\ imports' \in Seq(Imports) /\ Len(imports') = Len(imports)
           /\ Course!Ids' = Course!Ids
           /\ imports'[i].stage = stage
           /\ \A j \in Course!Ids : /\ imports'[j].after = imports[j].after
                                    /\ imports'[j].icons = imports[j].icons
                                    /\ j # i => imports'[j].stage = imports[j].stage
<1> DEFINE new == [imports[i] EXCEPT !.stage = stage]
<1>1. imports[i] \in Imports /\ imports \in Seq(Imports)
  BY DEF CourseInv, ImportsInv, TubesInv, Course!Ids
<1>2. /\ new \in Imports /\ new.stage = stage
      /\ new.after = imports[i].after /\ new.icons = imports[i].icons
  BY <1>1 DEF Imports
<1>3. imports' = [imports EXCEPT ![i] = new]
  BY DEF Course!To
<1> HIDE DEF new
<1>4. imports' \in Seq(Imports) /\ Len(imports') = Len(imports) /\ Course!Ids' = Course!Ids
  BY <1>1, <1>2, <1>3 DEF Course!Ids
<1>5. imports'[i] = new /\ \A j \in Course!Ids \ {i} : imports'[j] = imports[j]
  BY <1>1, <1>3 DEF Course!Ids
<1>. QED  BY <1>2, <1>4, <1>5

\* It stays in line.
LEMMA StaysInLine ==
    ASSUME CourseInv, InLine, NEW i \in Course!Ids, NEW stage \in {"textures", "start", "goal", "icons"},
           Course!To(i, stage), Course!Loading(i) \/ imports[i].stage = "queued",
           Course!Loading(i) \/ Course!Settled(imports[i].after), UNCHANGED <<chain, strays>>
    PROVE  InLine'
<1> PICK q \in Seq(Course!Ids) : Line(q)
  BY DEF InLine
<1>1. /\ imports' \in Seq(Imports) /\ Len(imports') = Len(imports) /\ Course!Ids' = Course!Ids
      /\ imports'[i].stage = stage
      /\ \A j \in Course!Ids : /\ imports'[j].after = imports[j].after
                               /\ j # i => imports'[j].stage = imports[j].stage
  BY ToOK DEF Stages
<1>2. Due' = Due
  BY <1>1 DEF Due, Course!Loading
<1>3. \A j \in 0 .. Len(imports) : Course!Settled(j) => Course!Settled(j)'
  BY <1>1 DEF Course!Settled, Course!Ids, Course!Loading
<1>4. \A j \in Due : Course!Loading(j)' => j = q[1] /\ q # <<>>
  <2> SUFFICES ASSUME NEW j \in Due, Course!Loading(j)'
               PROVE  j = q[1] /\ q # <<>>
    OBVIOUS
  <2>1. CASE j = i
    BY <2>1, DueAre DEF Due
  <2>2. CASE j # i
    <3>1. Course!Loading(j)
      BY <1>1, <2>2 DEF Due, Course!Loading
    <3>. QED  BY <3>1, DueAre DEF Due
  <2>. QED  BY <2>1, <2>2
<1>5. Line(q)'
  <2>1. \A m \in DOMAIN q : q[m] \in Due /\ q[m] \in Course!Ids /\ imports[q[m]].after \in 0 .. Len(imports)
    BY DEF Line, CourseInv, ImportsInv, TubesInv
  <2>2. chain \in 0 .. Len(imports)
    BY DEF CourseInv, ImportsInv, TubesInv
  <2>3. \A m \in DOMAIN q : Course!Loading(q[m])' => m = 1
    BY <1>4, <2>1 DEF Line
  <2>. QED  BY <1>1, <1>2, <1>3, <2>1, <2>2, <2>3 DEF Line
<1>. QED  BY <1>1, <1>5 DEF InLine

\* It leaves the line, of which it was the first.
LEMMA LeavesLine ==
    ASSUME CourseInv, InLine, NEW i \in Course!Ids, NEW stage \in {"framing", "failed"},
           Course!To(i, stage), Course!Loading(i), UNCHANGED <<chain, strays>>
    PROVE  InLine'
<1> PICK q \in Seq(Course!Ids) : Line(q)
  BY DEF InLine
<1>1. /\ imports' \in Seq(Imports) /\ Len(imports') = Len(imports) /\ Course!Ids' = Course!Ids
      /\ imports'[i].stage = stage
      /\ \A j \in Course!Ids : /\ imports'[j].after = imports[j].after
                               /\ j # i => imports'[j].stage = imports[j].stage
  BY ToOK DEF Stages
<1>2. Due' = Due \ {i}
  BY <1>1 DEF Due, Course!Loading
<1>3. \A j \in 0 .. Len(imports) : Course!Settled(j) => Course!Settled(j)'
  BY <1>1 DEF Course!Settled, Course!Ids, Course!Loading
<1>4. Course!Settled(i)'
  BY <1>1 DEF Course!Settled
<1>5. \A j \in Course!Ids : Course!Loading(j)' => Course!Loading(j) /\ j # i
  BY <1>1 DEF Course!Loading
<1>6. /\ \A m \in DOMAIN q : q[m] \in Due /\ q[m] \in Course!Ids
                             /\ imports[q[m]].after \in 0 .. Len(imports)
      /\ chain \in 0 .. Len(imports)
  BY DEF Line, CourseInv, ImportsInv, TubesInv
<1>7. CASE i \in strays
  <2>1. Due' = Due
    BY <1>2, <1>7 DEF Due
  <2>2. Line(q)'
    BY <1>1, <1>3, <1>5, <1>6, <2>1 DEF Line
  <2>. QED  BY <1>1, <2>2 DEF InLine
<1>8. CASE i \notin strays
  <2>1. q # <<>> /\ i = q[1]
    BY <1>8, DueAre
  <2> DEFINE p == Tail(q)
  <2>2. /\ p \in Seq(Course!Ids) /\ Len(p) = Len(q) - 1 /\ DOMAIN p = 1 .. Len(q) - 1
        /\ \A m \in 1 .. Len(q) - 1 : p[m] = q[m + 1]
        /\ DOMAIN q = 1 .. Len(q) /\ Len(q) \in Nat \ {0}
        /\ p = <<>> <=> Len(q) = 1
    <3>1. DOMAIN q = 1 .. Len(q) /\ Len(q) \in Nat \ {0}
      BY <2>1
    <3>2. p \in Seq(Course!Ids) /\ Len(p) = Len(q) - 1
      BY <2>1
    <3>3. \A m \in 1 .. Len(q) - 1 : p[m] = q[m + 1]
      BY <2>1
    <3> HIDE DEF p
    <3>4. (p = <<>> <=> Len(p) = 0) /\ DOMAIN p = 1 .. Len(p)
      BY <3>2, SeqIs
    <3>. QED  BY <3>1, <3>2, <3>3, <3>4
  <2> HIDE DEF p
  <2>3. \A m \in DOMAIN p : m + 1 \in DOMAIN q /\ p[m] = q[m + 1] /\ p[m] # i
    BY <2>1, <2>2 DEF Line
  <2>4. \A m \in DOMAIN p : p[m] \in Due'
    BY <1>2, <1>6, <2>3
  <2>5. ASSUME NEW j \in Due'
        PROVE  \E m \in DOMAIN p : p[m] = j
    <3> PICK m \in DOMAIN q : q[m] = j
      BY <1>2, <2>5 DEF Line
    <3>1. m # 1
      BY <1>2, <2>1, <2>5
    <3>2. m - 1 \in DOMAIN p /\ p[m - 1] = j
      BY <2>2, <3>1
    <3>. QED  BY <3>2
  <2>6. ASSUME NEW m \in DOMAIN p
        PROVE  IF m = 1 THEN Course!Settled(imports[p[1]].after)' ELSE imports'[p[m]].after = p[m - 1]
    <3>1. imports[q[m + 1]].after = q[m]
      <4>1. m + 1 \in DOMAIN q /\ m + 1 # 1 /\ (m + 1) - 1 = m
        BY <2>2, <2>6
      <4>2. imports[q[m + 1]].after = q[(m + 1) - 1]
        BY <4>1 DEF Line
      <4>. QED  BY <4>1, <4>2
    <3>2. imports'[p[m]].after = q[m]
      BY <1>1, <1>6, <2>3, <3>1
    <3>3. m = 1 => imports'[p[1]].after = i
      BY <2>1, <3>2
    <3>4. m # 1 => p[m - 1] = q[m]
      BY <2>2, <2>6
    <3>. QED  BY <1>4, <3>2, <3>3, <3>4
  <2>7. \A m \in DOMAIN p : ~Course!Loading(p[m])'
    <3>1. \A m \in DOMAIN p : Course!Loading(q[m + 1]) => FALSE
      BY <2>2, <2>3 DEF Line
    <3>. QED  BY <1>5, <1>6, <2>3, <3>1
  <2>8. \A m, n \in DOMAIN p : p[m] = p[n] => m = n
    BY <2>2, <2>3 DEF Line
  <2>9. IF p = <<>> THEN Course!Settled(chain)' ELSE chain' = p[Len(p)]
    <3>1. chain = q[Len(q)]
      BY <2>1 DEF Line
    <3>2. CASE p = <<>>
      <4>1. chain = i
        BY <2>1, <2>2, <3>1, <3>2
      <4>. QED  BY <1>4, <3>2, <4>1
    <3>3. CASE p # <<>>
      BY <2>2, <3>1, <3>3
    <3>. QED  BY <3>2, <3>3
  <2>10. Line(p)'
    BY <2>4, <2>5, <2>6, <2>7, <2>8, <2>9 DEF Line
  <2>. QED  BY <1>1, <2>2, <2>10 DEF InLine
<1>. QED  BY <1>7, <1>8

\* It gets in line.
LEMMA GetsInLine ==
    ASSUME CourseInv, InLine, NEW i \in Course!Ids, Course!InitRoute(i)
    PROVE  InLine' /\ imports' \in Seq(Imports) /\ Len(imports') = Len(imports)
           /\ imports'[i].stage = "queued" /\ imports'[i].after = chain
           /\ \A j \in Course!Ids \ {i} : imports'[j] = imports[j]
<1> PICK q \in Seq(Course!Ids) : Line(q)
  BY DEF InLine
<1>1. /\ imports[i].stage = "approach" /\ chain' = i /\ UNCHANGED strays
      /\ imports' = [imports EXCEPT ![i] = [@ EXCEPT !.stage = "queued", !.after = chain]]
  BY DEF Course!InitRoute, Course!Ids, CourseInv, ImportsInv, TubesInv
<1>2. /\ imports' \in Seq(Imports) /\ Len(imports') = Len(imports) /\ Course!Ids' = Course!Ids
      /\ imports'[i].stage = "queued" /\ imports'[i].after = chain
      /\ \A j \in Course!Ids \ {i} : imports'[j] = imports[j]
  <2> DEFINE new == [imports[i] EXCEPT !.stage = "queued", !.after = chain]
  <2>1. imports[i] \in Imports /\ imports \in Seq(Imports) /\ chain \in Nat
    BY DEF CourseInv, ImportsInv, TubesInv, Course!Ids
  <2>2. new \in Imports /\ new.stage = "queued" /\ new.after = chain
    BY <2>1 DEF Imports, Stages
  <2>3. imports' = [imports EXCEPT ![i] = new]
    BY <1>1
  <2> HIDE DEF new
  <2>. QED  BY <2>1, <2>2, <2>3 DEF Course!Ids
<1>3. i \notin strays /\ i \notin Due /\ Due' = Due \cup {i}
  BY <1>1, <1>2 DEF Due, Course!Loading, CourseInv, ImportsInv, TubesInv
<1>4. \A j \in 0 .. Len(imports) : Course!Settled(j) => Course!Settled(j)' /\ j # i
  BY <1>1, <1>2 DEF Course!Settled, Course!Ids
<1>5. \A j \in Course!Ids : Course!Loading(j)' => Course!Loading(j) /\ j # i
  BY <1>1, <1>2 DEF Course!Loading
<1>6. /\ \A m \in DOMAIN q : q[m] \in Due /\ q[m] \in Course!Ids /\ q[m] # i
                             /\ imports[q[m]].after \in 0 .. Len(imports)
      /\ chain \in 0 .. Len(imports)
  BY <1>3 DEF Line, CourseInv, ImportsInv, TubesInv
<1> DEFINE p == Append(q, i)
<1>7. /\ p \in Seq(Course!Ids) /\ Len(p) = Len(q) + 1 /\ DOMAIN p = 1 .. Len(q) + 1
      /\ \A m \in 1 .. Len(q) : p[m] = q[m]
      /\ p[Len(q) + 1] = i /\ p # <<>>
      /\ DOMAIN q = 1 .. Len(q) /\ Len(q) \in Nat
      /\ q = <<>> <=> Len(q) = 0
  OBVIOUS
<1> HIDE DEF p
<1>8. Line(p)'
  <2>1. \A m \in DOMAIN p : p[m] \in Due'
    BY <1>3, <1>6, <1>7
  <2>2. \A j \in Due' : \E m \in DOMAIN p : p[m] = j
    <3>1. \A j \in Due : \E m \in DOMAIN q : q[m] = j
      BY DEF Line
    <3>2. \A j \in Due : \E m \in DOMAIN p : p[m] = j
      BY <1>7, <3>1
    <3>3. Len(q) + 1 \in DOMAIN p
      BY <1>7
    <3>. QED  BY <1>3, <1>7, <3>2, <3>3
  <2>3. ASSUME NEW m \in DOMAIN p
        PROVE  IF m = 1 THEN Course!Settled(imports[p[1]].after)' ELSE imports'[p[m]].after = p[m - 1]
    <3>1. CASE m \in DOMAIN q
      <4>1. IF m = 1 THEN Course!Settled(imports[q[1]].after) ELSE imports[q[m]].after = q[m - 1]
        BY <3>1 DEF Line
      <4>2. imports'[p[m]].after = imports[q[m]].after /\ p[m] = q[m]
        BY <1>2, <1>6, <1>7, <3>1
      <4>3. m # 1 => p[m - 1] = q[m - 1]
        BY <1>7, <3>1
      <4>4. CASE m = 1
        <5>1. Course!Settled(imports[q[1]].after)'
          BY <1>2, <1>4, <1>6, <3>1, <4>1, <4>4 DEF Course!Settled
        <5>. QED  BY <4>2, <4>4, <5>1
      <4>. QED  BY <4>1, <4>2, <4>3, <4>4
    <3>2. CASE m = Len(q) + 1
      <4>1. imports'[p[m]].after = chain
        BY <1>2, <1>7, <3>2
      <4>2. CASE q = <<>>
        <5>1. Course!Settled(chain)
          BY <4>2 DEF Line
        <5>2. m = 1 /\ imports'[p[1]].after = chain
          BY <1>7, <3>2, <4>1, <4>2
        <5>. QED  BY <1>4, <1>6, <5>1, <5>2 DEF Course!Settled
      <4>3. CASE q # <<>>
        <5>1. chain = q[Len(q)]
          BY <4>3 DEF Line
        <5>. QED  BY <1>7, <3>2, <4>1, <4>3, <5>1
      <4>. QED  BY <4>2, <4>3
    <3>. QED  BY <1>7, <3>1, <3>2
  <2>4. \A m \in DOMAIN p : Course!Loading(p[m])' => m = 1
    <3>1. \A m \in DOMAIN q : Course!Loading(q[m]) => m = 1
      BY DEF Line
    <3>. QED  BY <1>5, <1>6, <1>7, <3>1
  <2>5. \A m, n \in DOMAIN p : p[m] = p[n] => m = n
    <3>1. \A m, n \in DOMAIN q : q[m] = q[n] => m = n
      BY DEF Line
    <3>. QED  BY <1>6, <1>7, <3>1
  <2>6. chain' = p[Len(p)]
    BY <1>1, <1>7
  <2>. QED  BY <1>7, <2>1, <2>2, <2>3, <2>4, <2>5, <2>6 DEF Line
<1>. QED  BY <1>2, <1>7, <1>8 DEF InLine

LEMMA CourseStep ==
    ASSUME CourseInv, InLine, Course!Next
    PROVE  CourseInv' /\ InLine'
<1> PICK line \in Seq(Course!Ids) : Line(line)
  BY DEF InLine
<1>0. /\ imports \in Seq(Imports) /\ chain \in 0 .. Len(imports)
      /\ \A j \in Course!Ids : imports[j].after \in 0 .. Len(imports)
      /\ strays \subseteq Course!Ids /\ \A j \in strays : imports[j].stage # "approach"
      /\ route \in [current : Nat, old : Nat, goal : Nat] /\ tubes \subseteq Nat \ {0}
      /\ Course!Ids = 1 .. Len(imports) /\ Len(imports) \in Nat
  <2>1. imports \in Seq(Imports) /\ Course!Ids = 1 .. Len(imports)
    BY DEF CourseInv, ImportsInv, Course!Ids
  <2>2. Len(imports) \in Nat
    BY <2>1
  <2>3. /\ chain \in 0 .. Len(imports)
        /\ \A j \in Course!Ids : imports[j].after \in 0 .. Len(imports)
        /\ strays \subseteq Course!Ids /\ \A j \in strays : imports[j].stage # "approach"
    BY DEF CourseInv, ImportsInv
  <2>4. route \in [current : Nat, old : Nat, goal : Nat] /\ tubes \subseteq Nat \ {0}
    BY DEF CourseInv, TubesInv
  <2>. QED  BY <2>1, <2>2, <2>3, <2>4
\* What an import does that leaves the tubes and the history alone.
<1>1. ASSUME NEW i \in Course!Ids, NEW stage \in Stages \ {"approach", "textures"},
             Course!To(i, stage), UNCHANGED <<chain, strays, tubes>>,
             route' \in [current : Nat, old : Nat, goal : Nat],
             route'.current = route.current, route'.old = route.old
      PROVE  CourseInv'
  <2>1. /\ imports' \in Seq(Imports) /\ Len(imports') = Len(imports) /\ Course!Ids' = Course!Ids
        /\ \A j \in Course!Ids : /\ imports'[j].after = imports[j].after
                                 /\ imports'[j].stage \in {imports[j].stage, stage}
    BY <1>1, ToOK
  <2>. QED  BY <1>0, <1>1, <2>1 DEF CourseInv, ImportsInv, TubesInv
<1>2. ASSUME NEW i \in Course!Ids, NEW stage \in {"start", "goal", "icons"}, Course!To(i, stage),
             Course!Loading(i), UNCHANGED <<chain, strays>>
      PROVE  InLine'
  BY <1>2, StaysInLine
<1>3. ASSUME UNCHANGED <<imports, chain, strays>>
      PROVE  InLine'
  BY <1>3 DEF InLine, Line, Due, Course!Ids, Course!Loading, Course!Settled
<1>4. ASSUME NEW icons \in BOOLEAN, Course!Import(icons)
      PROVE  CourseInv' /\ InLine'
  <2> DEFINE new == [stage |-> "approach", after |-> 0, icons |-> icons]
  <2>1. imports' = Append(imports, new) /\ UNCHANGED <<chain, route, tubes, strays>>
    BY <1>4 DEF Course!Import
  <2>2. new \in Imports /\ new.stage = "approach" /\ new.after = 0
    BY DEF Imports, Stages
  <2> HIDE DEF new
  <2>3. /\ imports' \in Seq(Imports) /\ Len(imports') = Len(imports) + 1
        /\ \A j \in 1 .. Len(imports) : imports'[j] = imports[j]
        /\ imports'[Len(imports) + 1] = new
    BY <1>0, <2>1, <2>2
  <2>4. Course!Ids' = Course!Ids \cup {Len(imports) + 1}
    BY <1>0, <2>3 DEF Course!Ids
  <2>5. CourseInv'
    BY <1>0, <2>1, <2>2, <2>3, <2>4 DEF CourseInv, ImportsInv, TubesInv
  <2>6. Due' = Due
    BY <1>0, <2>1, <2>2, <2>3, <2>4 DEF Due, Course!Loading
  <2>7. \A j \in 0 .. Len(imports) : Course!Settled(j)' <=> Course!Settled(j)
    BY <1>0, <2>3 DEF Course!Settled
  <2>8. \A m \in DOMAIN line : line[m] \in Course!Ids
    OBVIOUS
  <2>9. \A j \in Course!Ids : /\ imports'[j] = imports[j]
                              /\ Course!Loading(j)' <=> Course!Loading(j)
    BY <1>0, <2>3 DEF Course!Loading
  <2>10. Line(line)'
    <3>1. \A m \in DOMAIN line : m = 1 => Course!Settled(imports[line[1]].after)'
      <4> SUFFICES ASSUME NEW m \in DOMAIN line, m = 1
                   PROVE  Course!Settled(imports[line[1]].after)'
        OBVIOUS
      <4>1. line[1] \in Course!Ids /\ Course!Settled(imports[line[1]].after)
        BY <2>8 DEF Line
      <4>2. imports'[line[1]].after = imports[line[1]].after
        BY <2>9, <4>1
      <4>3. Course!Settled(imports[line[1]].after) => \A a : a = imports[line[1]].after => Course!Settled(a)'
        BY <1>0, <2>7, <4>1
      <4>. QED  BY <4>1, <4>2, <4>3 DEF Course!Settled
    <3>2. \A m \in DOMAIN line : m # 1 => imports'[line[m]].after = line[m - 1]
      BY <2>8, <2>9 DEF Line
    <3>3. line = <<>> => Course!Settled(chain)'
      BY <1>0, <2>1, <2>7 DEF Line, Course!Settled
    <3>. QED  BY <2>1, <2>6, <2>8, <2>9, <3>1, <3>2, <3>3 DEF Line
  <2>11. line \in Seq(Course!Ids')
    BY <2>4
  <2>. QED  BY <2>5, <2>10, <2>11 DEF InLine
<1>5. ASSUME NEW i \in Course!Ids, Course!InitRoute(i)
      PROVE  CourseInv' /\ InLine'
  <2>1. chain' = i /\ UNCHANGED <<route, tubes, strays>> /\ imports[i].stage = "approach"
    BY <1>5 DEF Course!InitRoute
  <2>2. InLine' /\ imports' \in Seq(Imports) /\ Len(imports') = Len(imports)
        /\ imports'[i].stage = "queued" /\ imports'[i].after = chain
        /\ \A j \in Course!Ids \ {i} : imports'[j] = imports[j]
    BY <1>5, GetsInLine
  <2>3. Course!Ids' = Course!Ids
    BY <2>2 DEF Course!Ids
  <2>4. ImportsInv'
    <3>1. \A j \in Course!Ids : imports'[j].after \in 0 .. Len(imports)
      BY <1>0, <2>2
    <3>2. i \notin strays
      BY <1>0, <2>1
    <3>3. \A j \in strays : imports'[j].stage # "approach"
      BY <1>0, <2>2, <3>2
    <3>4. chain' \in 0 .. Len(imports)
      BY <1>0, <2>1
    <3>. QED  BY <1>0, <2>1, <2>2, <2>3, <3>1, <3>3, <3>4 DEF ImportsInv
  <2>5. TubesInv'
    <3>1. \A j \in Course!Ids : imports'[j].stage = "textures" => imports[j].stage = "textures"
      BY <2>2
    <3>. QED  BY <2>1, <2>3, <3>1 DEF CourseInv, TubesInv
  <2>. QED  BY <2>2, <2>4, <2>5 DEF CourseInv
<1>6. ASSUME NEW i \in Course!Ids, Course!Begin(i)
      PROVE  CourseInv' /\ InLine'
  <2>1. /\ Course!To(i, "textures") /\ UNCHANGED <<chain, strays>>
        /\ imports[i].stage = "queued" /\ Course!Settled(imports[i].after)
        /\ tubes' = tubes \ ({route.old} \ {0}) /\ route' = [route EXCEPT !.old = route.current]
    BY <1>6 DEF Course!Begin, Course!Current
  <2>2. InLine'
    BY <2>1, StaysInLine
  <2>3. /\ imports' \in Seq(Imports) /\ Len(imports') = Len(imports) /\ Course!Ids' = Course!Ids
        /\ \A j \in Course!Ids : /\ imports'[j].after = imports[j].after
                                 /\ imports'[j].stage \in {imports[j].stage, "textures"}
    BY <2>1, ToOK DEF Stages
  <2>4. route' \in [current : Nat, old : Nat, goal : Nat] /\ route'.current = route'.old
        /\ route'.current = route.current
    BY <1>0, <2>1
  <2>5. strays = {} => tubes' \subseteq {route.current}
    BY <1>0, <2>1 DEF CourseInv, ImportsInv, TubesInv
  <2>6. CourseInv'
    BY <1>0, <2>1, <2>3, <2>4, <2>5 DEF CourseInv, ImportsInv, TubesInv
  <2>. QED  BY <2>2, <2>6
<1>7. ASSUME NEW i \in Course!Ids, Course!TexturesLoaded(i)
      PROVE  CourseInv' /\ InLine'
  <2>1. /\ Course!To(i, "start") /\ UNCHANGED <<chain, strays>> /\ imports[i].stage = "textures"
        /\ route' = [route EXCEPT !.current = i] /\ tubes' = tubes \cup {i}
    BY <1>7 DEF Course!TexturesLoaded
  <2>2. Course!Loading(i) /\ InLine'
    BY <1>2, <2>1 DEF Course!Loading
  <2>3. /\ imports' \in Seq(Imports) /\ Len(imports') = Len(imports) /\ Course!Ids' = Course!Ids
        /\ imports'[i].stage = "start"
        /\ \A j \in Course!Ids : /\ imports'[j].after = imports[j].after
                                 /\ j # i => imports'[j].stage = imports[j].stage
    BY <2>1, ToOK DEF Stages
  <2>4. route' \in [current : Nat, old : Nat, goal : Nat] /\ route'.current = i /\ route'.old = route.old
    <3>1. i \in Nat \ {0}
      BY <1>0
    <3>. QED  BY <1>0, <2>1, <3>1
  <2>5. strays = {} => route.current = route.old /\ tubes \subseteq {route.old}
    BY <2>1 DEF CourseInv, ImportsInv, TubesInv
  <2>6. strays = {} => \A j \in Course!Ids : imports[j].stage = "textures" => j = i
    BY <2>2, DueAre DEF Course!Loading
  <2>7. ImportsInv'
    BY <1>0, <2>1, <2>3 DEF ImportsInv
  <2>8. TubesInv'
    <3>1. tubes' \subseteq Nat \ {0}
      BY <1>0, <2>1
    <3>2. strays = {} => tubes' \subseteq {route'.current, route'.old}
      BY <2>1, <2>4, <2>5
    <3>3. strays = {} => \A j \in Course!Ids : imports'[j].stage # "textures"
      BY <2>3, <2>6
    <3>. QED  BY <2>1, <2>3, <2>4, <3>1, <3>2, <3>3 DEF TubesInv
  <2>. QED  BY <2>2, <2>7, <2>8 DEF CourseInv
<1>8. ASSUME NEW i \in Course!Ids,
             Course!StartMarked(i) \/ Course!GoalMarked(i) \/ Course!IconsPlaced(i) \/ Course!AssetFails(i)
      PROVE  CourseInv' /\ InLine'
  <2>1. /\ UNCHANGED <<chain, strays, tubes>> /\ Course!Loading(i)
        /\ route' \in {route, [route EXCEPT !.goal = i]}
    BY <1>8 DEF Course!StartMarked, Course!GoalMarked, Course!IconsPlaced, Course!AssetFails, Course!Loading
  <2>2. PICK stage \in {"goal", "icons", "framing", "failed"} : Course!To(i, stage)
    BY <1>8 DEF Course!StartMarked, Course!GoalMarked, Course!IconsPlaced, Course!AssetFails,
                Course!Painted
  <2>3. /\ route' \in [current : Nat, old : Nat, goal : Nat]
        /\ route'.current = route.current /\ route'.old = route.old
    BY <1>0, <2>1
  <2>4. CourseInv'
    BY <1>1, <2>1, <2>2, <2>3 DEF Stages
  <2>. QED  BY <1>2, <2>1, <2>2, <2>4, LeavesLine
<1>9. ASSUME NEW i \in Course!Ids, Course!ImportEnds(i)
      PROVE  CourseInv' /\ InLine'
  <2>1. /\ UNCHANGED <<chain, strays, tubes, route>> /\ Course!To(i, "done")
        /\ imports[i].stage = "framing"
    BY <1>9 DEF Course!ImportEnds
  <2>2. CourseInv'
    BY <1>0, <1>1, <2>1 DEF Stages
  <2>3. /\ imports' \in Seq(Imports) /\ Len(imports') = Len(imports) /\ Course!Ids' = Course!Ids
        /\ imports'[i].stage = "done"
        /\ \A j \in Course!Ids : /\ imports'[j].after = imports[j].after
                                 /\ j # i => imports'[j].stage = imports[j].stage
    BY <2>1, ToOK DEF Stages
  <2>4. \A j \in Course!Ids : Course!Loading(j)' <=> Course!Loading(j)
    BY <2>1, <2>3 DEF Course!Loading
  <2>5. Due' = Due
    BY <2>1, <2>3, <2>4 DEF Due
  <2>6. \A j \in 0 .. Len(imports) : Course!Settled(j) => Course!Settled(j)'
    BY <1>0, <2>3 DEF Course!Settled
  <2>7. \A m \in DOMAIN line : line[m] \in Course!Ids
    OBVIOUS
  <2>8. Line(line)'
    <3>1. \A m \in DOMAIN line : IF m = 1 THEN Course!Settled(imports[line[1]].after)'
                                 ELSE imports'[line[m]].after = line[m - 1]
      <4> SUFFICES ASSUME NEW m \in DOMAIN line
                   PROVE  IF m = 1 THEN Course!Settled(imports[line[1]].after)'
                          ELSE imports'[line[m]].after = line[m - 1]
        OBVIOUS
      <4>1. /\ imports'[line[m]].after = imports[line[m]].after
            /\ imports[line[m]].after \in 0 .. Len(imports)
        BY <1>0, <2>3, <2>7
      <4>2. CASE m = 1
        <5>1. Course!Settled(imports[line[1]].after)
          BY <4>2 DEF Line
        <5>. QED  BY <2>6, <4>1, <4>2, <5>1 DEF Course!Settled
      <4>3. CASE m # 1
        BY <4>1, <4>3 DEF Line
      <4>. QED  BY <4>2, <4>3
    <3>2. \A m \in DOMAIN line : Course!Loading(line[m])' => m = 1
      BY <2>4, <2>7 DEF Line
    <3>3. IF line = <<>> THEN Course!Settled(chain)' ELSE chain' = line[Len(line)]
      BY <1>0, <2>1, <2>6 DEF Line, Course!Settled
    <3>. QED  BY <2>5, <3>1, <3>2, <3>3 DEF Line
  <2>. QED  BY <2>2, <2>3, <2>8 DEF InLine
<1>10. CASE Course!RemoveAllPaths \/ Course!SimReset
  <2>1. /\ strays' = strays \cup {j \in Course!Ids : Course!Loading(j) \/ imports[j].stage = "queued"}
        /\ chain' = 0 /\ UNCHANGED imports /\ tubes' = tubes \ {route.current, route.old}
        /\ route' = [current |-> 0, old |-> 0, goal |-> IF Course!Current = 0 THEN route.goal ELSE 0]
    BY <1>10 DEF Course!RemoveAllPaths, Course!SimReset, Course!ClearAllRoutes, Course!Removed
  <2>2. Course!Ids' = Course!Ids /\ \A j \in Course!Ids : Course!Loading(j)' <=> Course!Loading(j)
    BY <2>1 DEF Course!Ids, Course!Loading
  <2>3. Due' = {}
    BY <2>1, <2>2 DEF Due
  <2>4. Line(<<>>)'
    BY <2>1, <2>3 DEF Line, Course!Settled
  <2>5. route' \in [current : Nat, old : Nat, goal : Nat]
    BY <1>0, <2>1
  <2>6. \A j \in strays' : imports[j].stage # "approach"
    BY <1>0, <2>1 DEF Course!Loading
  <2>7. strays' = {} => strays = {} /\ tubes' = {} /\ \A j \in Course!Ids : imports[j].stage # "textures"
    BY <2>1 DEF Course!Loading, CourseInv, ImportsInv, TubesInv
  <2>8. ImportsInv'
    <3>1. strays' \subseteq Course!Ids
      BY <1>0, <2>1
    <3>2. imports' = imports /\ chain' \in 0 .. Len(imports)
      BY <1>0, <2>1
    <3>. QED  BY <1>0, <2>2, <2>6, <3>1, <3>2 DEF ImportsInv
  <2>9. TubesInv'
    <3>1. tubes' \subseteq Nat \ {0}
      BY <1>0, <2>1
    <3>. QED  BY <2>1, <2>2, <2>5, <2>7, <3>1 DEF TubesInv
  <2>10. <<>> \in Seq(Course!Ids)'
    OBVIOUS
  <2>. QED  BY <2>4, <2>8, <2>9, <2>10 DEF CourseInv, InLine
<1>11. CASE \/ Course!DrawEnds \/ Course!RaceBegins \/ Course!RaceRouteLoaded \/ Course!StaleRaceStops
            \/ \E s \in Segments : Course!CloseSegment(s)
  <2>1. UNCHANGED <<imports, chain, strays, route, tubes>>
    BY <1>11 DEF Course!DrawEnds, Course!RaceBegins, Course!RaceRouteLoaded, Course!StaleRaceStops,
                 Course!CloseSegment
  <2>. QED  BY <1>3, <2>1 DEF CourseInv, ImportsInv, TubesInv, Course!Ids
<1>. QED  BY <1>4, <1>5, <1>6, <1>7, <1>8, <1>9, <1>10, <1>11 DEF Course!Next

\* The masks: what is painted of the closures stands for one on the list.
MaskInv ==
    /\ closed \in Seq(Segments)
    /\ mask = None \/ mask \in [spline : Nat, painted : SUBSET Segments]
    /\ race.of \in Nat
    /\ Course!ClosuresAreShown

LEMMA MaskStep ==
    ASSUME CourseInv, MaskInv, Course!Next
    PROVE  MaskInv'
<1> USE DEF MaskInv
<1>1. ASSUME NEW s \in Segments, Course!CloseSegment(s)
      PROVE  MaskInv'
  <2> DEFINE same == {k \in DOMAIN closed : MaskId[closed[k]] = MaskId[s]}
             old == Course!EnsureMask
  <2>1. /\ closed' = Course!Recorded(s) /\ mask' = [old EXCEPT !.painted = @ \cup {s}]
        /\ UNCHANGED race
    BY <1>1 DEF Course!CloseSegment
  <2>2. /\ closed' \in Seq(Segments)
        /\ s \in Course!ToSet(closed') /\ Course!ToSet(closed') \subseteq Course!ToSet(closed) \cup {s}
        /\ \A t \in Course!ToSet(closed) : \E u \in Course!ToSet(closed') : MaskId[t] = MaskId[u]
    <3>1. CASE same = {}
      <4>1. closed' = Append(closed, s)
        BY <2>1, <3>1 DEF Course!Recorded
      <4>2. /\ closed' \in Seq(Segments) /\ DOMAIN closed' = DOMAIN closed \cup {Len(closed) + 1}
            /\ closed'[Len(closed) + 1] = s /\ \A k \in DOMAIN closed : closed'[k] = closed[k]
        BY <4>1
      <4>. QED  BY <4>2 DEF Course!ToSet
    <3>2. CASE same # {}
      <4> DEFINE k == Course!Min(same)
      <4>1. same \in SUBSET Nat
        OBVIOUS
      <4>2. k \in same
        <5>1. \E n \in same : \A m \in same : n <= m
          BY <3>2, <4>1, LeastNat
        <5>. QED  BY <5>1 DEF Course!Min
      <4>3. closed' = [closed EXCEPT ![k] = s] /\ k \in DOMAIN closed /\ MaskId[closed[k]] = MaskId[s]
        BY <2>1, <3>2, <4>2 DEF Course!Recorded
      <4> HIDE DEF k, same
      <4>4. /\ closed' \in Seq(Segments) /\ DOMAIN closed' = DOMAIN closed /\ closed'[k] = s
            /\ \A j \in DOMAIN closed \ {k} : closed'[j] = closed[j]
        BY <4>3
      <4>. QED  BY <4>3, <4>4 DEF Course!ToSet
    <3>. QED  BY <3>1, <3>2
  <2>3. /\ old \in [spline : Nat, painted : SUBSET Segments]
        /\ old.spline # 0 => Course!ToSet(closed) \subseteq old.painted
        /\ \A t \in old.painted : \E u \in Course!ToSet(closed) : MaskId[t] = MaskId[u]
    BY DEF Course!EnsureMask, Course!ClosuresAreShown
  <2> HIDE DEF old
  <2>4. /\ mask' \in [spline : Nat, painted : SUBSET Segments]
        /\ mask'.spline = old.spline /\ mask'.painted = old.painted \cup {s}
    BY <2>1, <2>3
  <2>5. \A t \in mask'.painted : \E u \in Course!ToSet(closed') : MaskId[t] = MaskId[u]
    BY <2>2, <2>3, <2>4
  <2>6. Course!ClosuresAreShown'
    BY <2>2, <2>3, <2>4, <2>5 DEF Course!ClosuresAreShown
  <2>. QED  BY <2>1, <2>2, <2>4, <2>6
<1>2. ASSUME NEW i \in Nat, Course!DrawSpline(i), UNCHANGED closed, race'.of = race.of
      PROVE  MaskInv'
  <2>1. Course!ToSet(closed) \subseteq Segments
    BY DEF Course!ToSet
  <2>2. mask' = [spline |-> i, painted |-> Course!ToSet(closed)]
    BY <1>2 DEF Course!DrawSpline
  <2>3. Course!ClosuresAreShown'
    BY <1>2, <2>2 DEF Course!ClosuresAreShown
  <2>. QED  BY <1>2, <2>1, <2>2, <2>3
<1>3. CASE mask' = None /\ race'.of \in Nat /\ closed' \in {closed, <<>>}
  <2>1. closed' \in Seq(Segments)
    <3>1. <<>> \in Seq(Segments)
      OBVIOUS
    <3>. QED  BY <1>3, <3>1
  <2>2. Course!ClosuresAreShown'
    BY <1>3 DEF Course!ClosuresAreShown
  <2>. QED  BY <1>3, <2>1, <2>2
<1>4. CASE UNCHANGED <<mask, closed>> /\ race'.of \in Nat
  BY <1>4 DEF Course!ClosuresAreShown
<1>5. \A i \in Course!Ids : i \in Nat
  BY DEF Course!Ids
<1>6. \/ \E s \in Segments : Course!CloseSegment(s)
      \/ \E i \in Nat : Course!DrawSpline(i) /\ UNCHANGED closed /\ race'.of = race.of
      \/ mask' = None /\ race'.of \in Nat /\ closed' \in {closed, <<>>}
      \/ UNCHANGED <<mask, closed>> /\ race'.of \in Nat
  <2>1. ASSUME NEW i \in Course!Ids,
               \/ Course!InitRoute(i) \/ Course!Begin(i) \/ Course!TexturesLoaded(i)
               \/ Course!StartMarked(i) \/ Course!AssetFails(i) \/ Course!ImportEnds(i)
        PROVE  \/ mask' = None /\ race'.of \in Nat /\ closed' \in {closed, <<>>}
               \/ UNCHANGED <<mask, closed>> /\ race'.of \in Nat
    BY <2>1 DEF Course!InitRoute, Course!Begin, Course!TexturesLoaded, Course!StartMarked,
                Course!AssetFails, Course!ImportEnds, Course!RemoveRunnerRoute, Course!NoRace
  <2>2. ASSUME NEW i \in Course!Ids, Course!GoalMarked(i) \/ Course!IconsPlaced(i)
        PROVE  \/ \E j \in Nat : Course!DrawSpline(j) /\ UNCHANGED closed /\ race'.of = race.of
               \/ UNCHANGED <<mask, closed>> /\ race'.of \in Nat
    BY <1>5, <2>2 DEF Course!GoalMarked, Course!IconsPlaced, Course!Painted
  <2>3. CASE \/ (\E icons \in BOOLEAN : Course!Import(icons)) \/ Course!DrawEnds
             \/ Course!StaleRaceStops
    <3>1. CASE (\E icons \in BOOLEAN : Course!Import(icons)) \/ Course!DrawEnds
      BY <3>1 DEF Course!Import, Course!DrawEnds
    <3>2. CASE Course!StaleRaceStops
      BY <3>2 DEF Course!StaleRaceStops, Course!NoRace
    <3>. QED  BY <2>3, <3>1, <3>2
  <2>6. CASE Course!RemoveAllPaths \/ Course!SimReset
    BY <2>6 DEF Course!RemoveAllPaths, Course!SimReset, Course!ClearAllRoutes, Course!Removed,
                Course!RemoveRunnerRoute, Course!NoRace
  <2>4. CASE Course!RaceBegins
    <3>1. Len(imports) \in Nat
      BY DEF CourseInv, ImportsInv
    <3>. QED  BY <2>4, <3>1 DEF Course!RaceBegins
  <2>5. CASE Course!RaceRouteLoaded
    BY <2>5 DEF Course!RaceRouteLoaded
  <2>. QED  BY <2>1, <2>2, <2>3, <2>4, <2>5, <2>6 DEF Course!Next
<1>. QED  BY <1>1, <1>2, <1>3, <1>4, <1>6

(* RaceRoute: with no removal on their way routes are built one at a time and
   every one is taken out again; the mask of the route shows all closed roads
   and no other. *)
THEOREM CourseWhole == Spec => []CourseIsWhole
<1>1. Init => CourseInv /\ InLine /\ MaskInv
  <2> SUFFICES ASSUME Init PROVE CourseInv /\ InLine /\ MaskInv
    OBVIOUS
  <2>1. /\ imports = <<>> /\ chain = 0 /\ tubes = {} /\ route = [current |-> 0, old |-> 0, goal |-> 0]
        /\ race = [stage |-> "none", of |-> 0] /\ mask = None /\ closed = <<>> /\ strays = {}
    BY DEF Init, Course!Init, Course!NoRace
  <2>2. Course!Ids = {}
    BY <2>1 DEF Course!Ids
  <2>3. Line(<<>>)
    BY <2>1, <2>2 DEF Line, Due, Course!Settled
  <2>4. imports \in Seq(Imports) /\ Len(imports) = 0
    BY <2>1
  <2>5. CourseInv
    BY <2>1, <2>2, <2>4 DEF CourseInv, ImportsInv, TubesInv
  <2>6. InLine
    <3>1. <<>> \in Seq(Course!Ids)
      OBVIOUS
    <3>. QED  BY <2>3, <3>1 DEF InLine
  <2>7. MaskInv
    <3>1. <<>> \in Seq(Segments)
      OBVIOUS
    <3>. QED  BY <2>1, <3>1 DEF MaskInv, Course!ClosuresAreShown
  <2>. QED  BY <2>5, <2>6, <2>7
<1>2. CourseInv /\ InLine /\ MaskInv /\ [Next]_vars => CourseInv' /\ InLine' /\ MaskInv'
  <2>1. ASSUME CourseInv, InLine, MaskInv, UNCHANGED courseVars PROVE CourseInv' /\ InLine' /\ MaskInv'
    BY <2>1, ZenonT(40) DEF CourseInv, ImportsInv, TubesInv, InLine, MaskInv, Line, Due, Course!Ids,
                Course!Loading, Course!Settled, Course!ClosuresAreShown, courseVars
  <2>2. [Next]_vars => Course!Next \/ UNCHANGED courseVars
    BY DEF Next, vars
  <2>. QED  BY <2>1, <2>2, CourseStep, MaskStep
<1>3. CourseInv /\ InLine /\ MaskInv => CourseIsWhole
  <2> SUFFICES ASSUME CourseInv, InLine, MaskInv PROVE CourseIsWhole
    OBVIOUS
  <2> PICK q \in Seq(Course!Ids) : Line(q)
    BY DEF InLine
  <2>1. Course!RoutesAreSerial
    BY DueAre DEF Course!RoutesAreSerial, CourseInv, TubesInv
  <2>. QED  BY <2>1 DEF MaskInv, CourseIsWhole
<1>. QED  BY <1>1, <1>2, <1>3, PTL DEF Spec

(***************************************************************************)
(* The race without a gateway.                                             *)
(***************************************************************************)

(* Ends are of races that were started, each of them once, and not of the one
   that runs. *)
EndsInv ==
    /\ debugged \in Nat /\ running \in BOOLEAN /\ finished \in Seq(Nat)
    /\ \A i \in DOMAIN finished : finished[i] <= debugged
    /\ running => \A i \in DOMAIN finished : finished[i] # debugged
    /\ Debug!EndsOnce

LEMMA EndsInvStep ==
    ASSUME EndsInv, Debug!Next
    PROVE  EndsInv'
<1>. USE DEF EndsInv, Debug!EndsOnce
<1>1. ASSUME NEW n \in Counts, NEW speeds \in [1 .. n -> Steps], Debug!Start(speeds)
      PROVE  EndsInv'
  <2>1. debugged' = debugged + 1 /\ running' = TRUE /\ finished' = finished
    BY <1>1 DEF Debug!Start
  <2>2. \A i \in DOMAIN finished : finished[i] \in Nat /\ finished[i] < debugged'
    BY <2>1
  <2>. QED  BY <2>1, <2>2
<1>2. CASE Debug!Tick
  <2>1. debugged' = debugged /\ running
    BY <1>2 DEF Debug!Tick
  <2>2. CASE running' = FALSE /\ finished' = Append(finished, debugged)
    <3>1. /\ DOMAIN finished' = 1 .. Len(finished) + 1
          /\ \A i \in DOMAIN finished : finished'[i] = finished[i]
          /\ finished'[Len(finished) + 1] = debugged
          /\ finished' \in Seq(Nat)
      BY <2>2
    <3>2. DOMAIN finished' = DOMAIN finished \cup {Len(finished) + 1}
      BY <3>1
    <3>3. \A i \in DOMAIN finished : finished[i] # debugged
      BY <2>1
    <3>4. \A i, j \in DOMAIN finished' : finished'[i] = finished'[j] => i = j
      BY <3>1, <3>2, <3>3
    <3>5. \A i \in DOMAIN finished' : finished'[i] <= debugged
      BY <3>1, <3>2
    <3>. QED  BY <2>1, <2>2, <3>1, <3>4, <3>5
  <2>3. CASE UNCHANGED <<running, finished>>
    BY <2>1, <2>3
  <2>. QED  BY <1>2, <2>2, <2>3 DEF Debug!Tick, Debug!Stopped
<1>3. CASE Debug!Reset
  BY <1>3 DEF Debug!Reset, Debug!Stopped
<1>4. CASE UNCHANGED <<debugged, running, finished>>
  BY <1>4
<1>5. Debug!EarlyTimer \/ Debug!LateTimer => UNCHANGED <<debugged, running, finished>>
  BY DEF Debug!EarlyTimer, Debug!LateTimer
<1>. QED  BY <1>1, <1>2, <1>3, <1>4, <1>5 DEF Debug!Next

(* DebugRace: the end of a race is reported once at most, and only of a race
   that was not stopped or replaced, although stale intervals tick on for
   ever. *)
THEOREM EndReportedOnce == Spec => []EndsOnce
<1>1. Init => EndsInv
  <2>1. Init => finished \in Seq(Nat) /\ DOMAIN finished = {}
    BY DEF Init, Debug!Init
  <2>2. Init => debugged \in Nat /\ running = FALSE
    BY DEF Init, Debug!Init
  <2>. QED  BY <2>1, <2>2 DEF EndsInv, Debug!EndsOnce
<1>2. EndsInv /\ [Next]_vars => EndsInv'
  <2>1. ASSUME EndsInv, UNCHANGED debugVars PROVE EndsInv'
    BY <2>1 DEF EndsInv, Debug!EndsOnce, debugVars
  <2>2. [Next]_vars => Debug!Next \/ UNCHANGED debugVars
    BY DEF Next, vars
  <2>. QED  BY <2>1, <2>2, EndsInvStep
<1>3. EndsInv => EndsOnce
  BY DEF EndsInv, EndsOnce
<1>. QED  BY <1>1, <1>2, <1>3, PTL DEF Spec
=============================================================================
