---------------------------- MODULE MCDispatcher ----------------------------
(***************************************************************************)
(* Instances of Dispatcher for TLC.  What may happen in one behaviour is   *)
(* drawn from a list of plans, each of which brings together a few of the  *)
(* things that may go wrong with each simB.                               *)
(***************************************************************************)
EXTENDS Dispatcher, TLC

CONSTANTS a, b, c, d, e, simA, simB, Plans

VARIABLE plan

MCSimOf == [s \in Session |-> IF s \in {a, b} THEN simA ELSE IF s = e THEN simB ELSE None]

P(name, from, hasId, sim, targets, excluded) ==
  [name |-> name, from |-> from, hasId |-> hasId, sim |-> sim, targets |-> targets,
   again |-> {}, excluded |-> excluded]

MCPulse ==
  { P("gun", "gun", TRUE, simA, {}, {}),
    P("tick", "simulator", TRUE, simA, {}, {a}),
    P("chat", "client", TRUE, None, {c, d}, {}),
    P("note", "client", FALSE, None, {c}, {}),
    P("all", "client", TRUE, None, {}, {}),
    P("type", "client", TRUE, None, {AgentType, c}, {}),
    [P("pair", "client", TRUE, None, {c, d}, {}) EXCEPT !.again = {c}] }

\* The sessions and pulses, and how many pulses are spread, sessions act, simulations end, resets
\* and breaks there are.
Plan(sessions_, pulses, spreads, acts, ends, resets_, breaks_) ==
  [spreads |-> spreads, sessions |-> sessions_, pulses |-> pulses, acts |-> acts, ends |-> ends,
   resets |-> resets_, breaks |-> breaks_]

AllPlans ==
  [ relay |-> Plan({c, d}, {"chat"}, 0, 0, 0, 0, 0),
    spread |-> Plan({c}, {"chat"}, 1, 0, 0, 0, 0),
    relayReset |-> Plan({c}, {"chat"}, 0, 0, 0, 1, 0),
    relayBreak |-> Plan({c}, {"chat"}, 1, 0, 0, 0, 1),
    noted |-> Plan({c}, {"note"}, 1, 0, 0, 0, 0),
    type |-> Plan({c}, {"type"}, 1, 0, 0, 0, 0),
    pair |-> Plan({c, d}, {"pair"}, 0, 0, 0, 0, 0),
    all |-> Plan({c}, {"all"}, 1, 0, 0, 1, 0),
    tick |-> Plan({a}, {"gun", "tick"}, 0, 0, 0, 0, 0),
    gunReset |-> Plan({a}, {"gun"}, 0, 0, 0, 1, 0),
    gunEnd |-> Plan({a, e}, {"gun"}, 0, 0, 1, 0, 0),
    gunBreak |-> Plan({a, b}, {"gun"}, 0, 0, 0, 0, 1),
    act |-> Plan({a, c}, {}, 0, 2, 0, 0, 0),
    actReset |-> Plan({c}, {}, 0, 1, 0, 1, 0) ]

MCInit == Init /\ plan \in {AllPlans[n] : n \in Plans}

MCNext ==
  /\ Next /\ UNCHANGED plan
  /\ spawned' \subseteq plan.sessions
  /\ {p.name : p \in published'} \subseteq plan.pulses
  /\ Cardinality(spread') <= plan.spreads
  /\ Cardinality(acted') <= plan.acts /\ Cardinality(ended') <= plan.ends
  /\ resets' <= plan.resets /\ breaks' <= plan.breaks

MCSpec == MCInit /\ [][MCNext]_<<vars, plan>>

Symmetry == Permutations(Instance)
=============================================================================
