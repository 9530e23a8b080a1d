CONSTANTS
  None = None
  Instance = {i1, i2}
  Session = {a, b, c, d, e}
  Simulation = {simA, simB}
  a = a
  b = b
  c = c
  d = d
  e = e
  simA = simA
  simB = simB
  SimOf <- MCSimOf
  AgentType = runner
  Pulse <- MCPulse
  SeenLimit = 10
  MaxResets = 1
  MaxBreaks = 1
  Plans = {"relay","spread","relayReset","relayBreak","noted","type","pair","all","tick","gunReset","gunEnd","gunBreak","act","actReset"}
  Faults = {"registry", "subscribe", "relay", "gate"}
SPECIFICATION MCSpec
INVARIANTS RunsAreSerial HearsItsSimulation StraysHaveACause EachPulseOnce
SYMMETRY Symmetry
CHECK_DEADLOCK FALSE
