\* What writePump's comment says of a self-unregistered client.
CONSTANTS
  obs = obs  tab1 = tab1  tab2 = tab2
  s1 = s1  s2 = s2  A = A  B = B
  toAll = toAll  twice = twice  plain = plain  bcast = bcast  text = text
  Global = Global  NoSim = NoSim  None = None
  Client = {tab1}
  Session = {s1, s2}
  Sim = {A}
  Message = {twice}
  Worker = {w1}
  SessionOf <- MCSessionOf
  AutoSub <- MCAutoSub
  Channel <- MCChannel
  Targets <- MCTargets
  SimOf <- MCSimOf
  SendBuffer = 1
  ChannelBuffer = 1
  MaxFrames = 1
SPECIFICATION Spec
INVARIANTS SelfUnregisterCleansUp
CHECK_DEADLOCK FALSE
