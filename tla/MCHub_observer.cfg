\* A global observer subscribes and unsubscribes two simulations in any order,
\* under the fairness of the goroutines.
CONSTANTS
  obs = obs  tab1 = tab1  tab2 = tab2
  s1 = s1  s2 = s2  A = A  B = B
  toAll = toAll  twice = twice  plain = plain  bcast = bcast  text = text
  Global = Global  NoSim = NoSim  None = None
  Client = {obs}
  Session = {s1, s2}
  Sim = {A, B}
  Message = {toAll, bcast}
  Worker = {w1}
  SessionOf <- MCSessionOf
  AutoSub <- MCAutoSub
  Channel <- MCChannel
  Targets <- MCTargets
  SimOf <- MCSimOf
  SendBuffer = 1
  ChannelBuffer = 1
  MaxFrames = 3
SPECIFICATION FairSpec
PROPERTIES ObserverFilter MessagesDrain DisconnectedIsForgotten
CHECK_DEADLOCK FALSE
