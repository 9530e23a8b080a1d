\* A connection of each of two sessions, one of them auto-subscribed; a text
\* message, and a message of a simulation whose list names one session twice.
CONSTANTS
  obs = obs  tab1 = tab1  tab2 = tab2
  s1 = s1  s2 = s2  A = A  B = B
  toAll = toAll  twice = twice  plain = plain  bcast = bcast  text = text
  Global = Global  NoSim = NoSim  None = None
  Client = {tab1, tab2}
  Session = {s1, s2}
  Sim = {A}
  Message = {twice, plain, text}
  Worker = {w1}
  SessionOf <- MCSessionOf
  AutoSub <- MCAutoSub
  Channel <- MCChannel
  Targets <- MCTargets
  SimOf <- MCSimOf
  SendBuffer = 2
  ChannelBuffer = 1
  MaxFrames = 1
SPECIFICATION Spec
INVARIANTS RoutingMapsAgree OnlyLateFramesPanic OncePerNaming
PROPERTIES SessionFilter
CHECK_DEADLOCK FALSE
