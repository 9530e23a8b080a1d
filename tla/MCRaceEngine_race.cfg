\* One race with every fault of the plan, the gateway, the collector and the runners.
CONSTANTS
  long = long  short = short
  r1 = r1  r2 = r2  r3 = r3
  Sim = {long}
  Runner = {r1, r2}
  LongTicks = 2
  Faults = {"plan", "spawn", "collector", "broadcast", "rpush", "event"}
  InFlight = 1
  RunnersOf <- MCRunnersOf
  MaxTicks <- MCMaxTicks
SPECIFICATION FairSpec
INVARIANTS FinishersAreTrue CountsAreTrue ResultsAgree
PROPERTIES RacesAreRun
CHECK_DEADLOCK FALSE
