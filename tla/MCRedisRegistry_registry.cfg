CONSTANTS
  Nil = Nil
  Session = {s1, s2}
  AgentType = {a}
  Simulation = {m}
  Handler = {h1}
  Flusher = {}
  Reaper = {r}
  MaxBatch = 1
  MaxFlushes = 0
  MaxErrors = 1
  Serial = FALSE
  Faults = {"enqueue", "expiry"}
  s1 = s1
  s2 = s2
  s3 = s3
  a = a
  b = b
  m = m
  n = n
  h1 = h1
  f = f
  r = r
SPECIFICATION MCSpec
INVARIANTS RollbackComplete
PROPERTIES LiveStayIndexed StaleReaped ServesOneByOne
