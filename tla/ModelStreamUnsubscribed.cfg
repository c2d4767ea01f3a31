CONSTANTS
  r1 = r1
  r2 = r2
  t1 = t1
  t2 = t2
  s1 = s1
  Runs = {r1}
  Timers = {t1, t2}
  Subs = {s1}
  Listens <- AllRuns
  Buffer = 1
  Chunks = 1
  Others = 1
SPECIFICATION Spec
CHECK_DEADLOCK FALSE
INVARIANTS
  NeverPanics
