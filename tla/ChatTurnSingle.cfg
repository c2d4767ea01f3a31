CONSTANTS
  t1 = t1
  c1 = c1
  c2 = c2
  k1 = k1
  k2 = k2
  g1 = g1
  g2 = g2
  NoCall = NoCall
  Tasks = {t1}
  Calls = {c1}
  Clients = {k1, k2}
  Caps = {g1, g2}
  TaskOf <- MCTaskOf
  ControlOf <- MCControlOf
  Verbs = {"pause", "resume", "cancel"}
  Faults = {}
  MaxVersion = 6
  MaxCalls = 1
SPECIFICATION FairSpec
CHECK_DEADLOCK FALSE
INVARIANTS
  InterruptReaches
  StepTellsRun
  LoopKeepsRunOpen
PROPERTIES
  KeepsStrictContract
  RunEnds
