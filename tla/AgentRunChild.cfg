CONSTANTS
  r1 = r1
  r2 = r2
  e1 = e1
  e2 = e2
  s1 = s1
  s2 = s2
  a = a
  b = b
  x = x
  NoOne = NoOne
  Calls = {a, b, x}
  Advertised = {a, b}
  Runs = {r1, r2}
  Executors = {e1, e2}
  RunOf <- OwnRun
  Steers = {s1}
  ReadOnly = {}
  ToolOf <- OwnTool
  ChildOf <- ChildInA
  Responses <- Pair
  MaxIterations = 2
  LoopWindow = 2
  LoopRepeats = 1
SPECIFICATION FairSpec
CHECK_DEADLOCK FALSE
INVARIANTS
  ChildEndsFirst
PROPERTIES
  TurnCloses
