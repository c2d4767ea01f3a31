CONSTANTS
  r1 = r1
  r2 = r2
  e1 = e1
  e2 = e2
  s1 = s1
  s2 = s2
  a = a
  b = b
  x = x
  NoOne = NoOne
  Calls = {a, b, x}
  Advertised = {a, b}
  Runs = {r1}
  Executors = {e1}
  RunOf <- SameRun
  Steers = {s1, s2}
  ReadOnly = {}
  ToolOf <- OneTool
  ChildOf <- NoChild
  Responses <- OneByOne
  MaxIterations = 4
  LoopWindow = 2
  LoopRepeats = 1
SPECIFICATION Spec
CHECK_DEADLOCK FALSE
INVARIANTS
  PersistedFirst
  DeliveredOnce
  AnswerComesLast
PROPERTIES
  LoopEndsTools
