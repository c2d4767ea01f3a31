CONSTANTS
  r1 = r1
  r2 = r2
  e1 = e1
  e2 = e2
  s1 = s1
  s2 = s2
  a = a
  b = b
  x = x
  NoOne = NoOne
  Calls = {a, b, x}
  Advertised = {a, b}
  Runs = {r1}
  Executors = {e1, e2}
  RunOf <- SameRun
  Steers = {s1}
  ReadOnly = {a, b}
  ToolOf <- OwnTool
  ChildOf <- NoChild
  Responses <- RejectedAnywhere
  MaxIterations = 2
  LoopWindow = 2
  LoopRepeats = 1
SPECIFICATION Spec
SYMMETRY Twins
CHECK_DEADLOCK FALSE
INVARIANTS
  TypeOK
  RefusedOnlyDisturbed
PROPERTIES
  AnswerEndsTurn
