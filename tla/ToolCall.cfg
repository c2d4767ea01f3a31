CONSTANTS
  a1 = a1
  a2 = a2
  c1 = c1
  c2 = c2
  r1 = r1
  k1 = k1
  k2 = k2
  h1 = h1
  yes = yes
  no = no
  Attempts = {a1, a2}
  Deciders = {k1, k2}
  Answerers = {h1}
  Choices = {yes}
  SessionCalls = 1
  Offered = {"once", "permanent", "deny"}
  CallIds = {c1}
  Runs = {r1}
  CallOf <- SameCallOf
  MayCall <- MCMayCall
  RunOf <- OneRunOf
  Interactive = {a1}
  Faults = {"storage", "crash"}
SPECIFICATION Spec
SYMMETRY Alike
CHECK_DEADLOCK FALSE
INVARIANTS
  RanAsAllowed
  ChargedByRows
  RowTellsOutcome
  DecisionIsOnItsWay
PROPERTIES
  KeepsAskContract
