CONSTANTS
  t1 = t1
  c1 = c1
  c2 = c2
  k1 = k1
  k2 = k2
  g1 = g1
  g2 = g2
  NoCall = NoCall
  Tasks = {t1}
  Calls = {c1, c2}
  Clients = {k1}
  Caps = {g1}
  TaskOf <- MCTaskOf
  ControlOf <- MCControlOf
  Verbs = {"pause", "resume", "cancel"}
  Faults = {"crash", "storage", "disconnect"}
  MaxVersion = 5
  MaxCalls = 1
SPECIFICATION Spec
CHECK_DEADLOCK FALSE
INVARIANTS
  TypeOK
  TaskRunAgree
  VersionTellsState
  ControlIsLogged
  GrantLedger
PROPERTIES
  ChargedInsideTurn
  RevokedForGood
  EndIsFinal
  KeepsContract
