CONSTANTS
  a = a
  b = b
  s1 = s1
  LogCalls = {a, b}
  LogRecords <- TwoCalls
  MaxLen = 5
SPECIFICATION LogSpec
CHECK_DEADLOCK FALSE
INVARIANTS
  RestoreAgrees
  RepairPairs
