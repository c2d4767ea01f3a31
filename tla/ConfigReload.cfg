SPECIFICATION Spec
CONSTANTS
  Models = {m1, m2}
  Versions = {v1, v2}
  Selectors = {s1, s2}
  MaxEdits = 3
SYMMETRY Alike
CHECK_DEADLOCK FALSE
INVARIANTS
  EndpointsAgree
  QuietMeansCurrent
