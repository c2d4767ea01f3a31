CONSTANTS
  j1 = j1
  r1 = r1
  r2 = r2
  Jobs = {j1}
  Runners = {r1, r2}
  Interval <- MCInterval
  FirstRuns = {0, 1}
  MaxRetries = 1
  Backoff = 1
  LeaseTime = 1
  Limit = 1
  MaxTime = 5
SPECIFICATION Spec
SYMMETRY Alike
CHECK_DEADLOCK FALSE
INVARIANTS
  DueIsClaimable
  NoDueTimeLost
  MisfirePolicyKept
