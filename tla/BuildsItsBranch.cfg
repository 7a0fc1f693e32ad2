SPECIFICATION Spec
CONSTANTS
  w1 = w1
  b1 = b1
  b2 = b2
  Workers = {w1}
  None = None
  Branches = {b1, b2}
  MaxAttempts = 2
  MaxTries = 1
  Limit = 1
  MaxPushes = 0
  MaxRevision = 1
  MaxFaults = 0
  Faults = {}
INVARIANTS BuildsItsBranch
CHECK_DEADLOCK FALSE
