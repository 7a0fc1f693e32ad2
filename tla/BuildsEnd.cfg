SPECIFICATION FairSpec
CONSTANTS
  w1 = w1
  b1 = b1
  Workers = {w1}
  None = None
  Branches = {b1}
  MaxAttempts = 3
  MaxTries = 2
  Limit = 1
  MaxPushes = 0
  MaxRevision = 1
  MaxFaults = 1
  Faults = {"lost", "registry", "age", "crash", "provider", "choose", "delete",
            "stall", "vanish", "error", "cancel"}
PROPERTIES DeploysTheHead BuildsEnd
CHECK_DEADLOCK FALSE
