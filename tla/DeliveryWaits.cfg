SPECIFICATION FairSpec
CONSTANTS
  w2 = w2
  w1 = w1
  a1 = a1
  Workers = {w1, w2}
  None = None
  MaxGeneration = 1
  MaxAttempts = 2
  MaxConflicts = 2
  MaxFaults = 1
  Faults = {"crash", "stall", "error"}
  Approvers = {a1}
  Required = {0, 1}
  Controls = {"pause", "delete"}
PROPERTIES EveryRunSettles DeletionFinishes
CHECK_DEADLOCK FALSE
