SPECIFICATION Spec
CONSTANTS
  w1 = w1
  w2 = w2
  b1 = b1
  Workers = {w1, w2}
  None = None
  Branches = {b1}
  MaxAttempts = 2
  MaxTries = 2
  Limit = 1
  MaxPushes = 1
  MaxRevision = 0
  MaxFaults = 2
  Faults = {"stall", "lost", "vanish", "error", "registry", "cancel"}
SYMMETRY Symmetry
INVARIANTS TypeOK SlotsHold OlderBuildsStop CancelledWhenAsked OperationTellsBuild
CHECK_DEADLOCK FALSE
