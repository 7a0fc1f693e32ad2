SPECIFICATION Spec
CONSTANTS
  n1 = n1
  n2 = n2
  e1 = e1
  Notifiers = {n1, n2}
  Endpoints = {e1}
  MaxMessages = 2
  MaxAttempts = 2
  MaxFailures = 2
  MaxFaults = 1
  Faults = {"slow", "error", "crash", "resolve"}
INVARIANTS TypeOK MarkedIsQueued ToldOnce
CHECK_DEADLOCK FALSE
SYMMETRY Symmetry
