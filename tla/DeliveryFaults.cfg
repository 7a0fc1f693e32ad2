SPECIFICATION Spec
CONSTANTS
  w2 = w2
  w1 = w1
  Workers = {w1, w2}
  None = None
  MaxGeneration = 2
  MaxAttempts = 2
  MaxConflicts = 2
  MaxFaults = 2
  Faults = {"crash", "stall", "error", "removal"}
  Approvers = {}
  Required = {0}
  Controls = {}
SYMMETRY Symmetry
INVARIANTS TypeOK OneOwner OperationTellsFate RecordedRun FenceInv
PROPERTIES FencePromise
CHECK_DEADLOCK FALSE
