SPECIFICATION HSpec
CONSTANTS
  w1 = w1
  w2 = w2
  a1 = a1
  a2 = a2
  None = None
  Workers = {w1, w2}
  MaxGeneration = 2
  MaxAttempts = 2
  MaxConflicts = 2
  MaxFaults = 0
  Faults = {}
  Approvers = {a1, a2}
  Required = {0,2}
  Controls = {"pause","emergency","delete"}
SYMMETRY Symmetry
INVARIANTS PauseHolds ApprovedFirst OperationTellsFate RecordStands
PROPERTIES VerifiedItsOwn
CHECK_DEADLOCK FALSE
