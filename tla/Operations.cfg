SPECIFICATION Spec
CONSTANTS
  w1 = w1
  w2 = w2
  w3 = w3
  o1 = o1
  o2 = o2
  Workers = {w1, w2, w3}
  Ops = {o1, o2}
  None = None
  MaxFence = 3
  MaxMoves = 2
SYMMETRY Symmetry
INVARIANTS TypeOK OneHolder SettledOnce NoMoveIsLost
PROPERTIES EventsInOrder
CHECK_DEADLOCK FALSE
