SPECIFICATION Spec
CONSTANTS
  MaxGeneration = 2
  Capacity = 1
  Window = 1
  MaxFaults = 1
  Faults = {"pause", "bad", "refuse", "timeout", "restart", "cut", "linger",
            "record", "api", "rollout"}
INVARIANTS TypeOK RunsTellTheCluster
CHECK_DEADLOCK FALSE
