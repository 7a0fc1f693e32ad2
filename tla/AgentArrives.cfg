SPECIFICATION FairSpec
CONSTANTS
  MaxGeneration = 1
  Capacity = 1
  Window = 1
  MaxFaults = 3
  Faults = {"pause", "bad", "refuse", "timeout", "restart", "cut", "linger",
            "record", "api", "rollout"}
PROPERTIES EnvelopesArrive
CHECK_DEADLOCK FALSE
