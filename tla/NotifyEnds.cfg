SPECIFICATION FairSpec
CONSTANTS
  n1 = n1
  n2 = n2
  e1 = e1
  Notifiers = {n1, n2}
  Endpoints = {e1}
  MaxMessages = 1
  MaxAttempts = 2
  MaxFailures = 2
  MaxFaults = 2
  Faults = {"slow", "error", "crash", "again", "age", "silence", "resolve", "disable"}
PROPERTIES MessagesAreHandled DeliveriesEnd
CHECK_DEADLOCK FALSE
