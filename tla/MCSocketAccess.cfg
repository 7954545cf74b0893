SPECIFICATION Spec
CONSTANTS
  MaxSync = 1
  Timeouts <- NoTimeout
  Calls <- ReceiveAndBind
  Cap = 1
  MaxEndpoints = 1
  Wrap = 2
INVARIANTS
  ExclusiveAccess
CHECK_DEADLOCK FALSE
