SPECIFICATION FairSpec
CONSTANTS
  MaxSync = 1
  Timeouts <- NoTimeout
  Calls <- TwoWays
  Cap = 1
  MaxEndpoints = 0
  Wrap = 2
PROPERTIES
  NoLostWakeup
CHECK_DEADLOCK FALSE
