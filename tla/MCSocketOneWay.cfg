SPECIFICATION FairSpec
CONSTANTS
  MaxSync = 2
  Timeouts <- SomeTimeout
  Calls <- OneWay
  Cap = 4
  MaxEndpoints = 0
  Wrap = 2
PROPERTIES
  NoLostWakeup
  SyncBudget
CHECK_DEADLOCK FALSE
