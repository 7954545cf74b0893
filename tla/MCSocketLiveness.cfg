SPECIFICATION FairSpec
CONSTANTS
  MaxSync = 1
  Timeouts <- SomeTimeout
  Calls <- Asynchronous
  Cap = 1
  MaxEndpoints = 1
  Wrap = 2
PROPERTIES
  OpsImplemented
  CloseHonoured
CHECK_DEADLOCK FALSE
