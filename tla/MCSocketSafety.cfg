SPECIFICATION Spec
CONSTANTS
  MaxSync = 2
  Timeouts <- AnyTimeout
  Calls <- AllMethods
  Cap = 2
  MaxEndpoints = 2
  Wrap = 3
INVARIANTS
  TypeOK
  NoAssertFails
  PollerConsistent
  WorkerOwnership
  SyncBounded
  RaceOnlyIfCareless
  EndpointLaw
PROPERTIES
  ClosedIsFinal
  Rejections
