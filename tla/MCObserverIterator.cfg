SPECIFICATION Spec
CONSTANTS
  Uses <- OnlyIterate
  Cap = 2
INVARIANTS
  IteratorReturns
CHECK_DEADLOCK FALSE
