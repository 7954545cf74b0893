SPECIFICATION Spec
CONSTANTS
  MaxRuns = 2
  MaxEndpoints = 1
  MaxCommands = 1
INVARIANTS
  AssertsHold
CHECK_DEADLOCK FALSE
