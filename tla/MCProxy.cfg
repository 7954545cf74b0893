SPECIFICATION FairSpec
CONSTANTS
  MaxRuns = 2
  MaxEndpoints = 2
  MaxCommands = 2
INVARIANTS
  TypeOK
  Owned
  AssertOnlyIfCareless
  RaceOnlyIfCareless
  ControlSockets
PROPERTIES
  ClosesBoth
  TerminateEnds
CHECK_DEADLOCK FALSE
