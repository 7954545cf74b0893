SPECIFICATION FairSpec
CONSTANTS
  Apps <- SomeApps
  MaxMoves = 6
  MaxRecv = 3
INVARIANTS
  TypeOK
  Delivery
  SendLaw
PROPERTIES
  LoopTurns
  BindsCalledBack
  Flushed
CHECK_DEADLOCK FALSE
