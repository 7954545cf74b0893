SPECIFICATION Spec
CONSTANTS
  Builds <- SomeBuilds
  Values <- SomeValues
  RoutingIds = {1, 2}
  IntBits = 3
  SafeBits = 4
  WordBits = 6
  AsText <- SomeText
  ZeroByte = 11
  Decisecond = 2
INVARIANTS
  TypeOK
  TablesAgree
  RoundTrip
  RoutingIdLaw
CHECK_DEADLOCK FALSE
