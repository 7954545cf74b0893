SPECIFICATION FairSpec
CONSTANTS
  Main = main
  Envs = {main, w1}
  Own = {c1}
  MaxObjects = 2
  Msgs = {m1}
INVARIANTS
  TypeOK
  Dangling
  ContextLaw
PROPERTIES
  TeardownEnds
CHECK_DEADLOCK FALSE
