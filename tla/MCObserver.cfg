SPECIFICATION FairSpec
CONSTANTS
  Uses <- AllUses
  Cap = 3
INVARIANTS
  TypeOK
  ObserverConsistent
PROPERTIES
  OpsImplemented
  EmitterExclusive
  FailsOnlyIfClosed
  LoopsEnd
CHECK_DEADLOCK FALSE
