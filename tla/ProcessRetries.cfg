SPECIFICATION Spec
CONSTANTS
  Retries = 2
  MaxSignals = 2
INVARIANTS
  TypeOK
  FailedGroupIsGone
PROPERTIES
  StopsAreHeard
  LoopEnds
