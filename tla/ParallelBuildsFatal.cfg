SPECIFICATION Spec
CONSTANTS
  N = 2
  Parallelism = 2
  MaxSignals = 1
INVARIANT
  FailureStopsNothing
