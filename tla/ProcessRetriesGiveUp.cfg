SPECIFICATION Spec
CONSTANTS
  Retries = 1
  MaxSignals = 0
INVARIANT
  FailedIsRetried
