SPECIFICATION Spec
CONSTANTS
  N = 3
  Parallelism = 2
  MaxSignals = 2
INVARIANTS
  TypeOK
  BoundedParallelism
  NothingOutlivesReturn
  ReportIsExact
  FewBuildsAfterCancel
PROPERTIES
  EveryRunReturns
  ImplementsOutcomes
