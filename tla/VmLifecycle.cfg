SPECIFICATION Spec
CONSTANTS
  Procs = {p1, p2}
  Vms = {a, b}
  MaxWork = 2
INVARIANTS
  TypeOK
PROPERTIES
  CreatedIsWhole
  CleanSlate
  StoppedRunsNot
  KeepsPromise
