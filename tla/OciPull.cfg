SPECIFICATION Spec
CONSTANTS
  p1 = p1
  p2 = p2
  Procs <- MCProcs
  F = 2
  Target <- MCTarget
  Manifest <- MCManifest
  MaxPushes = 1
SYMMETRY ProcSymmetry
INVARIANTS
  TypeOK
  PromotedIsAcceptable
  PreviousSurvives
  SuccessLeavesFile
PROPERTY
  AllOrNothing
