SPECIFICATION Spec
CONSTANTS
  p1 = p1
  p2 = p2
  Procs <- MCProcs
  F = 1
  Target <- MCTarget
  Manifest <- MCManifest
  MaxPushes = 1
INVARIANT
  ForeignIsConfirmed
