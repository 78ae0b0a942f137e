SPECIFICATION Spec
CONSTANTS
  Procs = {1, 2, 3}
  MaxRev = 2
  Scenes <- MCWinrmScenes
  Hosts <- MCHosts
INVARIANTS
  WinrmStateRestored
CHECK_DEADLOCK FALSE
