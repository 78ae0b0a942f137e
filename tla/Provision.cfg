SPECIFICATION Spec
CONSTANTS
  Procs = {1, 2, 3}
  MaxRev = 2
  Scenes <- MCScenes
  Hosts <- MCHosts
INVARIANTS
  TypeOK
  NoSecretsLeft
  HostIsRecoverable
  SourcesAreCurrent

  
CHECK_DEADLOCK FALSE
