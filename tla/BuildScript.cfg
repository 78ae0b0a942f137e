SPECIFICATION Spec
CONSTANTS
  Retries = 2
  MaxSignals = 2
INVARIANTS
  TypeOK
  InterruptIsNamed
  StoppedGroupIsGone
  RecorderLeavesNothing
  VideoBeforeReturn
  SettledBeforeStop
PROPERTIES
  StopIsFinal
  EverythingEnds
