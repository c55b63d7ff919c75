SPECIFICATION Spec
CHECK_DEADLOCK FALSE
INVARIANTS
  ServerReleased
  StopExplained
PROPERTIES
  ForegroundEnds
