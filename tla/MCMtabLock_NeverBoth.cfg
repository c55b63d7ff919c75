SPECIFICATION Spec
CONSTANTS
  p1 = p1
  p2 = p2
  p3 = p3
  d1 = d1
  d2 = d2
  None = None
  Proc <- MCThree
  Dir <- MCOneDir
  Kind <- MCKind
  MaxTries = 1
  MaxSignals = 1
  MaxKills = 0
CHECK_DEADLOCK FALSE
INVARIANTS
  NeverBoth
