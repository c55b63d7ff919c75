SPECIFICATION Spec
CONSTANTS
  w1 = w1
  w2 = w2
  r = r
  i1 = i1
  i2 = i2
  i3 = i3
  h1 = h1
  h2 = h2
  Root = Root
  Null = Null
  Worker <- MCWorker
  Inode <- MCInode
  RootInode = r
  Handle <- MCHandle
  MaxGets = 3
  MaxId = 6
CHECK_DEADLOCK FALSE
INVARIANTS
  SettledStay
  AloneIsSafe
  HarmOnlyWhenRaced
PROPERTIES
  Answered
