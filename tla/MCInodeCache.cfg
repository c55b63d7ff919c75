SPECIFICATION Spec
CONSTANTS
  i1 = i1
  i2 = i2
  i3 = i3
  root = root
  h1 = h1
  NoInode = NoInode
  Inode <- MCInode
  Handle <- MCHandle
  Root = root
  IdMod = 4
  CountMod = 2
  MaxCount = 2
  MaxEntries = 2
SYMMETRY MCSymmetry
CHECK_DEADLOCK FALSE
INVARIANTS
  HandlesUnique
  KernelResolves
  Ledger
  RefDecOnlyAfterLink
  FreedOnlyByWrap
PROPERTIES
  ImplementsNodeNumbers
