SPECIFICATION Spec
CONSTANTS
  Worker = {w1, w2}
  Uid = {u1, u2}
  Daemon = u1
  MaxSize = 3
  Chunk = 2
  MaxLog = 3
  Loads <- MCLoads
SYMMETRY Symmetry
INVARIANTS
  RepliedOnce
  OutcomeTold
  AttributesReal
  SizeSetUnlessStale
  CreatedRight
  TransferExact
PROPERTIES
  AclsCrossedAlone
