SPECIFICATION Spec
CONSTANTS
  DevNames <- MCDevNames
  Options <- MCOptions
  MaxOptions = 4
  Bytes <- MCBytes
  Width = 7
  Word = 5
  BlockBits = 2
  Chars <- MCChars
  MaxField = 4
  Dirs <- MCDirs
  LineSize = 20
  NFS_MAXHOSTNAME = 2
  NFS_MAXPATHNAME = 3
  OptSize = 4
  Names <- MCNames
  MaxNames = 6
CHECK_DEADLOCK FALSE
INVARIANTS
  RoundTrips
  MeetsReference
  ViewsAgree
