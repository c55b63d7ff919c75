SPECIFICATION Spec
CONSTANTS
  Reader = {r1, r2}
  Name <- MCName
  First <- MCFirst
  Size <- MCSize
  Plus = 1
  Buf = 4
  MaxGen = 2
INVARIANTS
  ListingExact
PROPERTIES
  ListingEnds
