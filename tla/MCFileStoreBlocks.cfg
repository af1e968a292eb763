CONSTANTS
  f1 = f1
  f2 = f2
  Files = {f1, f2}
  Values <- MCValues
  BlockCount = 5
  BlockSize = 1
  MaxFileBytes = 3
  MaxExtents = 2
  Images <- MCImages
SPECIFICATION Spec
INVARIANTS
  TypeOK
  BlockOwnership
  InvalidHasCause
  OnlyBrokenLooksLeaked
PROPERTY FailureLeavesContent
