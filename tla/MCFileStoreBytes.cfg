CONSTANTS
  f1 = f1
  f2 = f2
  Files = {f1, f2}
  Values <- MCValues
  BlockCount = 3
  BlockSize = 2
  MaxFileBytes = 4
  MaxExtents = 2
  Images <- MCImages
SPECIFICATION Spec
INVARIANTS
  NoStaleTail
PROPERTY IndependentFiles
