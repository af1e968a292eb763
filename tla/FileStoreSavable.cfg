CONSTANTS
  Files = {f1, f2}
  Values = {1}
  BlockCount = 5
  BlockSize = 1
  MaxFileBytes = 3
  MaxExtents = 2
  Images = {}
SPECIFICATION Spec
INVARIANT AlwaysSavable
