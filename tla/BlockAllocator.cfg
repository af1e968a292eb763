CONSTANTS
  BlockCount = 4
  BitmapBits = 6
SPECIFICATION Spec
INVARIANT LoopHasRoom
PROPERTY FirstFitPool
