CONSTANTS
  NumThread = 3
  NumWork = 2
SPECIFICATION FairSpec
INVARIANTS
  MutualExclusion
  CellsRecycled
  CountExact
  CLHInv
PROPERTIES
  ImplementsFIFOLock
  LockoutFree
