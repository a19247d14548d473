CONSTANTS
  N = 3
  MaxUpdates = 4
SPECIFICATION FairSpec
INVARIANTS
  SnapshotInv
  SnapshotsReal
  CleanCollectIsCurrent
  BorrowsOverlap
  WaitFree
  UpdatesCounted
PROPERTIES
  MainExits
