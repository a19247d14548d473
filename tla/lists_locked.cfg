CONSTANTS
  Threads = {t1, t2}
  MaxKey = 2
  NumWork = 2
  HeapSize = 4
  Free = Free
SPECIFICATION FairSpec
INVARIANTS
  LockedInv
  NoneDangling
PROPERTIES
  ImplementsSet
  JoinsReturn
