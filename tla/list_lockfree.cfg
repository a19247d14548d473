CONSTANTS
  Threads = {t1, t2}
  MaxKey = 2
  NumWork = 2
  HeapSize = 4
SPECIFICATION FairSpec
INVARIANTS
  LockFreeInv
PROPERTIES
  ImplementsSet
  JoinsReturn
