CONSTANTS
  Workers = {t1, t2}
  Records = {r1, r2, r3}
  NoThread = NoThread
  LastOrder = 1
  DefaultValue = 1
  HalfRange = 8
  DeadlockCap = 0
SPECIFICATION FairSpec
PROPERTIES
  WaitEnds
  WorkersTerminate
