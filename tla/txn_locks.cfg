CONSTANTS
  Workers = {t1, t2, t3}
  Records = {r1, r2, r3}
  NoThread = NoThread
  LastOrder = 1
  DefaultValue = 1
  HalfRange = 4
  DeadlockCap = 0
SYMMETRY Symmetry
SPECIFICATION Spec
INVARIANTS
  HoldersExclude
  TokensMatchQueues
  NoDataRace
  ReadsRemainCurrent
  NoUndetectedDeadlock
