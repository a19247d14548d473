CONSTANTS
  Workers = {t1, t2}
  Records = {r1, r2, r3}
  NoThread = NoThread
  LastOrder = 2
  DefaultValue = 1
  HalfRange = 8
  DeadlockCap = 1
SYMMETRY Symmetry
SPECIFICATION Spec
INVARIANTS
  LogsValidate
  SerialInv
PROPERTIES
  RefinesSerialDatabase
