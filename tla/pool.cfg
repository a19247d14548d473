\* Every schedule, each up to the first step that overtakes a thread: the system
\* may hang after that (CHECK_DEADLOCK), and no property claims anything then.
CONSTANTS
  NumThreads = 3
  NumInstances = 3
  MaxChunks = 4
SPECIFICATION FairSpec
CONSTRAINT UpToOvertaking
INVARIANTS
  PoolInv
  FirstInstance
PROPERTIES
  ReturnsUnlessOvertaken
CHECK_DEADLOCK FALSE
