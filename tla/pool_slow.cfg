CONSTANTS
  NumThreads = 2
  NumInstances = 2
  MaxChunks = 2
SPECIFICATION Spec
INVARIANTS
  WaitsForNextTask
