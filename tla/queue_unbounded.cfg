CONSTANTS
  NumProducer = 2
  NumEnqueue = 2
SPECIFICATION FairSpec
INVARIANTS
  ListInv
PROPERTIES
  ImplementsFIFOQueue
  AllDelivered
