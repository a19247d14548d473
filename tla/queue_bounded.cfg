CONSTANTS
  NumProducer = 2
  NumEnqueue = 3
  QueueSize = 2
SPECIFICATION FairSpec
INVARIANTS
  TicketInv
  BucketsExclusive
  InTicketOrder
PROPERTIES
  AllDelivered
