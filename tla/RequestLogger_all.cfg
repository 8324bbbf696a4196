SPECIFICATION FairSpec
CONSTANTS
  MaxRequests = 4
  Malformed <- LastMalformed
  NumConnections = 2
  maxQueueLength = 3
  maxRequestsInBatch = 2
  maxBatchesInTransaction = 2
INVARIANTS
  SentInOrder
  CalmStopCommitsAll
PROPERTIES
  ImplementsRequestLog
  StopTerminates
  EventuallyResolved
CHECK_DEADLOCK FALSE
