SPECIFICATION FairSpec
CONSTANTS
  w1 = w1
  w2 = w2
  r1 = r1
  r2 = r2
  none = none
  Workers <- TwoWorkers
  Requests <- TwoRequests
  Intentional <- Logged
  None <- none
INVARIANTS
  QueueIsIdleWorkers
  ServedOnce
  AnswersLogged
PROPERTIES
  ImplementsRequestService
  EveryRequestAnswered
  StopEndsProcess
