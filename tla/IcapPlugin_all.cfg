SPECIFICATION FairSpec
CONSTANTS
  Threads = {t1, t2}
  Sockets = {s1, s2, s3}
  None = none
  Lifetime = 3
  ClientTimeout = 5
  MaxDelay = 1
INVARIANTS
  AnswersMatchRequests
  OneUser
  NeverTimedOut
  ConnectionsBounded
PROPERTY
  DeadConnectionsLeave
