SPECIFICATION FairSpec
CONSTANTS
  t1 = t1
  t2 = t2
  t3 = t3
  t4 = t4
  s1 = s1
  s2 = s2
  Threads <- MCThreads4
  Sockets <- MCSockets2
  NoSocket = NoSocket
  maxSockets = 2
  dealerHwm = 1
INVARIANTS
  OneOwner
  SocketsAccounted
  AnswersMatchQueries
  NoLostWakeup
PROPERTIES
  PoolProgress
  LostSocketsReclaimed
