SPECIFICATION FairSpec
CONSTANTS
  t1 = t1
  t2 = t2
  t3 = t3
  t4 = t4
  s1 = s1
  s2 = s2
  Threads <- MCThreads3
  Sockets <- MCSockets2
  NoSocket = NoSocket
  maxSockets = 1
  dealerHwm = 1
PROPERTIES
  SocketsAvailableAgain
