SPECIFICATION FairSpec
CONSTANTS
  s1 = s1
  t1 = t1
  t2 = t2
  Sockets = {s1}
  Threads = {t1, t2}
  SocketOf <- OneSocket
  PoolSize = 2
  Lens = {0, 1, 2}
  MaxLen = 1
  MaxMsgs = 3
INVARIANTS
  NoLostWakeup
  FetchedInOrder
  PbufOwnership
  RxBufStable
PROPERTIES
  ImplementsChannel
  EventuallyFetched
