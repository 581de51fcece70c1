SPECIFICATION FairSpec
CONSTANTS
  s1 = s1
  s2 = s2
  t1 = t1
  t2 = t2
  t3 = t3
  Sockets = {s1, s2}
  Threads = {t1, t2, t3}
  MaxSends = 3
INVARIANTS
  TxBufStable
  SentIffOk
PROPERTIES
  SendReturns
