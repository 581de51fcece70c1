SPECIFICATION FairSpec
CONSTANTS
  a1 = a1
  a2 = a2
  t1 = t1
  t2 = t2
  t3 = t3
  MaxProcesses = 2
  Threads = {t1, t2, t3}
  ProcessOf <- Owners
  Addrs = {a1, a2}
  DefaultAddr = a1
  RequestAddrs <- Requests
  Ports = {1, 2}
  JunkPids = {1}
  JunkIds = {1}
  MaxIfaces = 2
  MaxSockets = 2
  MaxCalls = 4
CHECK_DEADLOCK FALSE
INVARIANTS
  OwnSocket
  CapsMatch
  MutexesOwned
PROPERTIES
  StopsOnlyIf
  CallsReturn
