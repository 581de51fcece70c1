SPECIFICATION FairSpec
CONSTANTS
  p1 = p1
  p2 = p2
  t1 = t1
  t2 = t2
  t3 = t3
  u1 = u1
  u2 = u2
  x = x
  y = y
  Processes = {p1, p2}
  Threads = {t1, t2, t3}
  ProcessOf <- Owners
  Devices = {u1}
  Bytes = {x, y}
  Payloads <- TwoPayloads
  Sizes = {2}
  Timeouts = {0, 1}
  MaxTime = 2
  MaxInput = 1
  MaxCalls = 3
CHECK_DEADLOCK FALSE
INVARIANTS
  WritesIntact
  BufferStable
  ShortReadTimedOut
PROPERTIES
  CallsReturn
