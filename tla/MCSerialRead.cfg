SPECIFICATION Spec
CONSTANTS
  p1 = p1
  p2 = p2
  t1 = t1
  t2 = t2
  t3 = t3
  u1 = u1
  u2 = u2
  x = x
  y = y
  Processes = {p1, p2}
  Threads = {t1, t2}
  ProcessOf <- TwoOwners
  Devices = {u1}
  Bytes = {x, y}
  Payloads <- OnePayload
  Sizes = {2}
  Timeouts = {1}
  MaxTime = 2
  MaxInput = 2
  MaxCalls = 1
CHECK_DEADLOCK FALSE
INVARIANTS
  ReadIsInput
