SPECIFICATION FairSpec
CONSTANTS
  r1 = r1
  u1 = u1
  clock = clock
  serial = serial
  Main = r1
  RootThreads = {r1}
  Clients = {u1}
  Clock = clock
  Serial = serial
  MaxLevel = 1
  MaxDevice = 2
CHECK_DEADLOCK FALSE
INVARIANTS
  BufferStable
  LinesWhole
PROPERTIES
  CallsReturn
