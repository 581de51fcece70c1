SPECIFICATION FairSpec
CONSTANTS
  c1 = c1
  c2 = c2
  Creators = {c1, c2}
  Main = c1
  MaxThreads = 3
  MaxMonitors = 1
  MaxFaults = 1
CHECK_DEADLOCK FALSE
INVARIANTS
  TidsDistinct
PROPERTIES
  StopEnds
  ExitReported
