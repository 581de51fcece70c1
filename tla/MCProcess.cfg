SPECIFICATION FairSpec
CONSTANTS
  MaxProcesses = 3
  NumUntypeds = 3
  SizeBits <- SizesOfThree
  MemSize = 2
CHECK_DEADLOCK FALSE
INVARIANTS
  AllocatedToLive
  Exclusive
  PidsDistinct
PROPERTIES
  SpawnReturns
  JoinReturns
