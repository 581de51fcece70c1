SPECIFICATION Spec
CONSTANTS
  MaxProcesses = 4
  NumUntypeds = 2
  SizeBits <- SizesOfTwo
  MemSize = 2
CHECK_DEADLOCK FALSE
INVARIANTS
  TableNamesOwner
