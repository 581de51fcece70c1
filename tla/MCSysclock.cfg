SPECIFICATION Spec
CONSTANTS
  c1 = c1
  c2 = c2
  Clients = {c1, c2}
  MaxEntries = 2
  Period = 3
  Word = 8
  Timeouts = {4}
  Ops <- AsyncOps
  MaxSets = 3
  Slots = 3
INVARIANTS
  UniqueIds
  RetiredNeverScheduled
  DueMeansElapsed
  ScanServesAll
PROPERTIES
  ImplementsTimers
SYMMETRY ClientSymmetry
