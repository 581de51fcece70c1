CONSTANTS
  c1 = c1
  c2 = c2
  Clients = {c1, c2}
  MaxEntries = 2
  Period = 3
  Word = 8
  Timeouts = {4}
  Ops <- SleepOps
  MaxSets = 3
  Slots = 4
SPECIFICATION FairSpec
PROPERTIES
  SleepNotEarly
  SleepReturns
  OneShotRetires
  CallsAnswered
