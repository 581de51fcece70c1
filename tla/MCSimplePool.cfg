SPECIFICATION ListSpec
CONSTANTS
  Size = 4
  Values = {0, 1, 2}
  Cleared = 0
INVARIANTS
  ListsSound
PROPERTIES
  ImplementsPool
