SPECIFICATION ListSpec
CONSTANTS
  Kinds <- MCKinds
  PageSize = 1
  MaxRows = 3
  MaxChanges = 2
INVARIANTS
  WalkIsComplete
  ListedCanBeOpened
CHECK_DEADLOCK FALSE
