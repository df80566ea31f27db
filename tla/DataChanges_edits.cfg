SPECIFICATION Spec
CONSTANTS
  a = a
  b = b
  Null = Null
  Default = Default
  NoValues = NoValues
  NumColumns = 2
  Values <- TwoValues
  Base <- TwoRows
  PrimaryKeyColumns = {1}
  DefaultColumns = {}
  EditColumns = {2}
  EditValues <- TwoValues
  Commands = {"edit", "sidebar", "add", "duplicate", "paste", "delete", "deleteNew", "undoDelete", "discard"}
  MaxRows = 4
  MaxUndo = 3
CHECK_DEADLOCK FALSE
INVARIANTS
  TypeOK
  ChangeIndexExact
  MarksMatchChanges
  ModifiedMatchesUpdates
  NewRowsFollowLoaded
