SPECIFICATION Spec
CONSTANTS
  a = a
  b = b
  Null = Null
  Default = Default
  NoValues = NoValues
  NumColumns = 2
  Values <- TwoValues
  Base <- TwoRows
  PrimaryKeyColumns = {}
  DefaultColumns = {2}
  EditColumns = {1, 2}
  EditValues <- AnyValue
  Commands = {"edit", "add", "duplicate", "paste", "discard"}
  MaxRows = 4
  MaxUndo = 4
CHECK_DEADLOCK FALSE
INVARIANTS
  UpdatesAreTheDifference
  InsertsAreTheNewRows
  EachSentOnceInOrder
PROPERTY
  DiscardRestores
