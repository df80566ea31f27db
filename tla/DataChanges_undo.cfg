SPECIFICATION Spec
CONSTANTS
  a = a
  b = b
  Null = Null
  Default = Default
  NoValues = NoValues
  NumColumns = 2
  Values <- TwoValues
  Base <- OneRow
  PrimaryKeyColumns = {1}
  DefaultColumns = {}
  EditColumns = {2}
  EditValues <- AnyValue
  Commands = {"edit", "add", "duplicate", "paste", "delete", "undo"}
  MaxRows = 4
  MaxUndo = 3
CHECK_DEADLOCK FALSE
INVARIANTS
  ChangeIndexExact
  NewRowsFollowLoaded
  NoIdleUpdate
  UpdatesWriteWhatIsShown
  InsertsAreTheNewRows
  DeletesPickTheRow
  RedoTakesBackUndo
  UndoAllShowsDatabase
