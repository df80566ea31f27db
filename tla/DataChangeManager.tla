-------------------------- MODULE DataChangeManager --------------------------
(***************************************************************************)
(* Editing one result set: the grid the user sees (TableRows), the pending *)
(* changes that a save will turn into SQL (PendingChanges), and the undo   *)
(* manager of the window, whose entries replay UndoActions on both.        *)
(*                                                                         *)
(* DataChangeManager registers the undo actions and replays them on the    *)
(* pending changes; RowOperationsManager.applyUndoResult replays the same  *)
(* action on the grid.  Everything runs on the main actor, so a command is *)
(* one step.  NSUndoManager groups what one event registers: an element of *)
(* a stack is a group, a sequence of one or two undo actions.              *)
(***************************************************************************)
EXTENDS SQLStatements, SequencesExt

CONSTANTS
  Values,         \* the values a cell can hold besides Null and Default
  Base,           \* the rows of the table in the database, as loaded
  EditValues,     \* values the user types into a cell
  EditColumns,    \* columns the user types into
  DefaultColumns, \* columns with a default value in the schema
  Commands,       \* the user commands this instance exercises
  MaxRows,        \* bound on the rows of the grid
  MaxUndo         \* bound on the groups on the undo stack

Cells == Values \cup {Null, Default}

AllCommands ==
  {"edit", "sidebar", "add", "duplicate", "paste", "delete", "deleteNew", "undoDelete",
   "undo", "discard"}

ASSUME BaseAssumption == Base \in Seq([Columns -> Cells])
ASSUME EditAssumption ==
  EditValues \subseteq Cells /\ EditColumns \subseteq Columns /\ DefaultColumns \subseteq Columns
ASSUME NoValuesAssumption == NoValues \notin Seq(Cells)
ASSUME CommandsAssumption == Commands \subseteq AllCommands
ASSUME BoundsAssumption == MaxRows \in Nat /\ MaxUndo \in Nat

VARIABLES
  tableRows,   \* the grid: a sequence of [origin, values]
  pending,     \* a PendingChanges value
  undoStack,   \* the window's undo manager: a sequence of groups
  redoStack

vars == <<tableRows, pending, undoStack, redoStack>>

(* The origin of a row is its position in Base (RowID.existing) or 0       *)
(* (RowID.inserted).                                                       *)
ExistingRow(i) == [origin |-> i, values |-> Base[i]]

InsertedRow(values) ==
  [origin |-> 0,
   values |-> [c \in Columns |-> IF c <= Len(values) THEN values[c] ELSE Null]]

Init ==
  /\ tableRows = [i \in DOMAIN Base |-> ExistingRow(i)]
  /\ pending = EmptyPending
  /\ undoStack = <<>>
  /\ redoStack = <<>>

-------------------------------------------------------------------------------
(***************************************************************************)
(* TableRows.                                                              *)
(***************************************************************************)
EditCell(rows, row, col, value) ==
  IF row \in DOMAIN rows THEN [rows EXCEPT ![row].values[col] = value] ELSE rows

InsertRowAt(rows, row, values) ==
  IF row \in 1..(Len(rows) + 1) THEN InsertAt(rows, row, InsertedRow(values)) ELSE rows

RemoveRowAt(rows, row) ==
  IF row \in DOMAIN rows THEN RemoveAt(rows, row) ELSE rows

-------------------------------------------------------------------------------
(***************************************************************************)
(* Undo actions.  The state s of a replay holds the grid, the pending      *)
(* changes and the actions registered so far for the opposite stack.       *)
(***************************************************************************)
CellEdit(row, col, previous, new, original) ==
  [kind |-> "cellEdit", rowIndex |-> row, columnIndex |-> col,
   previousValue |-> previous, newValue |-> new, originalRow |-> original]

(* savedValues is what the undo closure captured.                          *)
RowInsertion(row, saved) ==
  [kind |-> "rowInsertion", rowIndex |-> row, savedValues |-> saved]

(* rows: a sequence of [row, original].                                    *)
RowDeletion(rows) == [kind |-> "rowDeletion", rows |-> rows]

(* rows: a sequence of [row, values].                                      *)
BatchRowInsertion(rows) == [kind |-> "batchRowInsertion", rows |-> rows]

RowNumbers(rows) == [i \in DOMAIN rows |-> rows[i].row]

(* Mutant: the opposite action is registered with the values unswapped.    *)
UndoCellEditUnswapped(s, a) ==
  [ rows |-> EditCell(s.rows, a.rowIndex, a.columnIndex, a.previousValue),
    pending |->
      IF HasChange(s.pending, a.rowIndex, "update")
      THEN RevertUpdateCell(s.pending, a.rowIndex, a.columnIndex, a.previousValue)
      ELSE ApplyCellChange(s.pending, a.rowIndex, a.columnIndex, a.newValue, a.previousValue,
                           a.originalRow),
    registered |-> Append(s.registered, a) ]

UndoCellEdit(s, a) ==
  LET p == s.pending
      row == a.rowIndex
      col == a.columnIndex
  IN  [ rows |-> EditCell(s.rows, row, col, a.previousValue),
        pending |->
          IF HasChange(p, row, "update")
          THEN RevertUpdateCell(p, row, col, a.previousValue)
          ELSE IF HasChange(p, row, "insert")
          THEN UpdateInsertedCell(p, p.changeIndex[<<row, "insert">>], col, a.previousValue)
          ELSE ApplyCellChange(p, row, col, a.newValue, a.previousValue, a.originalRow),
        registered |->
          Append(s.registered,
                 CellEdit(row, col, a.newValue, a.previousValue, a.originalRow)) ]

(* Mutant: redo gives the values back to the grid only.                    *)
UndoRowInsertionGridOnly(s, a) ==
  LET row == a.rowIndex
      data == s.pending.insertedRowData
      saved == IF a.savedValues # NoValues THEN a.savedValues
               ELSE IF row \in DOMAIN data THEN data[row] ELSE NoValues
      undoing == row \in s.pending.insertedRowIndices
  IN  [ rows |-> IF undoing THEN RemoveRowAt(s.rows, row)
                 ELSE InsertRowAt(s.rows, row, IF saved = NoValues THEN <<>> ELSE saved),
        pending |-> IF undoing THEN UndoRowInsertion(s.pending, row)
                    ELSE ReinsertRow(s.pending, row, NoValues),
        registered |-> Append(s.registered, RowInsertion(row, saved)) ]

UndoRowInsertionAction(s, a) ==
  LET row == a.rowIndex
      p == IF a.savedValues = NoValues THEN s.pending
           ELSE RestoreInsertedValues(s.pending, row, a.savedValues)
      saved == IF row \in DOMAIN p.insertedRowData THEN p.insertedRowData[row] ELSE NoValues
      undoing == row \in p.insertedRowIndices
  IN  [ rows |-> IF undoing THEN RemoveRowAt(s.rows, row)
                 ELSE InsertRowAt(s.rows, row, IF saved = NoValues THEN <<>> ELSE saved),
        pending |-> IF undoing THEN UndoRowInsertion(p, row) ELSE ReinsertRow(p, row, saved),
        registered |-> Append(s.registered, RowInsertion(row, saved)) ]

(* Single and batch deletions: a batch is undone when any of its rows is   *)
(* still marked deleted.  The grid keeps deleted rows, so it is untouched. *)
UndoRowDeletionAction(s, a) ==
  LET undoing == \E i \in DOMAIN a.rows : a.rows[i].row \in s.pending.deletedRowIndices
      restore(p, item) == UndoRowDeletion(p, item.row)
      redelete(p, item) == RecordRowDeletion(p, item.row, item.original)
  IN  [ rows |-> s.rows,
        pending |-> IF undoing THEN ForEach(restore, s.pending, Reversed(a.rows))
                    ELSE ForEach(redelete, s.pending, a.rows),
        registered |-> Append(s.registered, a) ]

(* The grid's side takes the rows out in descending order and puts them    *)
(* back in ascending order.                                                *)
UndoBatchRowInsertionAction(s, a) ==
  LET numbers == RowNumbers(a.rows)
      undoing == a.rows[1].row \in s.pending.insertedRowIndices
      putBack(rows, item) == InsertRowAt(rows, item.row, item.values)
  IN  [ rows |-> IF undoing THEN ForEach(RemoveRowAt, s.rows, numbers)
                 ELSE ForEach(putBack, s.rows, Reversed(a.rows)),
        pending |-> IF undoing THEN UndoBatchRowInsertion(s.pending, numbers)
                    ELSE ReinsertBatch(s.pending, a.rows),
        registered |-> Append(s.registered, a) ]

ApplyUndoAction(s, a) ==
  CASE a.kind = "cellEdit"          -> UndoCellEdit(s, a)
    [] a.kind = "rowInsertion"      -> UndoRowInsertionAction(s, a)
    [] a.kind = "rowDeletion"       -> UndoRowDeletionAction(s, a)
    [] a.kind = "batchRowInsertion" -> UndoBatchRowInsertionAction(s, a)

(* Mutant: the actions of a group are undone first to last.                *)
ApplyGroupForwards(rows, p, group) ==
  ForEach(ApplyUndoAction, [rows |-> rows, pending |-> p, registered |-> <<>>], group)

(* A group is undone last action first.                                    *)
ApplyGroup(rows, p, group) ==
  ForEach(ApplyUndoAction, [rows |-> rows, pending |-> p, registered |-> <<>>], Reversed(group))

-------------------------------------------------------------------------------
(***************************************************************************)
(* The user's commands.                                                    *)
(***************************************************************************)
Enabled(command) == command \in Commands

(* registerUndo outside of a replay: push a group, forget the redo stack.  *)
Register(group) ==
  /\ undoStack' = Append(undoStack, group)
  /\ redoStack' = <<>>

RoomToUndo == Len(undoStack) < MaxUndo

(* Type a new value into a cell of the grid and leave the cell.            *)
CommitCellEdit(row, col, value) ==
  LET shown == tableRows[row].values
  IN  /\ Enabled("edit") /\ RoomToUndo
      /\ row \notin pending.deletedRowIndices
      /\ shown[col] # value
      /\ pending' = RecordCellChange(pending, row, col, shown[col], value, shown)
      /\ tableRows' = EditCell(tableRows, row, col, value)
      /\ Register(<<CellEdit(row, col, shown[col], value, shown)>>)

(* Type into a field of the inspector, with one or two rows selected: the  *)
(* change is recorded against the value the rows share, NULL when they     *)
(* differ, and the grid is not touched.  The field is editable when the    *)
(* first selected row is not marked deleted.  An event that records        *)
(* nothing leaves the undo manager alone.                                  *)
SidebarEdit(selected, col, value) ==
  LET shown(row) == tableRows[row].values
      original == IF \A i, j \in DOMAIN selected : shown(selected[i])[col] = shown(selected[j])[col]
                  THEN shown(selected[1])[col] ELSE Null
      record(p, row) == RecordCellChange(p, row, col, original, value, shown(row))
      recorded == KeepIn({row \in DOMAIN tableRows :
                            RecordsCellChange(pending, row, col, original, value)}, selected)
  IN  /\ Enabled("sidebar") /\ RoomToUndo
      /\ selected[Len(selected)] \notin pending.deletedRowIndices
      /\ pending' = ForEach(record, pending, selected)
      /\ UNCHANGED tableRows
      /\ IF recorded = <<>> THEN UNCHANGED <<undoStack, redoStack>>
         ELSE Register([i \in DOMAIN recorded |->
                          CellEdit(recorded[i], col, original, value, shown(recorded[i]))])

(* Rows come in at the end of the grid and are recorded one by one.        *)
InsertRows(values) ==
  LET first == Len(tableRows) + 1
      record(p, k) == RecordRowInsertion(p, first + k - 1, values[k])
  IN  /\ RoomToUndo
      /\ Len(tableRows) + Len(values) <= MaxRows
      /\ tableRows' = tableRows \o [k \in DOMAIN values |-> InsertedRow(values[k])]
      /\ pending' = ForEach(record, pending, [k \in DOMAIN values |-> k])
      /\ Register([k \in DOMAIN values |-> RowInsertion(first + k - 1, NoValues)])

AddNewRow ==
  /\ Enabled("add")
  /\ InsertRows(<<[c \in Columns |-> IF c \in DefaultColumns THEN Default ELSE Null]>>)

DuplicateRow(source) ==
  /\ Enabled("duplicate")
  /\ InsertRows(<<[c \in Columns |-> IF c \in PrimaryKeyColumns THEN Default
                                      ELSE tableRows[source].values[c]]>>)

(* Paste two rows: one event, so one undo group.  The parser puts the      *)
(* marker into the first primary key column only.                          *)
PasteRows(value) ==
  LET first(c) == c \in PrimaryKeyColumns /\ \A k \in PrimaryKeyColumns : c <= k
      pasted == [c \in Columns |-> IF first(c) THEN Default ELSE value]
  IN  /\ Enabled("paste")
      /\ InsertRows(<<pasted, pasted>>)

(* selected: one or two rows in descending order.  New rows leave the grid *)
(* at once; existing ones are marked and keep what the grid shows as their *)
(* original row.                                                           *)
DeleteSelectedRows(selected) ==
  LET new      == KeepIn(pending.insertedRowIndices, selected)
      existing == KeepIn(DOMAIN tableRows \ (pending.insertedRowIndices \cup
                                             pending.deletedRowIndices), selected)
      removed  == [i \in DOMAIN new |-> [row |-> new[i], values |-> SavedCellValues(pending, new[i])]]
      deleted  == [i \in DOMAIN existing |->
                     [row |-> existing[i], original |-> tableRows[existing[i]].values]]
      record(p, item) == RecordRowDeletion(p, item.row, item.original)
      trimmed  == IF new = <<>> THEN pending ELSE UndoBatchRowInsertion(pending, new)
  IN  /\ RoomToUndo
      /\ new # <<>> \/ existing # <<>>
      /\ new # <<>> => Enabled("deleteNew")
      /\ existing # <<>> => Enabled("delete")
      /\ tableRows' = ForEach(RemoveRowAt, tableRows, new)
      /\ pending' = ForEach(record, trimmed, deleted)
      /\ Register((IF new = <<>> THEN <<>> ELSE <<BatchRowInsertion(removed)>>)
                    \o (IF existing = <<>> THEN <<>> ELSE <<RowDeletion(deleted)>>))

(* "Undo Delete" in the row's context menu: no undo is registered.         *)
UndoDeleteRow(row) ==
  /\ Enabled("undoDelete")
  /\ row \in pending.deletedRowIndices
  /\ pending' = UndoRowDeletion(pending, row)
  /\ UNCHANGED <<tableRows, undoStack, redoStack>>

Undo ==
  LET group == undoStack[Len(undoStack)]
      s == ApplyGroup(tableRows, pending, group)
  IN  /\ Enabled("undo")
      /\ undoStack # <<>>
      /\ tableRows' = s.rows
      /\ pending' = s.pending
      /\ undoStack' = SubSeq(undoStack, 1, Len(undoStack) - 1)
      /\ redoStack' = Append(redoStack, s.registered)

Redo ==
  LET group == redoStack[Len(redoStack)]
      s == ApplyGroup(tableRows, pending, group)
  IN  /\ Enabled("undo")
      /\ redoStack # <<>>
      /\ tableRows' = s.rows
      /\ pending' = s.pending
      /\ redoStack' = SubSeq(redoStack, 1, Len(redoStack) - 1)
      /\ undoStack' = Append(undoStack, s.registered)

(* Mutant: edited cells keep what the user typed.                          *)
RestoredRowAsEdited(row) == tableRows[row]

(* The original value of every updated cell goes back into the grid, the   *)
(* inserted rows leave it, and both stacks are cleared.                    *)
RestoredRow(row) ==
  IF HasChange(pending, row, "update")
  THEN [tableRows[row] EXCEPT !.values =
          LET cells == ChangeFor(pending, row, "update").cellChanges
          IN  [c \in Columns |-> IF c \in DOMAIN cells THEN cells[c].oldValue ELSE @[c]]]
  ELSE tableRows[row]

Kept(rows) ==
  LET goes(row) == row \in pending.insertedRowIndices /\ rows[row].origin = 0
      kept == {row \in DOMAIN rows : ~ goes(row)}
      nth(k) == CHOOSE row \in kept : Cardinality({r \in kept : r <= row}) = k
  IN  [k \in 1..Cardinality(kept) |-> rows[nth(k)]]

HandleDiscard ==
  /\ Enabled("discard")
  /\ pending.changes # <<>>
  /\ tableRows' = Kept([row \in DOMAIN tableRows |-> RestoredRow(row)])
  /\ pending' = EmptyPending
  /\ undoStack' = <<>>
  /\ redoStack' = <<>>

(* One or two rows of the grid, in descending order.                       *)
Selections ==
  {<<r>> : r \in DOMAIN tableRows}
    \cup {s \in (DOMAIN tableRows) \X (DOMAIN tableRows) : s[1] > s[2]}

Next ==
  \/ \E row \in DOMAIN tableRows, col \in EditColumns, value \in EditValues :
       CommitCellEdit(row, col, value)
  \/ \E selected \in Selections, col \in EditColumns, value \in EditValues :
       SidebarEdit(selected, col, value)
  \/ AddNewRow
  \/ \E source \in DOMAIN tableRows : DuplicateRow(source)
  \/ \E value \in EditValues : PasteRows(value)
  \/ \E selected \in Selections : DeleteSelectedRows(selected)
  \/ \E row \in pending.deletedRowIndices : UndoDeleteRow(row)
  \/ Undo
  \/ Redo
  \/ HandleDiscard

Spec == Init /\ [][Next]_vars

-------------------------------------------------------------------------------
(***************************************************************************)
(* Types.                                                                  *)
(***************************************************************************)
Rows == [origin : Nat, values : [Columns -> Cells]]

CellChanges == UNION {[cols -> [oldValue : Cells, newValue : Cells]] : cols \in SUBSET Columns}

RowChanges ==
  [rowIndex : Nat \ {0}, type : {"insert", "update", "delete"}, cellChanges : CellChanges,
   originalRow : [Columns -> Cells] \cup {NoValues}]

(* The grid holds full rows of cell values; a row number in the pending    *)
(* changes is a row of the grid, and no entry of modifiedCells is empty.   *)
TypeOK ==
  /\ tableRows \in Seq(Rows)
  /\ pending.changes \in Seq(RowChanges)
  /\ \A i \in DOMAIN pending.changes : pending.changes[i].rowIndex \in DOMAIN tableRows
  /\ pending.deletedRowIndices \subseteq DOMAIN tableRows
  /\ pending.insertedRowIndices \subseteq DOMAIN tableRows
  /\ \A row \in DOMAIN pending.modifiedCells :
       pending.modifiedCells[row] \in (SUBSET Columns) \ {{}}
  /\ \A row \in DOMAIN pending.insertedRowData : pending.insertedRowData[row] \in Seq(Cells)
===============================================================================
