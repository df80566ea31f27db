------------------------------- MODULE UndoProofs -------------------------------
(***************************************************************************)
(* Proofs about undo and redo.  Two things make them hold together: what a *)
(* replay does to the pending changes keeps them in step with the grid,    *)
(* and every group on a stack fits the grid it will be replayed on.  For   *)
(* the second there is a chain of states along each stack, from the grid   *)
(* that is shown down to the one the stack starts from, and every group    *)
(* takes one state of the chain to the next.                               *)
(***************************************************************************)
EXTENDS SaveProofs

-------------------------------------------------------------------------------
(***************************************************************************)
(* The pending changes fit the grid.                                       *)
(***************************************************************************)
Fits(p, rows) ==
  /\ GridInv(rows)
  /\ Consistent(p)
  /\ NewRowsLast(p, Len(Base), Len(rows))

(* The inspector records changes that the grid does not show.              *)
Shows == "sidebar" \notin Commands

(* Nor is what it deletes marked or unmarked by a command without an undo. *)
Marks == Shows /\ "undoDelete" \notin Commands

FullRows == [Columns -> Cells]

(* No column that a WHERE clause compares is edited.                       *)
KeysFixed == KeyColumns \cap EditColumns = {}

UpdatesKeyed(p) == \A c \in UpdatesOf(p) : SameKey(c.originalRow, c.rowIndex)

ValuesMatch(p, rows) ==
  /\ SoundCells(p)
  /\ ShownCells(p, rows)
  /\ StoredValues(p, rows)
  /\ KeysFixed => KeysKept(p, rows) /\ UpdatesKeyed(p)
  /\ Marks => DeletedNotUpdated(p)

InStep(p, rows) == Fits(p, rows) /\ (Shows => ValuesMatch(p, rows))

LEMMA RowsFit ==
  ASSUME NEW rows, GridInv(rows)
  PROVE  /\ Loaded \subseteq DOMAIN rows /\ Loaded \subseteq Nat \ {0}
         /\ rows \in Seq(Rows) /\ Len(rows) \in Nat /\ DOMAIN rows = 1..Len(rows)
         /\ Len(Base) \in Nat /\ Len(Base) <= Len(rows)
         /\ \A r \in DOMAIN rows : rows[r] \in Rows /\ rows[r].values \in FullRows
<1>1. /\ rows \in Seq(Rows) /\ Len(rows) \in Nat /\ DOMAIN rows = 1..Len(rows)
      /\ Len(Base) \in Nat /\ Len(Base) <= Len(rows)
  BY BaseLength DEF GridInv
<1>2. Loaded \subseteq DOMAIN rows /\ Loaded \subseteq Nat \ {0}
  BY <1>1 DEF Loaded
<1> QED
  BY <1>1, <1>2, GridRow DEF FullRows

LEMMA UpdatesFit ==
  ASSUME NEW p, NEW rows, Fits(p, rows)
  PROVE  \A c \in UpdatesOf(p) : c.rowIndex \in Loaded /\ DOMAIN c.cellChanges \subseteq Columns
<1> SUFFICES ASSUME NEW c \in UpdatesOf(p)
             PROVE  c.rowIndex \in Loaded /\ DOMAIN c.cellChanges \subseteq Columns
  OBVIOUS
<1>1. p.changes \in Seq(RowChanges) /\ NewRowsLast(p, Len(Base), Len(rows))
  BY DEF Fits, Consistent, Indexed, Pendings
<1>2. c \in RowChanges
  BY <1>1 DEF UpdatesOf, ChangesOf
<1>3. c.rowIndex \in RowsOf(p, "update")
  BY DEF UpdatesOf, RowsOf
<1>4. DOMAIN c.cellChanges \subseteq Columns
  BY <1>2 DEF RowChanges, CellChanges
<1> QED
  BY <1>1, <1>3, <1>4 DEF NewRowsLast, Loaded

LEMMA SameDeletions ==
  ASSUME NEW p, NEW q, Consistent(p), Consistent(q), DeletionsOf(q) = DeletionsOf(p)
  PROVE  q.deletedRowIndices = p.deletedRowIndices
<1>1. /\ q.deletedRowIndices = {c.rowIndex : c \in DeletionsOf(q)}
      /\ p.deletedRowIndices = {c.rowIndex : c \in DeletionsOf(p)}
  BY DEF Consistent, MarksMatch, RowsOf, DeletionsOf
<1> QED
  BY <1>1

(* The new rows are the ones with an insert.                               *)
LEMMA InsertsFit ==
  ASSUME NEW p, NEW rows, Fits(p, rows), NEW row \in DOMAIN rows
  PROVE  /\ HasChange(p, row, "insert") <=> row \notin Loaded
         /\ HasChange(p, row, "update") => row \in Loaded
<1>1. /\ Indexed(p) /\ RowsOf(p, "insert") = (Len(Base) + 1)..Len(rows)
      /\ RowsOf(p, "update") \subseteq Loaded
      /\ DOMAIN rows = 1..Len(rows)
  BY RowsFit DEF Fits, NewRowsLast, Consistent, MarksMatch, Loaded
<1>2. HasChange(p, row, "insert") <=> row \in RowsOf(p, "insert")
  BY <1>1, HasChangeFinds
<1>3. HasChange(p, row, "update") <=> row \in RowsOf(p, "update")
  BY <1>1, HasChangeFinds
<1>4. row \in 1..Len(rows) /\ Len(rows) \in Nat /\ Len(Base) \in Nat
  BY <1>1, RowsFit DEF Fits
<1> QED
  BY <1>1, <1>2, <1>3, <1>4 DEF Loaded

-------------------------------------------------------------------------------
(***************************************************************************)
(* Undoing the edit of a cell.                                             *)
(***************************************************************************)
(* One cell of the grid goes to another value.                             *)
RowEdited(rows, rows2, row, col, value) ==
  /\ DOMAIN rows2 = DOMAIN rows
  /\ \A r \in DOMAIN rows \ {row} : rows2[r] = rows[r]
  /\ rows2[row].values = [rows[row].values EXCEPT ![col] = value]

LEMMA EditCellEdits ==
  ASSUME NEW rows, GridInv(rows), NEW row \in DOMAIN rows, NEW col, NEW value
  PROVE  RowEdited(rows, EditCell(rows, row, col, value), row, col, value)
<1> DEFINE rows2 == EditCell(rows, row, col, value)
<1>1. rows \in Seq(Rows) /\ rows[row] \in Rows
  BY GridRow
<1>2. rows2 = [rows EXCEPT ![row].values[col] = value]
  BY DEF EditCell
<1>3. rows2[row] = [rows[row] EXCEPT !.values[col] = value]
  BY <1>1, <1>2
<1>4. rows2[row].values = [rows[row].values EXCEPT ![col] = value]
  BY <1>1, <1>3 DEF Rows
<1>5. DOMAIN rows2 = DOMAIN rows /\ \A r \in DOMAIN rows \ {row} : rows2[r] = rows[r]
  BY <1>1, <1>2
<1> QED
  BY <1>4, <1>5 DEF RowEdited

(* What is recorded when the edit of a cell is undone: the edit back, or   *)
(* nothing when the row's update does not hold the cell.                   *)
EditBack(p, q, row, col, old, new, original) ==
  \/ q = ApplyCellChange(p, row, col, old, new, original)
  \/ q = p /\ HasChange(p, row, "update") /\ col \notin DOMAIN UpdateCells(p, row)

LEMMA UndoCellEditRecords ==
  ASSUME NEW s, NEW a, Fits(s.pending, s.rows), a.rowIndex \in DOMAIN s.rows
  PROVE  EditBack(s.pending, UndoCellEdit(s, a).pending, a.rowIndex, a.columnIndex,
                  a.newValue, a.previousValue, a.originalRow)
<1> DEFINE p == s.pending
           row == a.rowIndex
           col == a.columnIndex
           i == p.changeIndex[<<row, "update">>]
           q == UndoCellEdit(s, a).pending
           back == ApplyCellChange(p, row, col, a.newValue, a.previousValue, a.originalRow)
<1>1. q = IF HasChange(p, row, "update") THEN RevertUpdateCell(p, row, col, a.previousValue)
          ELSE IF HasChange(p, row, "insert")
          THEN UpdateInsertedCell(p, p.changeIndex[<<row, "insert">>], col, a.previousValue)
          ELSE back
  BY DEF UndoCellEdit
<1>2. HasChange(p, row, "update") => ~ HasChange(p, row, "insert")
  BY InsertsFit
<1>3. CASE HasChange(p, row, "update") /\ col \in DOMAIN p.changes[i].cellChanges
  <2>1. back = MergeUpdateCell(p, i, col, a.newValue, a.previousValue)
    BY <1>2, <1>3 DEF ApplyCellChange
  <2>2. q = RevertUpdateCell(p, row, col, a.previousValue)
    BY <1>1, <1>3
  <2> DEFINE first == p.changes[i].cellChanges[col].oldValue
             kept == [p EXCEPT !.changes[i].cellChanges = Put(@, col, CellChange(first, a.previousValue))]
  <2>3. RevertUpdateCell(p, row, col, a.previousValue)
          = IF a.previousValue = first THEN DropCell(p, i, col) ELSE kept
    BY <1>3 DEF RevertUpdateCell
  <2>4. MergeUpdateCell(p, i, col, a.newValue, a.previousValue)
          = IF first = a.previousValue THEN DropCell(p, i, col) ELSE kept
    BY <1>3 DEF MergeUpdateCell
  <2> HIDE DEF kept, first, back, q, i, p, row, col
  <2>5. q = back
    BY <2>1, <2>2, <2>3, <2>4
  <2> QED
    BY <2>5 DEF EditBack, back, q, p, row, col
<1>4. CASE HasChange(p, row, "update") /\ col \notin DOMAIN p.changes[i].cellChanges
  <2>1. q = p
    BY <1>1, <1>4 DEF RevertUpdateCell
  <2>2. UpdateCells(p, row) = p.changes[i].cellChanges
    BY <1>4 DEF UpdateCells, ChangeFor
  <2> QED
    BY <1>4, <2>1, <2>2 DEF EditBack
<1>5. CASE ~ HasChange(p, row, "update")
  <2>1. q = back
    BY <1>1, <1>5 DEF ApplyCellChange
  <2> QED
    BY <2>1 DEF EditBack
<1> QED
  BY <1>3, <1>4, <1>5

(* The grid and the changes after the edit of a cell of the grid, old to   *)
(* new.                                                                    *)
CellReplayed(p, q, rows, rows2, row, col, old, new, original) ==
  /\ RowEdited(rows, rows2, row, col, new)
  /\ row \in Loaded =>
       \/ EditRecorded(p, q, row, col, old, new, original)
       \/ q = p /\ HasChange(p, row, "update") /\ col \notin DOMAIN UpdateCells(p, row)
  /\ row \notin Loaded => NewRowEdited(p, q, row, col, new)

LEMMA EditBackDoes ==
  ASSUME NEW p, NEW q, NEW rows, Fits(p, rows), NEW row \in DOMAIN rows, NEW col \in Columns,
         NEW old \in Cells, NEW new \in Cells, NEW original \in FullRows,
         EditBack(p, q, row, col, old, new, original)
  PROVE  /\ Fits(q, EditCell(rows, row, col, new))
         /\ old # new => CellReplayed(p, q, rows, EditCell(rows, row, col, new), row, col, old, new,
                                      original)
<1> DEFINE rows2 == EditCell(rows, row, col, new)
<1>1. /\ GridInv(rows) /\ Consistent(p) /\ NewRowsLast(p, Len(Base), Len(rows))
      /\ row \in Nat \ {0} /\ row \in 1..Len(rows) /\ Len(rows) \in Nat
  BY RowsFit DEF Fits
<1>2. GridInv(rows2) /\ Len(rows2) = Len(rows) /\ RowEdited(rows, rows2, row, col, new)
  BY <1>1, EditCellKeepsGrid, EditCellEdits
<1>3. HasChange(p, row, "insert") <=> row \notin Loaded
  BY InsertsFit
<1> HIDE DEF rows2
<1>4. CASE q = p /\ HasChange(p, row, "update") /\ col \notin DOMAIN UpdateCells(p, row)
  <2>1. row \in Loaded
    BY <1>4, InsertsFit
  <2> QED
    BY <1>1, <1>2, <1>4, <2>1 DEF Fits, CellReplayed, rows2
<1>5. CASE q = ApplyCellChange(p, row, col, old, new, original)
  <2>1. CellRecorded(p, q, row)
    BY <1>1, <1>5, ApplyCellChangeKeeps DEF FullRows
  <2>2. Consistent(q) /\ NewRowsLast(q, Len(Base), Len(rows))
    BY <1>1, <2>1, CellRecordedKeepsRows
  <2>3. ASSUME old # new
        PROVE  CellReplayed(p, q, rows, rows2, row, col, old, new, original)
    <3>1. q = RecordCellChange(p, row, col, old, new, original)
      BY <1>5, <2>3 DEF RecordCellChange
    <3>2. row \in Loaded => EditRecorded(p, q, row, col, old, new, original)
      BY <1>1, <1>3, <2>3, <3>1, RecordCellChangeContent DEF FullRows
    <3>3. row \notin Loaded => NewRowEdited(p, q, row, col, new)
      BY <1>1, <1>3, <2>3, <3>1, NewRowEditRecorded DEF FullRows
    <3> QED
      BY <1>2, <3>2, <3>3 DEF CellReplayed
  <2> QED
    BY <1>2, <2>2, <2>3 DEF Fits, rows2
<1> QED
  BY <1>4, <1>5 DEF EditBack

LEMMA ReplayedKeepsSound ==
  ASSUME NEW p, NEW q, NEW rows, NEW rows2, Fits(p, rows), SoundCells(p),
         NEW row, NEW col \in EditColumns, NEW old, NEW new, NEW original,
         CellReplayed(p, q, rows, rows2, row, col, old, new, original)
  PROVE  SoundCells(q)
<1>1. Indexed(p)
  BY DEF Fits, Consistent
<1>2. CASE row \notin Loaded
  BY <1>2, FewerKeepSound DEF CellReplayed, NewRowEdited, OnlyNewRows
<1>3. CASE row \in Loaded /\ EditRecorded(p, q, row, col, old, new, original)
  BY <1>1, <1>3, EditKeepsSound
<1>4. CASE q = p
  BY <1>4
<1> QED
  BY <1>2, <1>3, <1>4 DEF CellReplayed

LEMMA ReplayedKeepsShown ==
  ASSUME NEW p, NEW q, NEW rows, NEW rows2, Fits(p, rows), ShownCells(p, rows),
         NEW row \in DOMAIN rows, NEW col \in EditColumns, NEW old, NEW new, NEW original,
         CellReplayed(p, q, rows, rows2, row, col, old, new, original)
  PROVE  ShownCells(q, rows2)
<1> DEFINE shown == rows[row].values
           u == UpdateCells(p, row)
           cells == RecordedCells(u, col, old, new)
<1>1. Indexed(p) /\ shown \in FullRows /\ col \in Columns /\ Loaded \subseteq DOMAIN rows
  BY RowsFit, EditAssumption DEF Fits, Consistent
<1>2. /\ \A r \in DOMAIN rows : r # row => rows2[r] = rows[r]
      /\ rows2[row].values = [shown EXCEPT ![col] = new]
  BY DEF CellReplayed, RowEdited
<1>3. /\ rows2[row].values[col] = new
      /\ \A k \in Columns : k # col => rows2[row].values[k] = shown[k]
  BY <1>1, <1>2 DEF FullRows
<1>4. \A k \in DOMAIN u : u[k].newValue = shown[k] /\ k \in Columns
  BY <1>1, CellsOfUpdate, UpdatesFit DEF ShownCells
<1>5. \A c \in UpdatesOf(p) : c.rowIndex \in Loaded /\ DOMAIN c.cellChanges \subseteq Columns
  BY UpdatesFit
<1>6. CASE row \notin Loaded
  <2>1. UpdatesOf(q) = UpdatesOf(p)
    BY <1>6 DEF CellReplayed, NewRowEdited, OnlyNewRows
  <2> QED
    BY <1>1, <1>2, <1>5, <1>6, <2>1 DEF ShownCells
<1>7. CASE q = p /\ col \notin DOMAIN u
  <2>1. \A c \in UpdatesOf(p) : c.rowIndex = row => c.cellChanges = u
    BY <1>1, UpdateCellsAre
  <2>2. ASSUME NEW c \in UpdatesOf(p), NEW k \in DOMAIN c.cellChanges
        PROVE  c.cellChanges[k].newValue = rows2[c.rowIndex].values[k]
    <3>1. CASE c.rowIndex = row
      <4>1. c.cellChanges = u /\ k # col
        BY <1>7, <2>1, <3>1
      <4> HIDE DEF u, shown
      <4> QED
        BY <1>3, <1>4, <3>1, <4>1
    <3>2. CASE c.rowIndex # row
      BY <1>1, <1>2, <1>5, <3>2 DEF ShownCells
    <3> QED
      BY <3>1, <3>2
  <2> QED
    BY <1>7, <2>2 DEF ShownCells
<1>8. CASE row \in Loaded /\ EditRecorded(p, q, row, col, old, new, original)
  <2>1. \A c \in UpdatesOf(q) :
          \/ c \in UpdatesOf(p) /\ c.rowIndex # row
          \/ c.rowIndex = row /\ c.cellChanges = cells
    BY <1>1, <1>8, EditedUpdates
  <2> HIDE DEF shown, u
  <2>2. ASSUME NEW k \in DOMAIN cells
        PROVE  cells[k].newValue = rows2[row].values[k]
    <3>1. /\ k # col => k \in DOMAIN u /\ cells[k] = u[k]
          /\ k = col => cells[k].newValue = new
      BY RecordedCellsAre
    <3> QED
      BY <1>3, <1>4, <3>1
  <2> HIDE DEF cells
  <2>3. ASSUME NEW c \in UpdatesOf(q), NEW k \in DOMAIN c.cellChanges
        PROVE  c.cellChanges[k].newValue = rows2[c.rowIndex].values[k]
    <3>1. CASE c.rowIndex = row /\ c.cellChanges = cells
      BY <2>2, <3>1
    <3>2. CASE c \in UpdatesOf(p) /\ c.rowIndex # row
      <4>1. rows2[c.rowIndex] = rows[c.rowIndex]
        BY <1>1, <1>2, <1>5, <3>2
      <4> QED
        BY <3>2, <4>1 DEF ShownCells
    <3> QED
      BY <2>1, <3>1, <3>2
  <2> QED
    BY <2>3 DEF ShownCells
<1> QED
  BY <1>6, <1>7, <1>8 DEF CellReplayed

LEMMA ReplayedKeepsStored ==
  ASSUME NEW p, NEW q, NEW rows, NEW rows2, Fits(p, rows), StoredValues(p, rows),
         NEW row \in DOMAIN rows, NEW col \in EditColumns, NEW old, NEW new, NEW original,
         CellReplayed(p, q, rows, rows2, row, col, old, new, original)
  PROVE  StoredValues(q, rows2)
<1>1. RowEdited(rows, rows2, row, col, new)
  BY DEF CellReplayed
<1>2. CASE row \in Loaded
  <2>1. q.insertedRowData = p.insertedRowData
    BY <1>2 DEF CellReplayed, EditRecorded, UpdateBecomes
  <2> QED
    BY <1>1, <1>2, <2>1 DEF RowEdited, StoredValues
<1>3. CASE row \notin Loaded
  <2> DEFINE data == p.insertedRowData
             shown == rows[row].values
  <2>1. row \in DOMAIN data /\ data[row] = shown /\ shown \in FullRows /\ col \in Columns
    BY <1>3, RowsFit, EditAssumption DEF StoredValues, Fits
  <2>2. col <= Len(data[row])
    BY <2>1, NumColumnsAssumption DEF Columns, FullRows
  <2>3. q.insertedRowData = [data EXCEPT ![row] = [@ EXCEPT ![col] = new]]
    BY <1>3, <2>1, <2>2 DEF CellReplayed, NewRowEdited
  <2>4. \A r \in DOMAIN rows2 \ Loaded : r \in DOMAIN data /\ data[r] = rows[r].values
    BY <1>1 DEF RowEdited, StoredValues
  <2> QED
    BY <1>1, <2>1, <2>3, <2>4 DEF RowEdited, StoredValues
<1> QED
  BY <1>2, <1>3

LEMMA ReplayedKeepsKeys ==
  ASSUME KeysFixed, NEW p, NEW q, NEW rows, NEW rows2, Fits(p, rows), KeysKept(p, rows),
         NEW row \in DOMAIN rows, NEW col \in EditColumns, NEW old, NEW new, NEW original,
         CellReplayed(p, q, rows, rows2, row, col, old, new, original)
  PROVE  KeysKept(q, rows2)
<1>1. RowEdited(rows, rows2, row, col, new)
  BY DEF CellReplayed
<1>2. Loaded \subseteq DOMAIN rows /\ rows[row].values \in FullRows
  BY RowsFit DEF Fits
<1>3. KeyColumns \subseteq Columns /\ col \notin KeyColumns
  BY PrimaryKeyAssumption DEF KeyColumns, KeysFixed
<1>4. ASSUME NEW r \in Loaded PROVE SameKey(rows2[r].values, r)
  BY <1>1, <1>2, <1>3 DEF RowEdited, KeysKept, SameKey, FullRows
<1>5. DeletionsOf(q) = DeletionsOf(p)
  BY DEF CellReplayed, EditRecorded, UpdateBecomes, NewRowEdited, OnlyNewRows
<1> QED
  BY <1>4, <1>5 DEF KeysKept

(* An edit leaves the other updates, and the original row of its own.      *)
LEMMA ReplayedUpdates ==
  ASSUME NEW p, NEW q, NEW rows, NEW rows2, Fits(p, rows), NEW row, NEW col, NEW old, NEW new,
         NEW original, CellReplayed(p, q, rows, rows2, row, col, old, new, original),
         NEW c \in UpdatesOf(q)
  PROVE  \/ c \in UpdatesOf(p)
         \/ /\ c.rowIndex = row /\ row \in Loaded
            /\ \/ c.originalRow = original
               \/ \E d \in UpdatesOf(p) : d.rowIndex = row /\ c.originalRow = d.originalRow
<1>1. Indexed(p)
  BY DEF Fits, Consistent
<1>2. CASE row \notin Loaded
  BY <1>2 DEF CellReplayed, NewRowEdited, OnlyNewRows
<1>3. CASE row \in Loaded /\ EditRecorded(p, q, row, col, old, new, original)
  <2>1. \/ c \in UpdatesOf(p)
        \/ c.rowIndex = row /\ c.originalRow = UpdateOriginal(p, row, original)
    BY <1>1, <1>3, EditedUpdates
  <2>2. \/ UpdateOriginal(p, row, original) = original
        \/ \E d \in UpdatesOf(p) : d.rowIndex = row /\ UpdateOriginal(p, row, original) = d.originalRow
    BY <1>1, UpdateCellsAre DEF UpdateOriginal
  <2> QED
    BY <1>3, <2>1, <2>2
<1>4. CASE q = p
  BY <1>4
<1> QED
  BY <1>2, <1>3, <1>4 DEF CellReplayed

(* The row of an edit: not one that is marked deleted, and its key was     *)
(* the loaded one.                                                         *)
Editable(p, row, original) ==
  /\ KeysFixed /\ row \in Loaded => SameKey(original, row)
  /\ Marks => row \notin p.deletedRowIndices

LEMMA ReplayedKeepsValues ==
  ASSUME NEW p, NEW q, NEW rows, NEW rows2, Fits(p, rows), ValuesMatch(p, rows), Consistent(q),
         NEW row \in DOMAIN rows, NEW col \in EditColumns, NEW old, NEW new, NEW original,
         Editable(p, row, original),
         CellReplayed(p, q, rows, rows2, row, col, old, new, original)
  PROVE  ValuesMatch(q, rows2)
<1>1. SoundCells(q) /\ ShownCells(q, rows2) /\ StoredValues(q, rows2)
  BY ReplayedKeepsSound, ReplayedKeepsShown, ReplayedKeepsStored DEF ValuesMatch
<1>2. KeysFixed => KeysKept(q, rows2)
  BY ReplayedKeepsKeys DEF ValuesMatch
<1>3. ASSUME KeysFixed PROVE UpdatesKeyed(q)
  BY <1>3, ReplayedUpdates DEF ValuesMatch, UpdatesKeyed, Editable
<1>4. ASSUME Marks PROVE DeletedNotUpdated(q)
  <2>1. DeletionsOf(q) = DeletionsOf(p)
    BY DEF CellReplayed, EditRecorded, UpdateBecomes, NewRowEdited, OnlyNewRows
  <2>2. q.deletedRowIndices = p.deletedRowIndices
    BY <2>1, SameDeletions DEF Fits
  <2> QED
    BY <1>4, <2>2, ReplayedUpdates DEF ValuesMatch, DeletedNotUpdated, Editable
<1> QED
  BY <1>1, <1>2, <1>3, <1>4 DEF ValuesMatch

-------------------------------------------------------------------------------
(***************************************************************************)
(* Undoing and redoing a deletion.                                         *)
(***************************************************************************)
(* The updates of these changes are among the others, and the stored       *)
(* values are the same.                                                    *)
FewerUpdates(p, q) ==
  /\ UpdatesOf(q) \subseteq UpdatesOf(p)
  /\ q.insertedRowData = p.insertedRowData

LEMMA FewerUpdatesKeepValues ==
  ASSUME NEW p, NEW q, NEW rows, ValuesMatch(p, rows), FewerUpdates(p, q),
         DeletedNotUpdated(p) => DeletedNotUpdated(q),
         KeysFixed => \A c \in DeletionsOf(q) :
                        c \in DeletionsOf(p) \/ (c.rowIndex \in Loaded /\ SameKey(c.originalRow, c.rowIndex))
  PROVE  ValuesMatch(q, rows)
BY DEF ValuesMatch, FewerUpdates, SoundCells, ShownCells, StoredValues, KeysKept, UpdatesKeyed

(* A row that a deletion may name.                                         *)
Deletable(item) ==
  /\ item.row \in Loaded
  /\ item.original \in FullRows
  /\ KeysFixed /\ Shows => SameKey(item.original, item.row)

LEMMA RestoreKeepsStep ==
  ASSUME NEW p, NEW rows, InStep(p, rows), NEW row
  PROVE  LET q == UndoRowDeletion(p, row)
         IN  /\ InStep(q, rows)
             /\ q.deletedRowIndices = p.deletedRowIndices \ {row}
             /\ UpdatesOf(q) = UpdatesOf(p)
<1> DEFINE q == UndoRowDeletion(p, row)
<1>1. Fits(p, rows) /\ Consistent(p) /\ NewRowsLast(p, Len(Base), Len(rows)) /\ GridInv(rows)
  BY DEF InStep, Fits
<1>2. /\ RowsRecorded(p, q, p.deletedRowIndices \ {row}, p.insertedRowIndices)
      /\ RowDeletionUndone(p, q, row)
  BY <1>1, UndoRowDeletionKeeps
<1>3. /\ p.deletedRowIndices \ {row} \subseteq 1..Len(Base)
      /\ p.insertedRowIndices = (Len(Base) + 1)..Len(rows)
  BY <1>1, DeletedAreLoaded DEF NewRowsLast
<1>4. Consistent(q) /\ NewRowsLast(q, Len(Base), Len(rows))
  BY <1>1, <1>2, <1>3, RowsRecordedKeepsRows
<1>5. /\ FewerUpdates(p, q) /\ \A c \in DeletionsOf(q) : c \in DeletionsOf(p)
      /\ q.deletedRowIndices = p.deletedRowIndices \ {row} /\ UpdatesOf(q) = UpdatesOf(p)
  BY <1>2 DEF RowDeletionUndone, RowsRecorded, FewerUpdates
<1>6. DeletedNotUpdated(p) => DeletedNotUpdated(q)
  BY <1>5 DEF DeletedNotUpdated
<1> QED
  BY <1>1, <1>4, <1>5, <1>6, FewerUpdatesKeepValues DEF InStep, Fits

LEMMA RedeleteKeepsStep ==
  ASSUME NEW p, NEW rows, InStep(p, rows), NEW item, Deletable(item)
  PROVE  LET q == RecordRowDeletion(p, item.row, item.original)
         IN  /\ InStep(q, rows)
             /\ q.deletedRowIndices = p.deletedRowIndices \cup {item.row}
             /\ item.row \notin RowsOf(p, "update") => UpdatesOf(q) = UpdatesOf(p)
<1> DEFINE row == item.row
           q == RecordRowDeletion(p, row, item.original)
           d == RowChange(row, "delete", EmptyMap, item.original)
<1>1. Fits(p, rows) /\ Consistent(p) /\ NewRowsLast(p, Len(Base), Len(rows)) /\ GridInv(rows)
  BY DEF InStep, Fits
<1>2. row \in 1..Len(Base) /\ row \in Nat \ {0} /\ item.original \in [Columns -> Cells]
  BY BaseLength DEF Deletable, Loaded, FullRows
<1>3. Consistent(q) /\ NewRowsLast(q, Len(Base), Len(rows))
  BY <1>1, <1>2, DeletionOfLoaded
<1>4. /\ RowDeletionRecorded(p, q, row, item.original)
      /\ q.deletedRowIndices = p.deletedRowIndices \cup {row}
  BY <1>1, <1>2, RecordRowDeletionKeeps DEF RowsRecorded
<1>5. d.rowIndex = row /\ d.originalRow = item.original
  BY DEF RowChange
<1> HIDE DEF q
<1>6. FewerUpdates(p, q) /\ \A c \in DeletionsOf(q) : c \in DeletionsOf(p) \/ c = d
  <2>1. CASE row \in p.deletedRowIndices
    BY <1>4, <2>1 DEF RowDeletionRecorded, FewerUpdates
  <2>2. CASE row \notin p.deletedRowIndices
    BY <1>4, <2>2 DEF RowDeletionRecorded, FewerUpdates, OtherUpdatesOf
  <2> QED
    BY <2>1, <2>2
<1> HIDE DEF d
<1>7. row \notin RowsOf(p, "update") => UpdatesOf(q) = UpdatesOf(p)
  BY <1>4 DEF RowDeletionRecorded, OtherUpdatesOf, RowsOf, UpdatesOf
<1>8. DeletedNotUpdated(p) => DeletedNotUpdated(q)
  BY <1>4 DEF RowDeletionRecorded, OtherUpdatesOf, DeletedNotUpdated
<1>9. ASSUME Shows PROVE ValuesMatch(q, rows)
  <2>1. ValuesMatch(p, rows)
    BY <1>9 DEF InStep
  <2>2. KeysFixed => d.rowIndex \in Loaded /\ SameKey(d.originalRow, d.rowIndex)
    BY <1>5, <1>9 DEF Deletable
  <2> QED
    BY <1>6, <1>8, <2>1, <2>2, FewerUpdatesKeepValues
<1> QED
  BY <1>1, <1>3, <1>4, <1>7, <1>9 DEF InStep, Fits, q

-------------------------------------------------------------------------------
(***************************************************************************)
(* Undoing and redoing the insertion of the last row.                      *)
(***************************************************************************)
(* The changes still fit a grid of n rows, and only new rows changed.      *)
StillFits(p, q, n) ==
  /\ Consistent(q)
  /\ NewRowsLast(q, Len(Base), n)
  /\ OnlyNewRows(p, q)

DataSet(p, data) ==
  SetMarks(p, p.deletedRowIndices, p.insertedRowIndices, p.modifiedCells, data)

LEMMA DataSetKeeps ==
  ASSUME NEW p, Consistent(p), NEW n, NewRowsLast(p, Len(Base), n),
         NEW data \in PartialFunctions(Nat, Seq(Cells))
  PROVE  StillFits(p, DataSet(p, data), n) /\ DataSet(p, data).insertedRowData = data
<1> DEFINE q == DataSet(p, data)
<1>1. /\ Indexed(p)
      /\ p.deletedRowIndices \in SUBSET Nat /\ p.insertedRowIndices \in SUBSET Nat
      /\ p.modifiedCells \in PartialFunctions(Nat, SUBSET Columns)
  BY PartialFields DEF Consistent, Indexed
<1>2. MarksSet(p, q, p.deletedRowIndices, p.insertedRowIndices, p.modifiedCells, data)
  BY <1>1, MarksChanged DEF DataSet
<1> HIDE DEF q
<1>3. Consistent(q)
  BY <1>2 DEF MarksSet, Consistent, MarksMatch, ModifiedMatches
<1>4. NewRowsLast(q, Len(Base), n) /\ OnlyNewRows(p, q)
  BY <1>2 DEF MarksSet, NewRowsLast, OnlyNewRows, UpdatesOf, DeletionsOf
<1> QED
  BY <1>2, <1>3, <1>4 DEF MarksSet, StillFits, q

Rebuilt(p, data, f) == RebuildChangeIndex(Renumbered(DataSet(p, data), f))

(* A renumbering of rows that are not there changes nothing but the stored *)
(* values it brings along.                                                 *)
LEMMA NothingRenumbered ==
  ASSUME NEW p, Consistent(p), NEW n \in Nat, Len(Base) <= n, NewRowsLast(p, Len(Base), n),
         NEW data \in PartialFunctions(Nat, Seq(Cells)),
         NEW f \in [Nat -> Nat], \A r \in 1..n : f[r] = r
  PROVE  StillFits(p, Rebuilt(p, data, f), n) /\ Rebuilt(p, data, f).insertedRowData = data
<1> DEFINE p1 == DataSet(p, data)
           q == RebuildChangeIndex(Renumbered(p1, f))
<1>1. /\ StillFits(p, p1, n) /\ p1.insertedRowData = data
      /\ Len(Base) \in Nat
  BY DataSetKeeps, BaseLength
<1> HIDE DEF p1
<1>2. /\ Consistent(p1) /\ p1 \in Pendings /\ p1.insertedRowIndices = (Len(Base) + 1)..n
      /\ RowsOf(p1, "update") \cup RowsOf(p1, "delete") \subseteq 1..Len(Base)
      /\ p1.deletedRowIndices \subseteq 1..Len(Base)
  BY <1>1 DEF StillFits, NewRowsLast, Consistent, Indexed, MarksMatch
<1>8. /\ \A r \in p1.insertedRowIndices : f[r] = r /\ r # 0
      /\ \A r \in RowsOf(p1, "update") \cup RowsOf(p1, "delete") : f[r] = r
  <2>1. (Len(Base) + 1)..n \subseteq 1..n /\ 1..Len(Base) \subseteq 1..n
    <3> DEFINE loaded == Len(Base)
    <3>1. loaded \in Nat /\ loaded <= n
      BY <1>1
    <3> HIDE DEF loaded
    <3>2. (loaded + 1)..n \subseteq 1..n /\ 1..loaded \subseteq 1..n
      BY <3>1
    <3> QED
      BY <3>2 DEF loaded
  <2>2. p1.insertedRowIndices \subseteq 1..n /\ RowsOf(p1, "update") \cup RowsOf(p1, "delete") \subseteq 1..n
    BY <1>2, <2>1
  <2>3. \A r \in 1..n : f[r] = r /\ r # 0
    OBVIOUS
  <2> QED
    BY <2>2, <2>3
<1>3. Renumbering(p1, f)
  <2>1. \A r, t \in p1.insertedRowIndices : f[r] = f[t] => r = t
    BY <1>8
  <2>2. \A r \in p1.insertedRowIndices : f[r] # 0
    BY <1>8
  <2> QED
    BY <1>8, <2>1, <2>2 DEF Renumbering
<1>4. {f[r] : r \in p1.insertedRowIndices} = p1.insertedRowIndices
  BY <1>8
<1>5. RowsRecorded(p1, q, p1.deletedRowIndices, (Len(Base) + 1)..n) /\ OnlyNewRows(p1, q)
  <2>1. /\ RowsRecorded(p1, q, p1.deletedRowIndices, {f[r] : r \in p1.insertedRowIndices})
        /\ OnlyNewRows(p1, q)
    BY <1>2, <1>3, RenumberedKeeps
  <2> HIDE DEF q
  <2> QED
    BY <1>2, <1>4, <2>1
<1>6. q.insertedRowData = p1.insertedRowData
  BY <1>2 DEF RebuildChangeIndex, Renumbered, Pendings
<1> HIDE DEF q
<1>7. Consistent(q) /\ NewRowsLast(q, Len(Base), n)
  <2>1. Consistent(q) /\ q.deletedRowIndices = p1.deletedRowIndices
    BY <1>5 DEF RowsRecorded
  <2>2. RowsOf(q, "update") \subseteq RowsOf(p1, "update") /\ q.insertedRowIndices = (Len(Base) + 1)..n
    BY <1>5 DEF RowsRecorded
  <2>3. RowsOf(q, "delete") = q.deletedRowIndices
    BY <2>1 DEF Consistent, MarksMatch
  <2> QED
    BY <1>2, <2>1, <2>2, <2>3 DEF NewRowsLast
<1> QED
  BY <1>1, <1>5, <1>6, <1>7 DEF StillFits, OnlyNewRows, q, p1, Rebuilt

(* The stored values of the first n rows are kept.                         *)
DataKept(p, q, n) ==
  \A r \in 1..n :
    r \in DOMAIN p.insertedRowData =>
      r \in DOMAIN q.insertedRowData /\ q.insertedRowData[r] = p.insertedRowData[r]

DataDown(data, n) == [r \in {Down(n, k) : k \in DOMAIN data} |-> data[Up(n, r)]]

DataUp(data, n) == [r \in {Up(n, k) : k \in DOMAIN data} |-> data[Down(n, r)]]

LEMMA DataMoves ==
  ASSUME NEW data \in PartialFunctions(Nat, Seq(Cells)), NEW n \in Nat
  PROVE  /\ n \notin DOMAIN data => DataDown(data, n) \in PartialFunctions(Nat, Seq(Cells))
         /\ DataUp(data, n) \in PartialFunctions(Nat, Seq(Cells))
         /\ \A r \in 1..(n - 1) :
              r \in DOMAIN data => /\ r \in DOMAIN DataDown(data, n) /\ DataDown(data, n)[r] = data[r]
                                   /\ r \in DOMAIN DataUp(data, n) /\ DataUp(data, n)[r] = data[r]
<1>1. DOMAIN data \in SUBSET Nat /\ \A k \in DOMAIN data : data[k] \in Seq(Cells)
  BY DEF PartialFunctions
<1>2. ASSUME n \notin DOMAIN data
      PROVE  DataDown(data, n) \in PartialFunctions(Nat, Seq(Cells))
  <2> DEFINE dom == {Down(n, k) : k \in DOMAIN data}
  <2>1. dom \in SUBSET Nat
    BY <1>1 DEF Down
  <2>2. \A r \in dom : Up(n, r) \in DOMAIN data
    BY <1>1, <1>2 DEF Down, Up
  <2>3. DataDown(data, n) \in [dom -> Seq(Cells)]
    <3> HIDE DEF dom
    <3>1. \A r \in dom : data[Up(n, r)] \in Seq(Cells)
      BY <1>1, <2>2
    <3> QED
      BY <3>1 DEF DataDown, dom
  <2> HIDE DEF dom
  <2> QED
    BY <2>1, <2>3 DEF PartialFunctions
<1>3. DataUp(data, n) \in PartialFunctions(Nat, Seq(Cells))
  <2> DEFINE dom == {Up(n, k) : k \in DOMAIN data}
  <2>1. dom \in SUBSET Nat
    BY <1>1 DEF Up
  <2>2. \A r \in dom : Down(n, r) \in DOMAIN data
    BY <1>1 DEF Down, Up
  <2>3. DataUp(data, n) \in [dom -> Seq(Cells)]
    <3> HIDE DEF dom
    <3>1. \A r \in dom : data[Down(n, r)] \in Seq(Cells)
      BY <1>1, <2>2
    <3> QED
      BY <3>1 DEF DataUp, dom
  <2> HIDE DEF dom
  <2> QED
    BY <2>1, <2>3 DEF PartialFunctions
<1>4. ASSUME NEW r \in 1..(n - 1), r \in DOMAIN data
      PROVE  /\ r \in DOMAIN DataDown(data, n) /\ DataDown(data, n)[r] = data[r]
             /\ r \in DOMAIN DataUp(data, n) /\ DataUp(data, n)[r] = data[r]
  <2>1. Down(n, r) = r /\ Up(n, r) = r
    BY DEF Down, Up
  <2>2. r \in {Down(n, k) : k \in DOMAIN data} /\ r \in {Up(n, k) : k \in DOMAIN data}
    BY <1>4, <2>1
  <2> QED
    BY <2>1, <2>2 DEF DataDown, DataUp
<1> QED
  BY <1>2, <1>3, <1>4

(* Taking a row number out after the last row, or making room for one.     *)
LEMMA LastRowShifts ==
  ASSUME NEW p, Consistent(p), NEW n \in Nat, Len(Base) <= n, NewRowsLast(p, Len(Base), n)
  PROVE  /\ n + 1 \notin DOMAIN p.insertedRowData =>
              StillFits(p, ShiftDown(p, n + 1), n) /\ DataKept(p, ShiftDown(p, n + 1), n)
         /\ StillFits(p, ShiftUp(p, n + 1), n) /\ DataKept(p, ShiftUp(p, n + 1), n)
<1> DEFINE m == n + 1
           data == p.insertedRowData
           down == [r \in Nat |-> Down(m, r)]
           up == [r \in Nat |-> Up(m, r)]
<1>1. /\ p \in Pendings /\ Len(Base) \in Nat /\ m \in Nat
      /\ data \in PartialFunctions(Nat, Seq(Cells))
      /\ p.modifiedCells \in PartialFunctions(Nat, SUBSET Columns)
      /\ DOMAIN p.modifiedCells \subseteq 1..Len(Base)
      /\ p.insertedRowIndices = (Len(Base) + 1)..n
      /\ p.deletedRowIndices \subseteq 1..Len(Base)
  <2>1. p \in Pendings
    BY DEF Consistent, Indexed
  <2>2. Len(Base) \in Nat /\ m \in Nat
    BY BaseLength
  <2>3. DOMAIN p.modifiedCells = RowsOf(p, "update") /\ p.deletedRowIndices = RowsOf(p, "delete")
    BY DEF Consistent, ModifiedMatches, MarksMatch
  <2> HIDE DEF m
  <2> QED
    BY <2>1, <2>2, <2>3, PartialFields DEF NewRowsLast
<1>2. /\ down \in [Nat -> Nat] /\ \A r \in 1..n : down[r] = r
      /\ up \in [Nat -> Nat] /\ \A r \in 1..n : up[r] = r
  BY DEF Down, Up
<1>3. p.changes \in Seq(RowChanges) /\ \A i \in DOMAIN p.changes : p.changes[i].rowIndex \in Nat
  <2>1. p.changes \in Seq(RowChanges)
    BY <1>1 DEF Pendings
  <2>2. \A c \in RowChanges : c.rowIndex \in Nat
    BY DEF RowChanges
  <2> QED
    BY <2>1, <2>2
<1>4. /\ \A r \in DOMAIN p.modifiedCells : Down(m, r) = r /\ Up(m, r) = r /\ r # m
      /\ \A r \in p.deletedRowIndices : Up(m, r) = r
  BY <1>1 DEF Down, Up
<1>5. ShiftDown(p, m) = Rebuilt(p, DataDown(data, m), down)
  <2> DEFINE changes == [i \in DOMAIN p.changes |-> AtRow(p.changes[i], Down(m, p.changes[i].rowIndex))]
             inserted == {Down(m, r) : r \in p.insertedRowIndices}
             moved == [r \in {Down(m, k) : k \in DOMAIN p.modifiedCells \ {m}} |-> p.modifiedCells[Up(m, r)]]
  <2>1. moved = p.modifiedCells
    <3>1. {Down(m, k) : k \in DOMAIN p.modifiedCells \ {m}} = DOMAIN p.modifiedCells
      BY <1>4
    <3>2. p.modifiedCells = [r \in DOMAIN p.modifiedCells |-> p.modifiedCells[r]]
      BY <1>1 DEF PartialFunctions
    <3> QED
      BY <1>4, <3>1, <3>2
  <2>2. changes = [i \in DOMAIN p.changes |-> AtRow(p.changes[i], down[p.changes[i].rowIndex])]
    BY <1>3
  <2>3. inserted = {down[r] : r \in p.insertedRowIndices}
    <3>1. \A r \in p.insertedRowIndices : down[r] = Down(m, r)
      BY <1>1
    <3> HIDE DEF down
    <3> QED
      BY <3>1
  <2>4. ShiftDown(p, m) = RebuildChangeIndex(
          [p EXCEPT !.changes = changes, !.insertedRowIndices = inserted,
                    !.insertedRowData = DataDown(data, m), !.modifiedCells = moved])
    BY DEF ShiftDown, DataDown
  <2> HIDE DEF moved
  <2>5. Renumbered(DataSet(p, DataDown(data, m)), down)
          = [p EXCEPT !.changes = changes, !.insertedRowIndices = inserted,
                      !.insertedRowData = DataDown(data, m), !.modifiedCells = moved]
    <3> HIDE DEF down
    <3>1. /\ DataSet(p, DataDown(data, m)).changes = p.changes
          /\ DataSet(p, DataDown(data, m)).insertedRowIndices = p.insertedRowIndices
      BY <1>1 DEF DataSet, SetMarks, Pendings
    <3>2. Renumbered(DataSet(p, DataDown(data, m)), down)
            = [DataSet(p, DataDown(data, m)) EXCEPT !.changes = changes, !.insertedRowIndices = inserted]
      BY <2>2, <2>3, <3>1 DEF Renumbered
    <3> HIDE DEF changes, inserted
    <3> QED
      BY <1>1, <2>1, <3>2 DEF DataSet, SetMarks, Pendings
  <2> QED
    BY <2>4, <2>5 DEF Rebuilt
<1>6. ShiftUp(p, m) = Rebuilt(p, DataUp(data, m), up)
  <2> DEFINE changes == [i \in DOMAIN p.changes |-> AtRow(p.changes[i], Up(m, p.changes[i].rowIndex))]
             inserted == {Up(m, r) : r \in p.insertedRowIndices}
             deleted == {Up(m, r) : r \in p.deletedRowIndices}
             moved == [r \in {Up(m, k) : k \in DOMAIN p.modifiedCells} |-> p.modifiedCells[Down(m, r)]]
  <2>1. moved = p.modifiedCells
    <3>1. {Up(m, k) : k \in DOMAIN p.modifiedCells} = DOMAIN p.modifiedCells
      BY <1>4
    <3>2. p.modifiedCells = [r \in DOMAIN p.modifiedCells |-> p.modifiedCells[r]]
      BY <1>1 DEF PartialFunctions
    <3> QED
      BY <1>4, <3>1, <3>2
  <2>2. changes = [i \in DOMAIN p.changes |-> AtRow(p.changes[i], up[p.changes[i].rowIndex])]
    BY <1>3
  <2>3. inserted = {up[r] : r \in p.insertedRowIndices} /\ deleted = p.deletedRowIndices
    <3>1. \A r \in p.insertedRowIndices : up[r] = Up(m, r)
      BY <1>1
    <3> HIDE DEF up, m
    <3> QED
      BY <1>4, <3>1
  <2>4. ShiftUp(p, m) = RebuildChangeIndex(
          [p EXCEPT !.changes = changes, !.insertedRowIndices = inserted, !.deletedRowIndices = deleted,
                    !.insertedRowData = DataUp(data, m), !.modifiedCells = moved])
    BY DEF ShiftUp, DataUp
  <2> HIDE DEF moved, deleted
  <2>5. Renumbered(DataSet(p, DataUp(data, m)), up)
          = [p EXCEPT !.changes = changes, !.insertedRowIndices = inserted, !.deletedRowIndices = deleted,
                      !.insertedRowData = DataUp(data, m), !.modifiedCells = moved]
    <3> HIDE DEF up
    <3>1. /\ DataSet(p, DataUp(data, m)).changes = p.changes
          /\ DataSet(p, DataUp(data, m)).insertedRowIndices = p.insertedRowIndices
      BY <1>1 DEF DataSet, SetMarks, Pendings
    <3>2. Renumbered(DataSet(p, DataUp(data, m)), up)
            = [DataSet(p, DataUp(data, m)) EXCEPT !.changes = changes, !.insertedRowIndices = inserted]
      BY <2>2, <2>3, <3>1 DEF Renumbered
    <3> HIDE DEF changes, inserted
    <3> QED
      BY <1>1, <2>1, <2>3, <3>2 DEF DataSet, SetMarks, Pendings
  <2> QED
    BY <2>4, <2>5 DEF Rebuilt
<1>7. \A r \in 1..n : r \in 1..(m - 1)
  OBVIOUS
<1> HIDE DEF down, up, m
<1>8. ASSUME m \notin DOMAIN data
      PROVE  StillFits(p, ShiftDown(p, m), n) /\ DataKept(p, ShiftDown(p, m), n)
  <2>1. DataDown(data, m) \in PartialFunctions(Nat, Seq(Cells))
    BY <1>1, <1>8, DataMoves
  <2>2. StillFits(p, ShiftDown(p, m), n) /\ ShiftDown(p, m).insertedRowData = DataDown(data, m)
    <3> DEFINE moved == DataDown(data, m)
    <3>1. moved \in PartialFunctions(Nat, Seq(Cells)) /\ ShiftDown(p, m) = Rebuilt(p, moved, down)
      BY <1>5, <2>1
    <3> HIDE DEF moved
    <3>2. StillFits(p, Rebuilt(p, moved, down), n) /\ Rebuilt(p, moved, down).insertedRowData = moved
      BY <1>2, <3>1, NothingRenumbered
    <3>3. moved = DataDown(data, m)
      BY DEF moved
    <3> QED
      BY <3>1, <3>2, <3>3
  <2>3. \A r \in 1..n :
          r \in DOMAIN data => r \in DOMAIN DataDown(data, m) /\ DataDown(data, m)[r] = data[r]
    BY <1>1, <1>7, DataMoves
  <2> HIDE DEF data
  <2> QED
    BY <2>2, <2>3 DEF DataKept, data
<1>9. StillFits(p, ShiftUp(p, m), n) /\ DataKept(p, ShiftUp(p, m), n)
  <2>1. DataUp(data, m) \in PartialFunctions(Nat, Seq(Cells))
    BY <1>1, DataMoves
  <2>2. StillFits(p, ShiftUp(p, m), n) /\ ShiftUp(p, m).insertedRowData = DataUp(data, m)
    <3> DEFINE moved == DataUp(data, m)
    <3>1. moved \in PartialFunctions(Nat, Seq(Cells)) /\ ShiftUp(p, m) = Rebuilt(p, moved, up)
      BY <1>6, <2>1
    <3> HIDE DEF moved
    <3>2. StillFits(p, Rebuilt(p, moved, up), n) /\ Rebuilt(p, moved, up).insertedRowData = moved
      BY <1>2, <3>1, NothingRenumbered
    <3>3. moved = DataUp(data, m)
      BY DEF moved
    <3> QED
      BY <3>1, <3>2, <3>3
  <2>3. \A r \in 1..n :
          r \in DOMAIN data => r \in DOMAIN DataUp(data, m) /\ DataUp(data, m)[r] = data[r]
    BY <1>1, <1>7, DataMoves
  <2> HIDE DEF data
  <2> QED
    BY <2>2, <2>3 DEF DataKept, data
<1> QED
  BY <1>8, <1>9 DEF m

(* A row number after the last one is given an insert.                     *)
InsertAdded(p, n, c, data) ==
  AppendChange(SetMarks(p, p.deletedRowIndices, p.insertedRowIndices \cup {n + 1}, p.modifiedCells, data),
               c)

LEMMA InsertAddedKeeps ==
  ASSUME NEW p, Consistent(p), NEW n \in Nat, Len(Base) <= n, NewRowsLast(p, Len(Base), n),
         NEW data \in PartialFunctions(Nat, Seq(Cells)),
         NEW c \in RowChanges, c.type = "insert", c.rowIndex = n + 1
  PROVE  StillFits(p, InsertAdded(p, n, c, data), n + 1) /\ InsertAdded(p, n, c, data).insertedRowData = data
<1> DEFINE m == n + 1
           inserted == p.insertedRowIndices \cup {m}
           q1 == SetMarks(p, p.deletedRowIndices, inserted, p.modifiedCells, data)
           q == AppendChange(q1, c)
<1>1. /\ Indexed(p) /\ p.deletedRowIndices \in SUBSET Nat /\ p.insertedRowIndices \in SUBSET Nat
      /\ p.modifiedCells \in PartialFunctions(Nat, SUBSET Columns)
      /\ p.insertedRowIndices = (Len(Base) + 1)..n /\ Len(Base) \in Nat
  BY PartialFields, BaseLength DEF Consistent, Indexed, NewRowsLast
<1>2. inserted \in SUBSET Nat /\ inserted = (Len(Base) + 1)..m /\ m \notin p.insertedRowIndices
  BY <1>1
<1> HIDE DEF inserted
<1>3. MarksSet(p, q1, p.deletedRowIndices, inserted, p.modifiedCells, data)
  BY <1>1, <1>2, MarksChanged
<1> HIDE DEF q1, m
<1>4. Indexed(q1) /\ ModifiedMatches(q1)
  BY <1>3 DEF Consistent, ModifiedMatches, MarksSet
<1>5. ~ HasChange(q1, c.rowIndex, c.type)
  <2>1. m \notin RowsOf(p, "insert")
    BY <1>2 DEF Consistent, MarksMatch
  <2>2. ~ HasChange(p, m, "insert")
    BY <1>1, <2>1, HasChangeFinds
  <2> QED
    BY <1>3, <2>2 DEF MarksSet, m
<1>6. RowAdded(q1, q, c.rowIndex, c.type)
  BY <1>4, <1>5, RowChangeAdded
<1>7. ChangesOf(q) = ChangesOf(q1) \cup {c}
  BY <1>4, <1>5, AppendChangeAdds
<1> HIDE DEF q
<1>8. /\ q.deletedRowIndices = p.deletedRowIndices /\ q.insertedRowIndices = inserted
      /\ q.insertedRowData = data
      /\ RowsOf(q, "insert") = RowsOf(p, "insert") \cup {m}
      /\ \A t : t # "insert" => RowsOf(q, t) = RowsOf(p, t)
  BY <1>3, <1>6 DEF MarksSet, SameMarks, RowAdded, m
<1>9. Consistent(q)
  <2>1. MarksMatch(q)
    BY <1>8 DEF Consistent, MarksMatch, inserted
  <2> QED
    BY <1>6, <2>1 DEF Consistent, RowAdded
<1>10. NewRowsLast(q, Len(Base), m)
  BY <1>2, <1>8 DEF NewRowsLast
<1>11. OnlyNewRows(p, q)
  <2>1. ChangesOf(q) = ChangesOf(p) \cup {c}
    BY <1>3, <1>7 DEF MarksSet
  <2> QED
    BY <2>1 DEF OnlyNewRows, UpdatesOf, DeletionsOf
<1> QED
  BY <1>8, <1>9, <1>10, <1>11 DEF StillFits, InsertAdded, q, q1, m, inserted

(* A row came back after the first n, with its saved values.               *)
RowPutBack(p, q, n, saved) ==
  /\ StillFits(p, q, n + 1)
  /\ DataKept(p, q, n)
  /\ saved # NoValues => /\ n + 1 \in DOMAIN q.insertedRowData
                         /\ q.insertedRowData[n + 1] = saved

LEMMA ReinsertLastRow ==
  ASSUME NEW p, Consistent(p), NEW n \in Nat, Len(Base) <= n, NewRowsLast(p, Len(Base), n),
         NEW saved \in Seq(Cells) \cup {NoValues}
  PROVE  RowPutBack(p, ReinsertRow(p, n + 1, saved), n, saved)
<1> DEFINE m == n + 1
           u == ShiftUp(p, m)
           data == IF saved # NoValues THEN Put(u.insertedRowData, m, saved) ELSE u.insertedRowData
           cells == [c \in Columns |->
                       CellChange(Null, IF saved # NoValues /\ c <= Len(saved) THEN saved[c] ELSE Null)]
           c == RowChange(m, "insert", cells, NoValues)
           q == ReinsertRow(p, m, saved)
<1>1. StillFits(p, u, n) /\ DataKept(p, u, n) /\ m \in Nat \ {0}
  BY LastRowShifts
<1> HIDE DEF u
<1>2. u \in Pendings /\ u.insertedRowData \in PartialFunctions(Nat, Seq(Cells))
  <2>1. u \in Pendings
    BY <1>1 DEF StillFits, Consistent, Indexed
  <2> QED
    BY <2>1, PartialFields
<1>3. data \in PartialFunctions(Nat, Seq(Cells))
  BY <1>1, <1>2, DataPut
<1>4. c \in RowChanges /\ c.type = "insert" /\ c.rowIndex = m
  <2>1. ASSUME NEW k \in Columns
        PROVE  CellChange(Null, IF saved # NoValues /\ k <= Len(saved) THEN saved[k] ELSE Null)
                 \in [oldValue : Cells, newValue : Cells]
    <3>1. (IF saved # NoValues /\ k <= Len(saved) THEN saved[k] ELSE Null) \in Cells
      BY DEF Cells, Columns
    <3> QED
      BY <3>1 DEF CellChange, Cells
  <2>2. cells \in [Columns -> [oldValue : Cells, newValue : Cells]]
    BY <2>1
  <2>3. cells \in CellChanges
    BY <2>2 DEF CellChanges
  <2> HIDE DEF cells, m
  <2> QED
    BY <1>1, <2>3 DEF RowChange, RowChanges
<1>5. q = InsertAdded(u, n, c, data)
  <2> HIDE DEF cells
  <2>1. q = AppendChange([u EXCEPT !.insertedRowIndices = @ \cup {m}, !.insertedRowData = data], c)
    BY <1>2 DEF ReinsertRow, Pendings, u, cells
  <2> HIDE DEF c, data
  <2>2. [u EXCEPT !.insertedRowIndices = @ \cup {m}, !.insertedRowData = data]
          = SetMarks(u, u.deletedRowIndices, u.insertedRowIndices \cup {m}, u.modifiedCells, data)
    BY <1>2 DEF SetMarks, Pendings
  <2> QED
    BY <2>1, <2>2 DEF InsertAdded
<1> HIDE DEF c, cells
<1>6. StillFits(u, q, m) /\ q.insertedRowData = data
  <2> HIDE DEF data, q
  <2>1. StillFits(u, InsertAdded(u, n, c, data), n + 1) /\ InsertAdded(u, n, c, data).insertedRowData = data
    BY <1>1, <1>3, <1>4, InsertAddedKeeps DEF StillFits
  <2> QED
    BY <1>5, <2>1
<1> HIDE DEF q
<1>7. StillFits(p, q, m)
  BY <1>1, <1>6 DEF StillFits, OnlyNewRows
<1>8. DataKept(p, q, n)
  BY <1>1, <1>6 DEF DataKept, Put
<1>9. saved # NoValues => m \in DOMAIN q.insertedRowData /\ q.insertedRowData[m] = saved
  BY <1>6 DEF Put
<1> QED
  BY <1>7, <1>8, <1>9 DEF q, RowPutBack

LEMMA UndoLastInsertion ==
  ASSUME NEW p, Consistent(p), NEW n \in Nat, Len(Base) <= n, NewRowsLast(p, Len(Base), n + 1)
  PROVE  LET q == UndoRowInsertion(p, n + 1)
         IN  StillFits(p, q, n) /\ DataKept(p, q, n)
<1> DEFINE m == n + 1
           u == ForgetInsertion(p, m)
           q == UndoRowInsertion(p, m)
<1>1. p.insertedRowIndices = (Len(Base) + 1)..m /\ Len(Base) \in Nat /\ Indexed(p)
  BY BaseLength DEF NewRowsLast, Consistent
<1>2. RowsRecorded(p, u, p.deletedRowIndices, p.insertedRowIndices \ {m}) /\ OnlyNewRows(p, u)
  BY ForgetInsertionKeeps
<1>3. u.insertedRowData = Without(p.insertedRowData, m)
  <2>1. RemoveChange(p, m, "insert") \in Pendings /\ SameMarks(p, RemoveChange(p, m, "insert"))
    BY <1>1, RemoveChangeRemoves DEF ChangeRemoved, Indexed
  <2> QED
    BY <2>1 DEF ForgetInsertion, SameMarks, Pendings
<1>4. m \in p.insertedRowIndices /\ p.insertedRowIndices \ {m} = (Len(Base) + 1)..n
  BY <1>1
<1>5. q = ShiftDown(u, m)
  BY <1>4 DEF UndoRowInsertion
<1> HIDE DEF u, q
<1>6. Consistent(u) /\ NewRowsLast(u, Len(Base), n)
  <2>1. Consistent(u) /\ u.deletedRowIndices = p.deletedRowIndices
    BY <1>2 DEF RowsRecorded
  <2>2. RowsOf(u, "update") \subseteq RowsOf(p, "update") /\ u.insertedRowIndices = (Len(Base) + 1)..n
    BY <1>2, <1>4 DEF RowsRecorded
  <2>3. RowsOf(u, "delete") = RowsOf(p, "delete")
    BY <2>1 DEF Consistent, MarksMatch
  <2> QED
    BY <2>1, <2>2, <2>3 DEF NewRowsLast
<1>7. m \notin DOMAIN u.insertedRowData /\ DataKept(p, u, n)
  BY <1>3 DEF Without, DataKept
<1>8. StillFits(u, q, n) /\ DataKept(u, q, n)
  BY <1>5, <1>6, <1>7, LastRowShifts
<1>9. StillFits(p, q, n) /\ DataKept(p, q, n)
  BY <1>2, <1>7, <1>8 DEF StillFits, OnlyNewRows, DataKept
<1> QED
  BY <1>9 DEF q

LEMMA LastRowLeaves ==
  ASSUME NEW rows, GridInv(rows), Len(Base) < Len(rows)
  PROVE  LET rows2 == RemoveRowAt(rows, Len(rows))
         IN  /\ GridInv(rows2) /\ Len(rows2) = Len(rows) - 1
             /\ \A r \in 1..(Len(rows) - 1) : rows2[r] = rows[r]
<1> DEFINE n == Len(rows)
           front == SubSeq(rows, 1, n - 1)
<1>1. /\ rows \in Seq(Rows) /\ n \in Nat /\ Len(Base) \in Nat /\ n \in DOMAIN rows
      /\ n \in (Len(Base) + 1)..Len(rows)
  BY BaseLength DEF GridInv
<1>2. RemoveRowAt(rows, n) = front \o SubSeq(rows, n + 1, n)
  BY <1>1 DEF RemoveRowAt, RemoveAt
<1>3. front \in Seq(Rows) /\ \A r \in 1..(n - 1) : front[r] = rows[r]
  BY <1>1
<1>4. SubSeq(rows, n + 1, n) = <<>>
  BY <1>1, SubSeqEmpty
<1>5. RemoveRowAt(rows, n) = front
  BY <1>2, <1>3, <1>4, EmptyEnds
<1>6. GridInv(RemoveRowAt(rows, n)) /\ Len(RemoveRowAt(rows, n)) = Len(rows) - 1
  BY <1>1, RemoveRowKeepsGrid
<1> QED
  BY <1>3, <1>5, <1>6

LEMMA LastRowComes ==
  ASSUME NEW rows, GridInv(rows), NEW values \in Seq(Cells)
  PROVE  LET rows2 == InsertRowAt(rows, Len(rows) + 1, values)
         IN  /\ GridInv(rows2) /\ Len(rows2) = Len(rows) + 1
             /\ \A r \in 1..Len(rows) : rows2[r] = rows[r]
             /\ rows2[Len(rows) + 1] = InsertedRow(values)
<1> DEFINE n == Len(rows)
           row == InsertedRow(values)
           rows2 == rows \o <<row>>
<1>1. rows \in Seq(Rows) /\ n \in Nat /\ n + 1 \in 1..(n + 1)
  BY DEF GridInv
<1>2. InsertRowAt(rows, n + 1, values) = rows2
  <2>1. InsertRowAt(rows, n + 1, values) = SubSeq(rows, 1, n) \o <<row>> \o SubSeq(rows, n + 1, n)
    BY <1>1 DEF InsertRowAt, InsertAt
  <2>2. SubSeq(rows, 1, n) = rows
    BY <1>1
  <2>3. SubSeq(rows, n + 1, n) = <<>>
    BY <1>1, SubSeqEmpty
  <2>4. row \in {row} /\ <<row>> \in Seq({row}) /\ rows \in Seq(Rows \cup {row})
    BY <1>1
  <2>5. rows2 \in Seq(Rows \cup {row})
    BY <2>4
  <2> HIDE DEF rows2, row
  <2> QED
    BY <2>1, <2>2, <2>3, <2>5, EmptyEnds DEF rows2
<1>3. row \in Rows /\ row.origin = 0
  <2>1. [c \in Columns |-> IF c <= Len(values) THEN values[c] ELSE Null] \in [Columns -> Cells]
    BY DEF Cells, Columns
  <2> QED
    BY <2>1 DEF InsertedRow, Rows
<1> HIDE DEF row
<1>4. <<row>> \in Seq(Rows) /\ \A k \in DOMAIN <<row>> : <<row>>[k].origin = 0
  BY <1>3
<1>5. GridInv(rows2) /\ Len(rows2) = n + 1
  BY <1>4, AppendKeepsGrid
<1>6. (\A r \in 1..n : rows2[r] = rows[r]) /\ rows2[n + 1] = row
  BY <1>1, <1>3
<1> QED
  BY <1>2, <1>5, <1>6 DEF row

(* The values still match when rows come and go at the end.                *)
LEMMA RowsMoveKeepValues ==
  ASSUME NEW p, NEW q, NEW rows, NEW rows2, NEW n \in Nat, Len(Base) <= n,
         Fits(p, rows), ValuesMatch(p, rows), Consistent(q), GridInv(rows2),
         n <= Len(rows), n <= Len(rows2),
         OnlyNewRows(p, q), DataKept(p, q, n), \A r \in 1..n : rows2[r] = rows[r],
         \A r \in DOMAIN rows2 \ (1..n) :
           r \in DOMAIN q.insertedRowData /\ q.insertedRowData[r] = rows2[r].values
  PROVE  ValuesMatch(q, rows2)
<1>1. /\ DOMAIN rows = 1..Len(rows) /\ DOMAIN rows2 = 1..Len(rows2)
      /\ Len(rows) \in Nat /\ Len(rows2) \in Nat /\ Len(Base) \in Nat
  BY RowsFit DEF Fits
<1>2. Loaded \subseteq 1..n /\ 1..n \subseteq DOMAIN rows
  BY <1>1 DEF Loaded
<1>3. \A c \in UpdatesOf(p) : c.rowIndex \in Loaded
  BY UpdatesFit
<1>4. SoundCells(q)
  BY DEF ValuesMatch, SoundCells, OnlyNewRows
<1>5. ShownCells(q, rows2)
  BY <1>2, <1>3 DEF ValuesMatch, ShownCells, OnlyNewRows
<1>6. StoredValues(q, rows2)
  <2> SUFFICES ASSUME NEW r \in DOMAIN rows2 \ Loaded
               PROVE  r \in DOMAIN q.insertedRowData /\ q.insertedRowData[r] = rows2[r].values
    BY DEF StoredValues
  <2>1. CASE r \in 1..n
    <3>1. r \in DOMAIN rows \ Loaded
      BY <1>2, <2>1
    <3>2. r \in DOMAIN p.insertedRowData /\ p.insertedRowData[r] = rows[r].values
      BY <3>1 DEF ValuesMatch, StoredValues
    <3> QED
      BY <2>1, <3>2 DEF DataKept
  <2>2. CASE r \notin 1..n
    BY <2>2
  <2> QED
    BY <2>1, <2>2
<1>7. KeysFixed => KeysKept(q, rows2) /\ UpdatesKeyed(q)
  BY <1>2 DEF ValuesMatch, KeysKept, UpdatesKeyed, OnlyNewRows
<1>8. Marks => DeletedNotUpdated(q)
  BY SameDeletions DEF ValuesMatch, DeletedNotUpdated, OnlyNewRows, Fits
<1> QED
  BY <1>4, <1>5, <1>6, <1>7, <1>8 DEF ValuesMatch

-------------------------------------------------------------------------------
(***************************************************************************)
(* What an undo action takes from one state of the grid to another.  What  *)
(* the grid shows matters when every change is shown, and what is marked   *)
(* deleted when every mark can be undone; the number of rows always does.  *)
(***************************************************************************)
States ==
  {x \in [rows : Nat, grid : Seq(Rows), deleted : SUBSET Loaded] :
     /\ Len(Base) <= x.rows
     /\ Shows => GridInv(x.grid) /\ Len(x.grid) = x.rows}

StateOf(p, rows) ==
  [rows |-> Len(rows), grid |-> IF Shows THEN rows ELSE <<>>,
   deleted |-> IF Marks THEN p.deletedRowIndices ELSE {}]

(* An action on the undo stack is undone, and registers one that is redone.*)
Back(way) == IF way = "undo" THEN "redo" ELSE "undo"

(* The edit of a cell: x shows the value it was edited to, y the one       *)
(* before.                                                                 *)
EditsCell(a, x, y) ==
  /\ a.kind = "cellEdit"
  /\ a.rowIndex \in 1..x.rows /\ a.columnIndex \in EditColumns
  /\ a.previousValue \in Cells /\ a.newValue \in Cells /\ a.originalRow \in FullRows
  /\ y.rows = x.rows /\ y.deleted = x.deleted
  /\ ~ Shows => y.grid = x.grid
  /\ Shows =>
       /\ a.previousValue # a.newValue
       /\ x.grid[a.rowIndex].values[a.columnIndex] = a.newValue
       /\ y.grid = EditCell(x.grid, a.rowIndex, a.columnIndex, a.previousValue)
       /\ KeysFixed /\ a.rowIndex \in Loaded => SameKey(a.originalRow, a.rowIndex)
  /\ Marks => a.rowIndex \notin x.deleted

(* The insertion of the last row: undo takes it out, redo puts it back     *)
(* with the values that undo saved.                                        *)
Inserts(way, a, x, y) ==
  /\ a.kind = "rowInsertion"
  /\ a.savedValues \in Seq(Cells) \cup {NoValues}
  /\ y.deleted = x.deleted
  /\ ~ Shows => y.grid = x.grid
  /\ way = "undo" =>
       /\ a.rowIndex = x.rows /\ Len(Base) < x.rows /\ y.rows = x.rows - 1
       /\ Shows => /\ y.grid = RemoveRowAt(x.grid, x.rows)
                   /\ a.savedValues \in {NoValues, x.grid[x.rows].values}
  /\ way = "redo" =>
       /\ a.rowIndex = y.rows /\ y.rows = x.rows + 1
       /\ Shows => /\ y.grid = InsertRowAt(x.grid, y.rows, a.savedValues)
                   /\ a.savedValues \in FullRows

(* The deletion of one or two loaded rows, which stay in the grid.         *)
Deletion(a) ==
  /\ a.kind = "rowDeletion"
  /\ \/ \E i : Deletable(i) /\ a.rows = <<i>>
     \/ \E i, j : Deletable(i) /\ Deletable(j) /\ a.rows = <<i, j>>

Named(a) == {a.rows[i].row : i \in DOMAIN a.rows}

Deletes(way, a, x, y) ==
  /\ Deletion(a)
  /\ y.rows = x.rows /\ y.grid = x.grid
  /\ ~ Marks => y.deleted = x.deleted
  /\ Marks /\ way = "undo" => Named(a) \subseteq x.deleted /\ y.deleted = x.deleted \ Named(a)
  /\ Marks /\ way = "redo" => Named(a) \cap x.deleted = {} /\ y.deleted = x.deleted \cup Named(a)

Acts(way, a, x, y) == EditsCell(a, x, y) \/ Inserts(way, a, x, y) \/ Deletes(way, a, x, y)

(* A replay of a that brings the grid to y and registers the way back.     *)
Replayed(way, a, s, t, y) ==
  /\ InStep(t.pending, t.rows)
  /\ StateOf(t.pending, t.rows) = y
  /\ \E b : /\ Acts(Back(way), b, y, StateOf(s.pending, s.rows))
            /\ b.kind = a.kind
            /\ t.registered = Append(s.registered, b)

LEMMA StateNow ==
  ASSUME NEW p, NEW rows, InStep(p, rows)
  PROVE  StateOf(p, rows) \in States
<1>1. GridInv(rows) /\ rows \in Seq(Rows) /\ Len(rows) \in Nat /\ Len(Base) <= Len(rows)
  BY RowsFit DEF InStep, Fits
<1>2. p.deletedRowIndices \subseteq Loaded
  BY DeletedAreLoaded DEF InStep, Fits, Loaded
<1>3. <<>> \in Seq(Rows)
  OBVIOUS
<1> QED
  BY <1>1, <1>2, <1>3 DEF StateOf, States

(* Grids of as many rows are equal when every row shows the same values:   *)
(* where a row is from is said by its position.                            *)
LEMMA GridEqual ==
  ASSUME NEW g, NEW h, GridInv(g), GridInv(h), Len(g) = Len(h),
         \A r \in 1..Len(g) : g[r].values = h[r].values
  PROVE  g = h
<1>1. /\ g \in Seq(Rows) /\ h \in Seq(Rows) /\ DOMAIN g = 1..Len(g) /\ DOMAIN h = 1..Len(g)
      /\ \A r \in 1..Len(g) : g[r] \in Rows /\ h[r] \in Rows
  BY RowsFit
<1>2. \A r \in 1..Len(g) : g[r].origin = h[r].origin
  BY DEF GridInv
<1>3. ASSUME NEW r \in 1..Len(g) PROVE g[r] = h[r]
  <2>1. g[r] \in Rows /\ h[r] \in Rows /\ g[r].values = h[r].values /\ g[r].origin = h[r].origin
    BY <1>1, <1>2
  <2> QED
    BY <2>1 DEF Rows
<1> QED
  BY <1>1, <1>3, SeqEqual

(* The last row of a grid leaves the one it was appended to.               *)
LEMMA TailLeaves ==
  ASSUME NEW g, NEW h, GridInv(g), GridInv(h), Len(h) = Len(g) + 1,
         \A r \in 1..Len(g) : h[r].values = g[r].values
  PROVE  RemoveRowAt(h, Len(h)) = g
<1> DEFINE n == Len(g)
           rest == RemoveRowAt(h, Len(h))
<1>1. n \in Nat /\ Len(Base) \in Nat /\ Len(Base) <= n
  BY RowsFit
<1>2. Len(Base) < Len(h) /\ Len(h) - 1 = n
  BY <1>1
<1>3. GridInv(rest) /\ Len(rest) = n /\ \A r \in 1..n : rest[r] = h[r]
  BY <1>2, LastRowLeaves
<1> HIDE DEF rest
<1> QED
  BY <1>3, GridEqual DEF rest

(* What the replay of an edit does to the grid and the recorded cells.     *)
LEMMA CellEditDoes ==
  ASSUME NEW s, InStep(s.pending, s.rows), NEW y, NEW a,
         EditsCell(a, StateOf(s.pending, s.rows), y)
  PROVE  LET t == UndoCellEdit(s, a)
             row == a.rowIndex
             col == a.columnIndex
         IN  /\ row \in DOMAIN s.rows
             /\ t.rows = EditCell(s.rows, row, col, a.previousValue)
             /\ t.registered = Append(s.registered,
                                      CellEdit(row, col, a.newValue, a.previousValue, a.originalRow))
             /\ Fits(t.pending, t.rows)
             /\ Editable(s.pending, row, a.originalRow) \/ ~ Shows
             /\ Shows => CellReplayed(s.pending, t.pending, s.rows, t.rows, row, col, a.newValue,
                                      a.previousValue, a.originalRow)
<1> DEFINE t == UndoCellEdit(s, a)
           p == s.pending
           q == t.pending
           rows == s.rows
           row == a.rowIndex
           col == a.columnIndex
           old == a.newValue
           new == a.previousValue
           original == a.originalRow
<1>1. Fits(p, rows) /\ row \in DOMAIN rows
  BY RowsFit DEF InStep, Fits, EditsCell, StateOf
<1>2. /\ col \in EditColumns /\ col \in Columns /\ old \in Cells /\ new \in Cells
      /\ original \in FullRows /\ (Shows => old # new)
  BY EditAssumption DEF EditsCell
<1>3. /\ t.rows = EditCell(rows, row, col, new)
      /\ t.registered = Append(s.registered, CellEdit(row, col, old, new, original))
  BY DEF UndoCellEdit
<1>4. EditBack(p, q, row, col, old, new, original)
  BY <1>1, UndoCellEditRecords
<1>5. Shows => Editable(p, row, original)
  BY DEF EditsCell, StateOf, Editable, Marks
<1> HIDE DEF t, p, q, rows, row, col, old, new, original
<1>6. /\ Fits(q, EditCell(rows, row, col, new))
      /\ old # new => CellReplayed(p, q, rows, EditCell(rows, row, col, new), row, col, old, new,
                                   original)
  BY <1>1, <1>2, <1>4, EditBackDoes
<1> QED
  BY <1>1, <1>2, <1>3, <1>5, <1>6 DEF t, p, q, rows, row, col, old, new, original

LEMMA CellEditReplayed ==
  ASSUME NEW s, InStep(s.pending, s.rows), NEW y \in States, NEW way \in {"undo", "redo"}, NEW a,
         EditsCell(a, StateOf(s.pending, s.rows), y)
  PROVE  Replayed(way, a, s, UndoCellEdit(s, a), y)
<1> DEFINE t == UndoCellEdit(s, a)
           row == a.rowIndex
           col == a.columnIndex
           b == CellEdit(row, col, a.newValue, a.previousValue, a.originalRow)
           x == StateOf(s.pending, s.rows)
<1>1. /\ row \in DOMAIN s.rows
      /\ t.rows = EditCell(s.rows, row, col, a.previousValue)
      /\ t.registered = Append(s.registered, b)
      /\ Fits(t.pending, t.rows)
      /\ Editable(s.pending, row, a.originalRow) \/ ~ Shows
      /\ Shows => CellReplayed(s.pending, t.pending, s.rows, t.rows, row, col, a.newValue,
                               a.previousValue, a.originalRow)
  BY CellEditDoes
<1>2. /\ col \in EditColumns /\ col \in Columns /\ a.newValue \in Cells /\ a.previousValue \in Cells
      /\ a.originalRow \in FullRows
  BY EditAssumption DEF EditsCell
<1>3. /\ Fits(s.pending, s.rows) /\ GridInv(s.rows) /\ GridInv(t.rows)
      /\ Consistent(s.pending) /\ Consistent(t.pending) /\ x \in States
  BY <1>1, StateNow DEF InStep, Fits
<1> HIDE DEF t
<1>4. InStep(t.pending, t.rows)
  <2>1. ASSUME Shows PROVE ValuesMatch(t.pending, t.rows)
    BY <1>1, <1>2, <1>3, <2>1, ReplayedKeepsValues DEF InStep
  <2> QED
    BY <1>1, <2>1 DEF InStep
<1>5. Len(t.rows) = Len(s.rows) /\ RowEdited(s.rows, t.rows, row, col, a.previousValue)
  BY <1>1, <1>2, <1>3, EditCellKeepsGrid, EditCellEdits
<1>6. Marks => t.pending.deletedRowIndices = s.pending.deletedRowIndices
  <2>1. Shows => DeletionsOf(t.pending) = DeletionsOf(s.pending)
    BY <1>1 DEF CellReplayed, EditRecorded, UpdateBecomes, NewRowEdited, OnlyNewRows
  <2> QED
    BY <1>3, <2>1, SameDeletions DEF Marks
<1>7. StateOf(t.pending, t.rows) = y
  <2>1. y.rows = Len(t.rows)
    BY <1>5 DEF EditsCell, StateOf
  <2>2. y.grid = IF Shows THEN t.rows ELSE <<>>
    BY <1>1 DEF EditsCell, StateOf
  <2>3. y.deleted = IF Marks THEN t.pending.deletedRowIndices ELSE {}
    BY <1>6 DEF EditsCell, StateOf
  <2> QED
    BY <2>1, <2>2, <2>3 DEF StateOf, States
<1>8. ASSUME Shows
      PROVE  /\ x.grid = s.rows /\ y.grid = t.rows
             /\ s.rows = EditCell(t.rows, row, col, a.newValue)
             /\ t.rows[row].values[col] = a.previousValue
  <2> DEFINE back == EditCell(t.rows, row, col, a.newValue)
             v == s.rows[row].values
  <2>1. row \in DOMAIN t.rows /\ x.grid = s.rows /\ y.grid = t.rows /\ v[col] = a.newValue
    BY <1>3, <1>5, <1>7, <1>8 DEF EditsCell, StateOf, RowEdited
  <2>2. GridInv(back) /\ Len(back) = Len(s.rows) /\ RowEdited(t.rows, back, row, col, a.newValue)
    BY <1>2, <1>3, <1>5, <2>1, EditCellKeepsGrid, EditCellEdits
  <2>3. v \in FullRows /\ DOMAIN s.rows = 1..Len(s.rows)
    BY <1>1, <1>3, RowsFit
  <2> HIDE DEF back, v
  <2>4. t.rows[row].values = [v EXCEPT ![col] = a.previousValue]
    BY <1>5 DEF RowEdited, v
  <2>5. back[row].values = [t.rows[row].values EXCEPT ![col] = a.newValue]
    BY <2>2 DEF RowEdited
  <2>6. back[row].values = v /\ t.rows[row].values[col] = a.previousValue
    BY <1>2, <2>1, <2>3, <2>4, <2>5 DEF FullRows
  <2>7. \A r \in 1..Len(s.rows) : s.rows[r].values = back[r].values
    BY <1>5, <2>2, <2>3, <2>6 DEF RowEdited, v
  <2>8. s.rows = back
    BY <1>3, <2>2, <2>7, GridEqual
  <2> QED
    BY <2>1, <2>6, <2>8 DEF back
<1>9. EditsCell(b, y, x)
  <2>1. /\ b.kind = "cellEdit" /\ b.rowIndex = row /\ b.columnIndex = col
        /\ b.previousValue = a.newValue /\ b.newValue = a.previousValue /\ b.originalRow = a.originalRow
    BY DEF CellEdit
  <2>2. /\ y.rows = x.rows /\ row \in 1..y.rows /\ y.deleted = x.deleted
        /\ ~ Shows => y.grid = x.grid
        /\ Shows => a.newValue # a.previousValue
        /\ Shows => (KeysFixed /\ row \in Loaded => SameKey(a.originalRow, row))
        /\ Marks => row \notin y.deleted
    BY DEF EditsCell
  <2> HIDE DEF b, x
  <2> QED
    BY <1>2, <1>8, <2>1, <2>2 DEF EditsCell
<1>10. Acts(Back(way), b, y, x) /\ b.kind = a.kind
  BY <1>9 DEF Acts, EditsCell
<1> QED
  BY <1>1, <1>4, <1>7, <1>10 DEF Replayed, x, t

(* The pending changes after the values the closure captured, if any, went *)
(* back into them.                                                         *)
Restored(s, a) ==
  IF a.savedValues = NoValues THEN s.pending
  ELSE RestoreInsertedValues(s.pending, a.rowIndex, a.savedValues)

(* The values of the row at the moment of the replay.                      *)
SavedNow(s, a) ==
  LET p == Restored(s, a)
  IN  IF a.rowIndex \in DOMAIN p.insertedRowData THEN p.insertedRowData[a.rowIndex] ELSE NoValues

LEMMA RestoredKeeps ==
  ASSUME NEW s, Fits(s.pending, s.rows), NEW a, a.rowIndex \in Nat,
         a.savedValues \in Seq(Cells) \cup {NoValues}, NEW n \in Nat, n < a.rowIndex
  PROVE  /\ StillFits(s.pending, Restored(s, a), Len(s.rows))
         /\ DataKept(s.pending, Restored(s, a), n)
         /\ SavedNow(s, a) \in Seq(Cells) \cup {NoValues}
         /\ a.savedValues # NoValues => SavedNow(s, a) = a.savedValues
         /\ a.savedValues = NoValues /\ a.rowIndex \in DOMAIN s.pending.insertedRowData =>
              SavedNow(s, a) = s.pending.insertedRowData[a.rowIndex]
<1> DEFINE p == s.pending
           q == Restored(s, a)
           row == a.rowIndex
<1>1. Consistent(p) /\ NewRowsLast(p, Len(Base), Len(s.rows)) /\ p \in Pendings
  BY DEF Fits, Consistent, Indexed
<1>2. p.insertedRowData \in PartialFunctions(Nat, Seq(Cells))
  BY <1>1, PartialFields
<1>3. CASE a.savedValues = NoValues
  <2>1. q = p
    BY <1>3 DEF Restored
  <2>2. StillFits(p, q, Len(s.rows)) /\ DataKept(p, q, n)
    BY <1>1, <2>1 DEF StillFits, OnlyNewRows, DataKept
  <2>3. SavedNow(s, a) = IF row \in DOMAIN p.insertedRowData THEN p.insertedRowData[row] ELSE NoValues
    BY <2>1 DEF SavedNow
  <2>4. \A r \in DOMAIN p.insertedRowData : p.insertedRowData[r] \in Seq(Cells)
    BY <1>2 DEF PartialFunctions
  <2> QED
    BY <1>3, <2>2, <2>3, <2>4
<1>4. CASE a.savedValues # NoValues
  <2> DEFINE data == Put(p.insertedRowData, row, a.savedValues)
  <2>1. data \in PartialFunctions(Nat, Seq(Cells))
    BY <1>2, <1>4, DataPut
  <2>2. q = DataSet(p, data)
    BY <1>1, <1>4 DEF Restored, RestoreInsertedValues, DataSet, SetMarks, Pendings
  <2>3. StillFits(p, q, Len(s.rows)) /\ q.insertedRowData = data
    BY <1>1, <2>1, <2>2, DataSetKeeps
  <2>4. DataKept(p, q, n)
    BY <2>3 DEF DataKept, Put
  <2>5. SavedNow(s, a) = a.savedValues
    BY <2>3 DEF SavedNow, Put
  <2> QED
    BY <1>4, <2>3, <2>4, <2>5
<1> QED
  BY <1>3, <1>4

LEMMA InsertionTakenOut ==
  ASSUME NEW s, InStep(s.pending, s.rows), NEW y \in States, NEW a,
         Inserts("undo", a, StateOf(s.pending, s.rows), y)
  PROVE  /\ Replayed("undo", a, s, UndoRowInsertionAction(s, a), y)
         /\ UpdatesOf(UndoRowInsertionAction(s, a).pending) = UpdatesOf(s.pending)
<1> DEFINE t == UndoRowInsertionAction(s, a)
           x == StateOf(s.pending, s.rows)
           m == Len(s.rows)
           n == m - 1
           p == Restored(s, a)
           saved == SavedNow(s, a)
           b == RowInsertion(m, saved)
<1>1. /\ Fits(s.pending, s.rows) /\ GridInv(s.rows) /\ m \in Nat /\ n \in Nat /\ n + 1 = m
      /\ Len(Base) \in Nat /\ Len(Base) <= n /\ Len(Base) < m /\ DOMAIN s.rows = 1..m
      /\ a.savedValues \in Seq(Cells) \cup {NoValues} /\ a.rowIndex = m
      /\ Consistent(s.pending) /\ x \in States
  <2>1. Fits(s.pending, s.rows) /\ GridInv(s.rows) /\ Consistent(s.pending) /\ x \in States
    BY StateNow DEF InStep, Fits
  <2>2. m \in Nat /\ Len(Base) \in Nat /\ DOMAIN s.rows = 1..m
    BY <2>1, RowsFit
  <2>3. x.rows = m
    BY DEF StateOf
  <2>4. a.rowIndex = m /\ Len(Base) < m /\ a.savedValues \in Seq(Cells) \cup {NoValues}
    BY <2>3 DEF Inserts
  <2> HIDE DEF x
  <2> QED
    BY <2>1, <2>2, <2>4
<1>2. /\ StillFits(s.pending, p, m) /\ DataKept(s.pending, p, n)
      /\ saved \in Seq(Cells) \cup {NoValues}
      /\ a.savedValues # NoValues => saved = a.savedValues
      /\ a.savedValues = NoValues /\ m \in DOMAIN s.pending.insertedRowData =>
           saved = s.pending.insertedRowData[m]
  <2>1. a.rowIndex \in Nat /\ n < a.rowIndex
    BY <1>1
  <2> HIDE DEF n
  <2> QED
    BY <1>1, <2>1, RestoredKeeps
<1>3. m \in p.insertedRowIndices
  BY <1>1, <1>2 DEF StillFits, NewRowsLast
<1>4. /\ t.rows = RemoveRowAt(s.rows, m)
      /\ t.pending = UndoRowInsertion(p, m)
      /\ t.registered = Append(s.registered, b)
  BY <1>1, <1>3 DEF UndoRowInsertionAction, Restored, SavedNow
<1> HIDE DEF t, p, saved
<1>5. StillFits(p, t.pending, n) /\ DataKept(p, t.pending, n)
  <2>1. Consistent(p) /\ NewRowsLast(p, Len(Base), n + 1)
    BY <1>1, <1>2 DEF StillFits
  <2>2. t.pending = UndoRowInsertion(p, n + 1)
    BY <1>1, <1>4
  <2> HIDE DEF n
  <2> QED
    BY <1>1, <2>1, <2>2, UndoLastInsertion
<1>6. StillFits(s.pending, t.pending, n) /\ DataKept(s.pending, t.pending, n)
  BY <1>2, <1>5 DEF StillFits, OnlyNewRows, DataKept
<1>7. GridInv(t.rows) /\ Len(t.rows) = n /\ \A r \in 1..n : t.rows[r] = s.rows[r]
  <2> DEFINE left == RemoveRowAt(s.rows, Len(s.rows))
  <2>1. GridInv(left) /\ Len(left) = n /\ \A r \in 1..n : left[r] = s.rows[r]
    BY <1>1, LastRowLeaves
  <2>2. t.rows = left
    BY <1>4
  <2> HIDE DEF left, n
  <2> QED
    BY <2>1, <2>2
<1> HIDE DEF m, n, x
<1>8. Fits(t.pending, t.rows) /\ Consistent(t.pending) /\ UpdatesOf(t.pending) = UpdatesOf(s.pending)
  BY <1>6, <1>7 DEF StillFits, Fits, OnlyNewRows
<1>9. ASSUME Shows PROVE ValuesMatch(t.pending, t.rows)
  <2>1. ValuesMatch(s.pending, s.rows) /\ OnlyNewRows(s.pending, t.pending)
    BY <1>6, <1>9 DEF InStep, StillFits
  <2>2. DOMAIN t.rows \ (1..n) = {}
    BY <1>7, RowsFit
  <2>3. n <= Len(s.rows) /\ n <= Len(t.rows)
    BY <1>1, <1>7 DEF m
  <2> QED
    BY <1>1, <1>6, <1>7, <1>8, <2>1, <2>2, <2>3, RowsMoveKeepValues
<1>10. StateOf(t.pending, t.rows) = y
  <2>1. t.pending.deletedRowIndices = s.pending.deletedRowIndices
    BY <1>1, <1>6, <1>8, SameDeletions DEF StillFits, OnlyNewRows
  <2>2. y.rows = Len(t.rows)
    BY <1>7 DEF Inserts, StateOf, n, m
  <2>3. y.grid = IF Shows THEN t.rows ELSE <<>>
    BY <1>4 DEF Inserts, StateOf, m
  <2>4. y.deleted = IF Marks THEN t.pending.deletedRowIndices ELSE {}
    BY <2>1 DEF Inserts, StateOf
  <2> QED
    BY <2>2, <2>3, <2>4 DEF StateOf, States
<1>11. ASSUME Shows
       PROVE  saved = s.rows[m].values /\ saved \in FullRows /\ saved \in Seq(Cells)
  <2>1. m \in DOMAIN s.rows \ Loaded
    BY <1>1 DEF Loaded
  <2>2. saved = s.rows[m].values
    <3>1. CASE a.savedValues # NoValues
      BY <1>2, <1>11, <3>1 DEF Inserts, StateOf, m
    <3>2. CASE a.savedValues = NoValues
      BY <1>2, <1>11, <2>1, <3>2 DEF InStep, ValuesMatch, StoredValues
    <3> QED
      BY <3>1, <3>2
  <2>3. saved \in FullRows
    BY <1>1, <2>1, <2>2, RowsFit
  <2> QED
    BY <2>2, <2>3, NewRow DEF FullRows
<1>12. Inserts("redo", b, y, x)
  <2>1. b.kind = "rowInsertion" /\ b.rowIndex = m /\ b.savedValues = saved
    BY DEF RowInsertion
  <2>2. x.rows = m /\ m = y.rows + 1 /\ x.deleted = y.deleted /\ (~ Shows => x.grid = y.grid)
    BY <1>1, <1>7, <1>10 DEF Inserts, StateOf, m, n, x
  <2>3. ASSUME Shows
        PROVE  x.grid = InsertRowAt(y.grid, m, saved)
    <3> DEFINE rows2 == InsertRowAt(t.rows, n + 1, saved)
    <3>1. x.grid = s.rows /\ y.grid = t.rows
      BY <1>10, <2>3 DEF StateOf, x
    <3>2. /\ GridInv(rows2) /\ Len(rows2) = n + 1 /\ \A r \in 1..n : rows2[r] = t.rows[r]
          /\ rows2[n + 1] = InsertedRow(saved)
      BY <1>7, <1>11, <2>3, LastRowComes
    <3>3. InsertedRow(saved).values = saved
      BY <1>11, <2>3, NewRowValues DEF FullRows
    <3> HIDE DEF rows2
    <3>4. \A r \in 1..Len(s.rows) : s.rows[r].values = rows2[r].values
      BY <1>1, <1>7, <1>11, <2>3, <3>2, <3>3 DEF m
    <3>5. s.rows = rows2
      BY <1>1, <3>2, <3>4, GridEqual DEF m
    <3> QED
      BY <1>1, <3>1, <3>5 DEF rows2
  <2> HIDE DEF b
  <2> QED
    BY <1>2, <1>11, <2>1, <2>2, <2>3 DEF Inserts
<1>13. Acts(Back("undo"), b, y, x) /\ b.kind = a.kind
  BY <1>12 DEF Acts, Back, Inserts
<1> QED
  BY <1>4, <1>8, <1>9, <1>10, <1>13 DEF Replayed, InStep, t, x

LEMMA InsertionPutBack ==
  ASSUME NEW s, InStep(s.pending, s.rows), NEW y \in States, NEW a,
         Inserts("redo", a, StateOf(s.pending, s.rows), y)
  PROVE  /\ Replayed("redo", a, s, UndoRowInsertionAction(s, a), y)
         /\ UpdatesOf(UndoRowInsertionAction(s, a).pending) = UpdatesOf(s.pending)
<1> DEFINE t == UndoRowInsertionAction(s, a)
           x == StateOf(s.pending, s.rows)
           n == Len(s.rows)
           m == n + 1
           p == Restored(s, a)
           saved == SavedNow(s, a)
           values == IF saved = NoValues THEN <<>> ELSE saved
           b == RowInsertion(m, saved)
<1>1. /\ Fits(s.pending, s.rows) /\ GridInv(s.rows) /\ n \in Nat /\ m \in Nat
      /\ Len(Base) \in Nat /\ Len(Base) <= n /\ DOMAIN s.rows = 1..n
      /\ a.savedValues \in Seq(Cells) \cup {NoValues} /\ a.rowIndex = m /\ y.rows = m
      /\ Consistent(s.pending) /\ x \in States
  <2>1. Fits(s.pending, s.rows) /\ GridInv(s.rows) /\ Consistent(s.pending) /\ x \in States
    BY StateNow DEF InStep, Fits
  <2>2. /\ n \in Nat /\ m \in Nat /\ Len(Base) \in Nat /\ Len(Base) <= n
        /\ DOMAIN s.rows = 1..n
    BY <2>1, RowsFit
  <2>3. x.rows = n
    BY DEF StateOf
  <2>4. a.rowIndex = y.rows /\ y.rows = m /\ a.savedValues \in Seq(Cells) \cup {NoValues}
    BY <2>3 DEF Inserts
  <2> HIDE DEF x
  <2> QED
    BY <2>1, <2>2, <2>4
<1>2. /\ StillFits(s.pending, p, n) /\ DataKept(s.pending, p, n)
      /\ saved \in Seq(Cells) \cup {NoValues}
      /\ a.savedValues # NoValues => saved = a.savedValues
  BY <1>1, RestoredKeeps
<1>3. m \notin p.insertedRowIndices
  BY <1>1, <1>2 DEF StillFits, NewRowsLast
<1>4. /\ t.rows = InsertRowAt(s.rows, m, values)
      /\ t.pending = ReinsertRow(p, m, saved)
      /\ t.registered = Append(s.registered, b)
  BY <1>1, <1>3 DEF UndoRowInsertionAction, Restored, SavedNow
<1>5. values \in Seq(Cells)
  BY <1>2
<1> HIDE DEF t, p, saved, values
<1>6. /\ StillFits(p, t.pending, m) /\ DataKept(p, t.pending, n)
      /\ saved # NoValues => /\ m \in DOMAIN t.pending.insertedRowData
                             /\ t.pending.insertedRowData[m] = saved
  <2>1. Consistent(p) /\ NewRowsLast(p, Len(Base), n)
    BY <1>2 DEF StillFits
  <2>2. t.pending = ReinsertRow(p, n + 1, saved)
    BY <1>4
  <2> HIDE DEF n
  <2> QED
    <3>1. RowPutBack(p, ReinsertRow(p, n + 1, saved), n, saved)
      BY <1>1, <1>2, <2>1, ReinsertLastRow
    <3>2. RowPutBack(p, t.pending, n, saved)
      BY <2>2, <3>1
    <3> QED
      BY <3>2 DEF RowPutBack
<1>7. StillFits(s.pending, t.pending, m) /\ DataKept(s.pending, t.pending, n)
  BY <1>2, <1>6 DEF StillFits, OnlyNewRows, DataKept
<1>8. /\ GridInv(t.rows) /\ Len(t.rows) = m /\ \A r \in 1..n : t.rows[r] = s.rows[r]
      /\ t.rows[m] = InsertedRow(values)
  BY <1>1, <1>4, <1>5, LastRowComes
<1>9. Fits(t.pending, t.rows) /\ Consistent(t.pending) /\ UpdatesOf(t.pending) = UpdatesOf(s.pending)
  BY <1>7, <1>8 DEF StillFits, Fits, OnlyNewRows
<1> HIDE DEF x
<1>10. ASSUME Shows
       PROVE  /\ saved = a.savedValues /\ saved # NoValues /\ values = saved
              /\ t.rows[m].values = saved
  <2>1. a.savedValues \in FullRows
    BY <1>10 DEF Inserts
  <2>2. a.savedValues \in Seq(Cells) /\ InsertedRow(a.savedValues).values = a.savedValues
    BY <2>1, NewRow, NewRowValues DEF FullRows
  <2>3. saved = a.savedValues /\ saved # NoValues
    BY <1>2, <2>2, NoValuesAssumption
  <2> QED
    BY <1>8, <2>2, <2>3 DEF values
<1>11. ASSUME Shows PROVE ValuesMatch(t.pending, t.rows)
  <2>1. ValuesMatch(s.pending, s.rows) /\ OnlyNewRows(s.pending, t.pending)
    BY <1>7, <1>11 DEF InStep, StillFits
  <2>2. \A r \in DOMAIN t.rows \ (1..n) : r = m
    BY <1>1, <1>8, RowsFit
  <2>3. \A r \in DOMAIN t.rows \ (1..n) :
          r \in DOMAIN t.pending.insertedRowData /\ t.pending.insertedRowData[r] = t.rows[r].values
    BY <1>6, <1>10, <1>11, <2>2
  <2>4. n <= Len(s.rows) /\ n <= Len(t.rows)
    BY <1>1, <1>8
  <2> HIDE DEF n, m
  <2> QED
    BY <1>1, <1>7, <1>8, <1>9, <2>1, <2>3, <2>4, RowsMoveKeepValues
<1>12. StateOf(t.pending, t.rows) = y
  <2>1. t.pending.deletedRowIndices = s.pending.deletedRowIndices
    BY <1>1, <1>7, <1>9, SameDeletions DEF StillFits, OnlyNewRows
  <2>2. y.rows = Len(t.rows)
    BY <1>1, <1>8
  <2>3. y.grid = IF Shows THEN t.rows ELSE <<>>
    BY <1>1, <1>4, <1>10 DEF Inserts, StateOf
  <2>4. y.deleted = IF Marks THEN t.pending.deletedRowIndices ELSE {}
    BY <2>1 DEF Inserts, StateOf
  <2> QED
    BY <2>2, <2>3, <2>4 DEF StateOf, States
<1>13. Inserts("undo", b, y, x)
  <2>1. b.kind = "rowInsertion" /\ b.rowIndex = m /\ b.savedValues = saved
    BY DEF RowInsertion
  <2>2. /\ x.rows = n /\ x.deleted = y.deleted /\ (~ Shows => x.grid = y.grid)
        /\ Len(Base) < y.rows /\ n = y.rows - 1 /\ y.rows = m
    BY <1>1 DEF Inserts, StateOf, x
  <2>3. ASSUME Shows
        PROVE  x.grid = RemoveRowAt(y.grid, m) /\ y.grid[m].values = saved
    <3> DEFINE rows2 == RemoveRowAt(t.rows, m)
    <3>1. x.grid = s.rows /\ y.grid = t.rows
      BY <1>12, <2>3 DEF StateOf, x
    <3>2. Len(t.rows) = n + 1 /\ \A r \in 1..Len(s.rows) : t.rows[r].values = s.rows[r].values
      BY <1>1, <1>8
    <3>3. RemoveRowAt(t.rows, Len(t.rows)) = s.rows
      BY <1>1, <1>8, <3>2, TailLeaves
    <3>4. s.rows = rows2
      BY <3>2, <3>3
    <3> HIDE DEF rows2
    <3> QED
      BY <1>10, <2>3, <3>1, <3>4 DEF rows2
  <2> HIDE DEF b, n, m
  <2> QED
    BY <1>2, <2>1, <2>2, <2>3 DEF Inserts
<1>14. Acts(Back("redo"), b, y, x) /\ b.kind = a.kind
  BY <1>13 DEF Acts, Back, Inserts
<1> QED
  BY <1>4, <1>9, <1>11, <1>12, <1>14 DEF Replayed, InStep, t, x

(* Rows unmarked, or marked again, one after the other.                    *)
DeletionTakenBack(p, i) == UndoRowDeletion(p, i.row)

DeletedAgain(p, i) == RecordRowDeletion(p, i.row, i.original)

LEMMA DeletionDoes ==
  ASSUME NEW a, Deletion(a), NEW p, NEW rows, InStep(p, rows)
  PROVE  /\ LET q == ForEach(DeletionTakenBack, p, Reversed(a.rows))
            IN  /\ InStep(q, rows) /\ q.deletedRowIndices = p.deletedRowIndices \ Named(a)
                /\ UpdatesOf(q) = UpdatesOf(p)
         /\ LET q == ForEach(DeletedAgain, p, a.rows)
            IN  /\ InStep(q, rows) /\ q.deletedRowIndices = p.deletedRowIndices \cup Named(a)
                /\ Named(a) \cap RowsOf(p, "update") = {} => UpdatesOf(q) = UpdatesOf(p)
<1>1. \A q, i : InStep(q, rows) => /\ InStep(DeletionTakenBack(q, i), rows)
                                   /\ DeletionTakenBack(q, i).deletedRowIndices = q.deletedRowIndices \ {i.row}
                                   /\ UpdatesOf(DeletionTakenBack(q, i)) = UpdatesOf(q)
  BY RestoreKeepsStep DEF DeletionTakenBack
<1>2. \A q, i : InStep(q, rows) /\ Deletable(i) =>
                  /\ InStep(DeletedAgain(q, i), rows)
                  /\ DeletedAgain(q, i).deletedRowIndices = q.deletedRowIndices \cup {i.row}
                  /\ i.row \notin RowsOf(q, "update") => UpdatesOf(DeletedAgain(q, i)) = UpdatesOf(q)
  BY RedeleteKeepsStep DEF DeletedAgain
<1>3. CASE \E i : Deletable(i) /\ a.rows = <<i>>
  <2>1. PICK i : Deletable(i) /\ a.rows = <<i>>
    BY <1>3
  <2>2. Reversed(a.rows) = <<i>> /\ Named(a) = {i.row}
    BY <2>1 DEF Reversed, Named
  <2>3. /\ ForEach(DeletionTakenBack, p, <<i>>) = DeletionTakenBack(p, i)
        /\ ForEach(DeletedAgain, p, <<i>>) = DeletedAgain(p, i)
    BY DEF ForEach
  <2>4. /\ ForEach(DeletionTakenBack, p, Reversed(a.rows)) = DeletionTakenBack(p, i)
        /\ ForEach(DeletedAgain, p, a.rows) = DeletedAgain(p, i)
    BY <2>1, <2>2, <2>3
  <2>5. /\ InStep(DeletionTakenBack(p, i), rows)
        /\ DeletionTakenBack(p, i).deletedRowIndices = p.deletedRowIndices \ Named(a)
        /\ UpdatesOf(DeletionTakenBack(p, i)) = UpdatesOf(p)
    BY <1>1, <2>2
  <2>6. /\ InStep(DeletedAgain(p, i), rows)
        /\ DeletedAgain(p, i).deletedRowIndices = p.deletedRowIndices \cup Named(a)
        /\ Named(a) \cap RowsOf(p, "update") = {} => UpdatesOf(DeletedAgain(p, i)) = UpdatesOf(p)
    BY <1>2, <2>1, <2>2
  <2> QED
    BY <2>4, <2>5, <2>6
<1>4. CASE \E i, j : Deletable(i) /\ Deletable(j) /\ a.rows = <<i, j>>
  <2>1. PICK i, j : Deletable(i) /\ Deletable(j) /\ a.rows = <<i, j>>
    BY <1>4
  <2>2. Reversed(a.rows) = <<j, i>> /\ Named(a) = {i.row, j.row}
    BY <2>1 DEF Reversed, Named
  <2> DEFINE u == DeletionTakenBack(p, j)
             v == DeletedAgain(p, i)
  <2>3. /\ ForEach(DeletionTakenBack, p, <<j, i>>) = DeletionTakenBack(u, i)
        /\ ForEach(DeletedAgain, p, <<i, j>>) = DeletedAgain(v, j)
    BY DEF ForEach
  <2>4. /\ ForEach(DeletionTakenBack, p, Reversed(a.rows)) = DeletionTakenBack(u, i)
        /\ ForEach(DeletedAgain, p, a.rows) = DeletedAgain(v, j)
    BY <2>1, <2>2, <2>3
  <2>5. /\ InStep(u, rows) /\ u.deletedRowIndices = p.deletedRowIndices \ {j.row}
        /\ UpdatesOf(u) = UpdatesOf(p)
    BY <1>1
  <2>6. /\ InStep(v, rows) /\ v.deletedRowIndices = p.deletedRowIndices \cup {i.row}
        /\ i.row \notin RowsOf(p, "update") => UpdatesOf(v) = UpdatesOf(p)
    BY <1>2, <2>1
  <2>7. UpdatesOf(v) = UpdatesOf(p) => RowsOf(v, "update") = RowsOf(p, "update")
    BY DEF RowsOf, UpdatesOf
  <2> HIDE DEF u, v
  <2>8. /\ InStep(DeletionTakenBack(u, i), rows)
        /\ DeletionTakenBack(u, i).deletedRowIndices = p.deletedRowIndices \ Named(a)
        /\ UpdatesOf(DeletionTakenBack(u, i)) = UpdatesOf(p)
    BY <1>1, <2>2, <2>5
  <2>9. /\ InStep(DeletedAgain(v, j), rows)
        /\ DeletedAgain(v, j).deletedRowIndices = p.deletedRowIndices \cup Named(a)
        /\ Named(a) \cap RowsOf(p, "update") = {} => UpdatesOf(DeletedAgain(v, j)) = UpdatesOf(p)
    BY <1>2, <2>1, <2>2, <2>6, <2>7
  <2> QED
    BY <2>4, <2>8, <2>9
<1> QED
  BY <1>3, <1>4 DEF Deletion

LEMMA DeletionReplayed ==
  ASSUME NEW s, InStep(s.pending, s.rows), NEW y \in States, NEW way \in {"undo", "redo"}, NEW a,
         Deletes(way, a, StateOf(s.pending, s.rows), y)
  PROVE  LET t == UndoRowDeletionAction(s, a)
         IN  /\ Replayed(way, a, s, t, y)
             /\ t.registered = Append(s.registered, a)
             /\ Marks /\ (way = "redo" => Named(a) \cap RowsOf(s.pending, "update") = {}) =>
                  UpdatesOf(t.pending) = UpdatesOf(s.pending)
<1> DEFINE t == UndoRowDeletionAction(s, a)
           x == StateOf(s.pending, s.rows)
           marked == s.pending.deletedRowIndices
           undoing == \E i \in DOMAIN a.rows : a.rows[i].row \in marked
           unmarked == ForEach(DeletionTakenBack, s.pending, Reversed(a.rows))
           remarked == ForEach(DeletedAgain, s.pending, a.rows)
<1>1. t.rows = s.rows /\ t.registered = Append(s.registered, a)
  BY DEF UndoRowDeletionAction
<1>2. t.pending = IF undoing THEN unmarked ELSE remarked
  BY DEF UndoRowDeletionAction, DeletionTakenBack, DeletedAgain
<1>3. /\ InStep(unmarked, s.rows) /\ unmarked.deletedRowIndices = marked \ Named(a)
      /\ UpdatesOf(unmarked) = UpdatesOf(s.pending)
      /\ InStep(remarked, s.rows) /\ remarked.deletedRowIndices = marked \cup Named(a)
      /\ Named(a) \cap RowsOf(s.pending, "update") = {} => UpdatesOf(remarked) = UpdatesOf(s.pending)
  BY DeletionDoes DEF Deletes
<1>4. undoing <=> Named(a) \cap marked # {}
  BY DEF Named
<1>5. Named(a) # {}
  BY DEF Deletes, Deletion, Named
<1> HIDE DEF t, undoing, unmarked, remarked
<1>6. InStep(t.pending, t.rows)
  BY <1>1, <1>2, <1>3
<1>7. ASSUME Marks
      PROVE  /\ t.pending.deletedRowIndices = y.deleted
             /\ way = "undo" => /\ t.pending = unmarked
                                /\ Named(a) \cap y.deleted = {} /\ x.deleted = y.deleted \cup Named(a)
             /\ way = "redo" => /\ t.pending = remarked
                                /\ Named(a) \subseteq y.deleted /\ x.deleted = y.deleted \ Named(a)
  <2>1. x.deleted = marked
    BY <1>7 DEF StateOf
  <2> HIDE DEF x, marked
  <2>2. CASE way = "undo"
    BY <1>2, <1>3, <1>4, <1>5, <1>7, <2>1, <2>2 DEF Deletes, x
  <2>3. CASE way = "redo"
    BY <1>2, <1>3, <1>4, <1>5, <1>7, <2>1, <2>3 DEF Deletes, x
  <2> QED
    BY <2>2, <2>3
<1>8. StateOf(t.pending, t.rows) = y
  <2>1. y.rows = Len(t.rows) /\ y.grid = IF Shows THEN t.rows ELSE <<>>
    BY <1>1 DEF Deletes, StateOf
  <2>2. y.deleted = IF Marks THEN t.pending.deletedRowIndices ELSE {}
    BY <1>7 DEF Deletes, StateOf
  <2> QED
    BY <2>1, <2>2 DEF StateOf, States
<1>9. Deletes(Back(way), a, y, x)
  BY <1>7 DEF Deletes, Back
<1>10. Replayed(way, a, s, t, y)
  BY <1>1, <1>6, <1>8, <1>9 DEF Replayed, Acts
<1> QED
  BY <1>1, <1>3, <1>7, <1>10 DEF t

(* Replaying an action brings the grid where the action says, keeps the    *)
(* changes in step, and registers the way back.                            *)
LEMMA ActionReplayed ==
  ASSUME NEW s, InStep(s.pending, s.rows), NEW y \in States, NEW way \in {"undo", "redo"}, NEW a,
         Acts(way, a, StateOf(s.pending, s.rows), y)
  PROVE  Replayed(way, a, s, ApplyUndoAction(s, a), y)
<1>1. CASE EditsCell(a, StateOf(s.pending, s.rows), y)
  BY <1>1, CellEditReplayed DEF ApplyUndoAction, EditsCell
<1>2. CASE Inserts(way, a, StateOf(s.pending, s.rows), y)
  <2>1. Replayed(way, a, s, UndoRowInsertionAction(s, a), y)
    BY <1>2, InsertionTakenOut, InsertionPutBack
  <2> QED
    BY <1>2, <2>1 DEF ApplyUndoAction, Inserts
<1>3. CASE Deletes(way, a, StateOf(s.pending, s.rows), y)
  BY <1>3, DeletionReplayed DEF ApplyUndoAction, Deletes, Deletion
<1> QED
  BY <1>1, <1>2, <1>3 DEF Acts

-------------------------------------------------------------------------------
(***************************************************************************)
(* Groups of actions, and stacks of groups.                                *)
(***************************************************************************)
(* The last action of a group is undone first.                             *)
GroupActs(way, g, x, y) ==
  \/ \E a : g = <<a>> /\ Acts(way, a, x, y)
  \/ \E a, b : \E m \in States :
       /\ g = <<a, b>> /\ Acts(way, b, x, m) /\ Acts(way, a, m, y)
       /\ Shows => a.kind = "rowInsertion" /\ b.kind = "rowInsertion"

LEMMA AppendToOne ==
  ASSUME NEW c, NEW d
  PROVE  Append(<<c>>, d) = <<c, d>>
<1> DEFINE s == Append(<<c>>, d)
           S == {c, d}
<1>1. <<c>> \in Seq(S) /\ Len(<<c>>) = 1
  OBVIOUS
<1>2. s \in Seq(S) /\ Len(s) = 2 /\ s[1] = c /\ s[2] = d
  BY <1>1
<1>3. <<c, d>> \in Seq(S) /\ Len(<<c, d>>) = 2
  OBVIOUS
<1> HIDE DEF s, S
<1>4. \A i \in 1..2 : s[i] = <<c, d>>[i]
  BY <1>2
<1> QED
  BY <1>2, <1>3, <1>4, SeqEqual DEF s

(* Replaying a group brings the grid where the group says, and registers   *)
(* the group that leads back.                                              *)
LEMMA GroupReplayed ==
  ASSUME NEW rows, NEW p, InStep(p, rows), NEW y \in States, NEW way \in {"undo", "redo"}, NEW g,
         GroupActs(way, g, StateOf(p, rows), y)
  PROVE  LET t == ApplyGroup(rows, p, g)
         IN  /\ InStep(t.pending, t.rows)
             /\ StateOf(t.pending, t.rows) = y
             /\ GroupActs(Back(way), t.registered, y, StateOf(p, rows))
<1> DEFINE s == [rows |-> rows, pending |-> p, registered |-> <<>>]
           t == ApplyGroup(rows, p, g)
           x == StateOf(p, rows)
<1>1. s.rows = rows /\ s.pending = p /\ s.registered = <<>> /\ x \in States
  BY StateNow
<1>2. t = ForEach(ApplyUndoAction, s, Reversed(g))
  BY DEF ApplyGroup
<1> HIDE DEF s, t, x
<1>3. CASE \E a : g = <<a>> /\ Acts(way, a, x, y)
  <2>1. PICK a : g = <<a>> /\ Acts(way, a, x, y)
    BY <1>3
  <2>2. Reversed(g) = <<a>>
    BY <2>1 DEF Reversed
  <2>3. ForEach(ApplyUndoAction, s, <<a>>) = ApplyUndoAction(s, a)
    BY DEF ForEach
  <2>4. t = ApplyUndoAction(s, a)
    BY <1>2, <2>2, <2>3
  <2>5. Replayed(way, a, s, t, y)
    BY <1>1, <2>1, <2>4, ActionReplayed DEF x
  <2>6. PICK b : Acts(Back(way), b, y, x) /\ t.registered = Append(s.registered, b)
    BY <1>1, <2>5 DEF Replayed, x
  <2>7. t.registered = <<b>>
    BY <1>1, <2>6
  <2>8. GroupActs(Back(way), t.registered, y, x)
    BY <2>6, <2>7 DEF GroupActs
  <2> QED
    BY <2>5, <2>8 DEF Replayed, t, x
<1>4. CASE \E a, b : \E m \in States :
             /\ g = <<a, b>> /\ Acts(way, b, x, m) /\ Acts(way, a, m, y)
             /\ Shows => a.kind = "rowInsertion" /\ b.kind = "rowInsertion"
  <2>1. PICK a, b : \E m \in States :
               /\ g = <<a, b>> /\ Acts(way, b, x, m) /\ Acts(way, a, m, y)
               /\ Shows => a.kind = "rowInsertion" /\ b.kind = "rowInsertion"
    BY <1>4
  <2>2. PICK m \in States :
               /\ g = <<a, b>> /\ Acts(way, b, x, m) /\ Acts(way, a, m, y)
               /\ Shows => a.kind = "rowInsertion" /\ b.kind = "rowInsertion"
    BY <2>1
  <2>3. Reversed(g) = <<b, a>>
    BY <2>2 DEF Reversed
  <2> DEFINE u == ApplyUndoAction(s, b)
  <2>4. ForEach(ApplyUndoAction, s, <<b, a>>) = ApplyUndoAction(u, a)
    BY DEF ForEach
  <2>5. Replayed(way, b, s, u, m)
    BY <1>1, <2>2, ActionReplayed DEF x
  <2> HIDE DEF u
  <2>6. InStep(u.pending, u.rows) /\ StateOf(u.pending, u.rows) = m
    BY <2>5 DEF Replayed
  <2>7. t = ApplyUndoAction(u, a)
    BY <1>2, <2>3, <2>4
  <2>8. Replayed(way, a, u, t, y)
    BY <2>2, <2>6, <2>7, ActionReplayed
  <2>9. PICK c : Acts(Back(way), c, m, x) /\ c.kind = b.kind /\ u.registered = Append(s.registered, c)
    BY <1>1, <2>5 DEF Replayed, x
  <2>10. PICK d : Acts(Back(way), d, y, m) /\ d.kind = a.kind /\ t.registered = Append(u.registered, d)
    BY <2>6, <2>8 DEF Replayed
  <2>11. t.registered = <<c, d>>
    <3>1. u.registered = <<c>>
      BY <1>1, <2>9
    <3>2. t.registered = Append(<<c>>, d)
      BY <2>10, <3>1
    <3> QED
      BY <3>2, AppendToOne
  <2>12. GroupActs(Back(way), t.registered, y, x)
    BY <2>2, <2>9, <2>10, <2>11 DEF GroupActs
  <2> QED
    BY <2>8, <2>12 DEF Replayed, t, x
<1> QED
  BY <1>3, <1>4 DEF GroupActs, x

-------------------------------------------------------------------------------
(***************************************************************************)
(* What redo sends.                                                        *)
(***************************************************************************)
OneColumn == \A c, d \in EditColumns : c = d

(* The value of a cell before its first edit.                              *)
FirstShown(p, rows, row, col) == FirstValue(UpdateCells(p, row), col, rows[row].values[col])

(* With one column edited, a row is updated when its cell shows another    *)
(* value than the first one.                                               *)
LEMMA UpdatedWhenChanged ==
  ASSUME OneColumn, Shows, NEW p, NEW rows, InStep(p, rows), NEW row \in Loaded, NEW col \in EditColumns
  PROVE  /\ row \in RowsOf(p, "update") <=> FirstShown(p, rows, row, col) # rows[row].values[col]
         /\ row \in RowsOf(p, "update") => col \in DOMAIN UpdateCells(p, row)
<1> DEFINE u == UpdateCells(p, row)
           shown == rows[row].values
<1>1. Indexed(p) /\ ModifiedMatches(p) /\ SoundCells(p) /\ ShownCells(p, rows)
  BY DEF InStep, Fits, Consistent, ValuesMatch
<1>2. HasChange(p, row, "update") <=> row \in RowsOf(p, "update")
  BY <1>1, HasChangeFinds
<1>3. CASE row \in RowsOf(p, "update")
  <2>1. PICK c \in UpdatesOf(p) : c.rowIndex = row /\ c.cellChanges = u
    BY <1>1, <1>2, <1>3, UpdateCellsAre
  <2>2. DOMAIN u # {}
    BY <1>1, <2>1 DEF ModifiedMatches, UpdatesOf
  <2>3. /\ \A k \in DOMAIN u : k \in EditColumns
        /\ \A k \in DOMAIN u : u[k].oldValue # u[k].newValue /\ u[k].newValue = shown[k]
    BY <1>1, <2>1 DEF SoundCells, ShownCells
  <2> HIDE DEF u, shown
  <2>4. col \in DOMAIN u
    BY <2>2, <2>3 DEF OneColumn
  <2>5. u[col].oldValue # shown[col]
    BY <2>3, <2>4
  <2> QED
    BY <1>3, <2>4, <2>5 DEF FirstShown, FirstValue, u, shown
<1>4. CASE row \notin RowsOf(p, "update")
  <2>1. u = EmptyMap /\ DOMAIN EmptyMap = {}
    BY <1>2, <1>4 DEF UpdateCells, EmptyMap
  <2> QED
    BY <1>4, <2>1 DEF FirstShown, FirstValue
<1> QED
  BY <1>3, <1>4

(* The cells of the update that was recorded.                              *)
LEMMA RecordedAre ==
  ASSUME NEW p, Indexed(p), NEW q, Indexed(q), NEW row, NEW col, NEW old, NEW new, NEW original,
         EditRecorded(p, q, row, col, old, new, original)
  PROVE  LET cells == RecordedCells(UpdateCells(p, row), col, old, new)
         IN  /\ DOMAIN cells # {} => UpdateCells(q, row) = cells
             /\ DOMAIN cells = {} => DOMAIN UpdateCells(q, row) = {}
             /\ OtherUpdatesOf(q, row) = OtherUpdatesOf(p, row)
<1> DEFINE cells == RecordedCells(UpdateCells(p, row), col, old, new)
           mine == RowChange(row, "update", cells, UpdateOriginal(p, row, original))
<1>1. UpdatesOf(q) = OtherUpdatesOf(p, row) \cup (IF DOMAIN cells = {} THEN {} ELSE {mine})
  BY DEF EditRecorded, UpdateBecomes
<1>2. mine.rowIndex = row /\ mine.cellChanges = cells
  BY DEF RowChange
<1> HIDE DEF cells, mine
<1>3. OtherUpdatesOf(q, row) = OtherUpdatesOf(p, row)
  BY <1>1, <1>2 DEF OtherUpdatesOf
<1>4. CASE DOMAIN cells # {}
  <2>1. mine \in UpdatesOf(q)
    BY <1>1, <1>4
  <2>2. UpdateCells(q, row) = cells
    BY <1>2, <2>1, UpdateCellsAre
  <2> QED
    BY <1>3, <1>4, <2>2 DEF cells
<1>5. CASE DOMAIN cells = {}
  <2>1. ~ HasChange(q, row, "update")
    BY <1>1, <1>5, UpdateCellsAre DEF OtherUpdatesOf
  <2>2. DOMAIN UpdateCells(q, row) = {}
    BY <2>1 DEF UpdateCells, EmptyMap
  <2> QED
    BY <1>3, <1>5, <2>2 DEF cells
<1> QED
  BY <1>4, <1>5

LEMMA EditKeepsFirst ==
  ASSUME OneColumn, Shows, NEW s, InStep(s.pending, s.rows), NEW y, NEW a,
         EditsCell(a, StateOf(s.pending, s.rows), y)
  PROVE  LET t == UndoCellEdit(s, a)
             row == a.rowIndex
             col == a.columnIndex
         IN  /\ row \in Loaded => FirstShown(t.pending, t.rows, row, col) = FirstShown(s.pending, s.rows, row, col)
             /\ OtherUpdatesOf(t.pending, row) = OtherUpdatesOf(s.pending, row)
             /\ row \notin Loaded => UpdatesOf(t.pending) = UpdatesOf(s.pending)
<1> DEFINE t == UndoCellEdit(s, a)
           row == a.rowIndex
           col == a.columnIndex
           p == s.pending
           q == t.pending
           old == a.newValue
           new == a.previousValue
           u == UpdateCells(p, row)
           cells == RecordedCells(u, col, old, new)
<1>1. /\ Fits(q, t.rows) /\ Fits(p, s.rows) /\ row \in DOMAIN s.rows
      /\ CellReplayed(p, q, s.rows, t.rows, row, col, old, new, a.originalRow)
  BY CellEditDoes DEF InStep
<1>2. Indexed(p) /\ Indexed(q) /\ s.rows[row].values \in FullRows
  BY <1>1, RowsFit DEF Fits, Consistent
<1>3. col \in EditColumns /\ col \in Columns /\ s.rows[row].values[col] = old
  BY EditAssumption DEF EditsCell, StateOf
<1>4. t.rows[row].values[col] = new
  <2>1. t.rows[row].values = [s.rows[row].values EXCEPT ![col] = new]
    BY <1>1 DEF CellReplayed, RowEdited
  <2> HIDE DEF t
  <2> QED
    BY <1>2, <1>3, <2>1 DEF FullRows
<1> HIDE DEF t, row, col, p, q, old, new
<1>5. CASE row \notin Loaded
  <2>1. UpdatesOf(q) = UpdatesOf(p)
    BY <1>1, <1>5 DEF CellReplayed, NewRowEdited, OnlyNewRows
  <2> QED
    BY <1>5, <2>1 DEF OtherUpdatesOf, t, row, col, p, q
<1>6. CASE row \in Loaded
  <2>1. ~ (q = p /\ HasChange(p, row, "update") /\ col \notin DOMAIN u)
    <3>1. HasChange(p, row, "update") => row \in RowsOf(p, "update")
      BY <1>2, HasChangeFinds
    <3> QED
      BY <1>3, <1>6, <3>1, UpdatedWhenChanged DEF p
  <2>2. EditRecorded(p, q, row, col, old, new, a.originalRow)
    BY <1>1, <1>6, <2>1 DEF CellReplayed
  <2>3. /\ DOMAIN cells # {} => UpdateCells(q, row) = cells
        /\ DOMAIN cells = {} => DOMAIN UpdateCells(q, row) = {}
        /\ OtherUpdatesOf(q, row) = OtherUpdatesOf(p, row)
    BY <1>2, <2>2, RecordedAre
  <2>4. /\ col \in DOMAIN cells => /\ FirstValue(u, col, old) # new
                                  /\ cells[col].oldValue = FirstValue(u, col, old)
        /\ FirstValue(u, col, old) # new => col \in DOMAIN cells
    BY RecordedCellsAre
  <2> HIDE DEF cells
  <2>5. FirstValue(UpdateCells(q, row), col, new) = FirstValue(u, col, old)
    <3>1. CASE col \in DOMAIN cells
      <4>1. UpdateCells(q, row) = cells
        BY <2>3, <3>1
      <4> HIDE DEF u
      <4> QED
        BY <2>4, <3>1, <4>1 DEF FirstValue
    <3>2. CASE col \notin DOMAIN cells
      <4>1. col \notin DOMAIN UpdateCells(q, row)
        BY <2>3, <3>2
      <4>2. FirstValue(u, col, old) = new
        BY <2>4, <3>2
      <4>3. FirstValue(UpdateCells(q, row), col, new) = new
        BY <4>1 DEF FirstValue
      <4> QED
        BY <4>2, <4>3
    <3> QED
      BY <3>1, <3>2
  <2> QED
    BY <1>3, <1>4, <1>6, <2>3, <2>5 DEF FirstShown, u, t, row, col, p, q, old, new
<1> QED
  BY <1>5, <1>6 DEF t, row, col, p, q

-------------------------------------------------------------------------------
(* Insertions leave the updates alone, one after the other.                *)
AllInsertions(g) == \A i \in DOMAIN g : g[i].kind = "rowInsertion"

LEMMA InsertionReplayed ==
  ASSUME NEW s, InStep(s.pending, s.rows), NEW y \in States, NEW way \in {"undo", "redo"}, NEW a,
         Acts(way, a, StateOf(s.pending, s.rows), y), a.kind = "rowInsertion"
  PROVE  UpdatesOf(ApplyUndoAction(s, a).pending) = UpdatesOf(s.pending)
<1>1. Inserts(way, a, StateOf(s.pending, s.rows), y)
  BY DEF Acts, EditsCell, Deletes, Deletion
<1>2. ApplyUndoAction(s, a) = UndoRowInsertionAction(s, a)
  BY DEF ApplyUndoAction
<1> QED
  BY <1>1, <1>2, InsertionTakenOut, InsertionPutBack

(* How a group is replayed: the last action, then the one before.          *)
Begun(rows, p) == [rows |-> rows, pending |-> p, registered |-> <<>>]

LEMMA GroupSteps ==
  ASSUME NEW rows, NEW p
  PROVE  /\ \A a : ApplyGroup(rows, p, <<a>>) = ApplyUndoAction(Begun(rows, p), a)
         /\ \A a, b : ApplyGroup(rows, p, <<a, b>>)
                       = ApplyUndoAction(ApplyUndoAction(Begun(rows, p), b), a)
<1>1. ASSUME NEW a PROVE ApplyGroup(rows, p, <<a>>) = ApplyUndoAction(Begun(rows, p), a)
  <2>1. Reversed(<<a>>) = <<a>>
    BY DEF Reversed
  <2>2. ApplyGroup(rows, p, <<a>>) = ForEach(ApplyUndoAction, Begun(rows, p), <<a>>)
    BY <2>1 DEF ApplyGroup, Begun
  <2>3. \A s : ForEach(ApplyUndoAction, s, <<a>>) = ApplyUndoAction(s, a)
    BY DEF ForEach
  <2> QED
    BY <2>2, <2>3
<1>2. ASSUME NEW a, NEW b
      PROVE  ApplyGroup(rows, p, <<a, b>>) = ApplyUndoAction(ApplyUndoAction(Begun(rows, p), b), a)
  <2>1. Reversed(<<a, b>>) = <<b, a>>
    BY DEF Reversed
  <2>2. ApplyGroup(rows, p, <<a, b>>) = ForEach(ApplyUndoAction, Begun(rows, p), <<b, a>>)
    BY <2>1 DEF ApplyGroup, Begun
  <2>3. \A s : ForEach(ApplyUndoAction, s, <<b, a>>) = ApplyUndoAction(ApplyUndoAction(s, b), a)
    BY DEF ForEach
  <2> QED
    BY <2>2, <2>3
<1> QED
  BY <1>1, <1>2

LEMMA InsertionsKeepUpdates ==
  ASSUME NEW rows, NEW p, InStep(p, rows), NEW y \in States, NEW way \in {"undo", "redo"}, NEW g,
         GroupActs(way, g, StateOf(p, rows), y), AllInsertions(g)
  PROVE  LET t == ApplyGroup(rows, p, g)
         IN  UpdatesOf(t.pending) = UpdatesOf(p) /\ AllInsertions(t.registered)
<1> DEFINE s == Begun(rows, p)
           x == StateOf(p, rows)
<1>1. s.rows = rows /\ s.pending = p /\ s.registered = <<>>
  BY DEF Begun
<1> HIDE DEF s
<1>2. CASE \E a : g = <<a>> /\ Acts(way, a, x, y)
  <2>1. PICK a : g = <<a>> /\ Acts(way, a, x, y)
    BY <1>2
  <2> DEFINE t == ApplyUndoAction(s, a)
  <2>2. ApplyGroup(rows, p, g) = t /\ a.kind = "rowInsertion"
    BY <2>1, GroupSteps DEF AllInsertions, s
  <2>3. UpdatesOf(t.pending) = UpdatesOf(p)
    BY <1>1, <2>1, <2>2, InsertionReplayed
  <2>4. Replayed(way, a, s, t, y)
    BY <1>1, <2>1, ActionReplayed
  <2> HIDE DEF t
  <2>5. PICK b : b.kind = a.kind /\ t.registered = Append(s.registered, b)
    BY <2>4 DEF Replayed
  <2>6. t.registered = <<b>>
    BY <1>1, <2>5
  <2> QED
    BY <2>2, <2>3, <2>5, <2>6 DEF AllInsertions
<1>3. CASE \E a, b : \E m \in States : g = <<a, b>> /\ Acts(way, b, x, m) /\ Acts(way, a, m, y)
  <2>1. PICK a, b : \E m \in States : g = <<a, b>> /\ Acts(way, b, x, m) /\ Acts(way, a, m, y)
    BY <1>3
  <2>2. PICK m \in States : g = <<a, b>> /\ Acts(way, b, x, m) /\ Acts(way, a, m, y)
    BY <2>1
  <2> DEFINE u == ApplyUndoAction(s, b)
             t == ApplyUndoAction(u, a)
  <2>3. ApplyGroup(rows, p, g) = t /\ a.kind = "rowInsertion" /\ b.kind = "rowInsertion"
    BY <2>2, GroupSteps DEF AllInsertions, s
  <2>4. UpdatesOf(u.pending) = UpdatesOf(p)
    BY <1>1, <2>2, <2>3, InsertionReplayed
  <2>5. Replayed(way, b, s, u, m)
    BY <1>1, <2>2, ActionReplayed
  <2> HIDE DEF u
  <2>6. InStep(u.pending, u.rows) /\ StateOf(u.pending, u.rows) = m
    BY <2>5 DEF Replayed
  <2>7. UpdatesOf(t.pending) = UpdatesOf(u.pending)
    BY <2>2, <2>3, <2>6, InsertionReplayed
  <2>8. Replayed(way, a, u, t, y)
    BY <2>2, <2>6, ActionReplayed
  <2> HIDE DEF t
  <2>9. PICK c : c.kind = b.kind /\ u.registered = Append(s.registered, c)
    BY <2>5 DEF Replayed
  <2>10. PICK d : d.kind = a.kind /\ t.registered = Append(u.registered, d)
    BY <2>8 DEF Replayed
  <2>11. t.registered = <<c, d>>
    BY <1>1, <2>9, <2>10, AppendToOne
  <2> QED
    BY <2>3, <2>4, <2>7, <2>9, <2>10, <2>11 DEF AllInsertions
<1> QED
  BY <1>2, <1>3 DEF GroupActs

(* Undoing an action and redoing it leaves the same rows updated.          *)
LEMMA ActionRedone ==
  ASSUME OneColumn, Marks, NEW s, InStep(s.pending, s.rows), s.registered = <<>>, NEW y \in States, NEW a,
         Acts("undo", a, StateOf(s.pending, s.rows), y), a.kind # "rowInsertion",
         NEW b, ApplyUndoAction(s, a).registered = <<b>>
  PROVE  LET t == ApplyUndoAction(s, a)
             u == ApplyUndoAction(Begun(t.rows, t.pending), b)
         IN  RowsOf(u.pending, "update") = RowsOf(s.pending, "update")
<1> DEFINE t == ApplyUndoAction(s, a)
           r == Begun(t.rows, t.pending)
           u == ApplyUndoAction(r, b)
           x == StateOf(s.pending, s.rows)
<1>1. r.rows = t.rows /\ r.pending = t.pending
  BY DEF Begun
<1>2. Replayed("undo", a, s, t, y) /\ x \in States /\ Shows
  BY ActionReplayed, StateNow DEF Marks
<1>3. t.registered = <<b>>
  OBVIOUS
<1> HIDE DEF t, x, r
<1>4. PICK c : Acts("redo", c, y, x) /\ c.kind = a.kind /\ t.registered = Append(s.registered, c)
  BY <1>2 DEF Replayed, Back, x
<1>5. c = b
  <2>1. <<c>> = <<b>>
    BY <1>3, <1>4
  <2> QED
    BY <2>1
<1>6. InStep(r.pending, r.rows) /\ StateOf(r.pending, r.rows) = y
  BY <1>1, <1>2 DEF Replayed
<1>7. Replayed("redo", b, r, u, x)
  BY <1>2, <1>4, <1>5, <1>6, ActionReplayed
<1>8. InStep(u.pending, u.rows) /\ StateOf(u.pending, u.rows) = x
  BY <1>7 DEF Replayed
<1>9. u.rows = s.rows
  BY <1>2, <1>8 DEF StateOf, x
<1>10. CASE EditsCell(a, x, y)
  <2> DEFINE row == a.rowIndex
             col == a.columnIndex
  <2>1. t = UndoCellEdit(s, a) /\ EditsCell(b, y, x) /\ u = UndoCellEdit(r, b)
    BY <1>4, <1>5, <1>10 DEF ApplyUndoAction, t, Acts, EditsCell, Inserts, Deletes, Deletion
  <2>2. b.rowIndex = row /\ b.columnIndex = col
    <3>1. t.registered = Append(<<>>, CellEdit(row, col, a.newValue, a.previousValue, a.originalRow))
      BY <1>10, <2>1, CellEditDoes DEF x
    <3>2. <<b>> = <<CellEdit(row, col, a.newValue, a.previousValue, a.originalRow)>>
      BY <1>3, <3>1
    <3>3. b = CellEdit(row, col, a.newValue, a.previousValue, a.originalRow)
      BY <3>2
    <3> QED
      BY <3>3 DEF CellEdit
  <2>3. /\ row \in Loaded => FirstShown(t.pending, t.rows, row, col) = FirstShown(s.pending, s.rows, row, col)
        /\ OtherUpdatesOf(t.pending, row) = OtherUpdatesOf(s.pending, row)
        /\ row \notin Loaded => UpdatesOf(t.pending) = UpdatesOf(s.pending)
    BY <1>2, <1>10, <2>1, EditKeepsFirst DEF x
  <2>4. /\ row \in Loaded => FirstShown(u.pending, u.rows, row, col) = FirstShown(t.pending, t.rows, row, col)
        /\ OtherUpdatesOf(u.pending, row) = OtherUpdatesOf(t.pending, row)
        /\ row \notin Loaded => UpdatesOf(u.pending) = UpdatesOf(t.pending)
    BY <1>1, <1>2, <1>6, <2>1, <2>2, EditKeepsFirst
  <2> HIDE DEF u
  <2>5. CASE row \notin Loaded
    <3>1. UpdatesOf(u.pending) = UpdatesOf(s.pending)
      BY <2>3, <2>4, <2>5
    <3> QED
      BY <3>1 DEF RowsOf, UpdatesOf, u, t, r
  <2>6. CASE row \in Loaded
    <3>1. col \in EditColumns
      BY <1>10 DEF EditsCell
    <3>2. row \in RowsOf(u.pending, "update") <=> row \in RowsOf(s.pending, "update")
      <4>1. FirstShown(u.pending, u.rows, row, col) = FirstShown(s.pending, s.rows, row, col)
        BY <2>3, <2>4, <2>6
      <4>2. u.rows[row].values[col] = s.rows[row].values[col]
        BY <1>9
      <4> QED
        BY <1>2, <1>8, <2>6, <3>1, <4>1, <4>2, UpdatedWhenChanged
    <3>3. OtherUpdatesOf(u.pending, row) = OtherUpdatesOf(s.pending, row)
      BY <2>3, <2>4
    <3>4. RowsOf(u.pending, "update") \ {row} = RowsOf(s.pending, "update") \ {row}
      <4>1. \A p : RowsOf(p, "update") \ {row} = {c2.rowIndex : c2 \in OtherUpdatesOf(p, row)}
        BY DEF RowsOf, OtherUpdatesOf, UpdatesOf
      <4> QED
        BY <3>3, <4>1
    <3>5. RowsOf(u.pending, "update") = RowsOf(s.pending, "update")
      <4> HIDE DEF row
      <4> QED
        BY <3>2, <3>4
    <3> QED
      BY <3>5 DEF u, t, r
  <2> QED
    BY <2>5, <2>6
<1>11. CASE Deletes("undo", a, x, y)
  <2>1. t = UndoRowDeletionAction(s, a)
    BY <1>11 DEF ApplyUndoAction, t, Deletes, Deletion
  <2>2. UpdatesOf(t.pending) = UpdatesOf(s.pending) /\ t.registered = Append(s.registered, a)
    BY <1>11, <2>1, DeletionReplayed DEF x
  <2>3. a = b
    <3>1. <<a>> = <<b>>
      BY <1>3, <2>2
    <3> QED
      BY <3>1
  <2>4. Deletes("redo", b, y, x) /\ u = UndoRowDeletionAction(r, b)
    BY <1>4, <1>5, <1>11 DEF ApplyUndoAction, Acts, EditsCell, Inserts, Deletes, Deletion
  <2>5. Named(b) \cap RowsOf(r.pending, "update") = {}
    <3>1. Named(a) \subseteq s.pending.deletedRowIndices
      BY <1>11 DEF Deletes, StateOf, x
    <3>2. DeletedNotUpdated(s.pending)
      BY <1>2 DEF InStep, ValuesMatch
    <3>3. RowsOf(r.pending, "update") = RowsOf(s.pending, "update")
      BY <1>1, <2>2 DEF RowsOf, UpdatesOf
    <3>4. \A row \in RowsOf(s.pending, "update") : row \notin s.pending.deletedRowIndices
      BY <3>2 DEF DeletedNotUpdated, RowsOf, UpdatesOf
    <3> QED
      BY <2>3, <3>1, <3>3, <3>4
  <2>6. UpdatesOf(u.pending) = UpdatesOf(r.pending)
    BY <1>2, <1>6, <2>4, <2>5, DeletionReplayed
  <2>7. UpdatesOf(u.pending) = UpdatesOf(s.pending)
    BY <1>1, <2>2, <2>6
  <2> HIDE DEF u
  <2> QED
    BY <2>7 DEF RowsOf, UpdatesOf, u, t, r
<1>12. ~ Inserts("undo", a, x, y)
  BY DEF Inserts
<1> QED
  BY <1>10, <1>11, <1>12 DEF Acts, x

(* Undoing a group and redoing it gives the same state, with the same rows *)
(* updated.                                                                *)
LEMMA GroupRedone ==
  ASSUME OneColumn, Marks, NEW rows, NEW p, InStep(p, rows), NEW y \in States, NEW g,
         GroupActs("undo", g, StateOf(p, rows), y)
  PROVE  LET t == ApplyGroup(rows, p, g)
             u == ApplyGroup(t.rows, t.pending, t.registered)
         IN  /\ InStep(u.pending, u.rows)
             /\ StateOf(u.pending, u.rows) = StateOf(p, rows)
             /\ RowsOf(u.pending, "update") = RowsOf(p, "update")
<1> DEFINE t == ApplyGroup(rows, p, g)
           u == ApplyGroup(t.rows, t.pending, t.registered)
           x == StateOf(p, rows)
           s == Begun(rows, p)
<1>1. /\ InStep(t.pending, t.rows) /\ StateOf(t.pending, t.rows) = y
      /\ GroupActs("redo", t.registered, y, x)
  BY GroupReplayed DEF Back
<1>2. x \in States /\ Shows
  BY StateNow DEF Marks
<1>3. s.rows = rows /\ s.pending = p /\ s.registered = <<>>
  BY DEF Begun
<1> HIDE DEF t, s
<1>4. InStep(u.pending, u.rows) /\ StateOf(u.pending, u.rows) = x
  BY <1>1, <1>2, GroupReplayed
<1>5. CASE AllInsertions(g)
  <2>1. UpdatesOf(t.pending) = UpdatesOf(p) /\ AllInsertions(t.registered)
    BY <1>5, InsertionsKeepUpdates DEF t
  <2>2. UpdatesOf(u.pending) = UpdatesOf(t.pending)
    BY <1>1, <1>2, <2>1, InsertionsKeepUpdates
  <2>3. UpdatesOf(u.pending) = UpdatesOf(p)
    BY <2>1, <2>2
  <2> HIDE DEF u
  <2>4. RowsOf(u.pending, "update") = RowsOf(p, "update")
    BY <2>3 DEF RowsOf, UpdatesOf
  <2> QED
    BY <1>4, <2>4 DEF u, t
<1>6. CASE ~ AllInsertions(g)
  <2>1. PICK a : g = <<a>> /\ Acts("undo", a, x, y) /\ a.kind # "rowInsertion"
    BY <1>2, <1>6 DEF GroupActs, AllInsertions
  <2>2. t = ApplyUndoAction(s, a)
    BY <2>1, GroupSteps DEF t, s
  <2>3. Replayed("undo", a, s, t, y)
    BY <1>3, <2>1, <2>2, ActionReplayed
  <2>4. PICK b : t.registered = Append(s.registered, b)
    BY <2>3 DEF Replayed
  <2>5. t.registered = <<b>>
    BY <1>3, <2>4
  <2>6. u = ApplyUndoAction(Begun(t.rows, t.pending), b)
    BY <2>5, GroupSteps
  <2> HIDE DEF u
  <2>7. RowsOf(u.pending, "update") = RowsOf(p, "update")
    BY <1>3, <2>1, <2>2, <2>5, <2>6, ActionRedone
  <2> QED
    BY <1>4, <2>7 DEF u, t
<1> QED
  BY <1>5, <1>6

-------------------------------------------------------------------------------
(* What is sent for the same state with the same rows updated: the         *)
(* statements of a save write what the grid shows, and pick the rows by    *)
(* the keys they were loaded with.                                         *)
SameSave(p, q, rows) ==
  /\ InStep(p, rows) /\ InStep(q, rows)
  /\ q.deletedRowIndices = p.deletedRowIndices
  /\ RowsOf(q, "update") = RowsOf(p, "update")

LEMMA SameInserts ==
  ASSUME Shows, NEW p, NEW q, NEW rows, SameSave(p, q, rows)
  PROVE  StatementsOf(p, "insert") \subseteq StatementsOf(q, "insert")
<1> SUFFICES ASSUME NEW c \in Emitting(p, "insert")
             PROVE  \E d \in Emitting(q, "insert") : StatementOf(q, d) = StatementOf(p, c)
  BY DEF StatementsOf
<1> DEFINE row == c.rowIndex
<1>1. /\ GridInv(rows) /\ MarksMatch(p) /\ MarksMatch(q)
      /\ p.insertedRowIndices = (Len(Base) + 1)..Len(rows) /\ q.insertedRowIndices = p.insertedRowIndices
      /\ StoredValues(p, rows) /\ StoredValues(q, rows)
  BY DEF SameSave, InStep, Fits, Consistent, NewRowsLast, ValuesMatch
<1>2. /\ c.type = "insert" /\ row \in p.insertedRowIndices /\ DOMAIN InsertedValues(p, c) # {}
  BY DEF Emitting, Emits
<1>3. PICK d \in ChangesOf(q) : d.type = "insert" /\ d.rowIndex = row
  <2>1. row \in q.insertedRowIndices
    BY <1>1, <1>2
  <2>2. row \in RowsOf(q, "insert")
    BY <1>1, <2>1 DEF MarksMatch
  <2> QED
    BY <2>2 DEF RowsOf
<1>4. row \in DOMAIN rows \ Loaded
  <2>1. DOMAIN rows = 1..Len(rows) /\ Len(rows) \in Nat /\ Len(Base) \in Nat
    BY <1>1, RowsFit
  <2> QED
    BY <1>1, <1>2, <2>1 DEF Loaded
<1>5. /\ row \in DOMAIN p.insertedRowData /\ row \in DOMAIN q.insertedRowData
      /\ p.insertedRowData[row] = q.insertedRowData[row]
  BY <1>1, <1>4 DEF StoredValues
<1>6. InsertedValues(q, d) = InsertedValues(p, c)
  BY <1>3, <1>5 DEF InsertedValues
<1>7. d \in Emitting(q, "insert")
  BY <1>1, <1>2, <1>3, <1>6 DEF Emitting, Emits
<1>8. StatementOf(q, d) = StatementOf(p, c)
  BY <1>2, <1>3, <1>6 DEF StatementOf
<1> QED
  BY <1>7, <1>8

LEMMA SameUpdates ==
  ASSUME OneColumn, KeysFixed, Shows, NEW p, NEW q, NEW rows, SameSave(p, q, rows)
  PROVE  StatementsOf(p, "update") \subseteq StatementsOf(q, "update")
<1> SUFFICES ASSUME NEW c \in Emitting(p, "update")
             PROVE  \E d \in Emitting(q, "update") : StatementOf(q, d) = StatementOf(p, c)
  BY DEF StatementsOf
<1> DEFINE row == c.rowIndex
           set(e) == [col \in DOMAIN e.cellChanges |-> e.cellChanges[col].newValue]
           shown == rows[row].values
<1>1. \A e \in UpdatesOf(p) \cup UpdatesOf(q) :
        /\ DOMAIN e.cellChanges # {} /\ DOMAIN e.cellChanges \subseteq EditColumns
        /\ \A k \in DOMAIN e.cellChanges : e.cellChanges[k].newValue = rows[e.rowIndex].values[k]
        /\ SameKey(e.originalRow, e.rowIndex)
  BY DEF SameSave, InStep, Fits, Consistent, ModifiedMatches, ValuesMatch, SoundCells, ShownCells,
         UpdatesKeyed, UpdatesOf
<1>2. /\ c \in UpdatesOf(p) /\ c.type = "update"
      /\ \A k \in PrimaryKeyColumns : c.originalRow[k] # Null
  BY DEF Emitting, Emits, UpdatesOf
<1>3. PICK d \in UpdatesOf(q) : d.rowIndex = row
  BY <1>2 DEF SameSave, RowsOf, UpdatesOf
<1>4. DOMAIN d.cellChanges = DOMAIN c.cellChanges
  <2>1. /\ DOMAIN c.cellChanges # {} /\ DOMAIN c.cellChanges \subseteq EditColumns
        /\ DOMAIN d.cellChanges # {} /\ DOMAIN d.cellChanges \subseteq EditColumns
    BY <1>1, <1>2, <1>3
  <2>2. \A C, D \in SUBSET EditColumns : C # {} /\ D # {} => C \subseteq D
    BY DEF OneColumn
  <2> QED
    BY <2>1, <2>2
<1>5. set(d) = set(c)
  <2>1. \A k \in DOMAIN c.cellChanges : d.cellChanges[k].newValue = c.cellChanges[k].newValue
    BY <1>1, <1>2, <1>3, <1>4
  <2> QED
    BY <1>4, <2>1
<1>6. SameKey(c.originalRow, row) /\ SameKey(d.originalRow, row)
  BY <1>1, <1>2, <1>3
<1>7. Where(d.originalRow) = Where(c.originalRow)
  BY <1>6, SameKeySameWhere
<1>8. \A k \in PrimaryKeyColumns : d.originalRow[k] # Null
  <2>1. \A k \in PrimaryKeyColumns : k \in KeyColumns
    BY DEF KeyColumns
  <2>2. \A k \in PrimaryKeyColumns : d.originalRow[k] = c.originalRow[k]
    BY <1>6, <2>1 DEF SameKey
  <2> QED
    BY <1>2, <2>2
<1>9. d \in Emitting(q, "update")
  BY <1>1, <1>3, <1>8 DEF Emitting, Emits, UpdatesOf
<1>10. StatementOf(q, d) = StatementOf(p, c)
  <2>1. d.type = "update"
    BY <1>3 DEF UpdatesOf
  <2>2. /\ StatementOf(q, d) = UpdateRow(d.rowIndex, set(d), Where(d.originalRow))
        /\ StatementOf(p, c) = UpdateRow(c.rowIndex, set(c), Where(c.originalRow))
    BY <1>2, <2>1 DEF StatementOf
  <2> QED
    BY <1>3, <1>5, <1>7, <2>2
<1> QED
  BY <1>9, <1>10

LEMMA SameDeletes ==
  ASSUME KeysFixed, Shows, NEW p, NEW q, NEW rows, SameSave(p, q, rows)
  PROVE  StatementsOf(p, "delete") \subseteq StatementsOf(q, "delete")
<1> SUFFICES ASSUME NEW c \in Emitting(p, "delete")
             PROVE  \E d \in Emitting(q, "delete") : StatementOf(q, d) = StatementOf(p, c)
  BY DEF StatementsOf
<1>1. /\ MarksMatch(q) /\ q.deletedRowIndices = p.deletedRowIndices
      /\ \A e \in DeletionsOf(p) \cup DeletionsOf(q) : SameKey(e.originalRow, e.rowIndex)
  BY DEF SameSave, InStep, Fits, Consistent, ValuesMatch, KeysKept
<1>2. c \in DeletionsOf(p) /\ c.type = "delete" /\ c.rowIndex \in p.deletedRowIndices
  BY DEF Emitting, Emits, DeletionsOf
<1>3. PICK d \in DeletionsOf(q) : d.rowIndex = c.rowIndex
  BY <1>1, <1>2 DEF MarksMatch, RowsOf, DeletionsOf
<1>4. d.type = "delete" /\ d \in Emitting(q, "delete")
  BY <1>1, <1>2, <1>3 DEF Emitting, Emits, DeletionsOf
<1>5. SameKey(c.originalRow, c.rowIndex) /\ SameKey(d.originalRow, c.rowIndex)
  BY <1>1, <1>2, <1>3
<1>6. Where(d.originalRow) = Where(c.originalRow)
  BY <1>5, SameKeySameWhere
<1>7. StatementOf(q, d) = StatementOf(p, c)
  BY <1>2, <1>3, <1>4, <1>6 DEF StatementOf
<1> QED
  BY <1>4, <1>7

(* A save sends the statements of its three kinds.                         *)
LEMMA SentIsAny ==
  ASSUME NEW p, Indexed(p)
  PROVE  SentFor(p) = AnyStatement(p)
<1> DEFINE all == GenerateStatements(p)
<1>1. ASSUME NEW j \in DOMAIN all PROVE all[j] \in AnyStatement(p)
  <2>1. PICK i, u, d : Parts(p, i, u, d)
    BY PartsExist
  <2> DEFINE S == AnyStatement(p)
  <2>2. /\ all = i \o u \o d
        /\ i \in Seq(S) /\ u \in Seq(S) /\ d \in Seq(S)
    BY <2>1 DEF Parts
  <2> HIDE DEF S, all
  <2>3. all \in Seq(S)
    BY <2>2
  <2> QED
    BY <1>1, <2>3 DEF S
<1>2. ASSUME NEW type \in Kinds, NEW e \in StatementsOf(p, type)
      PROVE  \E j \in DOMAIN all : all[j] = e
  <2>1. e \in SentBy(p, OpOf(type))
    BY <1>2, SentAre
  <2> QED
    BY <2>1 DEF SentBy
<1> HIDE DEF all
<1>3. \A e \in AnyStatement(p) : \E j \in DOMAIN all : all[j] = e
  BY <1>2 DEF AnyStatement
<1>4. SentFor(p) = {all[j] : j \in DOMAIN all}
  BY DEF SentFor, all
<1> QED
  BY <1>1, <1>3, <1>4

LEMMA SameSent ==
  ASSUME OneColumn, KeysFixed, Shows, NEW p, NEW q, NEW rows, SameSave(p, q, rows)
  PROVE  SentFor(q) = SentFor(p)
<1>1. SameSave(q, p, rows)
  BY DEF SameSave
<1>2. \A type \in Kinds : StatementsOf(p, type) = StatementsOf(q, type)
  BY <1>1, SameInserts, SameUpdates, SameDeletes DEF Kinds
<1>3. AnyStatement(p) = AnyStatement(q)
  BY <1>2 DEF AnyStatement
<1>4. Indexed(p) /\ Indexed(q)
  BY DEF SameSave, InStep, Fits, Consistent
<1> QED
  BY <1>3, <1>4, SentIsAny

(* Along a stack there is a state for every group: the top one is shown,   *)
(* and undoing the group above a state leads to it.                        *)
ChainOf(way, stack, S, top) ==
  /\ S \in [0..Len(stack) -> States]
  /\ S[Len(stack)] = top
  /\ \A i \in 1..Len(stack) : GroupActs(way, stack[i], S[i], S[i - 1])

Chained(way, stack, top, Bottom) ==
  /\ \E T : stack \in Seq(T)
  /\ \E S : ChainOf(way, stack, S, top) /\ S[0] \in Bottom

LEMMA EmptyChain ==
  ASSUME NEW way, NEW Bottom, Bottom \subseteq States, NEW x \in Bottom
  PROVE  Chained(way, <<>>, x, Bottom)
<1> DEFINE S == [i \in 0..0 |-> x]
<1>1. <<>> \in Seq(States) /\ Len(<<>>) = 0
  OBVIOUS
<1>2. S \in [0..0 -> States] /\ S[0] = x
  OBVIOUS
<1> HIDE DEF S
<1>3. ChainOf(way, <<>>, S, x)
  BY <1>1, <1>2 DEF ChainOf
<1> QED
  BY <1>1, <1>2, <1>3 DEF Chained

LEMMA ChainTop ==
  ASSUME NEW way, NEW stack, NEW x, NEW Bottom, Chained(way, stack, x, Bottom)
  PROVE  /\ x \in States
         /\ stack = <<>> => x \in Bottom
<1>1. PICK T : stack \in Seq(T)
  BY DEF Chained
<1>2. PICK S : ChainOf(way, stack, S, x) /\ S[0] \in Bottom
  BY DEF Chained
<1>3. Len(stack) \in Nat /\ (stack = <<>> => Len(stack) = 0)
  BY <1>1
<1> QED
  BY <1>2, <1>3 DEF ChainOf

LEMMA ChainPush ==
  ASSUME NEW way, NEW stack, NEW x, NEW Bottom, Chained(way, stack, x, Bottom), NEW y \in States, NEW g,
         GroupActs(way, g, y, x)
  PROVE  Chained(way, Append(stack, g), y, Bottom)
<1>1. PICK T : stack \in Seq(T)
  BY DEF Chained
<1>2. PICK S : ChainOf(way, stack, S, x) /\ S[0] \in Bottom
  BY DEF Chained
<1> DEFINE n == Len(stack)
           more == Append(stack, g)
           Z == [i \in 0..(n + 1) |-> IF i = n + 1 THEN y ELSE S[i]]
<1>3. n \in Nat /\ stack \in Seq(T \cup {g})
  BY <1>1
<1>4. /\ more \in Seq(T \cup {g}) /\ Len(more) = n + 1 /\ more[n + 1] = g
      /\ \A i \in 1..n : more[i] = stack[i]
  BY <1>3
<1>5. S \in [0..n -> States] /\ S[n] = x /\ \A i \in 1..n : GroupActs(way, stack[i], S[i], S[i - 1])
  BY <1>2 DEF ChainOf
<1>6. /\ Z \in [0..(n + 1) -> States] /\ Z[n + 1] = y
      /\ \A i \in 0..n : Z[i] = S[i]
  BY <1>3, <1>5
<1> HIDE DEF n, more, Z
<1>7. ASSUME NEW i \in 1..(n + 1)
      PROVE  GroupActs(way, more[i], Z[i], Z[i - 1])
  <2>1. CASE i = n + 1
    <3>1. i - 1 = n /\ n \in 0..n
      BY <1>3, <2>1
    <3> QED
      BY <1>4, <1>5, <1>6, <2>1, <3>1
  <2>2. CASE i # n + 1
    <3>1. i \in 1..n /\ i \in 0..n /\ i - 1 \in 0..n
      BY <1>3, <2>2
    <3> QED
      BY <1>4, <1>5, <1>6, <3>1
  <2> QED
    BY <2>1, <2>2
<1>8. ChainOf(way, more, Z, y)
  BY <1>4, <1>6, <1>7 DEF ChainOf
<1>9. Z[0] \in Bottom
  BY <1>2, <1>3, <1>6
<1> QED
  BY <1>4, <1>8, <1>9 DEF Chained, more

LEMMA ChainPop ==
  ASSUME NEW way, NEW stack, stack # <<>>, NEW x, NEW Bottom, Chained(way, stack, x, Bottom)
  PROVE  \E y \in States : /\ GroupActs(way, stack[Len(stack)], x, y)
                           /\ Chained(way, SubSeq(stack, 1, Len(stack) - 1), y, Bottom)
<1>1. PICK T : stack \in Seq(T)
  BY DEF Chained
<1>2. PICK S : ChainOf(way, stack, S, x) /\ S[0] \in Bottom
  BY DEF Chained
<1> DEFINE n == Len(stack)
           rest == SubSeq(stack, 1, n - 1)
           Z == [i \in 0..(n - 1) |-> S[i]]
           y == S[n - 1]
<1>3. n \in Nat /\ n # 0
  BY <1>1, EmptySeq
<1>4. rest \in Seq(T) /\ Len(rest) = n - 1 /\ \A i \in 1..(n - 1) : rest[i] = stack[i]
  <2>1. 1 \in 1..(n + 1) /\ n - 1 \in 0..n
    BY <1>3
  <2> QED
    BY <1>1, <2>1
<1>5. S \in [0..n -> States] /\ S[n] = x /\ \A i \in 1..n : GroupActs(way, stack[i], S[i], S[i - 1])
  BY <1>2 DEF ChainOf
<1>6. /\ Z \in [0..(n - 1) -> States] /\ Z[n - 1] = y /\ Z[0] = S[0] /\ y \in States
      /\ \A i \in 1..(n - 1) : Z[i] = S[i] /\ Z[i - 1] = S[i - 1] /\ i \in 1..n
  <2>1. 0..(n - 1) \subseteq 0..n /\ n - 1 \in 0..(n - 1) /\ 0 \in 0..(n - 1)
    BY <1>3
  <2>2. \A i \in 1..(n - 1) : i \in 0..(n - 1) /\ i - 1 \in 0..(n - 1) /\ i \in 1..n
    BY <1>3
  <2> HIDE DEF n
  <2> QED
    BY <1>5, <2>1, <2>2
<1>7. GroupActs(way, stack[n], x, y)
  BY <1>3, <1>5
<1> HIDE DEF n, rest, Z, y
<1>8. ChainOf(way, rest, Z, y)
  BY <1>4, <1>5, <1>6 DEF ChainOf
<1>9. Chained(way, rest, y, Bottom)
  BY <1>2, <1>4, <1>6, <1>8 DEF Chained
<1> QED
  BY <1>6, <1>7, <1>9 DEF n, rest

-------------------------------------------------------------------------------
(***************************************************************************)
(* The inductive invariant.                                                *)
(***************************************************************************)
(* What the stacks can start from: nothing but the loaded rows, and their  *)
(* values as long as no discard, whose old values may be stale, clears the *)
(* stacks.                                                                 *)
Start ==
  {x \in States :
     /\ x.rows = Len(Base)
     /\ "discard" \notin Commands /\ Shows => \A r \in Loaded : x.grid[r].values = Base[r]}

Now == StateOf(pending, tableRows)

UndoInv ==
  /\ InStep(pending, tableRows)
  /\ Chained("undo", undoStack, Now, Start)
  /\ Chained("redo", redoStack, Now, States)

LEMMA FitsIsIInv == IInv <=> Fits(pending, tableRows)
BY DEF IInv, Fits

(* An edit leaves the other updates, and the original row of its own.      *)
LEMMA EditedUpdatesAre ==
  ASSUME IInv, NEW row \in DOMAIN tableRows, NEW col \in EditColumns, NEW value \in EditValues,
         CellEdited(row, col, value), NEW c \in UpdatesOf(pending')
  PROVE  \/ c \in UpdatesOf(pending)
         \/ /\ c.rowIndex = row /\ row \in Loaded
            /\ \/ c.originalRow = tableRows[row].values
               \/ \E d \in UpdatesOf(pending) : d.rowIndex = row /\ c.originalRow = d.originalRow
<1> DEFINE shown == tableRows[row].values
<1>1. Indexed(pending)
  BY DEF IInv, Consistent
<1>2. CASE row \notin Loaded
  BY <1>2 DEF CellEdited, NewRowEdited, OnlyNewRows
<1>3. CASE row \in Loaded
  <2>1. EditRecorded(pending, pending', row, col, shown[col], value, shown)
    BY <1>3 DEF CellEdited
  <2> HIDE DEF shown
  <2>2. \/ c \in UpdatesOf(pending)
        \/ c.rowIndex = row /\ c.originalRow = UpdateOriginal(pending, row, shown)
    BY <1>1, <2>1, EditedUpdates
  <2>3. \/ UpdateOriginal(pending, row, shown) = shown
        \/ \E d \in UpdatesOf(pending) :
             d.rowIndex = row /\ UpdateOriginal(pending, row, shown) = d.originalRow
    BY <1>1, UpdateCellsAre DEF UpdateOriginal
  <2> QED
    BY <1>3, <2>2, <2>3 DEF shown
<1> QED
  BY <1>2, <1>3

LEMMA StepKeepsKeyed ==
  ASSUME Shows, IInv, KeysKept(pending, tableRows), UpdatesKeyed(pending), StepTaken
  PROVE  UpdatesKeyed(pending')
<1>1. ASSUME NEW row \in DOMAIN tableRows, NEW col \in EditColumns, NEW value \in EditValues,
             CellEdited(row, col, value)
      PROVE  UpdatesKeyed(pending')
  BY <1>1, EditedUpdatesAre DEF KeysKept, UpdatesKeyed
<1>2. ASSUME UpdatesOf(pending') \subseteq UpdatesOf(pending) PROVE UpdatesKeyed(pending')
  BY <1>2 DEF UpdatesKeyed
<1>3. ASSUME RowsInserted PROVE UpdatesKeyed(pending')
  BY <1>2, <1>3 DEF RowsInserted, OnlyNewRows
<1>4. ASSUME RowsDeleted PROVE UpdatesKeyed(pending')
  BY <1>2, <1>4 DEF RowsDeleted, OnlyNewRows, MoreDeleted
<1>5. ASSUME NEW row, DeletionUndone(row) PROVE UpdatesKeyed(pending')
  BY <1>2, <1>5 DEF DeletionUndone, RowDeletionUndone
<1>6. ASSUME Discarded PROVE UpdatesKeyed(pending')
  BY <1>2, <1>6, NothingRecorded DEF Discarded
<1>7. CASE UNCHANGED <<tableRows, pending>>
  BY <1>2, <1>7
<1> QED
  BY <1>1, <1>3, <1>4, <1>5, <1>6, <1>7 DEF StepTaken, Shows

LEMMA StepKeepsNotUpdated ==
  ASSUME Marks, IInv, DeletedNotUpdated(pending), StepTaken
  PROVE  DeletedNotUpdated(pending')
<1>1. ASSUME NEW row \in DOMAIN tableRows, NEW col \in EditColumns, NEW value \in EditValues,
             CellEdited(row, col, value)
      PROVE  DeletedNotUpdated(pending')
  <2>1. pending'.deletedRowIndices = pending.deletedRowIndices /\ row \notin pending.deletedRowIndices
    BY <1>1 DEF CellEdited, SameRowSets
  <2> QED
    BY <1>1, <2>1, EditedUpdatesAre DEF DeletedNotUpdated
<1>2. ASSUME RowsInserted PROVE DeletedNotUpdated(pending')
  BY <1>2 DEF RowsInserted, OnlyNewRows, DeletedNotUpdated
<1>3. ASSUME RowsDeleted PROVE DeletedNotUpdated(pending')
  BY <1>3 DEF RowsDeleted, OnlyNewRows, MoreDeleted, DeletedNotUpdated
<1>4. ASSUME Discarded PROVE DeletedNotUpdated(pending')
  BY <1>4, NothingRecorded DEF Discarded, DeletedNotUpdated
<1>5. CASE UNCHANGED <<tableRows, pending>>
  BY <1>5 DEF DeletedNotUpdated
<1> QED
  BY <1>1, <1>2, <1>3, <1>4, <1>5 DEF StepTaken, Shows, Marks

LEMMA CommandKeepsStep ==
  ASSUME "deleteNew" \notin Commands, InStep(pending, tableRows), UserCommand
  PROVE  InStep(pending', tableRows')
<1>1. IInv
  BY FitsIsIInv DEF InStep
<1>2. IInv' /\ StepTaken
  BY <1>1, CommandKeeps, CommandIsTaken
<1>3. Fits(pending', tableRows')
  BY <1>2 DEF IInv, Fits
<1>4. ASSUME Shows
      PROVE  ValuesMatch(pending', tableRows')
  <2>1. ValuesMatch(pending, tableRows)
    BY <1>4 DEF InStep
  <2>2. SoundCells(pending')
    BY <1>1, <1>2, <2>1, StepKeepsSound DEF ValuesMatch
  <2>3. ShownCells(pending', tableRows')
    BY <1>1, <1>2, <1>4, <2>1, StepKeepsShown DEF ValuesMatch, Shows
  <2>4. StoredValues(pending', tableRows')
    <3>1. Commands \cap {"sidebar", "deleteNew"} = {}
      BY <1>4 DEF Shows
    <3> QED
      BY <1>1, <1>2, <2>1, <3>1, StepKeepsStored DEF ValuesMatch
  <2>5. KeysFixed => KeysKept(pending', tableRows')
    BY <1>1, <1>2, <2>1, StepKeepsKeys DEF ValuesMatch, KeysFixed
  <2>6. KeysFixed => UpdatesKeyed(pending')
    BY <1>1, <1>2, <1>4, <2>1, StepKeepsKeyed DEF ValuesMatch
  <2>7. Marks => DeletedNotUpdated(pending')
    BY <1>1, <1>2, <2>1, StepKeepsNotUpdated DEF ValuesMatch
  <2> QED
    BY <2>2, <2>3, <2>4, <2>5, <2>6, <2>7 DEF ValuesMatch
<1> QED
  BY <1>3, <1>4 DEF InStep

-------------------------------------------------------------------------------
(***************************************************************************)
(* Every command registers a group that leads back.                        *)
(***************************************************************************)
Registers ==
  \E g : GroupActs("undo", g, Now', Now) /\ Register(g)

LEMMA NowIs ==
  ASSUME UserCommand, "deleteNew" \notin Commands, InStep(pending, tableRows)
  PROVE  Now' = StateOf(pending', tableRows') /\ Now' \in States
BY CommandKeepsStep, StateNow DEF Now

LEMMA CommitCellEditRegisters ==
  ASSUME InStep(pending, tableRows), NEW row \in DOMAIN tableRows, NEW col \in EditColumns,
         NEW value \in EditValues, CommitCellEdit(row, col, value)
  PROVE  Registers
<1> DEFINE shown == tableRows[row].values
           a == CellEdit(row, col, shown[col], value, shown)
           x == Now'
           y == Now
           before == EditCell(tableRows', row, col, shown[col])
<1>1. IInv /\ GridInv(tableRows)
  BY FitsIsIInv DEF InStep, Fits
<1>2. /\ shown \in FullRows /\ row \in 1..Len(tableRows) /\ col \in Columns /\ value \in Cells
      /\ DOMAIN tableRows = 1..Len(tableRows)
  BY <1>1, RowsFit, EditAssumption DEF Rows, FullRows
<1>3. shown[col] \in Cells
  BY <1>2 DEF FullRows
<1>4. /\ CellShown(row, col, value) /\ shown[col] # value
      /\ row \notin pending.deletedRowIndices /\ pending'.deletedRowIndices = pending.deletedRowIndices
  BY <1>1, CommitCellEditDoes DEF CellEdited, SameRowSets
<1>5. Register(<<a>>)
  BY DEF CommitCellEdit
<1>6. GridInv(tableRows')
  <2>1. IInv'
    BY <1>1, CommitCellEditStep
  <2> QED
    BY <2>1 DEF IInv
<1>7. Len(tableRows') = Len(tableRows) /\ DOMAIN tableRows' = DOMAIN tableRows
  BY <1>1, <1>4, <1>6, RowsFit DEF CellShown
<1>8. \A r \in 1..Len(tableRows) : r # row => tableRows'[r].values = tableRows[r].values
  BY <1>2, <1>4 DEF CellShown
<1>9. tableRows'[row].values = [shown EXCEPT ![col] = value]
  BY <1>4 DEF CellShown
<1>10. tableRows'[row].values[col] = value
  BY <1>2, <1>9 DEF FullRows
<1>11. before = tableRows
  <2>1. GridInv(before) /\ Len(before) = Len(tableRows) /\ RowEdited(tableRows', before, row, col, shown[col])
    BY <1>2, <1>3, <1>6, <1>7, EditCellKeepsGrid, EditCellEdits
  <2>2. before[row].values = shown
    <3>1. before[row].values = [tableRows'[row].values EXCEPT ![col] = shown[col]]
      BY <2>1 DEF RowEdited
    <3> HIDE DEF shown, before
    <3> QED
      BY <1>2, <1>9, <3>1 DEF FullRows
  <2>3. \A r \in 1..Len(tableRows) : r # row => before[r].values = tableRows[r].values
    BY <1>2, <1>7, <1>8, <2>1 DEF RowEdited
  <2> HIDE DEF before
  <2>4. \A r \in 1..Len(before) : before[r].values = tableRows[r].values
    BY <2>1, <2>2, <2>3
  <2> QED
    BY <1>1, <2>1, <2>4, GridEqual
<1>12. /\ x.rows = Len(tableRows) /\ y.rows = Len(tableRows) /\ y.deleted = x.deleted
       /\ Shows => x.grid = tableRows' /\ y.grid = tableRows
       /\ ~ Shows => y.grid = x.grid
       /\ Marks => x.deleted = pending.deletedRowIndices
  BY <1>4, <1>7 DEF Now, StateOf
<1>13. KeysFixed /\ Shows /\ row \in Loaded => SameKey(shown, row)
  BY DEF InStep, ValuesMatch, KeysKept
<1>14. /\ a.kind = "cellEdit" /\ a.rowIndex = row /\ a.columnIndex = col
       /\ a.previousValue = shown[col] /\ a.newValue = value /\ a.originalRow = shown
  BY DEF CellEdit
<1> HIDE DEF a, x, y, shown, before
<1>15. Shows => /\ x.grid[row].values[col] = value
                /\ y.grid = EditCell(x.grid, row, col, shown[col])
  BY <1>10, <1>11, <1>12 DEF before
<1>16. EditsCell(a, x, y)
  BY <1>2, <1>3, <1>4, <1>12, <1>13, <1>14, <1>15 DEF EditsCell
<1>17. GroupActs("undo", <<a>>, x, y)
  BY <1>16 DEF GroupActs, Acts
<1> QED
  BY <1>5, <1>17 DEF Registers, x, y

(* Without a value that the grid shows, an edit of any of its cells leads  *)
(* from the state to itself.                                               *)
LEMMA UnseenEdit ==
  ASSUME ~ Shows, NEW x \in States, NEW row \in 1..x.rows, NEW col \in EditColumns, NEW old \in Cells,
         NEW new \in Cells, NEW original \in FullRows
  PROVE  EditsCell(CellEdit(row, col, old, new, original), x, x)
BY DEF EditsCell, CellEdit, Marks

LEMMA SidebarEditRegisters ==
  ASSUME InStep(pending, tableRows), NEW selected \in Selections, NEW col \in EditColumns,
         NEW value \in EditValues, SidebarEdit(selected, col, value)
  PROVE  /\ Now' = Now
         /\ Registers \/ UNCHANGED <<undoStack, redoStack>>
<1> DEFINE n == Len(tableRows)
           shown(row) == tableRows[row].values
           original == IF \A i, j \in DOMAIN selected :
                            shown(selected[i])[col] = shown(selected[j])[col]
                       THEN shown(selected[1])[col] ELSE Null
           recording == {row \in DOMAIN tableRows : RecordsCellChange(pending, row, col, original, value)}
           recorded == KeepIn(recording, selected)
           edit(row) == CellEdit(row, col, original, value, shown(row))
           group == [i \in DOMAIN recorded |-> edit(recorded[i])]
           x == Now
<1>1. /\ IInv /\ GridInv(tableRows) /\ n \in Nat /\ DOMAIN tableRows = 1..n
      /\ x \in States /\ x.rows = n
  BY FitsIsIInv, RowsFit, StateNow DEF InStep, Fits, Now, StateOf
<1>2. Selection(1..n, selected)
  BY <1>1, SelectionsSelect
<1>3. col \in Columns /\ value \in Cells
  BY EditAssumption
<1>4. \A row \in 1..n : shown(row) \in FullRows
  BY <1>1, RowsFit
<1>5. original \in Cells
  <2>1. selected[1] \in 1..n
    BY <1>2 DEF Selection
  <2>2. shown(selected[1])[col] \in Cells /\ Null \in Cells
    BY <1>3, <1>4, <2>1 DEF Cells, FullRows
  <2> QED
    BY <2>2
<1>6. /\ tableRows' = tableRows /\ "sidebar" \in Commands
      /\ recorded = <<>> \/ Register(group)
      /\ recorded = <<>> => UNCHANGED <<undoStack, redoStack>>
  BY DEF SidebarEdit, Enabled
<1>7. ~ Shows /\ Now' = Now
  BY <1>6 DEF Shows, Marks, Now, StateOf
<1> HIDE DEF original, shown
<1>8. recorded = <<>> \/ Selection(1..n, recorded)
  <2>1. 1..n \in SUBSET Nat
    BY <1>1
  <2> HIDE DEF recording
  <2>2. recorded = <<>> \/ Selection((1..n) \cap recording, recorded)
    <3> HIDE DEF n
    <3> QED
      BY <1>2, <2>1, KeepInSelects
  <2> HIDE DEF recorded
  <2> QED
    BY <2>2 DEF Selection
<1> HIDE DEF recorded
<1>9. \A row \in 1..n : Acts("undo", edit(row), x, x)
  <2> HIDE DEF x
  <2> QED
    BY <1>1, <1>3, <1>4, <1>5, <1>7, UnseenEdit DEF Acts
<1> HIDE DEF edit, n
<1>10. CASE recorded = <<>>
  BY <1>6, <1>7, <1>10
<1>11. CASE \E a \in 1..n : recorded = <<a>>
  <2>1. PICK a \in 1..n : recorded = <<a>>
    BY <1>11
  <2>2. group = <<edit(a)>>
    BY <2>1
  <2>3. GroupActs("undo", group, x, x) /\ recorded # <<>>
    BY <1>9, <2>1, <2>2 DEF GroupActs
  <2> HIDE DEF group
  <2> QED
    BY <1>6, <1>7, <2>3 DEF Registers
<1>12. CASE \E a, b \in 1..n : b < a /\ recorded = <<a, b>>
  <2>1. PICK a \in 1..n, b \in 1..n : recorded = <<a, b>>
    BY <1>12
  <2>2. group = <<edit(a), edit(b)>>
    BY <2>1
  <2>3. Acts("undo", edit(b), x, x) /\ Acts("undo", edit(a), x, x)
    BY <1>9
  <2>4. GroupActs("undo", <<edit(a), edit(b)>>, x, x)
    BY <1>1, <1>7, <2>3 DEF GroupActs
  <2>5. GroupActs("undo", group, x, x) /\ recorded # <<>>
    BY <2>1, <2>2, <2>4
  <2> HIDE DEF group
  <2> QED
    BY <1>6, <1>7, <2>5 DEF Registers
<1> QED
  BY <1>8, <1>10, <1>11, <1>12 DEF Selection

LEMMA InsertRowsRegisters ==
  ASSUME InStep(pending, tableRows), NEW v \in FullRows, NEW values,
         values = <<v>> \/ values = <<v, v>>, InsertRows(values)
  PROVE  Registers
<1> DEFINE n == Len(tableRows)
           added == [k \in DOMAIN values |-> InsertedRow(values[k])]
           insertion(k) == RowInsertion(n + 1 + k - 1, NoValues)
           group == [k \in DOMAIN values |-> insertion(k)]
           x == Now'
           y == Now
           base == Len(Base)
<1>1. /\ IInv /\ GridInv(tableRows) /\ n \in Nat /\ base \in Nat /\ base <= n
      /\ DOMAIN tableRows = 1..n
  BY FitsIsIInv, RowsFit DEF InStep, Fits
<1>2. tableRows' = tableRows \o added /\ Register(group)
  BY DEF InsertRows
<1>3. v \in [Columns -> Cells]
  BY DEF FullRows
<1>4. RowsInserted /\ IInv'
  BY <1>1, <1>3, InsertRowsDoes, InsertRowsStep
<1>5. /\ y.rows = n /\ x.rows = Len(tableRows') /\ y.deleted = x.deleted
      /\ Shows => y.grid = tableRows /\ x.grid = tableRows'
      /\ ~ Shows => y.grid = x.grid /\ x.grid = <<>>
      /\ y.deleted \subseteq Loaded
  <2>1. pending'.deletedRowIndices = pending.deletedRowIndices
    BY <1>4 DEF RowsInserted
  <2>2. y \in States
    BY StateNow DEF Now
  <2>3. y.deleted \subseteq Loaded
    BY <2>2 DEF States
  <2> QED
    BY <2>1, <2>3 DEF Now, StateOf
<1> DEFINE grid == tableRows'
<1>6. /\ GridInv(grid)
      /\ \A r \in 1..n : grid[r].values = tableRows[r].values
  BY <1>1, <1>4 DEF IInv, RowsInserted
<1> HIDE DEF x, y, grid
<1>7. CASE values = <<v>>
  <2>1. added \in Seq(Rows) /\ Len(added) = 1 /\ \A k \in DOMAIN added : added[k].origin = 0
    BY <1>3, <1>7, NewRow
  <2>2. Len(tableRows') = n + 1
    <3> HIDE DEF added
    <3> QED
      BY <1>1, <1>2, <2>1, AppendKeepsGrid
  <2>3. group = <<RowInsertion(n + 1, NoValues)>>
    <3>1. n + 1 + 1 - 1 = n + 1
      BY <1>1
    <3>2. group = <<insertion(1)>>
      BY <1>7
    <3> QED
      BY <3>1, <3>2
  <2>4. RemoveRowAt(grid, n + 1) = tableRows
    BY <1>1, <1>6, <2>2, TailLeaves DEF grid
  <2> HIDE DEF n, group, base
  <2>5. Inserts("undo", RowInsertion(n + 1, NoValues), x, y)
    BY <1>1, <1>5, <2>2, <2>4 DEF Inserts, RowInsertion, base, grid
  <2>6. GroupActs("undo", group, x, y)
    BY <2>3, <2>5 DEF GroupActs, Acts
  <2> QED
    BY <1>2, <2>6 DEF Registers, x, y, group
<1>8. CASE values = <<v, v>>
  <2>1. added \in Seq(Rows) /\ Len(added) = 2 /\ \A k \in DOMAIN added : added[k].origin = 0
    BY <1>3, <1>8, NewRow
  <2>2. Len(tableRows') = n + 2
    <3> HIDE DEF added
    <3> QED
      BY <1>1, <1>2, <2>1, AppendKeepsGrid
  <2>3. group = <<RowInsertion(n + 1, NoValues), RowInsertion(n + 2, NoValues)>>
    <3>1. n + 1 + 1 - 1 = n + 1 /\ n + 1 + 2 - 1 = n + 2
      BY <1>1
    <3>2. group = <<insertion(1), insertion(2)>>
      BY <1>8
    <3> QED
      BY <3>1, <3>2
  <2> DEFINE mid == RemoveRowAt(grid, n + 2)
             m == [rows |-> n + 1, grid |-> IF Shows THEN mid ELSE <<>>, deleted |-> y.deleted]
  <2>4. /\ GridInv(mid) /\ Len(mid) = n + 1
        /\ \A r \in 1..n : mid[r].values = tableRows[r].values
    <3>1. Len(grid) = n + 2 /\ base < Len(grid) /\ Len(grid) - 1 = n + 1 /\ 1..n \subseteq 1..(n + 1)
      BY <1>1, <2>2 DEF grid
    <3>2. GridInv(mid) /\ Len(mid) = n + 1 /\ \A r \in 1..(n + 1) : mid[r] = grid[r]
      BY <1>6, <3>1, LastRowLeaves
    <3> HIDE DEF mid, n
    <3> QED
      BY <1>6, <3>1, <3>2
  <2>5. RemoveRowAt(mid, n + 1) = tableRows
    <3> HIDE DEF mid
    <3> QED
      BY <1>1, <2>4, TailLeaves
  <2>6. mid \in Seq(Rows)
    BY <2>4 DEF GridInv
  <2> HIDE DEF mid
  <2>7. /\ m \in States /\ m.rows = n + 1 /\ m.deleted = y.deleted
        /\ Shows => m.grid = mid
        /\ ~ Shows => m.grid = <<>>
    BY <1>1, <1>5, <2>4, <2>6 DEF States
  <2> HIDE DEF n, group, base, m
  <2>8. Inserts("undo", RowInsertion(n + 2, NoValues), x, m)
    BY <1>1, <1>5, <2>2, <2>7 DEF Inserts, RowInsertion, base, grid, mid
  <2>9. Inserts("undo", RowInsertion(n + 1, NoValues), m, y)
    BY <1>1, <1>5, <2>5, <2>7 DEF Inserts, RowInsertion, base
  <2>10. /\ RowInsertion(n + 1, NoValues).kind = "rowInsertion"
         /\ RowInsertion(n + 2, NoValues).kind = "rowInsertion"
    BY DEF RowInsertion
  <2>11. GroupActs("undo", group, x, y)
    BY <2>3, <2>7, <2>8, <2>9, <2>10 DEF GroupActs, Acts
  <2> QED
    BY <1>2, <2>11 DEF Registers, x, y, group
<1> QED
  BY <1>7, <1>8

LEMMA RowCommandsRegister ==
  ASSUME InStep(pending, tableRows)
  PROVE  /\ AddNewRow => Registers
         /\ \A source \in DOMAIN tableRows : DuplicateRow(source) => Registers
         /\ \A value \in EditValues : PasteRows(value) => Registers
<1>1. ASSUME AddNewRow
      PROVE  Registers
  <2> DEFINE v == [c \in Columns |-> IF c \in DefaultColumns THEN Default ELSE Null]
  <2>1. v \in FullRows /\ InsertRows(<<v>>)
    BY <1>1 DEF AddNewRow, Cells, FullRows
  <2> HIDE DEF v
  <2> QED
    BY <2>1, InsertRowsRegisters
<1>2. ASSUME NEW source \in DOMAIN tableRows, DuplicateRow(source)
      PROVE  Registers
  <2> DEFINE v == [c \in Columns |-> IF c \in PrimaryKeyColumns THEN Default
                                      ELSE tableRows[source].values[c]]
  <2>1. tableRows[source].values \in [Columns -> Cells]
    BY GridRow DEF InStep, Fits
  <2>2. v \in FullRows /\ InsertRows(<<v>>)
    BY <1>2, <2>1 DEF DuplicateRow, Cells, FullRows
  <2> HIDE DEF v
  <2> QED
    BY <2>2, InsertRowsRegisters
<1>3. ASSUME NEW value \in EditValues, PasteRows(value)
      PROVE  Registers
  <2> DEFINE first(c) == c \in PrimaryKeyColumns /\ \A k \in PrimaryKeyColumns : c <= k
             v == [c \in Columns |-> IF first(c) THEN Default ELSE value]
  <2>1. v \in FullRows /\ InsertRows(<<v, v>>)
    BY <1>3, EditAssumption DEF PasteRows, Cells, FullRows
  <2> HIDE DEF v
  <2> QED
    BY <2>1, InsertRowsRegisters
<1> QED
  BY <1>1, <1>2, <1>3

LEMMA DeleteSelectedRowsRegisters ==
  ASSUME "deleteNew" \notin Commands, InStep(pending, tableRows), NEW selected \in Selections,
         DeleteSelectedRows(selected)
  PROVE  Registers
<1> DEFINE new == KeepIn(pending.insertedRowIndices, selected)
           candidates == DOMAIN tableRows \ (pending.insertedRowIndices \cup pending.deletedRowIndices)
           existing == KeepIn(candidates, selected)
           item(r) == [row |-> r, original |-> tableRows[r].values]
           deleted == [i \in DOMAIN existing |-> item(existing[i])]
           group == (IF new = <<>> THEN <<>>
                     ELSE <<BatchRowInsertion([i \in DOMAIN new |->
                              [row |-> new[i], values |-> SavedCellValues(pending, new[i])]])>>)
                      \o (IF existing = <<>> THEN <<>> ELSE <<RowDeletion(deleted)>>)
           x == Now'
           y == Now
           marked == pending.deletedRowIndices
<1>1. /\ IInv /\ GridInv(tableRows) /\ DOMAIN tableRows \in SUBSET Nat
      /\ DOMAIN tableRows = 1..Len(tableRows) /\ NewRowsLast(pending, Len(Base), Len(tableRows))
      /\ Loaded = 1..Len(Base)
  BY FitsIsIInv, RowsFit DEF InStep, Fits, Loaded
<1>2. /\ tableRows' = ForEach(RemoveRowAt, tableRows, new)
      /\ new # <<>> \/ existing # <<>>
      /\ new # <<>> => "deleteNew" \in Commands
      /\ Register(group)
  BY DEF DeleteSelectedRows, Enabled
<1>3. new = <<>> /\ existing # <<>>
  BY <1>2
<1>4. tableRows' = tableRows
  <2> HIDE DEF new
  <2> QED
    BY <1>2, <1>3 DEF ForEach
<1>5. Register(<<RowDeletion(deleted)>>)
  <2>1. group = <<>> \o <<RowDeletion(deleted)>>
    BY <1>3
  <2> HIDE DEF group, deleted
  <2>2. group = <<RowDeletion(deleted)>>
    BY <2>1, EmptyEnds
  <2> QED
    BY <1>2, <2>2
<1>6. candidates \subseteq Loaded \ marked
  BY <1>1, BaseLength DEF NewRowsLast
<1>7. Selection(Loaded \ marked, existing)
  <2>1. Selection(DOMAIN tableRows, selected)
    BY <1>1, SelectionsSelect
  <2> HIDE DEF candidates
  <2>2. existing = <<>> \/ Selection((DOMAIN tableRows) \cap candidates, existing)
    BY <1>1, <2>1, KeepInSelects
  <2> HIDE DEF existing
  <2> QED
    BY <1>3, <1>6, <2>2 DEF Selection
<1>8. ASSUME NEW r \in Loaded
      PROVE  Deletable(item(r))
  <2>1. tableRows[r].values \in FullRows
    BY <1>1, <1>8, RowsFit
  <2>2. ASSUME KeysFixed, Shows
        PROVE  SameKey(tableRows[r].values, r)
    BY <1>8, <2>2 DEF InStep, ValuesMatch, KeysKept
  <2> QED
    BY <1>8, <2>1, <2>2 DEF Deletable
<1>9. pending' = ForEach(DeletedAgain, pending, deleted)
  BY <1>3 DEF DeleteSelectedRows, DeletedAgain
<1> HIDE DEF existing, new, candidates, item
<1> DEFINE a == RowDeletion(deleted)
<1>10. Deletion(a) /\ Named(a) \subseteq Loaded \ marked
  <2> DEFINE C == Loaded \ marked
  <2>1. CASE \E r \in C : existing = <<r>>
    <3>1. PICK r \in C : existing = <<r>>
      BY <2>1
    <3>2. deleted = <<item(r)>>
      BY <3>1
    <3>3. Deletable(item(r)) /\ item(r).row = r
      BY <1>8, <3>1 DEF item
    <3> HIDE DEF deleted
    <3> QED
      BY <3>1, <3>2, <3>3 DEF Deletion, Named, RowDeletion
  <2>2. CASE \E r, q \in C : q < r /\ existing = <<r, q>>
    <3>1. PICK r \in C, q \in C : existing = <<r, q>>
      BY <2>2
    <3>2. deleted = <<item(r), item(q)>>
      BY <3>1
    <3>3. Deletable(item(r)) /\ item(r).row = r /\ Deletable(item(q)) /\ item(q).row = q
      BY <1>8, <3>1 DEF item
    <3> HIDE DEF deleted
    <3> QED
      BY <3>1, <3>2, <3>3 DEF Deletion, Named, RowDeletion
  <2> QED
    BY <1>7, <2>1, <2>2 DEF Selection
<1>11. a.rows = deleted
  BY DEF RowDeletion
<1> HIDE DEF a, deleted
<1>12. pending'.deletedRowIndices = marked \cup Named(a)
  BY <1>9, <1>10, <1>11, DeletionDoes
<1>13. /\ x.rows = y.rows /\ y.grid = x.grid
       /\ ~ Marks => y.deleted = x.deleted
       /\ Marks => y.deleted = marked /\ x.deleted = marked \cup Named(a)
  BY <1>4, <1>12 DEF Now, StateOf
<1> HIDE DEF x, y, marked
<1>14. Deletes("undo", a, x, y)
  BY <1>10, <1>13 DEF Deletes
<1>15. GroupActs("undo", <<a>>, x, y)
  BY <1>14 DEF GroupActs, Acts
<1> QED
  BY <1>5, <1>15 DEF Registers, a, x, y

(* After a discard the grid is one that the stacks can start from.         *)
LEMMA HandleDiscardStarts ==
  ASSUME InStep(pending, tableRows), HandleDiscard
  PROVE  /\ Now' \in Start
         /\ undoStack' = <<>> /\ redoStack' = <<>>
<1>1. IInv
  BY FitsIsIInv DEF InStep
<1>2. GridInv(tableRows')
  BY <1>1, HandleDiscardStep DEF IInv
<1>3. tableRows' = [k \in 1..Len(Base) |-> RestoredRow(k)]
  BY <1>1, HandleDiscardDoes
<1>4. Len(tableRows') = Len(Base)
  BY <1>3, BaseLength
<1>5. "discard" \in Commands /\ undoStack' = <<>> /\ redoStack' = <<>>
  BY DEF HandleDiscard, Enabled
<1>6. pending'.deletedRowIndices = {}
  BY NothingRecorded DEF HandleDiscard
<1>7. Len(Base) \in Nat /\ tableRows' \in Seq(Rows) /\ <<>> \in Seq(Rows)
  BY <1>2, BaseLength DEF GridInv
<1>8. Now' \in States
  BY <1>2, <1>4, <1>6, <1>7 DEF Now, StateOf, States
<1> QED
  BY <1>4, <1>5, <1>8 DEF Start, Now, StateOf

LEMMA CommandRegisters ==
  ASSUME "deleteNew" \notin Commands, InStep(pending, tableRows), UserCommand
  PROVE  \/ Registers
         \/ Now' = Now /\ UNCHANGED <<undoStack, redoStack>>
         \/ Now' \in Start /\ undoStack' = <<>> /\ redoStack' = <<>>
<1>1. ASSUME NEW row \in DOMAIN tableRows, NEW col \in EditColumns, NEW value \in EditValues,
             CommitCellEdit(row, col, value)
      PROVE  Registers
  BY <1>1, CommitCellEditRegisters
<1>2. ASSUME NEW selected \in Selections, NEW col \in EditColumns, NEW value \in EditValues,
             SidebarEdit(selected, col, value)
      PROVE  Registers \/ (Now' = Now /\ UNCHANGED <<undoStack, redoStack>>)
  BY <1>2, SidebarEditRegisters
<1>3. ASSUME AddNewRow PROVE Registers
  BY <1>3, RowCommandsRegister
<1>4. ASSUME NEW source \in DOMAIN tableRows, DuplicateRow(source) PROVE Registers
  BY <1>4, RowCommandsRegister
<1>5. ASSUME NEW value \in EditValues, PasteRows(value) PROVE Registers
  BY <1>5, RowCommandsRegister
<1>6. ASSUME NEW selected \in Selections, DeleteSelectedRows(selected) PROVE Registers
  BY <1>6, DeleteSelectedRowsRegisters
<1>7. ASSUME NEW row \in pending.deletedRowIndices, UndoDeleteRow(row)
      PROVE  Now' = Now /\ UNCHANGED <<undoStack, redoStack>>
  BY <1>7 DEF UndoDeleteRow, Enabled, Now, StateOf, Marks
<1>8. ASSUME HandleDiscard
      PROVE  Now' \in Start /\ undoStack' = <<>> /\ redoStack' = <<>>
  BY <1>8, HandleDiscardStarts
<1> QED
  BY <1>1, <1>2, <1>3, <1>4, <1>5, <1>6, <1>7, <1>8 DEF UserCommand

-------------------------------------------------------------------------------
(***************************************************************************)
(* Every step keeps the invariant.                                         *)
(***************************************************************************)
LEMMA StartStates == Start \subseteq States
BY DEF Start

LEMMA CommandKeepsUndo ==
  ASSUME "deleteNew" \notin Commands, UndoInv, UserCommand
  PROVE  UndoInv'
<1>1. InStep(pending, tableRows) /\ InStep(pending', tableRows')
  BY CommandKeepsStep DEF UndoInv
<1>2. Now' \in States
  BY <1>1, NowIs
<1>3. CASE Registers
  <2>1. PICK g : GroupActs("undo", g, Now', Now) /\ Register(g)
    BY <1>3 DEF Registers
  <2>2. undoStack' = Append(undoStack, g) /\ redoStack' = <<>>
    BY <2>1 DEF Register
  <2>3. Chained("undo", undoStack', Now', Start)
    BY <1>2, <2>1, <2>2, ChainPush DEF UndoInv
  <2>4. Chained("redo", redoStack', Now', States)
    BY <1>2, <2>2, EmptyChain
  <2> QED
    BY <1>1, <2>3, <2>4 DEF UndoInv
<1>4. CASE Now' = Now /\ UNCHANGED <<undoStack, redoStack>>
  <2>1. /\ Chained("undo", undoStack', Now', Start)
        /\ Chained("redo", redoStack', Now', States)
    BY <1>4 DEF UndoInv
  <2> QED
    BY <1>1, <2>1 DEF UndoInv
<1>5. CASE Now' \in Start /\ undoStack' = <<>> /\ redoStack' = <<>>
  <2>1. /\ Chained("undo", undoStack', Now', Start)
        /\ Chained("redo", redoStack', Now', States)
    BY <1>2, <1>5, EmptyChain, StartStates
  <2> QED
    BY <1>1, <2>1 DEF UndoInv
<1> QED
  BY <1>1, <1>3, <1>4, <1>5, CommandRegisters

LEMMA UndoKeepsUndo ==
  ASSUME UndoInv, Undo
  PROVE  UndoInv'
<1> DEFINE g == undoStack[Len(undoStack)]
           t == ApplyGroup(tableRows, pending, g)
<1>1. /\ undoStack # <<>>
      /\ tableRows' = t.rows /\ pending' = t.pending
      /\ undoStack' = SubSeq(undoStack, 1, Len(undoStack) - 1)
      /\ redoStack' = Append(redoStack, t.registered)
  BY DEF Undo
<1>2. PICK y \in States : GroupActs("undo", g, Now, y) /\ Chained("undo", undoStack', y, Start)
  BY <1>1, ChainPop DEF UndoInv
<1> HIDE DEF g
<1>3. /\ InStep(t.pending, t.rows) /\ StateOf(t.pending, t.rows) = y
      /\ GroupActs("redo", t.registered, y, Now)
  BY <1>2, GroupReplayed DEF UndoInv, Back, Now
<1> HIDE DEF t
<1>4. Now' = y /\ InStep(pending', tableRows')
  BY <1>1, <1>3 DEF Now
<1>5. Chained("redo", redoStack', y, States)
  BY <1>1, <1>2, <1>3, ChainPush DEF UndoInv
<1> QED
  BY <1>2, <1>4, <1>5 DEF UndoInv

LEMMA RedoKeepsUndo ==
  ASSUME UndoInv, Redo
  PROVE  UndoInv'
<1> DEFINE g == redoStack[Len(redoStack)]
           t == ApplyGroup(tableRows, pending, g)
<1>1. /\ redoStack # <<>>
      /\ tableRows' = t.rows /\ pending' = t.pending
      /\ redoStack' = SubSeq(redoStack, 1, Len(redoStack) - 1)
      /\ undoStack' = Append(undoStack, t.registered)
  BY DEF Redo
<1>2. PICK y \in States : GroupActs("redo", g, Now, y) /\ Chained("redo", redoStack', y, States)
  BY <1>1, ChainPop DEF UndoInv
<1> HIDE DEF g
<1>3. /\ InStep(t.pending, t.rows) /\ StateOf(t.pending, t.rows) = y
      /\ GroupActs("undo", t.registered, y, Now)
  BY <1>2, GroupReplayed DEF UndoInv, Back, Now
<1> HIDE DEF t
<1>4. Now' = y /\ InStep(pending', tableRows')
  BY <1>1, <1>3 DEF Now
<1>5. Chained("undo", undoStack', y, Start)
  BY <1>1, <1>2, <1>3, ChainPush DEF UndoInv
<1> QED
  BY <1>2, <1>4, <1>5 DEF UndoInv

LEMMA InitIsUndoable == Init => UndoInv
<1> SUFFICES ASSUME Init
             PROVE  UndoInv
  OBVIOUS
<1>1. IInv
  BY InitIInv
<1>2. /\ pending = EmptyPending /\ DOMAIN tableRows = Loaded
      /\ \A r \in Loaded : tableRows[r] = ExistingRow(r)
      /\ undoStack = <<>> /\ redoStack = <<>>
  BY InitRecordsNothing DEF Init
<1>3. \A r \in Loaded : tableRows[r].values = Base[r] /\ Base[r] \in FullRows
  BY <1>2, BaseRows DEF ExistingRow, FullRows
<1>4. ValuesMatch(pending, tableRows)
  <2>1. SoundCells(pending) /\ ShownCells(pending, tableRows)
    BY <1>2, NothingRecorded DEF SoundCells, ShownCells
  <2>2. StoredValues(pending, tableRows)
    BY <1>2 DEF StoredValues
  <2>3. KeysKept(pending, tableRows) /\ UpdatesKeyed(pending) /\ DeletedNotUpdated(pending)
    BY <1>2, <1>3, NothingRecorded DEF KeysKept, SameKey, UpdatesKeyed, DeletedNotUpdated
  <2> QED
    BY <2>1, <2>2, <2>3 DEF ValuesMatch
<1>5. InStep(pending, tableRows)
  BY <1>1, <1>4, FitsIsIInv DEF InStep
<1>6. Now \in States
  BY <1>5, StateNow DEF Now
<1>7. Now \in Start
  <2>1. Len(tableRows) = Len(Base)
    BY <1>1, <1>2, RowsFit, BaseLength DEF Loaded, IInv
  <2>2. Shows => \A r \in Loaded : Now.grid[r].values = Base[r]
    BY <1>3 DEF Now, StateOf
  <2>3. Now.rows = Len(tableRows)
    BY DEF Now, StateOf
  <2> QED
    BY <1>6, <2>1, <2>2, <2>3 DEF Start
<1>8. Chained("undo", undoStack, Now, Start) /\ Chained("redo", redoStack, Now, States)
  BY <1>2, <1>6, <1>7, EmptyChain, StartStates
<1> QED
  BY <1>5, <1>8 DEF UndoInv

LEMMA NextKeepsUndo ==
  ASSUME "deleteNew" \notin Commands, UndoInv, [Next]_vars
  PROVE  UndoInv'
<1>1. CASE UNCHANGED vars
  <2>1. /\ pending' = pending /\ tableRows' = tableRows
        /\ undoStack' = undoStack /\ redoStack' = redoStack
    BY <1>1 DEF vars
  <2> QED
    BY <2>1 DEF UndoInv, Now
<1> QED
  BY <1>1, NextIsCommand, CommandKeepsUndo, UndoKeepsUndo, RedoKeepsUndo

LEMMA SpecKeepsUndo ==
  ASSUME "deleteNew" \notin Commands
  PROVE  Spec => []UndoInv
<1>1. Init => UndoInv
  BY InitIsUndoable
<1>2. UndoInv /\ [Next]_vars => UndoInv'
  BY NextKeepsUndo
<1> QED
  BY <1>1, <1>2, PTL DEF Spec

-------------------------------------------------------------------------------
(***************************************************************************)
(* The theorems about pending changes.  A deletion of new rows together    *)
(* with undo is left out of them: it renumbers the rows that the groups on *)
(* the stacks name, and breaks these properties (see README).              *)
(***************************************************************************)
UndoFits == ~ {"undo", "deleteNew"} \subseteq Commands

(* Besides, the inspector must not edit what undo replays.                 *)
UndoShows == "undo" \notin Commands \/ Commands \cap {"sidebar", "deleteNew"} = {}

LEMMA SpecKeepsFit ==
  ASSUME UndoFits
  PROVE  Spec => []IInv
<1>1. "undo" \notin Commands \/ "deleteNew" \notin Commands
  BY DEF UndoFits
<1>2. UndoInv => IInv
  BY FitsIsIInv DEF UndoInv, InStep
<1>3. ASSUME "deleteNew" \notin Commands
      PROVE  Spec => []IInv
  BY <1>2, <1>3, SpecKeepsUndo, PTL
<1> QED
  BY <1>1, <1>3, SpecKeepsIInv

LEMMA SpecKeepsValues ==
  ASSUME Commands \cap {"sidebar", "deleteNew"} = {}
  PROVE  Spec => [](IInv /\ ValuesMatch(pending, tableRows))
<1>1. Shows /\ "deleteNew" \notin Commands
  BY DEF Shows
<1>2. UndoInv => IInv /\ ValuesMatch(pending, tableRows)
  BY <1>1, FitsIsIInv DEF UndoInv, InStep
<1> QED
  BY <1>1, <1>2, SpecKeepsUndo, PTL

(* In every reachable state the grid and the pending changes are well      *)
(* formed and every row number recorded in PendingChanges is a row of the  *)
(* grid, undone and redone edits included.                                 *)
THEOREM TypesCorrect ==
  ASSUME UndoFits
  PROVE  Spec => []TypeOK
BY SpecKeepsFit, IInvTypeOK, PTL

(* The changeIndex of PendingChanges finds every change at its position,   *)
(* through appends, swap-removes and renumberings, and through the replays *)
(* of undo and redo.                                                       *)
THEOREM ChangeIndexIsExact ==
  ASSUME UndoFits
  PROVE  Spec => []ChangeIndexExact
BY SpecKeepsFit, IInvImplies, PTL

(* deletedRowIndices and insertedRowIndices are the rows of the recorded   *)
(* deletions and insertions, so what the grid marks is what a save does.   *)
THEOREM MarksAlwaysMatchChanges ==
  ASSUME UndoFits
  PROVE  Spec => []MarksMatchChanges
BY SpecKeepsFit, IInvImplies, PTL

(* modifiedCells is the columns of the recorded updates, and no recorded   *)
(* update is empty.                                                        *)
THEOREM ModifiedAlwaysMatchesUpdates ==
  ASSUME UndoFits
  PROVE  Spec => []ModifiedMatchesUpdates
BY SpecKeepsFit, IInvImplies, PTL

(* The new rows are the rows after the loaded ones, in the grid and in the *)
(* pending changes, and no update or deletion is recorded for a new row.   *)
THEOREM NewRowsAlwaysFollowLoaded ==
  ASSUME UndoFits
  PROVE  Spec => []NewRowsFollowLoaded
BY SpecKeepsFit, IInvImplies, PTL

(* The statements of a save come inserts first, then updates, then         *)
(* deletes, and no two are the same kind of statement for the same row:    *)
(* generateStatements sends no change twice.                               *)
THEOREM EachIsSentOnceInOrder ==
  ASSUME UndoFits
  PROVE  Spec => []EachSentOnceInOrder
BY SpecKeepsFit, SaveSendsInOrder, PTL

(* No UPDATE writes back the value it replaces, whatever the user edits,   *)
(* undoes and redoes, and in what order: an edit back to the first value   *)
(* takes the cell, and the update when it was the last one, out of the     *)
(* changes (recordCellChange, revertUpdateCell).                           *)
THEOREM NoUpdateIsIdle ==
  ASSUME UndoShows
  PROVE  Spec => []NoIdleUpdate
<1>1. ASSUME Commands \cap {"sidebar", "deleteNew"} = {}
      PROVE  Spec => []NoIdleUpdate
  <2>1. IInv /\ ValuesMatch(pending, tableRows) => NoIdleUpdate
    BY SoundIsNotIdle DEF ValuesMatch
  <2> QED
    BY <1>1, <2>1, SpecKeepsValues, PTL
<1>2. ASSUME "undo" \notin Commands
      PROVE  Spec => []NoIdleUpdate
  BY <1>2, SpecKeepsSound, SoundIsNotIdle, PTL
<1> QED
  BY <1>1, <1>2 DEF UndoShows

(* An UPDATE writes the values the grid shows, when cells are edited in    *)
(* the grid: the inspector records a change without showing it.  Undo and  *)
(* redo change the grid and the recorded update alike.                     *)
THEOREM UpdatesWriteTheShown ==
  ASSUME UndoFits, "sidebar" \notin Commands
  PROVE  Spec => []UpdatesWriteWhatIsShown
<1>1. ASSUME "deleteNew" \notin Commands
      PROVE  Spec => []UpdatesWriteWhatIsShown
  <2>1. IInv /\ ValuesMatch(pending, tableRows) => UpdatesWriteWhatIsShown
    BY ShownIsWritten DEF ValuesMatch
  <2>2. Commands \cap {"sidebar", "deleteNew"} = {}
    BY <1>1
  <2> QED
    BY <2>1, <2>2, SpecKeepsValues, PTL
<1>2. ASSUME "undo" \notin Commands
      PROVE  Spec => []UpdatesWriteWhatIsShown
  <2>1. Commands \cap {"undo", "sidebar"} = {}
    BY <1>2
  <2> QED
    BY <2>1, SpecKeepsShown, ShownIsWritten, PTL
<1> QED
  BY <1>1, <1>2 DEF UndoFits

(* A DELETE picks the row the user deleted by what the database holds, as  *)
(* long as no column its WHERE clause compares is edited: the original row *)
(* recorded with a deletion is what the grid shows then, edits included    *)
(* (recordRowDeletion), and a redone deletion records it again.            *)
THEOREM DeletesPickTheRightRow ==
  ASSUME UndoShows, KeyColumns \cap EditColumns = {}
  PROVE  Spec => []DeletesPickTheRow
<1>1. ASSUME Commands \cap {"sidebar", "deleteNew"} = {}
      PROVE  Spec => []DeletesPickTheRow
  <2>1. IInv /\ ValuesMatch(pending, tableRows) => DeletesPickTheRow
    BY KeysPick DEF ValuesMatch, KeysFixed
  <2> QED
    BY <1>1, <2>1, SpecKeepsValues, PTL
<1>2. ASSUME "undo" \notin Commands
      PROVE  Spec => []DeletesPickTheRow
  BY <1>2, SpecKeepsKeys, KeysPick, PTL
<1> QED
  BY <1>1, <1>2 DEF UndoShows

(* A save sends one INSERT for each new row with a value, with the values  *)
(* the grid shows in it: the stored values of a new row are what the grid  *)
(* shows, through edits, deletions of loaded rows and discards, and when   *)
(* the row is taken out by undo and put back by redo.  The inspector edits *)
(* a row without showing it, and deleting new rows leaves stored values    *)
(* under the old numbers of the rows after them.                           *)
THEOREM InsertsWriteTheNewRows ==
  ASSUME Commands \cap {"sidebar", "deleteNew"} = {}
  PROVE  Spec => []InsertsAreTheNewRows
<1>1. IInv /\ ValuesMatch(pending, tableRows) => InsertsAreTheNewRows
  BY StoredAreInserted DEF ValuesMatch
<1> QED
  BY <1>1, SpecKeepsValues, PTL

(* When everything is undone the grid shows the database again: no row     *)
(* more, and every value as it was loaded, whatever was edited, added,     *)
(* deleted, undone and redone on the way.                                  *)
THEOREM UndoingAllShowsTheDatabase ==
  ASSUME Commands \cap {"sidebar", "discard", "deleteNew"} = {}
  PROVE  Spec => []UndoAllShowsDatabase
<1>1. Shows /\ "deleteNew" \notin Commands /\ "discard" \notin Commands
  BY DEF Shows
<1>2. ASSUME UndoInv, undoStack = <<>>
      PROVE  tableRows = [i \in DOMAIN Base |-> ExistingRow(i)]
  <2>1. Now \in Start /\ GridInv(tableRows)
    BY <1>2, ChainTop DEF UndoInv, InStep, Fits
  <2>2. Len(tableRows) = Len(Base)
    BY <2>1 DEF Start, Now, StateOf
  <2>3. \A r \in Loaded : tableRows[r].values = Base[r]
    BY <1>1, <2>1 DEF Start, Now, StateOf
  <2>4. tableRows \in Seq(Rows) /\ DOMAIN tableRows = Loaded /\ DOMAIN Base = Loaded
    BY <2>1, <2>2, RowsFit, BaseLength DEF Loaded
  <2>5. \A r \in Loaded : tableRows[r] \in Rows /\ tableRows[r].origin = r
    BY <2>1, <2>2, <2>4 DEF GridInv, Loaded
  <2>6. \A r \in Loaded : tableRows[r] = ExistingRow(r)
    BY <2>3, <2>5 DEF Rows, ExistingRow
  <2> QED
    BY <2>4, <2>6
<1>3. UndoInv => UndoAllShowsDatabase
  BY <1>2 DEF UndoAllShowsDatabase
<1> QED
  BY <1>1, <1>3, SpecKeepsUndo, PTL

(* Redo takes back what undo did: the grid shows what it showed, and a     *)
(* save sends what it would have sent.  That is so when one column is      *)
(* edited: of two edited cells in a row, undo and redo of the second leave *)
(* it out of the update, for revertUpdateCell finds the update of the      *)
(* first and nothing to do in it.  The keys must not be edited, nor marks  *)
(* of deletion taken back by the context menu, which registers no undo.    *)
THEOREM RedoAlwaysTakesBackUndo ==
  ASSUME Commands \cap {"sidebar", "deleteNew", "undoDelete"} = {},
         KeyColumns \cap EditColumns = {},
         \A c, d \in EditColumns : c = d
  PROVE  Spec => []RedoTakesBackUndo
<1>1. OneColumn /\ KeysFixed /\ Marks /\ Shows /\ "deleteNew" \notin Commands
  BY DEF OneColumn, KeysFixed, Marks, Shows
<1>2. ASSUME UndoInv, undoStack # <<>>
      PROVE  LET undone == ApplyGroup(tableRows, pending, Last(undoStack))
                 redone == ApplyGroup(undone.rows, undone.pending, undone.registered)
             IN  redone.rows = tableRows /\ SentFor(redone.pending) = SentFor(pending)
  <2> DEFINE g == undoStack[Len(undoStack)]
             undone == ApplyGroup(tableRows, pending, g)
             redone == ApplyGroup(undone.rows, undone.pending, undone.registered)
  <2>1. InStep(pending, tableRows) /\ Last(undoStack) = g
    BY <1>2 DEF UndoInv, Last
  <2>2. PICK y \in States : GroupActs("undo", g, Now, y)
    BY <1>2, ChainPop DEF UndoInv
  <2> HIDE DEF g
  <2>3. /\ InStep(redone.pending, redone.rows)
        /\ StateOf(redone.pending, redone.rows) = Now
        /\ RowsOf(redone.pending, "update") = RowsOf(pending, "update")
    BY <1>1, <2>1, <2>2, GroupRedone DEF Now
  <2> HIDE DEF redone
  <2>4. redone.rows = tableRows /\ redone.pending.deletedRowIndices = pending.deletedRowIndices
    BY <1>1, <2>3 DEF Now, StateOf
  <2>5. SameSave(pending, redone.pending, tableRows)
    BY <2>1, <2>3, <2>4 DEF SameSave
  <2>6. SentFor(redone.pending) = SentFor(pending)
    BY <1>1, <2>5, SameSent
  <2> QED
    BY <2>1, <2>4, <2>6 DEF redone
<1>3. UndoInv => RedoTakesBackUndo
  BY <1>2 DEF RedoTakesBackUndo
<1> QED
  BY <1>1, <1>3, SpecKeepsUndo, PTL
===============================================================================
