---------------------------- MODULE PendingChanges ----------------------------
(***************************************************************************)
(* The value type PendingChanges: every uncommitted edit to one result     *)
(* set.  A value of it is a record p with the fields of the Swift struct:  *)
(*                                                                         *)
(*   changes             the array of RowChange, in recording order        *)
(*   changeIndex         <<row, type>> -> position in changes              *)
(*   deletedRowIndices   the rows marked deleted                           *)
(*   insertedRowIndices  the rows marked inserted                          *)
(*   modifiedCells       row -> set of edited columns                      *)
(*   insertedRowData     row -> the values an INSERT will send             *)
(*                                                                         *)
(* Each mutating method of the struct is an operator that returns the new  *)
(* value.  Rows and columns count from 1 here and from 0 in Swift.  The    *)
(* cell changes of one RowChange, an array with one entry per column, are  *)
(* a function from the column to its old and new value: the order of the   *)
(* columns inside one SET list is not told apart.                          *)
(*                                                                         *)
(* Batch methods take a sequence of one or two rows (MaxBatch), in the     *)
(* order the callers build it, which is descending.                        *)
(***************************************************************************)
EXTENDS Integers, Sequences, FiniteSets

CONSTANTS
  NumColumns,   \* columns of the result set
  Null,         \* SQL NULL (a nil String)
  Default,      \* the "__DEFAULT__" marker
  NoValues      \* nil where an array of values is optional

ASSUME NumColumnsAssumption == NumColumns \in Nat \ {0}

Columns == 1..NumColumns

MaxBatch == 2

(***************************************************************************)
(* Partial functions: dictionary assignment and removal.                   *)
(***************************************************************************)
Put(f, k, v) == [x \in DOMAIN f \cup {k} |-> IF x = k THEN v ELSE f[x]]

Without(f, k) == [x \in DOMAIN f \ {k} |-> f[x]]

EmptyMap == [x \in {} |-> x]

EmptyPending ==
  [ changes            |-> <<>>,
    changeIndex        |-> EmptyMap,
    deletedRowIndices  |-> {},
    insertedRowIndices |-> {},
    modifiedCells      |-> EmptyMap,
    insertedRowData    |-> EmptyMap ]

RowChange(row, type, cells, original) ==
  [rowIndex |-> row, type |-> type, cellChanges |-> cells, originalRow |-> original]

CellChange(old, new) == [oldValue |-> old, newValue |-> new]

Key(c) == <<c.rowIndex, c.type>>

HasChange(p, row, type) == <<row, type>> \in DOMAIN p.changeIndex

(* change(forRow:type:) *)
ChangeFor(p, row, type) == p.changes[p.changeIndex[<<row, type>>]]

-------------------------------------------------------------------------------
(***************************************************************************)
(* The array and its index.                                                *)
(***************************************************************************)
AppendChange(p, c) ==
  [p EXCEPT !.changes = Append(@, c),
            !.changeIndex = Put(@, Key(c), Len(p.changes) + 1)]

(* Mutant: the index entry of the change that moved is not repaired.       *)
RemoveChangeAtKeepsIndex(p, i) ==
  LET last == Len(p.changes)
  IN  [p EXCEPT
        !.changes = [j \in 1..(last - 1) |->
                       IF j = i THEN p.changes[last] ELSE p.changes[j]],
        !.changeIndex = Without(@, Key(p.changes[i]))]

(* Swap the change with the last one, drop the last position, and repair   *)
(* the index entry of the change that moved.                               *)
RemoveChangeAt(p, i) ==
  LET last == Len(p.changes)
      rest == Without(p.changeIndex, Key(p.changes[i]))
  IN  [p EXCEPT
        !.changes = [j \in 1..(last - 1) |->
                       IF j = i THEN p.changes[last] ELSE p.changes[j]],
        !.changeIndex = IF i = last THEN rest ELSE Put(rest, Key(p.changes[last]), i)]

RemoveChange(p, row, type) ==
  IF HasChange(p, row, type)
  THEN RemoveChangeAt(p, p.changeIndex[<<row, type>>])
  ELSE p

LastPositionOf(changes, k) ==
  CHOOSE i \in DOMAIN changes :
    /\ Key(changes[i]) = k
    /\ \A j \in DOMAIN changes : Key(changes[j]) = k => j <= i

RebuildChangeIndex(p) ==
  [p EXCEPT !.changeIndex = [k \in {Key(p.changes[i]) : i \in DOMAIN p.changes} |->
                               LastPositionOf(p.changes, k)]]

-------------------------------------------------------------------------------
(***************************************************************************)
(* Cells of an update and of an insert.                                    *)
(***************************************************************************)
MarkCell(modified, row, col) ==
  Put(modified, row, IF row \in DOMAIN modified THEN modified[row] \cup {col} ELSE {col})

(* Mutant: the entry of a row without modified cells is left behind.       *)
UnmarkCellKeepsRow(modified, row, col) ==
  IF row \in DOMAIN modified THEN [modified EXCEPT ![row] = @ \ {col}] ELSE modified

UnmarkCell(modified, row, col) ==
  IF row \notin DOMAIN modified THEN modified
  ELSE IF modified[row] \ {col} = {} THEN Without(modified, row)
  ELSE [modified EXCEPT ![row] = @ \ {col}]

(* A cell is back at its database value: forget the cell, and the whole    *)
(* update once no cell of the row is left.                                 *)
DropCell(p, i, col) ==
  LET cells == Without(p.changes[i].cellChanges, col)
      q == [p EXCEPT !.changes[i].cellChanges = cells,
                     !.modifiedCells = UnmarkCell(@, p.changes[i].rowIndex, col)]
  IN  IF DOMAIN cells = {} THEN RemoveChangeAt(q, i) ELSE q

(* Mutant: a cell that is back at its first value stays an update.         *)
MergeUpdateCellNeverCollapses(p, i, col, old, new) ==
  LET cells == p.changes[i].cellChanges
      first == IF col \in DOMAIN cells THEN cells[col].oldValue ELSE old
  IN  [p EXCEPT !.changes[i].cellChanges = Put(@, col, CellChange(first, new)),
                !.modifiedCells = MarkCell(@, p.changes[i].rowIndex, col)]

(* Mutant: a later edit replaces the remembered old value.                 *)
MergeUpdateCellForgetsFirst(p, i, col, old, new) ==
  LET cells == p.changes[i].cellChanges
  IN  IF col \in DOMAIN cells /\ cells[col].oldValue = new
      THEN DropCell(p, i, col)
      ELSE [p EXCEPT !.changes[i].cellChanges = Put(@, col, CellChange(old, new)),
                     !.modifiedCells = MarkCell(@, p.changes[i].rowIndex, col)]

(* The first recorded oldValue of a cell is kept through later edits.      *)
MergeUpdateCell(p, i, col, old, new) ==
  LET cells == p.changes[i].cellChanges
  IN  IF col \in DOMAIN cells
      THEN IF cells[col].oldValue = new
           THEN DropCell(p, i, col)
           ELSE [p EXCEPT !.changes[i].cellChanges =
                            Put(@, col, CellChange(cells[col].oldValue, new))]
      ELSE [p EXCEPT !.changes[i].cellChanges = Put(@, col, CellChange(old, new)),
                     !.modifiedCells = MarkCell(@, p.changes[i].rowIndex, col)]

(* Mutant: the stored values of the new row are not edited.                *)
UpdateInsertedCellSkipsData(p, i, col, new) ==
  [p EXCEPT !.changes[i].cellChanges = Put(@, col, CellChange(Null, new))]

(* An edit of a new row goes into the stored values, if they reach the     *)
(* column, and into the cell changes of the insert.                        *)
UpdateInsertedCell(p, i, col, new) ==
  LET row  == p.changes[i].rowIndex
      data == p.insertedRowData
  IN  [p EXCEPT
        !.insertedRowData =
           IF row \in DOMAIN data /\ col <= Len(data[row])
           THEN [data EXCEPT ![row] = [@ EXCEPT ![col] = new]]
           ELSE data,
        !.changes[i].cellChanges = Put(@, col, CellChange(Null, new))]

(* The common tail of recordCellChange and reapplyCellChange.              *)
ApplyCellChange(p, row, col, old, new, original) ==
  IF HasChange(p, row, "insert")
  THEN UpdateInsertedCell(p, p.changeIndex[<<row, "insert">>], col, new)
  ELSE IF HasChange(p, row, "update")
  THEN MergeUpdateCell(p, p.changeIndex[<<row, "update">>], col, old, new)
  ELSE [AppendChange(p, RowChange(row, "update", Put(EmptyMap, col, CellChange(old, new)), original))
          EXCEPT !.modifiedCells = MarkCell(@, row, col)]

-------------------------------------------------------------------------------
(***************************************************************************)
(* Recording the user's edits.                                             *)
(***************************************************************************)
MatchesOriginal(p, row, col, value) ==
  /\ HasChange(p, row, "update")
  /\ col \in DOMAIN ChangeFor(p, row, "update").cellChanges
  /\ ChangeFor(p, row, "update").cellChanges[col].oldValue = value

(* The Boolean that recordCellChange returns: whether to register undo.    *)
RecordsCellChange(p, row, col, old, new) ==
  old = new => MatchesOriginal(p, row, col, new)

RecordCellChange(p, row, col, old, new, original) ==
  IF old # new THEN ApplyCellChange(p, row, col, old, new, original)
  ELSE IF MatchesOriginal(p, row, col, new)
  THEN DropCell(p, p.changeIndex[<<row, "update">>], col)
  ELSE p

(* Mutant: the cells of a deleted row stay marked as modified.             *)
RecordRowDeletionKeepsCells(p, row, original) ==
  IF row \in p.deletedRowIndices THEN p
  ELSE AppendChange([RemoveChange(p, row, "update") EXCEPT !.deletedRowIndices = @ \cup {row}],
                    RowChange(row, "delete", EmptyMap, original))

(* recordRowDeletion and reapplyRowDeletion have the same body.            *)
RecordRowDeletion(p, row, original) ==
  IF row \in p.deletedRowIndices THEN p
  ELSE LET q == RemoveChange(p, row, "update")
       IN  AppendChange(
             [q EXCEPT !.modifiedCells = Without(@, row),
                       !.deletedRowIndices = @ \cup {row}],
             RowChange(row, "delete", EmptyMap, original))

RecordRowInsertion(p, row, values) ==
  LET q == [p EXCEPT !.insertedRowData = Put(@, row, values)]
  IN  IF row \in p.insertedRowIndices THEN q
      ELSE AppendChange([q EXCEPT !.insertedRowIndices = @ \cup {row}],
                        RowChange(row, "insert", EmptyMap, NoValues))

-------------------------------------------------------------------------------
(***************************************************************************)
(* Row numbers when rows are put in or taken out.                          *)
(***************************************************************************)
AtRow(c, row) == [c EXCEPT !.rowIndex = row]

Up(point, row)     == IF row >= point THEN row + 1 ELSE row
Down(removed, row) == IF row > removed THEN row - 1 ELSE row

ShiftUp(p, point) ==
  RebuildChangeIndex(
    [p EXCEPT
       !.changes = [i \in DOMAIN @ |-> AtRow(@[i], Up(point, @[i].rowIndex))],
       !.insertedRowIndices = {Up(point, r) : r \in @},
       !.deletedRowIndices  = {Up(point, r) : r \in @},
       !.insertedRowData = [r \in {Up(point, k) : k \in DOMAIN @} |-> @[Down(point, r)]],
       !.modifiedCells   = [r \in {Up(point, k) : k \in DOMAIN @} |-> @[Down(point, r)]]])

(* deletedRowIndices is left alone, as in the source.                      *)
ShiftDown(p, removed) ==
  RebuildChangeIndex(
    [p EXCEPT
       !.changes = [i \in DOMAIN @ |-> AtRow(@[i], Down(removed, @[i].rowIndex))],
       !.insertedRowIndices = {Down(removed, r) : r \in @},
       !.insertedRowData =
          [r \in {Down(removed, k) : k \in DOMAIN @} |-> @[Up(removed, r)]],
       !.modifiedCells =
          [r \in {Down(removed, k) : k \in DOMAIN @ \ {removed}} |-> @[Up(removed, r)]]])

(* Take out the insert change, the mark and the stored values of a row.    *)
ForgetInsertion(p, row) ==
  [RemoveChange(p, row, "insert") EXCEPT
     !.insertedRowIndices = @ \ {row},
     !.insertedRowData = Without(@, row)]

(* Mutant: the row stays marked as deleted.                                *)
UndoRowDeletionKeepsMark(p, row) == RemoveChange(p, row, "delete")

UndoRowDeletion(p, row) ==
  IF row \notin p.deletedRowIndices THEN p
  ELSE [RemoveChange(p, row, "delete") EXCEPT !.deletedRowIndices = @ \ {row}]

UndoRowInsertion(p, row) ==
  IF row \notin p.insertedRowIndices THEN p ELSE ShiftDown(ForgetInsertion(p, row), row)

(* Do op for every row of a batch, in order.                               *)
ForEach(op(_, _), p, batch) ==
  IF Len(batch) = 0 THEN p
  ELSE IF Len(batch) = 1 THEN op(p, batch[1])
  ELSE op(op(p, batch[1]), batch[2])

(* The rows of a batch that are in S, in the same order.                   *)
KeepIn(S, batch) ==
  LET one(i) == IF batch[i] \in S THEN <<batch[i]>> ELSE <<>>
  IN  IF Len(batch) = 0 THEN <<>>
      ELSE IF Len(batch) = 1 THEN one(1)
      ELSE one(1) \o one(2)

(* Mutant: the comparison is the wrong way round.                          *)
CountGreaterThan(row, batch) == Cardinality({i \in DOMAIN batch : batch[i] > row})

CountLessThan(row, batch) == Cardinality({i \in DOMAIN batch : batch[i] < row})

(* Removes the batch, then renumbers changes and insertedRowIndices only:  *)
(* insertedRowData, modifiedCells and deletedRowIndices keep their keys.   *)
UndoBatchRowInsertion(p, batch) ==
  LET valid == KeepIn(p.insertedRowIndices, batch)
      q == ForEach(ForgetInsertion, p, valid)
      shifted(row) == row - CountLessThan(row, valid)
  IN  RebuildChangeIndex(
        [q EXCEPT
           !.changes = [i \in DOMAIN @ |-> AtRow(@[i], shifted(@[i].rowIndex))],
           !.insertedRowIndices = {shifted(r) : r \in @}])

(* The values undoBatchRowInsertion returns for one row: the new values of *)
(* the insert's cell changes, in column order, without the columns that    *)
(* were never edited.                                                      *)
SavedCellValues(p, row) ==
  LET cells == ChangeFor(p, row, "insert").cellChanges
      nth(k) == CHOOSE c \in DOMAIN cells :
                  Cardinality({d \in DOMAIN cells : d <= c}) = k
  IN  IF HasChange(p, row, "insert")
      THEN [k \in 1..Cardinality(DOMAIN cells) |-> cells[nth(k)].newValue]
      ELSE [c \in Columns |-> Null]

-------------------------------------------------------------------------------
(***************************************************************************)
(* Replay, driven by the undo manager.                                     *)
(***************************************************************************)
(* Mutant: only a return to the first value is carried out.                *)
RevertUpdateCellOnlyDrops(p, row, col, previous) ==
  IF MatchesOriginal(p, row, col, previous)
  THEN DropCell(p, p.changeIndex[<<row, "update">>], col)
  ELSE p

RevertUpdateCell(p, row, col, previous) ==
  LET i == p.changeIndex[<<row, "update">>]
      old == p.changes[i].cellChanges[col].oldValue
  IN  IF ~ HasChange(p, row, "update") THEN p
      ELSE IF col \notin DOMAIN p.changes[i].cellChanges THEN p
      ELSE IF previous = old THEN DropCell(p, i, col)
      ELSE [p EXCEPT !.changes[i].cellChanges = Put(@, col, CellChange(old, previous))]

(* The cell changes of an insert that is put back with a value per column. *)
CellsOf(values) == [c \in DOMAIN values |-> CellChange(Null, values[c])]

(* Mutant: the row is not marked as inserted.                              *)
ReinsertRowUnmarked(p, row, saved) ==
  AppendChange(ShiftUp(p, row),
               RowChange(row, "insert",
                         CellsOf(IF saved # NoValues THEN saved ELSE [c \in Columns |-> Null]),
                         NoValues))

ReinsertRow(p, row, saved) ==
  LET q == ShiftUp(p, row)
      cells == [c \in Columns |->
                  CellChange(Null, IF saved # NoValues /\ c <= Len(saved) THEN saved[c] ELSE Null)]
  IN  AppendChange(
        [q EXCEPT !.insertedRowIndices = @ \cup {row},
                  !.insertedRowData = IF saved # NoValues THEN Put(@, row, saved) ELSE @],
        RowChange(row, "insert", cells, NoValues))

(* Append one insert of a batch that is put back.                          *)
AppendReinserted(p, item) ==
  [p EXCEPT !.changes = Append(@, RowChange(item.row, "insert", CellsOf(item.values), NoValues)),
            !.insertedRowIndices = @ \cup {item.row},
            !.insertedRowData = Put(@, item.row, item.values)]

Reversed(batch) == [i \in DOMAIN batch |-> batch[Len(batch) + 1 - i]]

(* Rows are opened in ascending order, then filled in the reverse of the   *)
(* order they were given in, and the index is rebuilt.                     *)
ReinsertBatch(p, batch) ==
  LET ascending == Reversed(batch)
      opened == ForEach(LAMBDA q, item : ShiftUp(q, item.row), p, ascending)
  IN  RebuildChangeIndex(ForEach(AppendReinserted, opened, Reversed(batch)))

RestoreInsertedValues(p, row, values) ==
  [p EXCEPT !.insertedRowData = Put(@, row, values)]

===============================================================================
