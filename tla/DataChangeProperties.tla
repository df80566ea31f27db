------------------------- MODULE DataChangeProperties -------------------------
(***************************************************************************)
(* What change tracking promises, stated over the grid, the pending        *)
(* changes, the undo manager and the generated statements.                 *)
(***************************************************************************)
EXTENDS DataChangeManager

Loaded == 1..Len(Base)

ChangesOf(p) == {p.changes[i] : i \in DOMAIN p.changes}

RowsOf(p, type) == {c.rowIndex : c \in {d \in ChangesOf(p) : d.type = type}}

Updated(row) == ChangeFor(pending, row, "update").cellChanges

-------------------------------------------------------------------------------
(***************************************************************************)
(* Consistency of the collections of PendingChanges, whatever the user     *)
(* does (PendingChanges.swift:5-8).                                        *)
(***************************************************************************)
IndexExact(p) ==
  /\ DOMAIN p.changeIndex = {Key(c) : c \in ChangesOf(p)}
  /\ \A i \in DOMAIN p.changes : p.changeIndex[Key(p.changes[i])] = i

MarksMatch(p) ==
  /\ p.deletedRowIndices = RowsOf(p, "delete")
  /\ p.insertedRowIndices = RowsOf(p, "insert")

ModifiedMatches(p) ==
  /\ DOMAIN p.modifiedCells = RowsOf(p, "update")
  /\ \A c \in ChangesOf(p) :
       c.type = "update" => /\ p.modifiedCells[c.rowIndex] = DOMAIN c.cellChanges
                            /\ DOMAIN c.cellChanges # {}

(* The index finds every change where it is and nothing else: no two       *)
(* changes have the same row and type, and no entry is left behind by a    *)
(* swap-remove or a renumbering.                                           *)
ChangeIndexExact == IndexExact(pending)

(* The row marks of the grid are exactly the rows that a save will delete  *)
(* and insert.                                                             *)
MarksMatchChanges == MarksMatch(pending)

(* A cell is shown as modified exactly when a save will write it.          *)
ModifiedMatchesUpdates == ModifiedMatches(pending)

(* New rows are the rows after the loaded ones, and only those: no order   *)
(* of edits, deletions, undo and redo gives an UPDATE or a DELETE the      *)
(* number of a new row, or an INSERT the number of a loaded one.           *)
NewRowsFollowLoaded ==
  /\ pending.insertedRowIndices = (Len(Base) + 1)..Len(tableRows)
  /\ RowsOf(pending, "update") \cup RowsOf(pending, "delete") \subseteq Loaded
  /\ \A row \in DOMAIN tableRows : tableRows[row].origin = IF row \in Loaded THEN row ELSE 0

(* No UPDATE is sent that writes back the value it replaces.               *)
NoIdleUpdate ==
  \A row \in RowsOf(pending, "update") : \A col \in DOMAIN Updated(row) :
    Updated(row)[col].oldValue # Updated(row)[col].newValue

(* An UPDATE writes what the grid shows.                                   *)
UpdatesWriteWhatIsShown ==
  \A row \in RowsOf(pending, "update") : \A col \in DOMAIN Updated(row) :
    Updated(row)[col].newValue = tableRows[row].values[col]

-------------------------------------------------------------------------------
(***************************************************************************)
(* What a save sends.                                                      *)
(***************************************************************************)
Statements == GenerateStatements(pending)

Sent(op) == {Statements[i] : i \in {j \in DOMAIN Statements : Statements[j].op = op}}

ChangedColumns(row) == {c \in Columns : tableRows[row].values[c] # Base[row][c]}

(* One UPDATE for every loaded row the grid shows differently from the     *)
(* database, not deleted, that sets the columns that differ to what is     *)
(* shown and picks the row by what the database holds; and no other.       *)
UpdatesAreTheDifference ==
  Sent("UPDATE") =
    {UpdateRow(row, [c \in ChangedColumns(row) |-> tableRows[row].values[c]], Where(Base[row])) :
       row \in {r \in Loaded \ pending.deletedRowIndices : ChangedColumns(r) # {}}}

(* One INSERT per new row, with every value the grid shows in it except    *)
(* the ones left to the database's default.                                *)
InsertsAreTheNewRows ==
  Sent("INSERT") =
    {InsertInto(row, [c \in {k \in Columns : tableRows[row].values[k] # Default} |->
                        tableRows[row].values[c]]) :
       row \in {r \in DOMAIN tableRows \ Loaded :
                  \E k \in Columns : tableRows[r].values[k] # Default}}

(* A DELETE picks a row by what the database holds.                        *)
DeletesPickTheRow ==
  Sent("DELETE") = {DeleteRow(row, Where(Base[row])) : row \in pending.deletedRowIndices}

(* Inserts are sent before updates, updates before deletes, each change at *)
(* most once.                                                              *)
Rank(op) == CASE op = "INSERT" -> 1 [] op = "UPDATE" -> 2 [] op = "DELETE" -> 3

EachSentOnceInOrder ==
  \A i, j \in DOMAIN Statements :
    i < j => /\ Rank(Statements[i].op) <= Rank(Statements[j].op)
             /\ <<Statements[i].op, Statements[i].row>> # <<Statements[j].op, Statements[j].row>>

-------------------------------------------------------------------------------
(***************************************************************************)
(* Undo, redo and discard.                                                 *)
(***************************************************************************)
Pristine ==
  /\ tableRows = [i \in DOMAIN Base |-> ExistingRow(i)]
  /\ pending.changes = <<>>

(* With everything undone, the grid shows the database.                    *)
UndoAllShowsDatabase == undoStack = <<>> => tableRows = [i \in DOMAIN Base |-> ExistingRow(i)]

SentFor(p) == LET all == GenerateStatements(p) IN {all[i] : i \in DOMAIN all}

(* Redo takes back what undo did: the grid and the statements to send are  *)
(* what they were.                                                         *)
RedoTakesBackUndo ==
  undoStack # <<>> =>
    LET undone == ApplyGroup(tableRows, pending, Last(undoStack))
        redone == ApplyGroup(undone.rows, undone.pending, undone.registered)
    IN  /\ redone.rows = tableRows
        /\ SentFor(redone.pending) = SentFor(pending)

(* Discard leaves the grid as it was loaded.                               *)
DiscardRestores == [][pending.changes # <<>> /\ undoStack' = <<>> /\ redoStack' = <<>>
                        => Pristine']_vars

===============================================================================
