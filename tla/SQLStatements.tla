---------------------------- MODULE SQLStatements -----------------------------
(***************************************************************************)
(* SQLStatementGenerator: what a save sends to the database for a          *)
(* PendingChanges value.  A statement is a record; which columns it sets,  *)
(* to what, and which database row its WHERE clause picks is modelled, the *)
(* text, the quoting and the placeholders are not.  The field row says     *)
(* which change a statement comes from and is not part of the SQL.         *)
(***************************************************************************)
EXTENDS PendingChanges

CONSTANT PrimaryKeyColumns  \* empty for a table without a primary key

ASSUME PrimaryKeyAssumption == PrimaryKeyColumns \subseteq Columns

InsertInto(row, values) == [op |-> "INSERT", row |-> row, set |-> values]

UpdateRow(row, values, condition) ==
  [op |-> "UPDATE", row |-> row, set |-> values, where |-> condition]

DeleteRow(row, condition) == [op |-> "DELETE", row |-> row, where |-> condition]

(* Mutant: every column is compared, whatever the primary key.             *)
WhereAll(original) == [c \in Columns |-> original[c]]

(* The WHERE clause: the primary key, or every column when there is none.  *)
Where(original) ==
  [c \in (IF PrimaryKeyColumns # {} THEN PrimaryKeyColumns ELSE Columns) |-> original[c]]

(* Columns set to the marker are left to the database.                     *)
InsertedValues(p, c) ==
  LET values == IF c.rowIndex \in DOMAIN p.insertedRowData
                THEN p.insertedRowData[c.rowIndex]
                ELSE [col \in DOMAIN c.cellChanges |-> c.cellChanges[col].newValue]
  IN  [col \in {k \in DOMAIN values : values[k] # Default} |-> values[col]]

(* Each of the three gives a sequence of at most one statement.            *)
GenerateInsertSQL(p, c) ==
  IF c.rowIndex \in p.insertedRowIndices /\ DOMAIN InsertedValues(p, c) # {}
  THEN <<InsertInto(c.rowIndex, InsertedValues(p, c))>>
  ELSE <<>>

(* No UPDATE when a primary key value is NULL.                             *)
GenerateUpdateSQL(c) ==
  IF DOMAIN c.cellChanges # {} /\ \A k \in PrimaryKeyColumns : c.originalRow[k] # Null
  THEN <<UpdateRow(c.rowIndex,
                   [col \in DOMAIN c.cellChanges |-> c.cellChanges[col].newValue],
                   Where(c.originalRow))>>
  ELSE <<>>

(* The batched DELETE of a table with a primary key is the disjunction of  *)
(* the rows' conditions: one record per row stands for either form.        *)
GenerateDeleteSQL(p, c) ==
  IF c.rowIndex \in p.deletedRowIndices
  THEN <<DeleteRow(c.rowIndex, Where(c.originalRow))>>
  ELSE <<>>

(* Mutant: statements are sent in the order of the changes.                *)
GenerateStatementsInPlace(p) ==
  LET upTo[n \in 0..Len(p.changes)] ==
        IF n = 0 THEN <<>>
        ELSE upTo[n - 1] \o CASE p.changes[n].type = "insert" -> GenerateInsertSQL(p, p.changes[n])
                              [] p.changes[n].type = "update" -> GenerateUpdateSQL(p.changes[n])
                              [] p.changes[n].type = "delete" -> GenerateDeleteSQL(p, p.changes[n])
  IN  upTo[Len(p.changes)]

NoStatements == [inserts |-> <<>>, updates |-> <<>>, deletes |-> <<>>]

(* The statement of one more change goes to the statements of its type.    *)
WithStatementOf(p, before, c) ==
  CASE c.type = "insert" -> [before EXCEPT !.inserts = @ \o GenerateInsertSQL(p, c)]
    [] c.type = "update" -> [before EXCEPT !.updates = @ \o GenerateUpdateSQL(c)]
    [] c.type = "delete" -> [before EXCEPT !.deletes = @ \o GenerateDeleteSQL(p, c)]

(* Inserts in the order of the changes, then updates, then deletes.        *)
GenerateStatements(p) ==
  LET upTo[n \in 0..Len(p.changes)] ==
        IF n = 0 THEN NoStatements ELSE WithStatementOf(p, upTo[n - 1], p.changes[n])
      all == upTo[Len(p.changes)]
  IN  all.inserts \o all.updates \o all.deletes
===============================================================================
