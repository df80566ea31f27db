--------------------------- MODULE DataChangeProofs ----------------------------
(***************************************************************************)
(* Proofs about change tracking.  The lemmas follow the operators of       *)
(* PendingChanges: each says what an operator does to the set of changes   *)
(* and that it keeps the index exact.                                      *)
(***************************************************************************)
EXTENDS DataChangeProperties, FiniteSetTheorems, SequenceTheorems, TLAPS

Kinds == {"insert", "update", "delete"}

Pendings ==
  [ changes            : Seq(RowChanges),
    changeIndex        : UNION {[keys -> Nat] : keys \in SUBSET (Nat \X Kinds)},
    deletedRowIndices  : SUBSET Nat,
    insertedRowIndices : SUBSET Nat,
    modifiedCells      : UNION {[rows -> SUBSET Columns] : rows \in SUBSET Nat},
    insertedRowData    : UNION {[rows -> Seq(Cells)] : rows \in SUBSET Nat} ]

(* A value whose array and index agree.                                    *)
Indexed(p) == p \in Pendings /\ IndexExact(p)

(* No two changes have the same key.                                       *)
LEMMA DistinctKeys ==
  ASSUME NEW p, Indexed(p), NEW i \in DOMAIN p.changes, NEW j \in DOMAIN p.changes,
         Key(p.changes[i]) = Key(p.changes[j])
  PROVE  i = j
BY DEF Indexed, IndexExact

(* HasChange answers for the set of changes.                               *)
LEMMA HasChangeFinds ==
  ASSUME NEW p, Indexed(p), NEW row, NEW type
  PROVE  /\ HasChange(p, row, type) <=> row \in RowsOf(p, type)
         /\ HasChange(p, row, type) =>
              LET i == p.changeIndex[<<row, type>>]
              IN  /\ i \in DOMAIN p.changes
                  /\ p.changes[i] \in RowChanges
                  /\ p.changes[i].rowIndex = row
                  /\ p.changes[i].type = type
<1>1. ASSUME HasChange(p, row, type)
      PROVE  \E i \in DOMAIN p.changes : Key(p.changes[i]) = <<row, type>>
  BY <1>1 DEF HasChange, Indexed, IndexExact, ChangesOf
<1>2. \A i \in DOMAIN p.changes : p.changes[i] \in RowChanges
  BY DEF Indexed, Pendings
<1>3. ASSUME HasChange(p, row, type)
      PROVE  LET i == p.changeIndex[<<row, type>>]
             IN  /\ i \in DOMAIN p.changes
                 /\ p.changes[i] \in RowChanges
                 /\ p.changes[i].rowIndex = row
                 /\ p.changes[i].type = type
  <2>1. PICK i \in DOMAIN p.changes : Key(p.changes[i]) = <<row, type>>
    BY <1>1, <1>3
  <2>2. p.changeIndex[<<row, type>>] = i
    BY <2>1 DEF Indexed, IndexExact
  <2> QED
    BY <1>2, <2>1, <2>2 DEF Key
<1>4. HasChange(p, row, type) => row \in RowsOf(p, type)
  BY <1>3 DEF RowsOf, ChangesOf
<1>5. ASSUME row \in RowsOf(p, type)
      PROVE  HasChange(p, row, type)
  BY <1>5 DEF RowsOf, ChangesOf, HasChange, Indexed, IndexExact, Key
<1> QED
  BY <1>3, <1>4, <1>5

-------------------------------------------------------------------------------
(***************************************************************************)
(* The array and its index.                                                *)
(***************************************************************************)

(* Everything but the array and its index is the same.                     *)
SameMarks(p, q) ==
  /\ q.deletedRowIndices = p.deletedRowIndices
  /\ q.insertedRowIndices = p.insertedRowIndices
  /\ q.modifiedCells = p.modifiedCells
  /\ q.insertedRowData = p.insertedRowData

LEMMA AppendChangeAdds ==
  ASSUME NEW p, Indexed(p), NEW c \in RowChanges, ~ HasChange(p, c.rowIndex, c.type)
  PROVE  LET q == AppendChange(p, c)
         IN  Indexed(q) /\ ChangesOf(q) = ChangesOf(p) \cup {c} /\ SameMarks(p, q)
<1> DEFINE q == AppendChange(p, c)
           n == Len(p.changes)
<1>1. p.changes \in Seq(RowChanges) /\ n \in Nat /\ DOMAIN p.changes = 1..n
  BY DEF Indexed, Pendings
<1>2. q.changes = Append(p.changes, c) /\ q.changeIndex = Put(p.changeIndex, Key(c), n + 1)
  BY DEF AppendChange, Indexed, Pendings
<1>3. SameMarks(p, q)
  BY DEF AppendChange, Indexed, Pendings, SameMarks
<1>4. /\ DOMAIN q.changes = 1..(n + 1)
      /\ \A i \in 1..n : q.changes[i] = p.changes[i]
      /\ q.changes[n + 1] = c
  BY <1>1, <1>2
<1>5. ChangesOf(q) = ChangesOf(p) \cup {c}
  BY <1>1, <1>4 DEF ChangesOf
<1>6. Key(c) = <<c.rowIndex, c.type>> /\ Key(c) \notin DOMAIN p.changeIndex
  BY DEF HasChange, Key
<1>7. IndexExact(q)
  <2>1. DOMAIN q.changeIndex = {Key(d) : d \in ChangesOf(q)}
    BY <1>2, <1>5 DEF Put, Indexed, IndexExact
  <2>2. ASSUME NEW i \in DOMAIN q.changes
        PROVE  q.changeIndex[Key(q.changes[i])] = i
    <3>1. CASE i = n + 1
      BY <1>2, <1>4, <3>1 DEF Put
    <3>2. CASE i \in 1..n
      <4>1. Key(p.changes[i]) \in DOMAIN p.changeIndex /\ p.changeIndex[Key(p.changes[i])] = i
        BY <1>1, <3>2 DEF Indexed, IndexExact, ChangesOf
      <4> QED
        BY <1>2, <1>4, <1>6, <3>2, <4>1 DEF Put
    <3> QED
      BY <1>1, <1>4, <3>1, <3>2
  <2> QED
    BY <2>1, <2>2 DEF IndexExact
<1>8. q \in Pendings
  <2>1. Key(c) \in Nat \X Kinds
    BY <1>6 DEF RowChanges, Kinds
  <2>2. q.changeIndex \in UNION {[keys -> Nat] : keys \in SUBSET (Nat \X Kinds)}
    <3>1. PICK keys \in SUBSET (Nat \X Kinds) : p.changeIndex \in [keys -> Nat]
      BY DEF Indexed, Pendings
    <3>2. q.changeIndex \in [keys \cup {Key(c)} -> Nat]
      BY <1>1, <1>2, <3>1 DEF Put
    <3>3. keys \cup {Key(c)} \in SUBSET (Nat \X Kinds)
      BY <2>1, <3>1
    <3> QED
      BY <3>2, <3>3
  <2>3. q.changes \in Seq(RowChanges)
    BY <1>1, <1>2
  <2>4. q = [p EXCEPT !.changes = q.changes, !.changeIndex = q.changeIndex]
    BY DEF AppendChange, Indexed, Pendings
  <2> QED
    BY <2>2, <2>3, <2>4 DEF Indexed, Pendings
<1> QED
  BY <1>3, <1>5, <1>7, <1>8 DEF Indexed

LEMMA RemoveChangeAtRemoves ==
  ASSUME NEW p, Indexed(p), NEW i \in DOMAIN p.changes
  PROVE  LET q == RemoveChangeAt(p, i)
         IN  Indexed(q) /\ ChangesOf(q) = ChangesOf(p) \ {p.changes[i]} /\ SameMarks(p, q)
<1> DEFINE q == RemoveChangeAt(p, i)
           n == Len(p.changes)
           gone == Key(p.changes[i])
           moved == Key(p.changes[n])
<1>1. p.changes \in Seq(RowChanges) /\ n \in Nat /\ DOMAIN p.changes = 1..n /\ i \in 1..n
  BY DEF Indexed, Pendings
<1>2. /\ q.changes = [j \in 1..(n - 1) |-> IF j = i THEN p.changes[n] ELSE p.changes[j]]
      /\ q.changeIndex = IF i = n THEN Without(p.changeIndex, gone)
                         ELSE Put(Without(p.changeIndex, gone), moved, i)
  BY DEF RemoveChangeAt, Indexed, Pendings
<1>3. SameMarks(p, q)
  BY DEF RemoveChangeAt, Indexed, Pendings, SameMarks
<1>4. /\ DOMAIN q.changes = 1..(n - 1)
      /\ \A j \in 1..(n - 1) : q.changes[j] = IF j = i THEN p.changes[n] ELSE p.changes[j]
  BY <1>1, <1>2
<1>5. \A j \in 1..n : Key(p.changes[j]) = gone => j = i
  BY <1>1, DistinctKeys
<1>6. \A j \in 1..n : Key(p.changes[j]) = moved => j = n
  <2>1. n \in 1..n
    BY <1>1
  <2> QED
    BY <1>1, <2>1, DistinctKeys
<1>7. ChangesOf(q) = ChangesOf(p) \ {p.changes[i]}
  <2>1. ASSUME NEW j \in 1..(n - 1)
        PROVE  q.changes[j] \in ChangesOf(p) \ {p.changes[i]}
    <3>1. CASE j = i
      BY <1>1, <1>4, <1>5, <3>1 DEF ChangesOf
    <3>2. CASE j # i
      <4>1. j \in 1..n /\ q.changes[j] = p.changes[j]
        BY <1>1, <1>4, <3>2
      <4>2. p.changes[j] # p.changes[i]
        BY <1>5, <3>2, <4>1
      <4> QED
        BY <1>1, <4>1, <4>2 DEF ChangesOf
    <3> QED
      BY <3>1, <3>2
  <2>2. ASSUME NEW j \in 1..n, p.changes[j] # p.changes[i]
        PROVE  p.changes[j] \in ChangesOf(q)
    <3>1. CASE j = n
      BY <1>1, <1>4, <2>2, <3>1 DEF ChangesOf
    <3>2. CASE j # n
      <4>1. j \in 1..(n - 1) /\ j # i
        BY <1>1, <2>2, <3>2
      <4>2. q.changes[j] = p.changes[j] /\ j \in DOMAIN q.changes
        BY <1>4, <4>1
      <4> QED
        BY <4>2 DEF ChangesOf
    <3> QED
      BY <3>1, <3>2
  <2>3. ChangesOf(q) \subseteq ChangesOf(p) \ {p.changes[i]}
    BY <1>4, <2>1 DEF ChangesOf
  <2>4. ChangesOf(p) \ {p.changes[i]} \subseteq ChangesOf(q)
    BY <1>1, <2>2 DEF ChangesOf
  <2> QED
    BY <2>3, <2>4
<1>8. DOMAIN p.changeIndex = {Key(c) : c \in ChangesOf(p)} /\ \A j \in 1..n : p.changeIndex[Key(p.changes[j])] = j
  BY <1>1 DEF Indexed, IndexExact
<1>9. DOMAIN q.changeIndex = DOMAIN p.changeIndex \ {gone}
  <2>1. CASE i = n
    BY <1>2, <2>1 DEF Without
  <2>2. CASE i # n
    <3>1. moved \in DOMAIN p.changeIndex \ {gone}
      BY <1>1, <1>5, <1>8, <2>2 DEF ChangesOf
    <3> QED
      BY <1>2, <2>2, <3>1 DEF Without, Put
  <2> QED
    BY <2>1, <2>2
<1>10. DOMAIN q.changeIndex = {Key(c) : c \in ChangesOf(q)}
  <2>1. \A c \in ChangesOf(p) : Key(c) = gone => c = p.changes[i]
    BY <1>1, <1>5 DEF ChangesOf
  <2>2. {Key(c) : c \in ChangesOf(p) \ {p.changes[i]}} = {Key(c) : c \in ChangesOf(p)} \ {gone}
    BY <2>1
  <2> QED
    BY <1>7, <1>8, <1>9, <2>2
<1>11. ASSUME NEW j \in DOMAIN q.changes
       PROVE  q.changeIndex[Key(q.changes[j])] = j
  <2>1. CASE i = n
    <3>1. q.changes[j] = p.changes[j] /\ j \in 1..n /\ j # i
      BY <1>1, <1>4, <1>11, <2>1
    <3>2. Key(p.changes[j]) \in DOMAIN p.changeIndex \ {gone}
      BY <1>1, <1>5, <1>8, <3>1 DEF ChangesOf
    <3> QED
      BY <1>2, <1>8, <2>1, <3>1, <3>2 DEF Without
  <2>2. CASE i # n /\ j = i
    BY <1>1, <1>2, <1>4, <2>2 DEF Put
  <2>3. CASE i # n /\ j # i
    <3>1. q.changes[j] = p.changes[j] /\ j \in 1..n /\ j # n
      BY <1>1, <1>4, <1>11, <2>3
    <3>2. Key(p.changes[j]) \in DOMAIN p.changeIndex \ {gone} /\ Key(p.changes[j]) # moved
      BY <1>1, <1>5, <1>6, <1>8, <2>3, <3>1 DEF ChangesOf
    <3> QED
      BY <1>2, <1>8, <2>3, <3>1, <3>2 DEF Without, Put
  <2> QED
    BY <2>1, <2>2, <2>3
<1>12. q \in Pendings
  <2>1. q.changes \in Seq(RowChanges)
    <3>1. \A j \in 1..(n - 1) : (IF j = i THEN p.changes[n] ELSE p.changes[j]) \in RowChanges
      BY <1>1
    <3>2. n - 1 \in Nat
      BY <1>1
    <3> QED
      BY <1>2, <3>1, <3>2
  <2>2. q.changeIndex \in UNION {[keys -> Nat] : keys \in SUBSET (Nat \X Kinds)}
    <3>1. PICK keys \in SUBSET (Nat \X Kinds) : p.changeIndex \in [keys -> Nat]
      BY DEF Indexed, Pendings
    <3>2. q.changeIndex \in [keys \ {gone} -> Nat]
      <4>1. DOMAIN q.changeIndex = keys \ {gone}
        BY <1>9, <3>1
      <4>2. ASSUME NEW k \in keys \ {gone}
            PROVE  q.changeIndex[k] \in Nat
        BY <1>1, <1>2, <3>1, <4>1 DEF Without, Put
      <4>3. q.changeIndex = [k \in DOMAIN q.changeIndex |-> q.changeIndex[k]]
        BY <1>2 DEF Without, Put
      <4> QED
        BY <4>1, <4>2, <4>3
    <3> QED
      BY <3>2
  <2> QED
    BY <2>1, <2>2 DEF Indexed, Pendings, RemoveChangeAt
<1> QED
  BY <1>3, <1>7, <1>10, <1>11, <1>12 DEF Indexed, IndexExact

(* Arrays whose entries agree on row and type have the same rows.          *)
LEMMA SameRows ==
  ASSUME NEW p, NEW q, DOMAIN q.changes = DOMAIN p.changes,
         \A j \in DOMAIN p.changes : /\ q.changes[j].rowIndex = p.changes[j].rowIndex
                                     /\ q.changes[j].type = p.changes[j].type,
         NEW t
  PROVE  RowsOf(q, t) = RowsOf(p, t)
BY DEF RowsOf, ChangesOf

(* What adding and removing do to the rows of each type.                   *)
LEMMA RowsOfAdded ==
  ASSUME NEW p, NEW q, NEW c, ChangesOf(q) = ChangesOf(p) \cup {c}, NEW t
  PROVE  RowsOf(q, t) = RowsOf(p, t) \cup (IF c.type = t THEN {c.rowIndex} ELSE {})
BY DEF RowsOf

LEMMA RowsOfRemoved ==
  ASSUME NEW p, Indexed(p), NEW q, NEW c \in ChangesOf(p),
         ChangesOf(q) = ChangesOf(p) \ {c}, NEW t
  PROVE  RowsOf(q, t) = RowsOf(p, t) \ (IF c.type = t THEN {c.rowIndex} ELSE {})
<1>1. \A d \in ChangesOf(p) : d.type = c.type /\ d.rowIndex = c.rowIndex => d = c
  BY DistinctKeys DEF ChangesOf, Key
<1> QED
  BY <1>1 DEF RowsOf

(* removeChange(rowIndex:type:) takes out the change if there is one.      *)
ChangeRemoved(p, q, row, type) ==
  /\ Indexed(q)
  /\ SameMarks(p, q)
  /\ ChangesOf(q) = {c \in ChangesOf(p) : ~ (c.rowIndex = row /\ c.type = type)}
  /\ RowsOf(q, type) = RowsOf(p, type) \ {row}
  /\ \A t : t # type => RowsOf(q, t) = RowsOf(p, t)
  /\ ~ HasChange(q, row, type)

LEMMA RemoveChangeRemoves ==
  ASSUME NEW p, Indexed(p), NEW row, NEW type
  PROVE  ChangeRemoved(p, RemoveChange(p, row, type), row, type)
<1> DEFINE q == RemoveChange(p, row, type)
           i == p.changeIndex[<<row, type>>]
<1>1. CASE HasChange(p, row, type)
  <2>1. i \in DOMAIN p.changes /\ p.changes[i].rowIndex = row /\ p.changes[i].type = type
    BY <1>1, HasChangeFinds
  <2>2. q = RemoveChangeAt(p, i)
    BY <1>1 DEF RemoveChange
  <2>3. Indexed(q) /\ SameMarks(p, q) /\ ChangesOf(q) = ChangesOf(p) \ {p.changes[i]}
    BY <2>1, <2>2, RemoveChangeAtRemoves
  <2>4. \A c \in ChangesOf(p) : c.rowIndex = row /\ c.type = type <=> c = p.changes[i]
    BY <2>1, DistinctKeys DEF ChangesOf, Key
  <2>5. \A t : RowsOf(q, t) = RowsOf(p, t) \ (IF t = type THEN {row} ELSE {})
    <3>1. p.changes[i] \in ChangesOf(p)
      BY <2>1 DEF ChangesOf
    <3>2. ASSUME NEW t
          PROVE  RowsOf(q, t) = RowsOf(p, t) \ (IF p.changes[i].type = t THEN {p.changes[i].rowIndex}
                                                ELSE {})
      <4> HIDE DEF q
      <4> QED
        BY <2>3, <3>1, RowsOfRemoved
    <3> QED
      BY <2>1, <3>2
  <2>6. ~ HasChange(q, row, type)
    BY <2>3, <2>5, HasChangeFinds
  <2> QED
    BY <2>3, <2>4, <2>5, <2>6 DEF ChangeRemoved
<1>2. CASE ~ HasChange(p, row, type)
  <2>1. q = p
    BY <1>2 DEF RemoveChange
  <2>2. row \notin RowsOf(p, type)
    BY <1>2, HasChangeFinds
  <2> QED
    BY <1>2, <2>1, <2>2 DEF ChangeRemoved, RowsOf, SameMarks
<1> QED
  BY <1>1, <1>2

-------------------------------------------------------------------------------
(***************************************************************************)
(* Cells of an update and of an insert.                                    *)
(***************************************************************************)

(* A value whose collections agree.                                        *)
Consistent(p) == Indexed(p) /\ MarksMatch(p) /\ ModifiedMatches(p)

(* What an edit of an existing row may not touch.                          *)
SameRowSets(p, q) ==
  /\ q.deletedRowIndices = p.deletedRowIndices
  /\ q.insertedRowIndices = p.insertedRowIndices

PartialFunctions(S, T) == UNION {[dom -> T] : dom \in SUBSET S}

LEMMA PutKeepsType ==
  ASSUME NEW S, NEW T, NEW f \in PartialFunctions(S, T), NEW k \in S, NEW v \in T
  PROVE  /\ Put(f, k, v) \in PartialFunctions(S, T)
         /\ DOMAIN Put(f, k, v) = DOMAIN f \cup {k}
<1>1. PICK dom \in SUBSET S : f \in [dom -> T]
  BY DEF PartialFunctions
<1>2. Put(f, k, v) \in [dom \cup {k} -> T]
  BY <1>1 DEF Put
<1>3. dom \cup {k} \in SUBSET S
  BY <1>1
<1> QED
  BY <1>1, <1>2, <1>3 DEF PartialFunctions, Put

LEMMA WithoutKeepsType ==
  ASSUME NEW S, NEW T, NEW f \in PartialFunctions(S, T), NEW k
  PROVE  /\ Without(f, k) \in PartialFunctions(S, T)
         /\ DOMAIN Without(f, k) = DOMAIN f \ {k}
<1>1. PICK dom \in SUBSET S : f \in [dom -> T]
  BY DEF PartialFunctions
<1>2. Without(f, k) \in [dom \ {k} -> T]
  BY <1>1 DEF Without
<1>3. dom \ {k} \in SUBSET S
  BY <1>1
<1> QED
  BY <1>1, <1>2, <1>3 DEF PartialFunctions, Without

(* The types of the fields, for use with the two lemmas above.             *)
LEMMA PartialFields ==
  /\ CellChanges = PartialFunctions(Columns, [oldValue : Cells, newValue : Cells])
  /\ \A p \in Pendings :
       /\ p.changes \in Seq(RowChanges)
       /\ p.deletedRowIndices \in SUBSET Nat
       /\ p.insertedRowIndices \in SUBSET Nat
       /\ p.modifiedCells \in PartialFunctions(Nat, SUBSET Columns)
       /\ p.insertedRowData \in PartialFunctions(Nat, Seq(Cells))
BY DEF CellChanges, PartialFunctions, Pendings

(* The methods that edit one change in place.                              *)
SetCells(p, i, cells, m, data) ==
  [p EXCEPT !.changes[i].cellChanges = cells, !.modifiedCells = m, !.insertedRowData = data]

(* What SetCells does, to the changes in particular.                       *)
CellsSet(p, q, i, cells, m, data) ==
  LET edited == [p.changes[i] EXCEPT !.cellChanges = cells]
  IN  /\ Indexed(q)
      /\ SameRowSets(p, q)
      /\ q.modifiedCells = m
      /\ q.insertedRowData = data
      /\ edited.rowIndex = p.changes[i].rowIndex
      /\ edited.type = p.changes[i].type
      /\ edited.cellChanges = cells
      /\ DOMAIN q.changes = DOMAIN p.changes
      /\ q.changes[i] = edited
      /\ ChangesOf(q) = (ChangesOf(p) \ {p.changes[i]}) \cup {edited}
      /\ \A t : RowsOf(q, t) = RowsOf(p, t)

LEMMA ChangeEdited ==
  ASSUME NEW p, Indexed(p), NEW i \in DOMAIN p.changes, NEW cells \in CellChanges,
         NEW m \in PartialFunctions(Nat, SUBSET Columns),
         NEW data \in PartialFunctions(Nat, Seq(Cells))
  PROVE  CellsSet(p, SetCells(p, i, cells, m, data), i, cells, m, data)
<1> DEFINE q == SetCells(p, i, cells, m, data)
           edited == [p.changes[i] EXCEPT !.cellChanges = cells]
           n == Len(p.changes)
<1>1. p.changes \in Seq(RowChanges) /\ n \in Nat /\ DOMAIN p.changes = 1..n /\ i \in 1..n
  BY DEF Indexed, Pendings
<1>2. /\ edited \in RowChanges
      /\ edited.rowIndex = p.changes[i].rowIndex
      /\ edited.type = p.changes[i].type
      /\ edited.cellChanges = cells
  <2>1. p.changes[i] \in RowChanges
    BY <1>1
  <2> QED
    BY <2>1 DEF RowChanges
<1>0. /\ q.changes = [p.changes EXCEPT ![i].cellChanges = cells]
      /\ q.changeIndex = p.changeIndex
      /\ q.modifiedCells = m
      /\ q.insertedRowData = data
      /\ SameRowSets(p, q)
  BY DEF SetCells, Indexed, Pendings, SameRowSets
<1>3. /\ DOMAIN q.changes = 1..n
      /\ \A j \in 1..n : q.changes[j] = IF j = i THEN edited ELSE p.changes[j]
  BY <1>0, <1>1
<1>4. q.changes \in Seq(RowChanges)
  BY <1>0, <1>1, <1>2
<1>5. \A j \in 1..n : Key(q.changes[j]) = Key(p.changes[j])
  BY <1>2, <1>3 DEF Key
<1>6. \A j \in 1..n : p.changes[j] = p.changes[i] => j = i
  BY <1>1, DistinctKeys
<1>7. ChangesOf(q) = (ChangesOf(p) \ {p.changes[i]}) \cup {edited}
  <2>1. ASSUME NEW j \in 1..n
        PROVE  q.changes[j] \in (ChangesOf(p) \ {p.changes[i]}) \cup {edited}
    BY <1>1, <1>3, <1>6 DEF ChangesOf
  <2>2. ASSUME NEW j \in 1..n, p.changes[j] # p.changes[i]
        PROVE  p.changes[j] \in ChangesOf(q)
    <3>1. q.changes[j] = p.changes[j] /\ j \in DOMAIN q.changes
      BY <1>3, <2>2
    <3> QED
      BY <3>1 DEF ChangesOf
  <2>3. edited \in ChangesOf(q)
    <3>1. q.changes[i] = edited /\ i \in DOMAIN q.changes
      BY <1>1, <1>3
    <3> QED
      BY <3>1 DEF ChangesOf
  <2>4. ChangesOf(q) \subseteq (ChangesOf(p) \ {p.changes[i]}) \cup {edited}
    BY <1>3, <2>1 DEF ChangesOf
  <2>5. ChangesOf(p) \ {p.changes[i]} \subseteq ChangesOf(q)
    BY <1>1, <2>2 DEF ChangesOf
  <2> QED
    BY <2>3, <2>4, <2>5
<1>8. {Key(c) : c \in ChangesOf(q)} = {Key(c) : c \in ChangesOf(p)}
  <2>1. {Key(c) : c \in ChangesOf(q)} = {Key(q.changes[j]) : j \in 1..n}
    BY <1>3 DEF ChangesOf
  <2>2. {Key(c) : c \in ChangesOf(p)} = {Key(p.changes[j]) : j \in 1..n}
    BY <1>1 DEF ChangesOf
  <2> QED
    BY <1>5, <2>1, <2>2
<1>9. IndexExact(q)
  BY <1>0, <1>1, <1>3, <1>5, <1>8 DEF Indexed, IndexExact
<1>10. ASSUME NEW t
       PROVE  RowsOf(q, t) = RowsOf(p, t)
  <2>1. \A j \in 1..n : /\ q.changes[j].rowIndex = p.changes[j].rowIndex
                        /\ q.changes[j].type = p.changes[j].type
    BY <1>2, <1>3
  <2>2. DOMAIN q.changes = DOMAIN p.changes
    BY <1>1, <1>3
  <2> QED
    BY <1>1, <2>1, <2>2, SameRows
<1>11. q \in Pendings
  BY <1>0, <1>4 DEF SetCells, Indexed, Pendings, PartialFunctions
<1>12. DOMAIN q.changes = DOMAIN p.changes /\ q.changes[i] = edited
  BY <1>1, <1>3
<1> QED
  BY <1>0, <1>2, <1>7, <1>9, <1>10, <1>11, <1>12 DEF Indexed, CellsSet

(* The marked columns left in a row; a row without any has no entry.       *)
Unmarked(m, n, row, left) ==
  /\ n \in PartialFunctions(Nat, SUBSET Columns)
  /\ left = {} => DOMAIN n = DOMAIN m \ {row}
  /\ left # {} => DOMAIN n = DOMAIN m /\ n[row] = left
  /\ \A r \in DOMAIN m \ {row} : n[r] = m[r]

LEMMA UnmarkCellUnmarks ==
  ASSUME NEW m \in PartialFunctions(Nat, SUBSET Columns), NEW row \in DOMAIN m, NEW col
  PROVE  Unmarked(m, UnmarkCell(m, row, col), row, m[row] \ {col})
<1>1. PICK dom \in SUBSET Nat : m \in [dom -> SUBSET Columns]
  BY DEF PartialFunctions
<1>2. CASE m[row] \ {col} = {}
  <2>1. UnmarkCell(m, row, col) = Without(m, row)
    BY <1>2 DEF UnmarkCell
  <2>2. \A r \in DOMAIN m \ {row} : Without(m, row)[r] = m[r]
    BY DEF Without
  <2> QED
    BY <1>2, <2>1, <2>2, WithoutKeepsType DEF Unmarked
<1>3. CASE m[row] \ {col} # {}
  <2>1. UnmarkCell(m, row, col) = [m EXCEPT ![row] = m[row] \ {col}]
    BY <1>3 DEF UnmarkCell
  <2>2. [m EXCEPT ![row] = m[row] \ {col}] \in [dom -> SUBSET Columns]
    BY <1>1
  <2> QED
    BY <1>1, <1>3, <2>1, <2>2 DEF PartialFunctions, Unmarked
<1> QED
  BY <1>2, <1>3

Marked(m, n, row, col) ==
  /\ n \in PartialFunctions(Nat, SUBSET Columns)
  /\ DOMAIN n = DOMAIN m \cup {row}
  /\ row \in DOMAIN m => n[row] = m[row] \cup {col}
  /\ row \notin DOMAIN m => n[row] = {col}
  /\ \A r \in DOMAIN m \ {row} : n[r] = m[r]

LEMMA MarkCellMarks ==
  ASSUME NEW m \in PartialFunctions(Nat, SUBSET Columns), NEW row \in Nat, NEW col \in Columns
  PROVE  Marked(m, MarkCell(m, row, col), row, col)
<1> DEFINE v == IF row \in DOMAIN m THEN m[row] \cup {col} ELSE {col}
<1>1. PICK dom \in SUBSET Nat : m \in [dom -> SUBSET Columns]
  BY DEF PartialFunctions
<1>2. v \in SUBSET Columns
  BY <1>1
<1>3. MarkCell(m, row, col) = Put(m, row, v)
  BY DEF MarkCell
<1>4. Put(m, row, v)[row] = v /\ \A r \in DOMAIN m \ {row} : Put(m, row, v)[r] = m[r]
  BY DEF Put
<1>5. /\ Put(m, row, v) \in PartialFunctions(Nat, SUBSET Columns)
      /\ DOMAIN Put(m, row, v) = DOMAIN m \cup {row}
  BY <1>2, PutKeepsType
<1> QED
  BY <1>3, <1>4, <1>5 DEF Marked

(* An update in a consistent value and its modified cells.                 *)
LEMMA UpdateAt ==
  ASSUME NEW p, Consistent(p), NEW i \in DOMAIN p.changes, p.changes[i].type = "update"
  PROVE  LET c == p.changes[i]
         IN  /\ c \in RowChanges /\ c \in ChangesOf(p) /\ c.rowIndex \in Nat \ {0}
             /\ c.rowIndex \in DOMAIN p.modifiedCells
             /\ p.modifiedCells[c.rowIndex] = DOMAIN c.cellChanges
             /\ c.cellChanges \in CellChanges
             /\ c.rowIndex \in RowsOf(p, "update")
<1>1. p.changes[i] \in RowChanges
  BY DEF Consistent, Indexed, Pendings
<1> QED
  BY <1>1 DEF Consistent, ModifiedMatches, RowsOf, ChangesOf, RowChanges

(* Updates of different changes are of different rows.                     *)
LEMMA OtherUpdates ==
  ASSUME NEW p, Indexed(p), NEW c \in ChangesOf(p), NEW d \in ChangesOf(p),
         c.type = d.type, c.rowIndex = d.rowIndex
  PROVE  c = d
BY DistinctKeys DEF ChangesOf, Key

(* Cell changes with one cell more or less.                                *)
LEMMA CellsPut ==
  ASSUME NEW cells \in CellChanges, NEW col \in Columns,
         NEW v \in [oldValue : Cells, newValue : Cells]
  PROVE  Put(cells, col, v) \in CellChanges /\ DOMAIN Put(cells, col, v) = DOMAIN cells \cup {col}
<1>1. PICK cols \in SUBSET Columns : cells \in [cols -> [oldValue : Cells, newValue : Cells]]
  BY DEF CellChanges
<1>2. Put(cells, col, v) \in [cols \cup {col} -> [oldValue : Cells, newValue : Cells]]
  BY <1>1 DEF Put
<1>3. cols \cup {col} \in SUBSET Columns
  BY <1>1
<1> QED
  BY <1>1, <1>2, <1>3 DEF CellChanges, Put

LEMMA CellsWithout ==
  ASSUME NEW cells \in CellChanges, NEW col
  PROVE  Without(cells, col) \in CellChanges /\ DOMAIN Without(cells, col) = DOMAIN cells \ {col}
<1>1. PICK cols \in SUBSET Columns : cells \in [cols -> [oldValue : Cells, newValue : Cells]]
  BY DEF CellChanges
<1>2. Without(cells, col) \in [cols \ {col} -> [oldValue : Cells, newValue : Cells]]
  BY <1>1 DEF Without
<1>3. cols \ {col} \in SUBSET Columns
  BY <1>1
<1> QED
  BY <1>1, <1>2, <1>3 DEF CellChanges, Without

(* What changing the cells of an update keeps.                             *)
EditKept(p, q) ==
  /\ Consistent(q)
  /\ SameRowSets(p, q)
  /\ RowsOf(q, "update") \subseteq RowsOf(p, "update")

(* New cell changes for an update, and the row's modified cells with them. *)
LEMMA UpdateEdited ==
  ASSUME NEW p, Consistent(p), NEW i \in DOMAIN p.changes, p.changes[i].type = "update",
         NEW cells \in CellChanges, DOMAIN cells # {},
         NEW m \in PartialFunctions(Nat, SUBSET Columns),
         DOMAIN m = DOMAIN p.modifiedCells,
         m[p.changes[i].rowIndex] = DOMAIN cells,
         \A r \in DOMAIN m \ {p.changes[i].rowIndex} : m[r] = p.modifiedCells[r]
  PROVE  EditKept(p, SetCells(p, i, cells, m, p.insertedRowData))
<1> DEFINE q == SetCells(p, i, cells, m, p.insertedRowData)
           c == p.changes[i]
           d == [c EXCEPT !.cellChanges = cells]
<1>1. Indexed(p) /\ p.insertedRowData \in PartialFunctions(Nat, Seq(Cells))
  BY PartialFields DEF Consistent, Indexed
<1>2. /\ Indexed(q) /\ SameRowSets(p, q) /\ q.modifiedCells = m
      /\ d.rowIndex = c.rowIndex /\ d.type = c.type /\ d.cellChanges = cells
      /\ ChangesOf(q) = (ChangesOf(p) \ {c}) \cup {d}
      /\ \A t : RowsOf(q, t) = RowsOf(p, t)
  <2>1. CellsSet(p, q, i, cells, m, p.insertedRowData)
    BY <1>1, ChangeEdited
  <2> QED
    BY <2>1 DEF CellsSet
<1>3. MarksMatch(q)
  BY <1>2 DEF Consistent, MarksMatch, SameRowSets
<1>4. ModifiedMatches(q)
  <2>1. DOMAIN q.modifiedCells = RowsOf(q, "update")
    BY <1>2 DEF Consistent, ModifiedMatches
  <2>2. ASSUME NEW e \in ChangesOf(q), e.type = "update"
        PROVE  q.modifiedCells[e.rowIndex] = DOMAIN e.cellChanges /\ DOMAIN e.cellChanges # {}
    <3>1. CASE e = d
      BY <1>2, <3>1
    <3>2. CASE e \in ChangesOf(p) \ {c}
      <4>1. c \in ChangesOf(p)
        BY DEF ChangesOf
      <4>2. e.rowIndex # c.rowIndex
        BY <1>1, <2>2, <3>2, <4>1, OtherUpdates
      <4>3. e.rowIndex \in DOMAIN p.modifiedCells
        BY <2>2, <3>2 DEF Consistent, ModifiedMatches, RowsOf
      <4>4. p.modifiedCells[e.rowIndex] = DOMAIN e.cellChanges /\ DOMAIN e.cellChanges # {}
        BY <2>2, <3>2 DEF Consistent, ModifiedMatches
      <4> QED
        BY <1>2, <4>2, <4>3, <4>4
    <3> QED
      BY <1>2, <2>2, <3>1, <3>2
  <2> QED
    BY <2>1, <2>2 DEF ModifiedMatches
<1> QED
  BY <1>2, <1>3, <1>4 DEF Consistent, EditKept

(* An update that is taken out, with its modified cells.                   *)
LEMMA UpdateRemoved ==
  ASSUME NEW p, Indexed(p), MarksMatch(p), NEW i \in DOMAIN p.changes, p.changes[i].type = "update",
         DOMAIN p.modifiedCells = RowsOf(p, "update") \ {p.changes[i].rowIndex},
         \A c \in ChangesOf(p) \ {p.changes[i]} :
           c.type = "update" => /\ p.modifiedCells[c.rowIndex] = DOMAIN c.cellChanges
                                /\ DOMAIN c.cellChanges # {}
  PROVE  LET q == RemoveChangeAt(p, i)
         IN  /\ Consistent(q) /\ SameRowSets(p, q)
             /\ \A t : RowsOf(q, t) = RowsOf(p, t) \ (IF t = "update" THEN {p.changes[i].rowIndex} ELSE {})
<1> DEFINE q == RemoveChangeAt(p, i)
           c == p.changes[i]
<1>1. Indexed(q) /\ ChangesOf(q) = ChangesOf(p) \ {c} /\ SameMarks(p, q)
  BY RemoveChangeAtRemoves
<1>2. c \in ChangesOf(p)
  BY DEF ChangesOf
<1>3. ASSUME NEW t
      PROVE  RowsOf(q, t) = RowsOf(p, t) \ (IF t = "update" THEN {c.rowIndex} ELSE {})
  <2>1. RowsOf(q, t) = RowsOf(p, t) \ (IF c.type = t THEN {c.rowIndex} ELSE {})
    BY <1>1, <1>2, RowsOfRemoved
  <2> QED
    BY <2>1
<1>4. MarksMatch(q)
  <2>1. RowsOf(q, "delete") = RowsOf(p, "delete") /\ RowsOf(q, "insert") = RowsOf(p, "insert")
    BY <1>3
  <2> QED
    BY <1>1, <2>1 DEF MarksMatch, SameMarks
<1>5. ModifiedMatches(q)
  BY <1>1, <1>3 DEF ModifiedMatches, SameMarks
<1> QED
  BY <1>1, <1>3, <1>4, <1>5 DEF Consistent, SameMarks, SameRowSets

(* A cell that is forgotten: the update loses it, or goes with it.         *)
LEMMA DropCellKeeps ==
  ASSUME NEW p, Consistent(p), NEW i \in DOMAIN p.changes, p.changes[i].type = "update",
         NEW col \in DOMAIN p.changes[i].cellChanges
  PROVE  EditKept(p, DropCell(p, i, col))
<1> DEFINE c == p.changes[i]
           row == c.rowIndex
           cells == Without(c.cellChanges, col)
           m == UnmarkCell(p.modifiedCells, row, col)
           data == p.insertedRowData
           q0 == SetCells(p, i, cells, m, data)
           d == [c EXCEPT !.cellChanges = cells]
           q == DropCell(p, i, col)
<1>1. /\ c \in RowChanges /\ c \in ChangesOf(p) /\ row \in DOMAIN p.modifiedCells
      /\ p.modifiedCells[row] = DOMAIN c.cellChanges /\ c.cellChanges \in CellChanges
      /\ row \in RowsOf(p, "update")
  BY UpdateAt
<1>2. /\ p \in Pendings /\ Indexed(p)
      /\ p.modifiedCells \in PartialFunctions(Nat, SUBSET Columns)
      /\ data \in PartialFunctions(Nat, Seq(Cells))
  BY PartialFields DEF Consistent, Indexed
<1>3. q = IF DOMAIN cells = {} THEN RemoveChangeAt(q0, i) ELSE q0
  BY <1>2 DEF DropCell, SetCells, Pendings
<1>4. cells \in CellChanges /\ DOMAIN cells = p.modifiedCells[row] \ {col}
  <2>1. cells \in CellChanges /\ DOMAIN cells = DOMAIN c.cellChanges \ {col}
    BY <1>1, CellsWithout
  <2> QED
    BY <1>1, <2>1
<1>5. Unmarked(p.modifiedCells, m, row, DOMAIN cells)
  BY <1>1, <1>2, <1>4, UnmarkCellUnmarks
<1>6. CASE DOMAIN cells # {}
  <2>1. /\ m \in PartialFunctions(Nat, SUBSET Columns)
        /\ DOMAIN m = DOMAIN p.modifiedCells
        /\ m[row] = DOMAIN cells
        /\ \A r \in DOMAIN m \ {row} : m[r] = p.modifiedCells[r]
    BY <1>5, <1>6 DEF Unmarked
  <2>2. EditKept(p, q0)
    BY <1>4, <1>6, <2>1, UpdateEdited
  <2> QED
    BY <1>3, <1>6, <2>2
<1>7. CASE DOMAIN cells = {}
  <2>1. CellsSet(p, q0, i, cells, m, data)
    BY <1>2, <1>4, <1>5, ChangeEdited DEF Unmarked
  <2>2. /\ Indexed(q0) /\ SameRowSets(p, q0) /\ q0.modifiedCells = m
        /\ q0.changes[i] = d /\ DOMAIN q0.changes = DOMAIN p.changes
        /\ d.rowIndex = row /\ d.type = "update"
        /\ ChangesOf(q0) = (ChangesOf(p) \ {c}) \cup {d}
        /\ RowsOf(q0, "update") = RowsOf(p, "update")
        /\ RowsOf(q0, "delete") = RowsOf(p, "delete")
        /\ RowsOf(q0, "insert") = RowsOf(p, "insert")
    BY <2>1 DEF CellsSet
  <2>3. MarksMatch(q0)
    BY <2>2 DEF Consistent, MarksMatch, SameRowSets
  <2>4. DOMAIN q0.modifiedCells = RowsOf(q0, "update") \ {row}
    BY <1>5, <1>7, <2>2 DEF Consistent, ModifiedMatches, Unmarked
  <2>5. ASSUME NEW e \in ChangesOf(q0) \ {d}, e.type = "update"
        PROVE  q0.modifiedCells[e.rowIndex] = DOMAIN e.cellChanges /\ DOMAIN e.cellChanges # {}
    <3>1. e \in ChangesOf(p) /\ e # c
      BY <2>2, <2>5
    <3>2. e.rowIndex # row
      BY <1>1, <1>2, <2>5, <3>1, OtherUpdates
    <3>3. /\ e.rowIndex \in DOMAIN p.modifiedCells
          /\ p.modifiedCells[e.rowIndex] = DOMAIN e.cellChanges
          /\ DOMAIN e.cellChanges # {}
      BY <2>5, <3>1 DEF Consistent, ModifiedMatches, RowsOf
    <3> QED
      BY <1>5, <2>2, <3>2, <3>3 DEF Unmarked
  <2>6. /\ Consistent(RemoveChangeAt(q0, i)) /\ SameRowSets(q0, RemoveChangeAt(q0, i))
        /\ RowsOf(RemoveChangeAt(q0, i), "update") = RowsOf(q0, "update") \ {row}
    <3>1. /\ i \in DOMAIN q0.changes /\ q0.changes[i].type = "update"
          /\ q0.changes[i].rowIndex = row
      BY <2>2
    <3> HIDE DEF q0, d, row
    <3> QED
      BY <2>2, <2>3, <2>4, <2>5, <3>1, UpdateRemoved
  <2>7. q = RemoveChangeAt(q0, i)
    BY <1>3, <1>7
  <2> HIDE DEF q0, row
  <2>8. SameRowSets(p, q)
    BY <2>2, <2>6, <2>7 DEF SameRowSets
  <2> QED
    BY <2>2, <2>6, <2>7, <2>8 DEF EditKept
<1> QED
  BY <1>6, <1>7

(* A new value for a cell of an update, marked or marked already.          *)
LEMMA PutCellKeeps ==
  ASSUME NEW p, Consistent(p), NEW i \in DOMAIN p.changes, p.changes[i].type = "update",
         NEW col \in Columns, NEW v \in [oldValue : Cells, newValue : Cells],
         NEW m, \/ m = MarkCell(p.modifiedCells, p.changes[i].rowIndex, col)
                \/ m = p.modifiedCells /\ col \in DOMAIN p.changes[i].cellChanges
  PROVE  EditKept(p, SetCells(p, i, Put(p.changes[i].cellChanges, col, v), m, p.insertedRowData))
<1> DEFINE c == p.changes[i]
           row == c.rowIndex
           cells == Put(c.cellChanges, col, v)
<1>1. /\ c \in RowChanges /\ row \in DOMAIN p.modifiedCells /\ row \in Nat
      /\ p.modifiedCells[row] = DOMAIN c.cellChanges /\ c.cellChanges \in CellChanges
  BY UpdateAt
<1>2. p.modifiedCells \in PartialFunctions(Nat, SUBSET Columns)
  BY PartialFields DEF Consistent, Indexed
<1>3. cells \in CellChanges /\ DOMAIN cells = DOMAIN c.cellChanges \cup {col} /\ DOMAIN cells # {}
  <2>1. cells \in CellChanges /\ DOMAIN cells = DOMAIN c.cellChanges \cup {col}
    BY <1>1, CellsPut
  <2> QED
    BY <2>1
<1>4. /\ m \in PartialFunctions(Nat, SUBSET Columns)
      /\ DOMAIN m = DOMAIN p.modifiedCells
      /\ m[row] = DOMAIN cells
      /\ \A r \in DOMAIN m \ {row} : m[r] = p.modifiedCells[r]
  <2>1. CASE m = MarkCell(p.modifiedCells, row, col)
    <3>1. Marked(p.modifiedCells, m, row, col)
      BY <1>1, <1>2, <2>1, MarkCellMarks
    <3> HIDE DEF cells, row
    <3> QED
      BY <1>1, <1>3, <3>1 DEF Marked
  <2>2. CASE m = p.modifiedCells /\ col \in DOMAIN c.cellChanges
    BY <1>1, <1>2, <1>3, <2>2
  <2> QED
    BY <2>1, <2>2
<1> QED
  BY <1>3, <1>4, UpdateEdited

LEMMA MergeUpdateCellKeeps ==
  ASSUME NEW p, Consistent(p), NEW i \in DOMAIN p.changes, p.changes[i].type = "update",
         NEW col \in Columns, NEW old \in Cells, NEW new \in Cells
  PROVE  EditKept(p, MergeUpdateCell(p, i, col, old, new))
<1> DEFINE c == p.changes[i]
           q == MergeUpdateCell(p, i, col, old, new)
<1>1. c.cellChanges \in CellChanges /\ p \in Pendings
  BY UpdateAt DEF Consistent, Indexed
<1>2. CASE col \in DOMAIN c.cellChanges /\ c.cellChanges[col].oldValue = new
  <2>1. q = DropCell(p, i, col)
    BY <1>2 DEF MergeUpdateCell
  <2> QED
    BY <1>2, <2>1, DropCellKeeps
<1>3. CASE col \in DOMAIN c.cellChanges /\ c.cellChanges[col].oldValue # new
  <2> DEFINE v == CellChange(c.cellChanges[col].oldValue, new)
  <2>1. q = SetCells(p, i, Put(c.cellChanges, col, v), p.modifiedCells, p.insertedRowData)
    BY <1>1, <1>3 DEF MergeUpdateCell, SetCells, Pendings
  <2>2. v \in [oldValue : Cells, newValue : Cells]
    BY <1>1, <1>3 DEF CellChanges, CellChange
  <2> QED
    BY <1>3, <2>1, <2>2, PutCellKeeps
<1>4. CASE col \notin DOMAIN c.cellChanges
  <2> DEFINE m == MarkCell(p.modifiedCells, c.rowIndex, col)
             v == CellChange(old, new)
  <2>1. q = SetCells(p, i, Put(c.cellChanges, col, v), m, p.insertedRowData)
    BY <1>1, <1>4 DEF MergeUpdateCell, SetCells, Pendings
  <2>2. v \in [oldValue : Cells, newValue : Cells]
    BY DEF CellChange
  <2>3. m = MarkCell(p.modifiedCells, c.rowIndex, col)
    OBVIOUS
  <2> HIDE DEF m, v
  <2>4. EditKept(p, SetCells(p, i, Put(p.changes[i].cellChanges, col, v), m, p.insertedRowData))
    BY <2>2, <2>3, PutCellKeeps
  <2> QED
    BY <2>1, <2>4
<1> QED
  BY <1>2, <1>3, <1>4

LEMMA ElementReplaced ==
  ASSUME NEW S, NEW s \in Seq(S), NEW k, NEW v \in S
  PROVE  [s EXCEPT ![k] = v] \in Seq(S)
<1>1. s \in [1..Len(s) -> S] /\ Len(s) \in Nat
  OBVIOUS
<1>2. [s EXCEPT ![k] = v] \in [1..Len(s) -> S]
  BY <1>1
<1> QED
  BY <1>1, <1>2

(* An edit of a new row touches its cell changes and its stored values.    *)
LEMMA UpdateInsertedCellKeeps ==
  ASSUME NEW p, Consistent(p), NEW i \in DOMAIN p.changes, p.changes[i].type = "insert",
         NEW col \in Columns, NEW new \in Cells, Null \in Cells
  PROVE  EditKept(p, UpdateInsertedCell(p, i, col, new))
<1> DEFINE c == p.changes[i]
           row == c.rowIndex
           cells == Put(c.cellChanges, col, CellChange(Null, new))
           old == p.insertedRowData
           data == IF row \in DOMAIN old /\ col <= Len(old[row])
                   THEN [old EXCEPT ![row] = [@ EXCEPT ![col] = new]] ELSE old
           q == SetCells(p, i, cells, p.modifiedCells, data)
           d == [c EXCEPT !.cellChanges = cells]
<1>0. p \in Pendings /\ Indexed(p)
  BY DEF Consistent, Indexed
<1>1. /\ p \in Pendings /\ Indexed(p) /\ c \in RowChanges
      /\ p.modifiedCells \in PartialFunctions(Nat, SUBSET Columns)
      /\ old \in PartialFunctions(Nat, Seq(Cells))
  <2>1. p.changes \in Seq(RowChanges)
    BY <1>0, PartialFields
  <2>2. c \in RowChanges
    BY <2>1
  <2> QED
    BY <1>0, <2>2, PartialFields
<1>2. UpdateInsertedCell(p, i, col, new) = q
  BY <1>1 DEF UpdateInsertedCell, SetCells, Pendings
<1>3. cells \in CellChanges
  <2>1. c.cellChanges \in CellChanges
    BY <1>1 DEF RowChanges
  <2>2. CellChange(Null, new) \in [oldValue : Cells, newValue : Cells]
    BY DEF CellChange
  <2> QED
    BY <2>1, <2>2, CellsPut
<1>4. data \in PartialFunctions(Nat, Seq(Cells))
  <2>1. PICK rows \in SUBSET Nat : old \in [rows -> Seq(Cells)]
    BY <1>1 DEF PartialFunctions
  <2>2. ASSUME row \in DOMAIN old
        PROVE  [old[row] EXCEPT ![col] = new] \in Seq(Cells)
    <3>1. old[row] \in Seq(Cells)
      BY <2>1, <2>2
    <3> HIDE DEF row, old
    <3> QED
      BY <3>1, ElementReplaced
  <2>3. data \in [rows -> Seq(Cells)]
    <3> HIDE DEF row
    <3> QED
      BY <2>1, <2>2
  <2> HIDE DEF data
  <2> QED
    BY <2>3 DEF PartialFunctions
<1>5. CellsSet(p, q, i, cells, p.modifiedCells, data)
  BY <1>1, <1>3, <1>4, ChangeEdited
<1>6. /\ Indexed(q) /\ SameRowSets(p, q) /\ q.modifiedCells = p.modifiedCells
      /\ d.rowIndex = row /\ d.type = "insert"
      /\ ChangesOf(q) = (ChangesOf(p) \ {c}) \cup {d}
      /\ \A t : RowsOf(q, t) = RowsOf(p, t)
  BY <1>5 DEF CellsSet
<1>7. MarksMatch(q)
  BY <1>6 DEF Consistent, MarksMatch, SameRowSets
<1>8. ModifiedMatches(q)
  BY <1>6 DEF Consistent, ModifiedMatches
<1> QED
  BY <1>2, <1>6, <1>7, <1>8 DEF Consistent, EditKept

-------------------------------------------------------------------------------
(***************************************************************************)
(* Recording the user's edits.                                             *)
(***************************************************************************)

(* What recording an edit of one cell keeps: an update that was not there  *)
(* is of that row, and a new row gets none.                                *)
CellRecorded(p, q, row) ==
  /\ Consistent(q)
  /\ SameRowSets(p, q)
  /\ RowsOf(q, "update") \subseteq RowsOf(p, "update") \cup ({row} \ p.insertedRowIndices)

LEMMA EditIsRecorded ==
  ASSUME NEW p, NEW q, EditKept(p, q), NEW row
  PROVE  CellRecorded(p, q, row)
BY DEF EditKept, CellRecorded

(* A first edit of a loaded row adds an update with one cell.              *)
LEMMA UpdateAdded ==
  ASSUME NEW p, Consistent(p), NEW row \in Nat \ {0}, NEW col \in Columns,
         NEW v \in [oldValue : Cells, newValue : Cells], NEW original \in [Columns -> Cells],
         ~ HasChange(p, row, "insert"), ~ HasChange(p, row, "update")
  PROVE  CellRecorded(p, [AppendChange(p, RowChange(row, "update", Put(EmptyMap, col, v), original))
                            EXCEPT !.modifiedCells = MarkCell(@, row, col)], row)
<1> DEFINE cells == Put(EmptyMap, col, v)
           c == RowChange(row, "update", cells, original)
           a == AppendChange(p, c)
           q == [a EXCEPT !.modifiedCells = MarkCell(@, row, col)]
<1>1. Indexed(p) /\ p.modifiedCells \in PartialFunctions(Nat, SUBSET Columns)
  BY PartialFields DEF Consistent, Indexed
<1>2. cells \in CellChanges /\ DOMAIN cells = {col}
  <2>1. cells \in [{col} -> [oldValue : Cells, newValue : Cells]]
    BY DEF Put, EmptyMap
  <2>2. {col} \in SUBSET Columns
    OBVIOUS
  <2> QED
    BY <2>1, <2>2 DEF CellChanges
<1>3. /\ c \in RowChanges /\ c.rowIndex = row /\ c.type = "update" /\ c.cellChanges = cells
  BY <1>2 DEF RowChange, RowChanges
<1>4. Indexed(a) /\ ChangesOf(a) = ChangesOf(p) \cup {c} /\ SameMarks(p, a)
  BY <1>1, <1>3, AppendChangeAdds
<1>5. /\ a \in Pendings
      /\ q.changes = a.changes /\ q.changeIndex = a.changeIndex
      /\ q.modifiedCells = MarkCell(p.modifiedCells, row, col)
      /\ q.deletedRowIndices = p.deletedRowIndices
      /\ q.insertedRowIndices = p.insertedRowIndices
  BY <1>4 DEF Indexed, Pendings, SameMarks
<1>6. Marked(p.modifiedCells, q.modifiedCells, row, col)
  <2>1. Marked(p.modifiedCells, MarkCell(p.modifiedCells, row, col), row, col)
    BY <1>1, MarkCellMarks
  <2> HIDE DEF q
  <2> QED
    BY <1>5, <2>1
<1>7. q \in Pendings
  <2>1. q.modifiedCells \in UNION {[rows -> SUBSET Columns] : rows \in SUBSET Nat}
    BY <1>6 DEF Marked, PartialFunctions
  <2>2. q = [a EXCEPT !.modifiedCells = q.modifiedCells]
    BY <1>5 DEF Pendings
  <2> QED
    BY <1>5, <2>1, <2>2 DEF Pendings
<1>8. Indexed(q) /\ ChangesOf(q) = ChangesOf(p) \cup {c}
  BY <1>4, <1>5, <1>7 DEF Indexed, IndexExact, ChangesOf
<1>9. /\ RowsOf(q, "update") = RowsOf(p, "update") \cup {row}
      /\ RowsOf(q, "delete") = RowsOf(p, "delete")
      /\ RowsOf(q, "insert") = RowsOf(p, "insert")
  <2>1. ASSUME NEW t
        PROVE  RowsOf(q, t) = RowsOf(p, t) \cup (IF c.type = t THEN {c.rowIndex} ELSE {})
    <3> HIDE DEF q, c
    <3> QED
      BY <1>8, RowsOfAdded
  <2> HIDE DEF q, c
  <2> QED
    BY <1>3, <2>1
<1>10. MarksMatch(q)
  BY <1>5, <1>9 DEF Consistent, MarksMatch
<1>11. row \notin RowsOf(p, "update") /\ row \notin RowsOf(p, "insert")
  BY <1>1, HasChangeFinds
<1>12. ModifiedMatches(q)
  <2>1. DOMAIN q.modifiedCells = RowsOf(q, "update")
    BY <1>6, <1>9 DEF Consistent, ModifiedMatches, Marked
  <2>2. ASSUME NEW e \in ChangesOf(q), e.type = "update"
        PROVE  q.modifiedCells[e.rowIndex] = DOMAIN e.cellChanges /\ DOMAIN e.cellChanges # {}
    <3>1. CASE e = c
      <4>1. q.modifiedCells[row] = {col}
        BY <1>6, <1>11 DEF Consistent, ModifiedMatches, Marked
      <4> QED
        BY <1>2, <1>3, <3>1, <4>1
    <3>2. CASE e \in ChangesOf(p)
      <4>1. e.rowIndex \in RowsOf(p, "update")
        BY <2>2, <3>2 DEF RowsOf
      <4>2. e.rowIndex \in DOMAIN p.modifiedCells \ {row}
        BY <1>11, <4>1 DEF Consistent, ModifiedMatches
      <4>3. q.modifiedCells[e.rowIndex] = p.modifiedCells[e.rowIndex]
        BY <1>6, <4>2 DEF Marked
      <4> QED
        BY <2>2, <3>2, <4>3 DEF Consistent, ModifiedMatches
    <3> QED
      BY <1>8, <2>2, <3>1, <3>2
  <2> QED
    BY <2>1, <2>2 DEF ModifiedMatches
<1>13. row \notin p.insertedRowIndices
  BY <1>11 DEF Consistent, MarksMatch
<1> QED
  BY <1>5, <1>8, <1>9, <1>10, <1>12, <1>13 DEF Consistent, SameRowSets, CellRecorded

LEMMA ApplyCellChangeKeeps ==
  ASSUME NEW p, Consistent(p), NEW row \in Nat \ {0}, NEW col \in Columns,
         NEW old \in Cells, NEW new \in Cells, NEW original \in [Columns -> Cells]
  PROVE  CellRecorded(p, ApplyCellChange(p, row, col, old, new, original), row)
<1> DEFINE q == ApplyCellChange(p, row, col, old, new, original)
<1>1. Indexed(p) /\ Null \in Cells
  BY DEF Consistent, Cells
<1>2. CASE HasChange(p, row, "insert")
  <2> DEFINE i == p.changeIndex[<<row, "insert">>]
  <2>1. i \in DOMAIN p.changes /\ p.changes[i].type = "insert"
    BY <1>1, <1>2, HasChangeFinds
  <2>2. q = UpdateInsertedCell(p, i, col, new)
    BY <1>2 DEF ApplyCellChange
  <2> QED
    BY <1>1, <2>1, <2>2, UpdateInsertedCellKeeps, EditIsRecorded
<1>3. CASE ~ HasChange(p, row, "insert") /\ HasChange(p, row, "update")
  <2> DEFINE i == p.changeIndex[<<row, "update">>]
  <2>1. i \in DOMAIN p.changes /\ p.changes[i].type = "update"
    BY <1>1, <1>3, HasChangeFinds
  <2>2. q = MergeUpdateCell(p, i, col, old, new)
    BY <1>3 DEF ApplyCellChange
  <2> QED
    BY <2>1, <2>2, MergeUpdateCellKeeps, EditIsRecorded
<1>4. CASE ~ HasChange(p, row, "insert") /\ ~ HasChange(p, row, "update")
  <2> DEFINE v == CellChange(old, new)
  <2>1. v \in [oldValue : Cells, newValue : Cells]
    BY DEF CellChange
  <2>2. q = [AppendChange(p, RowChange(row, "update", Put(EmptyMap, col, v), original))
               EXCEPT !.modifiedCells = MarkCell(@, row, col)]
    BY <1>4 DEF ApplyCellChange
  <2> HIDE DEF v
  <2> QED
    BY <1>4, <2>1, <2>2, UpdateAdded
<1> QED
  BY <1>2, <1>3, <1>4

LEMMA RecordCellChangeKeeps ==
  ASSUME NEW p, Consistent(p), NEW row \in Nat \ {0}, NEW col \in Columns,
         NEW old \in Cells, NEW new \in Cells, NEW original \in [Columns -> Cells]
  PROVE  CellRecorded(p, RecordCellChange(p, row, col, old, new, original), row)
<1> DEFINE q == RecordCellChange(p, row, col, old, new, original)
<1>1. CASE old # new
  BY <1>1, ApplyCellChangeKeeps DEF RecordCellChange
<1>2. CASE old = new /\ MatchesOriginal(p, row, col, new)
  <2> DEFINE i == p.changeIndex[<<row, "update">>]
  <2>1. HasChange(p, row, "update") /\ col \in DOMAIN p.changes[i].cellChanges
    BY <1>2 DEF MatchesOriginal, ChangeFor
  <2>2. i \in DOMAIN p.changes /\ p.changes[i].type = "update"
    BY <2>1, HasChangeFinds DEF Consistent
  <2>3. q = DropCell(p, i, col)
    BY <1>2 DEF RecordCellChange
  <2> QED
    BY <2>1, <2>2, <2>3, DropCellKeeps, EditIsRecorded
<1>3. CASE old = new /\ ~ MatchesOriginal(p, row, col, new)
  BY <1>3 DEF RecordCellChange, CellRecorded, SameRowSets
<1> QED
  BY <1>1, <1>2, <1>3

(* The methods that change marks and stored values.                        *)
SetMarks(p, deleted, inserted, m, data) ==
  [p EXCEPT !.deletedRowIndices = deleted, !.insertedRowIndices = inserted,
            !.modifiedCells = m, !.insertedRowData = data]

MarksSet(p, q, deleted, inserted, m, data) ==
  /\ Indexed(q)
  /\ ChangesOf(q) = ChangesOf(p)
  /\ \A t : RowsOf(q, t) = RowsOf(p, t)
  /\ \A row, t : HasChange(q, row, t) <=> HasChange(p, row, t)
  /\ q.deletedRowIndices = deleted
  /\ q.insertedRowIndices = inserted
  /\ q.modifiedCells = m
  /\ q.insertedRowData = data

LEMMA MarksChanged ==
  ASSUME NEW p, Indexed(p), NEW deleted \in SUBSET Nat, NEW inserted \in SUBSET Nat,
         NEW m \in PartialFunctions(Nat, SUBSET Columns),
         NEW data \in PartialFunctions(Nat, Seq(Cells))
  PROVE  MarksSet(p, SetMarks(p, deleted, inserted, m, data), deleted, inserted, m, data)
<1> DEFINE q == SetMarks(p, deleted, inserted, m, data)
<1>1. p \in Pendings /\ IndexExact(p)
  BY DEF Indexed
<1>2. /\ q.changes = p.changes /\ q.changeIndex = p.changeIndex
      /\ q.deletedRowIndices = deleted /\ q.insertedRowIndices = inserted
      /\ q.modifiedCells = m /\ q.insertedRowData = data
  BY <1>1 DEF SetMarks, Pendings
<1>3. q \in Pendings
  BY <1>1 DEF SetMarks, Pendings, PartialFunctions
<1>4. ChangesOf(q) = ChangesOf(p)
  BY <1>2 DEF ChangesOf
<1>5. \A t : RowsOf(q, t) = RowsOf(p, t)
  BY <1>4 DEF RowsOf
<1>6. \A row, t : HasChange(q, row, t) <=> HasChange(p, row, t)
  BY <1>2 DEF HasChange
<1>7. IndexExact(q)
  BY <1>1, <1>2, <1>4 DEF IndexExact
<1> QED
  BY <1>2, <1>3, <1>4, <1>5, <1>6, <1>7 DEF Indexed, MarksSet

LEMMA ModifiedWithout ==
  ASSUME NEW m \in PartialFunctions(Nat, SUBSET Columns), NEW row
  PROVE  /\ Without(m, row) \in PartialFunctions(Nat, SUBSET Columns)
         /\ DOMAIN Without(m, row) = DOMAIN m \ {row}
BY WithoutKeepsType

LEMMA DataWithout ==
  ASSUME NEW data \in PartialFunctions(Nat, Seq(Cells)), NEW row
  PROVE  Without(data, row) \in PartialFunctions(Nat, Seq(Cells))
BY WithoutKeepsType

LEMMA DataPut ==
  ASSUME NEW data \in PartialFunctions(Nat, Seq(Cells)), NEW row \in Nat, NEW values \in Seq(Cells)
  PROVE  Put(data, row, values) \in PartialFunctions(Nat, Seq(Cells))
BY PutKeepsType

(* The recorded updates and deletions.                                     *)
UpdatesOf(p) == {c \in ChangesOf(p) : c.type = "update"}

DeletionsOf(p) == {c \in ChangesOf(p) : c.type = "delete"}

OtherUpdatesOf(p, row) == {c \in UpdatesOf(p) : c.rowIndex # row}

(* What a row command keeps, and the marks it leaves.                      *)
RowsRecorded(p, q, deleted, inserted) ==
  /\ Consistent(q)
  /\ q.deletedRowIndices = deleted
  /\ q.insertedRowIndices = inserted
  /\ RowsOf(q, "update") \subseteq RowsOf(p, "update")

RowAdded(p, q, row, type) ==
  /\ Indexed(q)
  /\ ModifiedMatches(q)
  /\ SameMarks(p, q)
  /\ RowsOf(q, type) = RowsOf(p, type) \cup {row}
  /\ \A t : t # type => RowsOf(q, t) = RowsOf(p, t)

(* A change that is not an update is added to a value without it.          *)
LEMMA RowChangeAdded ==
  ASSUME NEW p, Indexed(p), ModifiedMatches(p), NEW c \in RowChanges, c.type # "update",
         ~ HasChange(p, c.rowIndex, c.type)
  PROVE  RowAdded(p, AppendChange(p, c), c.rowIndex, c.type)
<1> DEFINE q == AppendChange(p, c)
<1>1. Indexed(q) /\ ChangesOf(q) = ChangesOf(p) \cup {c} /\ SameMarks(p, q)
  BY AppendChangeAdds
<1>2. ASSUME NEW t
      PROVE  RowsOf(q, t) = RowsOf(p, t) \cup (IF c.type = t THEN {c.rowIndex} ELSE {})
  BY <1>1, RowsOfAdded
<1>3. ModifiedMatches(q)
  BY <1>1, <1>2 DEF ModifiedMatches, SameMarks
<1>4. RowsOf(q, c.type) = RowsOf(p, c.type) \cup {c.rowIndex}
  BY <1>2
<1>5. \A t : t # c.type => RowsOf(q, t) = RowsOf(p, t)
  BY <1>2
<1> QED
  BY <1>1, <1>3, <1>4, <1>5 DEF RowAdded

(* A row that is marked deleted loses its update.                          *)
RowDeletionRecorded(p, q, row, original) ==
  /\ row \in p.deletedRowIndices => q = p
  /\ row \notin p.deletedRowIndices =>
       /\ UpdatesOf(q) = OtherUpdatesOf(p, row)
       /\ DeletionsOf(q) = DeletionsOf(p) \cup {RowChange(row, "delete", EmptyMap, original)}
  /\ q.insertedRowData = p.insertedRowData

LEMMA RecordRowDeletionKeeps ==
  ASSUME NEW p, Consistent(p), NEW row \in Nat \ {0}, NEW original \in [Columns -> Cells]
  PROVE  /\ RowsRecorded(p, RecordRowDeletion(p, row, original),
                         p.deletedRowIndices \cup {row}, p.insertedRowIndices)
         /\ RowDeletionRecorded(p, RecordRowDeletion(p, row, original), row, original)
<1> DEFINE q1 == RemoveChange(p, row, "update")
           m == Without(q1.modifiedCells, row)
           q2 == SetMarks(q1, q1.deletedRowIndices \cup {row}, q1.insertedRowIndices, m,
                          q1.insertedRowData)
           c == RowChange(row, "delete", EmptyMap, original)
           q == AppendChange(q2, c)
<1>1. CASE row \in p.deletedRowIndices
  BY <1>1 DEF RecordRowDeletion, RowsRecorded, RowDeletionRecorded
<1>2. CASE row \notin p.deletedRowIndices
  <2>1. Indexed(p)
    BY DEF Consistent
  <2>2. /\ Indexed(q1) /\ SameMarks(p, q1)
        /\ ChangesOf(q1) = {d \in ChangesOf(p) : ~ (d.rowIndex = row /\ d.type = "update")}
        /\ RowsOf(q1, "update") = RowsOf(p, "update") \ {row}
        /\ RowsOf(q1, "delete") = RowsOf(p, "delete")
        /\ RowsOf(q1, "insert") = RowsOf(p, "insert")
    <3>1. ChangeRemoved(p, q1, row, "update")
      BY <2>1, RemoveChangeRemoves
    <3> QED
      BY <3>1 DEF ChangeRemoved
  <2>3. /\ q1 \in Pendings
        /\ q1.deletedRowIndices \cup {row} \in SUBSET Nat /\ q1.insertedRowIndices \in SUBSET Nat
        /\ q1.modifiedCells \in PartialFunctions(Nat, SUBSET Columns)
        /\ q1.insertedRowData \in PartialFunctions(Nat, Seq(Cells))
    <3> HIDE DEF q1
    <3>1. q1 \in Pendings
      BY <2>2 DEF Indexed
    <3> QED
      BY <3>1, PartialFields
  <2>4. m \in PartialFunctions(Nat, SUBSET Columns) /\ DOMAIN m = DOMAIN p.modifiedCells \ {row}
    <3> HIDE DEF q1
    <3>1. /\ m \in PartialFunctions(Nat, SUBSET Columns)
          /\ DOMAIN m = DOMAIN q1.modifiedCells \ {row}
      BY <2>3, ModifiedWithout
    <3> QED
      BY <2>2, <3>1 DEF SameMarks
  <2>5. MarksSet(q1, q2, q1.deletedRowIndices \cup {row}, q1.insertedRowIndices, m, q1.insertedRowData)
    BY <2>2, <2>3, <2>4, MarksChanged
  <2>6. ModifiedMatches(q2)
    <3>1. DOMAIN q2.modifiedCells = RowsOf(q2, "update")
      BY <2>2, <2>4, <2>5 DEF Consistent, ModifiedMatches, MarksSet
    <3>2. ASSUME NEW e \in ChangesOf(q2), e.type = "update"
          PROVE  q2.modifiedCells[e.rowIndex] = DOMAIN e.cellChanges /\ DOMAIN e.cellChanges # {}
      <4>1. e \in ChangesOf(p) /\ e.rowIndex # row
        BY <2>2, <2>5, <3>2 DEF MarksSet
      <4>2. e.rowIndex \in DOMAIN p.modifiedCells \ {row}
        BY <3>2, <4>1 DEF Consistent, ModifiedMatches, RowsOf
      <4>3. q2.modifiedCells[e.rowIndex] = p.modifiedCells[e.rowIndex]
        BY <2>2, <2>5, <4>2 DEF MarksSet, SameMarks, Without
      <4> QED
        BY <3>2, <4>1, <4>3 DEF Consistent, ModifiedMatches
    <3> QED
      BY <3>1, <3>2 DEF ModifiedMatches
  <2>7. c \in RowChanges /\ c.type = "delete" /\ c.rowIndex = row
    <3>1. EmptyMap \in CellChanges
      <4>1. EmptyMap \in [{} -> [oldValue : Cells, newValue : Cells]]
        BY DEF EmptyMap
      <4> QED
        BY <4>1 DEF CellChanges
    <3> QED
      BY <3>1 DEF RowChange, RowChanges
  <2>8. ~ HasChange(q2, row, "delete")
    <3>1. row \notin RowsOf(q1, "delete")
      BY <1>2, <2>2 DEF Consistent, MarksMatch
    <3>2. ~ HasChange(q1, row, "delete")
      <4> HIDE DEF q1
      <4> QED
        BY <2>2, <3>1, HasChangeFinds
    <3> QED
      BY <2>5, <3>2 DEF MarksSet
  <2>9. /\ Indexed(q) /\ ModifiedMatches(q) /\ SameMarks(q2, q)
        /\ RowsOf(q, "update") = RowsOf(q2, "update")
        /\ RowsOf(q, "insert") = RowsOf(q2, "insert")
        /\ RowsOf(q, "delete") = RowsOf(q2, "delete") \cup {row}
    <3>1. Indexed(q2)
      BY <2>5 DEF MarksSet
    <3>2. RowAdded(q2, q, row, "delete")
      <4> HIDE DEF q2, c
      <4>1. RowAdded(q2, q, c.rowIndex, c.type)
        BY <2>6, <2>7, <2>8, <3>1, RowChangeAdded
      <4> QED
        BY <2>7, <4>1
    <3> QED
      BY <3>2 DEF RowAdded
  <2>10. RecordRowDeletion(p, row, original) = q
    <3>1. q2 = [q1 EXCEPT !.modifiedCells = Without(@, row), !.deletedRowIndices = @ \cup {row}]
      BY <2>3 DEF SetMarks, Pendings
    <3> QED
      BY <1>2, <3>1 DEF RecordRowDeletion
  <2>12. ChangesOf(q) = ChangesOf(q2) \cup {c}
    <3>1. Indexed(q2)
      BY <2>5 DEF MarksSet
    <3> HIDE DEF q2, c
    <3>2. ~ HasChange(q2, c.rowIndex, c.type)
      BY <2>7, <2>8
    <3> QED
      BY <2>7, <3>1, <3>2, AppendChangeAdds
  <2> HIDE DEF q, q1, q2, m
  <2>11. MarksMatch(q)
    BY <2>2, <2>5, <2>9 DEF Consistent, MarksMatch, MarksSet, SameMarks
  <2>13. RowsRecorded(p, q, p.deletedRowIndices \cup {row}, p.insertedRowIndices)
    BY <2>2, <2>5, <2>9, <2>11 DEF Consistent, RowsRecorded, MarksSet, SameMarks
  <2>14. ChangesOf(q) = {d \in ChangesOf(p) : ~ (d.rowIndex = row /\ d.type = "update")} \cup {c}
    BY <2>2, <2>5, <2>12 DEF MarksSet
  <2>15. /\ UpdatesOf(q) = OtherUpdatesOf(p, row)
         /\ DeletionsOf(q) = DeletionsOf(p) \cup {c}
    <3> HIDE DEF c
    <3> QED
      BY <2>7, <2>14 DEF UpdatesOf, DeletionsOf, OtherUpdatesOf
  <2>16. q.insertedRowData = p.insertedRowData
    BY <2>2, <2>5, <2>9 DEF MarksSet, SameMarks
  <2>17. RowDeletionRecorded(p, q, row, original)
    BY <1>2, <2>15, <2>16 DEF RowDeletionRecorded
  <2> QED
    BY <2>10, <2>13, <2>17
<1> QED
  BY <1>1, <1>2

(* The stored values of a row are set, and updates and deletions kept.     *)
RowInsertionRecorded(p, q, row, values) ==
  /\ UpdatesOf(q) = UpdatesOf(p)
  /\ DeletionsOf(q) = DeletionsOf(p)
  /\ q.insertedRowData = Put(p.insertedRowData, row, values)

LEMMA RecordRowInsertionKeeps ==
  ASSUME NEW p, Consistent(p), NEW row \in Nat \ {0}, NEW values \in Seq(Cells)
  PROVE  /\ RowsRecorded(p, RecordRowInsertion(p, row, values),
                         p.deletedRowIndices, p.insertedRowIndices \cup {row})
         /\ RowInsertionRecorded(p, RecordRowInsertion(p, row, values), row, values)
<1> DEFINE data == Put(p.insertedRowData, row, values)
           q1 == SetMarks(p, p.deletedRowIndices, p.insertedRowIndices \cup {row}, p.modifiedCells, data)
           c == RowChange(row, "insert", EmptyMap, NoValues)
           q == AppendChange(q1, c)
<1>1. /\ p \in Pendings /\ Indexed(p)
      /\ p.deletedRowIndices \in SUBSET Nat /\ p.insertedRowIndices \cup {row} \in SUBSET Nat
      /\ p.modifiedCells \in PartialFunctions(Nat, SUBSET Columns)
      /\ p.insertedRowData \in PartialFunctions(Nat, Seq(Cells))
  <2>1. p \in Pendings /\ Indexed(p)
    BY DEF Consistent, Indexed
  <2> QED
    BY <2>1, PartialFields
<1>2. data \in PartialFunctions(Nat, Seq(Cells))
  BY <1>1, DataPut
<1>3. MarksSet(p, q1, p.deletedRowIndices, p.insertedRowIndices \cup {row}, p.modifiedCells, data)
  BY <1>1, <1>2, MarksChanged
<1>4. ModifiedMatches(q1)
  BY <1>3 DEF Consistent, ModifiedMatches, MarksSet
<1>5. CASE row \in p.insertedRowIndices
  <2>1. RecordRowInsertion(p, row, values) = q1
    <3>1. p.insertedRowIndices \cup {row} = p.insertedRowIndices
      BY <1>5
    <3> QED
      BY <1>1, <1>5, <3>1 DEF RecordRowInsertion, SetMarks, Pendings
  <2>2. MarksMatch(q1)
    BY <1>3, <1>5 DEF Consistent, MarksMatch, MarksSet
  <2>3. RowsRecorded(p, q1, p.deletedRowIndices, p.insertedRowIndices \cup {row})
    BY <1>3, <1>4, <2>2 DEF Consistent, RowsRecorded, MarksSet
  <2>4. RowInsertionRecorded(p, q1, row, values)
    BY <1>3 DEF MarksSet, RowInsertionRecorded, UpdatesOf, DeletionsOf
  <2> QED
    BY <2>1, <2>3, <2>4
<1>6. CASE row \notin p.insertedRowIndices
  <2>1. RecordRowInsertion(p, row, values) = q
    BY <1>1, <1>6 DEF RecordRowInsertion, SetMarks, Pendings
  <2>2. c \in RowChanges /\ c.type = "insert" /\ c.rowIndex = row
    <3>1. EmptyMap \in CellChanges
      <4>1. EmptyMap \in [{} -> [oldValue : Cells, newValue : Cells]]
        BY DEF EmptyMap
      <4> QED
        BY <4>1 DEF CellChanges
    <3> QED
      BY <3>1 DEF RowChange, RowChanges
  <2>3. ~ HasChange(q1, row, "insert")
    <3>1. ~ HasChange(p, row, "insert")
      <4>1. row \notin RowsOf(p, "insert")
        BY <1>6 DEF Consistent, MarksMatch
      <4> QED
        BY <1>1, <4>1, HasChangeFinds
    <3> QED
      BY <1>3, <3>1 DEF MarksSet
  <2>4. RowAdded(q1, q, row, "insert")
    <3>1. Indexed(q1)
      BY <1>3 DEF MarksSet
    <3> HIDE DEF q1, c
    <3>2. RowAdded(q1, q, c.rowIndex, c.type)
      BY <1>4, <2>2, <2>3, <3>1, RowChangeAdded
    <3> QED
      BY <2>2, <3>2
  <2>6. ChangesOf(q) = ChangesOf(q1) \cup {c}
    <3>1. Indexed(q1)
      BY <1>3 DEF MarksSet
    <3> HIDE DEF q1, c
    <3>2. ~ HasChange(q1, c.rowIndex, c.type)
      BY <2>2, <2>3
    <3> QED
      BY <2>2, <3>1, <3>2, AppendChangeAdds
  <2> HIDE DEF q, q1
  <2>5. MarksMatch(q)
    BY <1>3, <2>4 DEF Consistent, MarksMatch, MarksSet, SameMarks, RowAdded
  <2>7. RowsRecorded(p, q, p.deletedRowIndices, p.insertedRowIndices \cup {row})
    BY <1>3, <2>4, <2>5 DEF Consistent, RowsRecorded, MarksSet, SameMarks, RowAdded
  <2>8. UpdatesOf(q) = UpdatesOf(p) /\ DeletionsOf(q) = DeletionsOf(p)
    <3>1. ChangesOf(q) = ChangesOf(p) \cup {c}
      BY <1>3, <2>6 DEF MarksSet
    <3> HIDE DEF c
    <3> QED
      BY <2>2, <3>1 DEF UpdatesOf, DeletionsOf
  <2>9. q.insertedRowData = data
    BY <1>3, <2>4 DEF MarksSet, RowAdded, SameMarks
  <2>10. RowInsertionRecorded(p, q, row, values)
    BY <2>8, <2>9 DEF RowInsertionRecorded
  <2> QED
    BY <2>1, <2>7, <2>10
<1> QED
  BY <1>5, <1>6

(* A change that is not an update is taken out, with its mark.             *)
Forgotten(p, q, row, type, deleted, inserted, data) ==
  /\ RowsRecorded(p, q, deleted, inserted)
  /\ ChangesOf(q) = {c \in ChangesOf(p) : ~ (c.rowIndex = row /\ c.type = type)}
  /\ q.insertedRowData = data

LEMMA RowForgotten ==
  ASSUME NEW p, Consistent(p), NEW row, NEW type \in {"insert", "delete"},
         NEW data \in PartialFunctions(Nat, Seq(Cells)),
         NEW deleted, deleted = IF type = "delete" THEN p.deletedRowIndices \ {row}
                                ELSE p.deletedRowIndices,
         NEW inserted, inserted = IF type = "insert" THEN p.insertedRowIndices \ {row}
                                  ELSE p.insertedRowIndices
  PROVE  Forgotten(p, SetMarks(RemoveChange(p, row, type), deleted, inserted, p.modifiedCells, data),
                   row, type, deleted, inserted, data)
<1> DEFINE q1 == RemoveChange(p, row, type)
           q == SetMarks(q1, deleted, inserted, p.modifiedCells, data)
<1>1. /\ p \in Pendings /\ Indexed(p)
      /\ p.deletedRowIndices \in SUBSET Nat /\ p.insertedRowIndices \in SUBSET Nat
      /\ p.modifiedCells \in PartialFunctions(Nat, SUBSET Columns)
  <2>1. p \in Pendings /\ Indexed(p)
    BY DEF Consistent, Indexed
  <2> QED
    BY <2>1, PartialFields
<1>2. ChangeRemoved(p, q1, row, type)
  BY <1>1, RemoveChangeRemoves
<1>3. deleted \in SUBSET Nat /\ inserted \in SUBSET Nat
  BY <1>1
<1>4. MarksSet(q1, q, deleted, inserted, p.modifiedCells, data)
  <2>1. Indexed(q1)
    BY <1>2 DEF ChangeRemoved
  <2> HIDE DEF q1
  <2> QED
    BY <1>1, <1>3, <2>1, MarksChanged
<1>5. /\ ChangesOf(q) = {c \in ChangesOf(p) : ~ (c.rowIndex = row /\ c.type = type)}
      /\ RowsOf(q, type) = RowsOf(p, type) \ {row}
      /\ \A t : t # type => RowsOf(q, t) = RowsOf(p, t)
      /\ q.modifiedCells = p.modifiedCells /\ q.insertedRowData = data
      /\ q.deletedRowIndices = deleted /\ q.insertedRowIndices = inserted
      /\ Indexed(q)
  BY <1>2, <1>4 DEF ChangeRemoved, MarksSet
<1>6. RowsOf(q, "update") = RowsOf(p, "update")
  BY <1>5
<1>7. ModifiedMatches(q)
  BY <1>5, <1>6 DEF Consistent, ModifiedMatches
<1>8. MarksMatch(q)
  <2> HIDE DEF q
  <2>1. CASE type = "insert"
    BY <1>5, <2>1 DEF Consistent, MarksMatch
  <2>2. CASE type = "delete"
    BY <1>5, <2>2 DEF Consistent, MarksMatch
  <2> QED
    BY <2>1, <2>2
<1> QED
  BY <1>5, <1>6, <1>7, <1>8 DEF Consistent, RowsRecorded, Forgotten

(* A row that is no longer deleted loses its deletion.                     *)
RowDeletionUndone(p, q, row) ==
  /\ UpdatesOf(q) = UpdatesOf(p)
  /\ DeletionsOf(q) = {c \in DeletionsOf(p) : c.rowIndex # row}
  /\ q.insertedRowData = p.insertedRowData

LEMMA UndoRowDeletionKeeps ==
  ASSUME NEW p, Consistent(p), NEW row
  PROVE  /\ RowsRecorded(p, UndoRowDeletion(p, row), p.deletedRowIndices \ {row}, p.insertedRowIndices)
         /\ RowDeletionUndone(p, UndoRowDeletion(p, row), row)
<1>1. CASE row \notin p.deletedRowIndices
  <2>1. UndoRowDeletion(p, row) = p /\ row \notin RowsOf(p, "delete")
    BY <1>1 DEF UndoRowDeletion, Consistent, MarksMatch
  <2>2. RowDeletionUndone(p, p, row)
    BY <2>1 DEF RowDeletionUndone, RowsOf, DeletionsOf
  <2> QED
    BY <1>1, <2>1, <2>2 DEF RowsRecorded
<1>2. CASE row \in p.deletedRowIndices
  <2> DEFINE q1 == RemoveChange(p, row, "delete")
             deleted == p.deletedRowIndices \ {row}
             q == SetMarks(q1, deleted, p.insertedRowIndices, p.modifiedCells, p.insertedRowData)
  <2>1. Indexed(p) /\ p.insertedRowData \in PartialFunctions(Nat, Seq(Cells))
    BY PartialFields DEF Consistent, Indexed
  <2>2. /\ RowsRecorded(p, q, deleted, p.insertedRowIndices)
        /\ ChangesOf(q) = {c \in ChangesOf(p) : ~ (c.rowIndex = row /\ c.type = "delete")}
        /\ q.insertedRowData = p.insertedRowData
    <3>1. Forgotten(p, q, row, "delete", deleted, p.insertedRowIndices, p.insertedRowData)
      BY <2>1, RowForgotten
    <3> QED
      BY <3>1 DEF Forgotten
  <2>3. q1 \in Pendings /\ SameMarks(p, q1)
    BY <2>1, RemoveChangeRemoves DEF ChangeRemoved, Indexed
  <2>4. UndoRowDeletion(p, row) = q
    BY <1>2, <2>3 DEF UndoRowDeletion, SetMarks, SameMarks, Pendings
  <2> HIDE DEF q
  <2>5. RowDeletionUndone(p, q, row)
    BY <2>2 DEF RowDeletionUndone, UpdatesOf, DeletionsOf
  <2> QED
    BY <2>2, <2>4, <2>5
<1> QED
  BY <1>1, <1>2

(* Updates and deletions are the same.                                     *)
OnlyNewRows(p, q) == UpdatesOf(q) = UpdatesOf(p) /\ DeletionsOf(q) = DeletionsOf(p)

LEMMA ForgetInsertionKeeps ==
  ASSUME NEW p, Consistent(p), NEW row
  PROVE  /\ RowsRecorded(p, ForgetInsertion(p, row), p.deletedRowIndices, p.insertedRowIndices \ {row})
         /\ OnlyNewRows(p, ForgetInsertion(p, row))
<1> DEFINE q1 == RemoveChange(p, row, "insert")
           inserted == p.insertedRowIndices \ {row}
           data == Without(p.insertedRowData, row)
           q == SetMarks(q1, p.deletedRowIndices, inserted, p.modifiedCells, data)
<1>1. Indexed(p) /\ p.insertedRowData \in PartialFunctions(Nat, Seq(Cells))
  BY PartialFields DEF Consistent, Indexed
<1>2. data \in PartialFunctions(Nat, Seq(Cells))
  BY <1>1, DataWithout
<1>3. /\ RowsRecorded(p, q, p.deletedRowIndices, inserted)
      /\ ChangesOf(q) = {c \in ChangesOf(p) : ~ (c.rowIndex = row /\ c.type = "insert")}
  <2>1. Forgotten(p, q, row, "insert", p.deletedRowIndices, inserted, data)
    BY <1>2, RowForgotten
  <2> QED
    BY <2>1 DEF Forgotten
<1>4. q1 \in Pendings /\ SameMarks(p, q1)
  BY <1>1, RemoveChangeRemoves DEF ChangeRemoved, Indexed
<1>5. ForgetInsertion(p, row) = q
  BY <1>4 DEF ForgetInsertion, SetMarks, SameMarks, Pendings
<1> HIDE DEF q
<1>6. OnlyNewRows(p, q)
  BY <1>3 DEF OnlyNewRows, UpdatesOf, DeletionsOf
<1> QED
  BY <1>3, <1>5, <1>6

-------------------------------------------------------------------------------
(***************************************************************************)
(* Renumbering.                                                            *)
(***************************************************************************)

(* rebuildChangeIndex makes the index exact when no two changes have the   *)
(* same key.                                                               *)
LEMMA RebuildChangeIndexExact ==
  ASSUME NEW p \in Pendings,
         \A i, j \in DOMAIN p.changes : Key(p.changes[i]) = Key(p.changes[j]) => i = j
  PROVE  LET q == RebuildChangeIndex(p)
         IN  Indexed(q) /\ ChangesOf(q) = ChangesOf(p) /\ SameMarks(p, q)
<1> DEFINE q == RebuildChangeIndex(p)
           keys == {Key(p.changes[i]) : i \in DOMAIN p.changes}
           n == Len(p.changes)
<1>1. p.changes \in Seq(RowChanges) /\ n \in Nat /\ DOMAIN p.changes = 1..n
  BY DEF Pendings
<1>2. /\ q.changes = p.changes /\ SameMarks(p, q)
      /\ q.changeIndex = [k \in keys |-> LastPositionOf(p.changes, k)]
  BY DEF RebuildChangeIndex, Pendings, SameMarks
<1>3. ASSUME NEW i \in DOMAIN p.changes
      PROVE  LastPositionOf(p.changes, Key(p.changes[i])) = i
  <2>1. \A j \in DOMAIN p.changes : Key(p.changes[j]) = Key(p.changes[i]) <=> j = i
    OBVIOUS
  <2>2. /\ Key(p.changes[i]) = Key(p.changes[i])
        /\ \A j \in DOMAIN p.changes : Key(p.changes[j]) = Key(p.changes[i]) => j <= i
    BY <1>1, <2>1
  <2> QED
    BY <2>1, <2>2 DEF LastPositionOf
<1>4. ChangesOf(q) = ChangesOf(p)
  BY <1>2 DEF ChangesOf
<1>5. keys = {Key(c) : c \in ChangesOf(q)}
  BY <1>4 DEF ChangesOf
<1>6. IndexExact(q)
  BY <1>2, <1>3, <1>5 DEF IndexExact
<1>7. q \in Pendings
  <2>1. \A i \in DOMAIN p.changes : Key(p.changes[i]) \in Nat \X Kinds
    <3>1. ASSUME NEW i \in DOMAIN p.changes
          PROVE  Key(p.changes[i]) \in Nat \X Kinds
      <4>1. p.changes[i] \in RowChanges
        BY <1>1
      <4> QED
        BY <4>1 DEF Key, RowChanges, Kinds
    <3> QED
      BY <3>1
  <2>2. q.changeIndex \in [keys -> Nat]
    <3>1. \A k \in keys : LastPositionOf(p.changes, k) \in Nat
      BY <1>1, <1>3
    <3> QED
      BY <1>2, <3>1
  <2>3. keys \in SUBSET (Nat \X Kinds)
    BY <2>1
  <2>4. q.changeIndex \in UNION {[ks -> Nat] : ks \in SUBSET (Nat \X Kinds)}
    BY <2>2, <2>3
  <2>5. q = [p EXCEPT !.changeIndex = q.changeIndex]
    BY DEF RebuildChangeIndex, Pendings
  <2> QED
    BY <2>4, <2>5 DEF Pendings
<1> QED
  BY <1>2, <1>4, <1>6, <1>7 DEF Indexed

(* The renumbering of undoBatchRowInsertion.                               *)
Renumbered(p, f) ==
  [p EXCEPT !.changes = [i \in DOMAIN @ |-> AtRow(@[i], f[@[i].rowIndex])],
            !.insertedRowIndices = {f[r] : r \in @}]

Renumbering(p, f) ==
  /\ f \in [Nat -> Nat]
  /\ \A r \in RowsOf(p, "update") \cup RowsOf(p, "delete") : f[r] = r
  /\ \A r \in p.insertedRowIndices : f[r] # 0
  /\ \A r, s \in p.insertedRowIndices : f[r] = f[s] => r = s

(* A renumbering that tells the new rows apart and leaves the others alone *)
(* keeps the collections in agreement.                                     *)
LEMMA RenumberedKeeps ==
  ASSUME NEW p, Consistent(p), NEW f, Renumbering(p, f)
  PROVE  /\ RowsRecorded(p, RebuildChangeIndex(Renumbered(p, f)),
                         p.deletedRowIndices, {f[r] : r \in p.insertedRowIndices})
         /\ OnlyNewRows(p, RebuildChangeIndex(Renumbered(p, f)))
<1> DEFINE q == Renumbered(p, f)
           z == RebuildChangeIndex(q)
           n == Len(p.changes)
<1>1. /\ p \in Pendings /\ Indexed(p) /\ p.changes \in Seq(RowChanges)
      /\ n \in Nat /\ DOMAIN p.changes = 1..n
  BY DEF Consistent, Indexed, Pendings
<1>0. q.changes = [i \in 1..n |-> AtRow(p.changes[i], f[p.changes[i].rowIndex])]
  BY <1>1 DEF Renumbered, Pendings
<1>2. /\ DOMAIN q.changes = 1..n
      /\ \A i \in 1..n : q.changes[i] = AtRow(p.changes[i], f[p.changes[i].rowIndex])
      /\ q.insertedRowIndices = {f[r] : r \in p.insertedRowIndices}
      /\ q.deletedRowIndices = p.deletedRowIndices
      /\ q.modifiedCells = p.modifiedCells
  <2>1. /\ q.insertedRowIndices = {f[r] : r \in p.insertedRowIndices}
        /\ q.deletedRowIndices = p.deletedRowIndices
        /\ q.modifiedCells = p.modifiedCells
    BY <1>1 DEF Renumbered, Pendings
  <2> HIDE DEF q
  <2> QED
    BY <1>0, <2>1
<1> HIDE DEF q
<1>3. ASSUME NEW i \in 1..n
      PROVE  /\ p.changes[i] \in RowChanges /\ q.changes[i] \in RowChanges
             /\ q.changes[i].type = p.changes[i].type
             /\ q.changes[i].rowIndex = f[p.changes[i].rowIndex]
             /\ p.changes[i].type # "insert" => q.changes[i] = p.changes[i]
             /\ p.changes[i].type = "insert" => p.changes[i].rowIndex \in p.insertedRowIndices
  <2>1. p.changes[i] \in RowChanges
    BY <1>1
  <2>2. p.changes[i] \in ChangesOf(p)
    BY <1>1 DEF ChangesOf
  <2>3. p.changes[i].type = "insert" => p.changes[i].rowIndex \in p.insertedRowIndices
    BY <2>2 DEF RowsOf, Consistent, MarksMatch
  <2>4. p.changes[i].type # "insert" => f[p.changes[i].rowIndex] = p.changes[i].rowIndex
    <3>1. p.changes[i].type \in {"insert", "update", "delete"}
      BY <2>1 DEF RowChanges
    <3>2. p.changes[i].type # "insert" =>
            p.changes[i].rowIndex \in RowsOf(p, "update") \cup RowsOf(p, "delete")
      BY <2>2, <3>1 DEF RowsOf
    <3> QED
      BY <3>2 DEF Renumbering
  <2>5. f[p.changes[i].rowIndex] \in Nat \ {0}
    <3>1. p.changes[i].rowIndex \in Nat \ {0}
      BY <2>1 DEF RowChanges
    <3> QED
      BY <2>3, <2>4, <3>1 DEF Renumbering
  <2>6. /\ q.changes[i] \in RowChanges /\ q.changes[i].type = p.changes[i].type
        /\ q.changes[i].rowIndex = f[p.changes[i].rowIndex]
    BY <1>2, <2>1, <2>5 DEF RowChanges, AtRow
  <2>7. p.changes[i].type # "insert" => q.changes[i] = p.changes[i]
    BY <1>2, <2>1, <2>4 DEF RowChanges, AtRow
  <2> QED
    BY <2>1, <2>3, <2>6, <2>7
<1>4. ASSUME NEW i \in 1..n, NEW j \in 1..n, Key(q.changes[i]) = Key(q.changes[j])
      PROVE  i = j
  <2>1. q.changes[i].type = q.changes[j].type /\ q.changes[i].rowIndex = q.changes[j].rowIndex
    BY <1>4 DEF Key
  <2>2. p.changes[i].type = p.changes[j].type
    BY <1>3, <2>1
  <2>3. p.changes[i].rowIndex = p.changes[j].rowIndex
    <3>1. CASE p.changes[i].type = "insert"
      <4>1. p.changes[i].rowIndex \in p.insertedRowIndices /\ p.changes[j].rowIndex \in p.insertedRowIndices
        BY <1>3, <2>2, <3>1
      <4>2. f[p.changes[i].rowIndex] = f[p.changes[j].rowIndex]
        BY <1>3, <2>1
      <4> QED
        BY <4>1, <4>2 DEF Renumbering
    <3>2. CASE p.changes[i].type # "insert"
      BY <1>3, <2>1, <2>2, <3>2
    <3> QED
      BY <3>1, <3>2
  <2>4. Key(p.changes[i]) = Key(p.changes[j])
    BY <2>2, <2>3 DEF Key
  <2> QED
    BY <1>1, <2>4, DistinctKeys
<1>5. q \in Pendings
  <2>1. q.changes \in Seq(RowChanges)
    <3>1. q.changes = [i \in 1..n |-> q.changes[i]]
      BY <1>0, <1>2
    <3>2. \A i \in 1..n : q.changes[i] \in RowChanges
      BY <1>3
    <3> QED
      BY <1>1, <3>1, <3>2
  <2>2. q.insertedRowIndices \in SUBSET Nat
    <3>1. p.insertedRowIndices \in SUBSET Nat
      BY <1>1 DEF Pendings
    <3> QED
      BY <1>2, <3>1 DEF Renumbering
  <2>3. q = [p EXCEPT !.changes = q.changes, !.insertedRowIndices = q.insertedRowIndices]
    BY <1>1 DEF q, Renumbered, Pendings
  <2> QED
    BY <1>1, <2>1, <2>2, <2>3 DEF Pendings
<1>6. Indexed(z) /\ ChangesOf(z) = ChangesOf(q) /\ SameMarks(q, z)
  <2>1. \A i, j \in DOMAIN q.changes : Key(q.changes[i]) = Key(q.changes[j]) => i = j
    BY <1>2, <1>4
  <2> QED
    BY <1>5, <2>1, RebuildChangeIndexExact
<1> HIDE DEF z
<1>7. /\ ChangesOf(z) = {q.changes[i] : i \in 1..n}
      /\ ChangesOf(p) = {p.changes[i] : i \in 1..n}
  BY <1>1, <1>2, <1>6 DEF ChangesOf
<1>8. \A e : e.type # "insert" => (e \in ChangesOf(z) <=> e \in ChangesOf(p))
  BY <1>3, <1>7
<1>9. RowsOf(z, "update") = RowsOf(p, "update") /\ RowsOf(z, "delete") = RowsOf(p, "delete")
  BY <1>8 DEF RowsOf
<1>10. RowsOf(z, "insert") = {f[r] : r \in p.insertedRowIndices}
  <2>1. p.insertedRowIndices = {p.changes[i].rowIndex : i \in {j \in 1..n : p.changes[j].type = "insert"}}
    BY <1>7 DEF Consistent, MarksMatch, RowsOf
  <2>2. RowsOf(z, "insert") = {q.changes[i].rowIndex : i \in {j \in 1..n : q.changes[j].type = "insert"}}
    BY <1>7 DEF RowsOf
  <2> QED
    BY <1>3, <2>1, <2>2
<1>11. MarksMatch(z)
  BY <1>2, <1>6, <1>9, <1>10 DEF Consistent, MarksMatch, SameMarks
<1>12. ModifiedMatches(z)
  BY <1>2, <1>6, <1>8, <1>9 DEF Consistent, ModifiedMatches, SameMarks
<1>13. OnlyNewRows(p, z)
  BY <1>8 DEF OnlyNewRows, UpdatesOf, DeletionsOf
<1> QED
  BY <1>2, <1>6, <1>9, <1>11, <1>12, <1>13 DEF Consistent, RowsRecorded, SameMarks, z, q

LEMMA CountInOne ==
  ASSUME NEW a \in Nat, NEW r \in Nat
  PROVE  CountLessThan(r, <<a>>) = IF a < r THEN 1 ELSE 0
<1> DEFINE S == {i \in DOMAIN <<a>> : <<a>>[i] < r}
<1>1. S = IF a < r THEN {1} ELSE {}
  OBVIOUS
<1>2. Cardinality({1}) = 1 /\ Cardinality({}) = 0
  BY FS_EmptySet, FS_Singleton
<1>3. CountLessThan(r, <<a>>) = Cardinality(S)
  BY DEF CountLessThan
<1> HIDE DEF S
<1> QED
  BY <1>1, <1>2, <1>3

LEMMA CountInTwo ==
  ASSUME NEW a \in Nat, NEW b \in Nat, b < a, NEW r \in Nat
  PROVE  CountLessThan(r, <<a, b>>) = IF a < r THEN 2 ELSE IF b < r THEN 1 ELSE 0
<1> DEFINE S == {i \in DOMAIN <<a, b>> : <<a, b>>[i] < r}
<1>1. S = IF a < r THEN {1} \cup {2} ELSE IF b < r THEN {2} ELSE {}
  <2>1. DOMAIN <<a, b>> = {1, 2} /\ <<a, b>>[1] = a /\ <<a, b>>[2] = b
    OBVIOUS
  <2> QED
    BY <2>1
<1>2. Cardinality({1} \cup {2}) = 2 /\ Cardinality({2}) = 1 /\ Cardinality({}) = 0
  <2>1. IsFiniteSet({1}) /\ Cardinality({1}) = 1 /\ Cardinality({2}) = 1 /\ Cardinality({}) = 0
    BY FS_EmptySet, FS_Singleton
  <2>2. Cardinality({1} \cup {2}) = 2
    BY <2>1, FS_AddElement
  <2> QED
    BY <2>1, <2>2
<1>3. CountLessThan(r, <<a, b>>) = Cardinality(S)
  BY DEF CountLessThan
<1> HIDE DEF S
<1> QED
  BY <1>1, <1>2, <1>3

(* undoBatchRowInsertion renumbers by the count of removed rows below.     *)
BatchShift(batch) == [r \in Nat |-> r - CountLessThan(r, batch)]

BatchShifted(p, batch) ==
  LET shifted(row) == row - CountLessThan(row, batch)
  IN  [p EXCEPT !.changes = [i \in DOMAIN @ |-> AtRow(@[i], shifted(@[i].rowIndex))],
                !.insertedRowIndices = {shifted(r) : r \in @}]

LEMMA BatchRenumbers ==
  ASSUME NEW p \in Pendings, NEW batch
  PROVE  BatchShifted(p, batch) = Renumbered(p, BatchShift(batch))
<1>1. ASSUME NEW i \in DOMAIN p.changes
      PROVE  p.changes[i].rowIndex \in Nat
  <2>1. p.changes[i] \in RowChanges
    BY DEF Pendings
  <2> QED
    BY <2>1 DEF RowChanges
<1>2. p.insertedRowIndices \subseteq Nat
  BY DEF Pendings
<1>3. [i \in DOMAIN p.changes |->
         AtRow(p.changes[i], p.changes[i].rowIndex - CountLessThan(p.changes[i].rowIndex, batch))]
      = [i \in DOMAIN p.changes |-> AtRow(p.changes[i], BatchShift(batch)[p.changes[i].rowIndex])]
  BY <1>1 DEF BatchShift
<1>4. {r - CountLessThan(r, batch) : r \in p.insertedRowIndices}
      = {BatchShift(batch)[r] : r \in p.insertedRowIndices}
  BY <1>2 DEF BatchShift
<1> QED
  BY <1>3, <1>4 DEF BatchShifted, Renumbered, Pendings

(* A batch of one row, or of two rows in descending order.                 *)
Selection(S, batch) ==
  \/ \E a \in S : batch = <<a>>
  \/ \E a, b \in S : b < a /\ batch = <<a, b>>

LEMMA Pair ==
  ASSUME NEW a, NEW b
  PROVE  <<a>> \o <<b>> = <<a, b>>
<1> DEFINE s == <<a>> \o <<b>>
           S == {a, b}
<1>1. <<a>> \in Seq(S) /\ <<b>> \in Seq(S) /\ Len(<<a>>) = 1 /\ Len(<<b>>) = 1
  OBVIOUS
<1>2. s \in Seq(S) /\ Len(s) = 2 /\ s[1] = a /\ s[2] = b
  BY <1>1
<1>3. <<a, b>> \in Seq(S) /\ Len(<<a, b>>) = 2
  OBVIOUS
<1> HIDE DEF s, S
<1>4. \A i \in 1..2 : s[i] = <<a, b>>[i]
  BY <1>2
<1>5. s = [i \in 1..2 |-> s[i]] /\ <<a, b>> = [i \in 1..2 |-> <<a, b>>[i]]
  BY <1>2, <1>3
<1> QED
  BY <1>4, <1>5 DEF s

LEMMA EmptyEnds ==
  ASSUME NEW S, NEW s \in Seq(S)
  PROVE  <<>> \o s = s /\ s \o <<>> = s
OBVIOUS

(* The rows of a selection that are in a set are a selection from it.      *)
LEMMA KeepInSelects ==
  ASSUME NEW S \in SUBSET Nat, NEW T, NEW batch, Selection(S, batch)
  PROVE  \/ KeepIn(T, batch) = <<>>
         \/ Selection(S \cap T, KeepIn(T, batch))
<1>1. CASE \E a \in S : batch = <<a>>
  <2>1. PICK a \in S : batch = <<a>>
    BY <1>1
  <2> QED
    BY <2>1 DEF KeepIn, Selection
<1>2. CASE \E a, b \in S : b < a /\ batch = <<a, b>>
  <2>1. PICK a \in S, b \in S : b < a /\ batch = <<a, b>>
    BY <1>2
  <2>2. /\ Len(batch) = 2 /\ batch[1] = a /\ batch[2] = b
        /\ <<a>> \o <<>> = <<a>> /\ <<>> \o <<b>> = <<b>> /\ <<>> \o <<>> = <<>>
    <3>1. <<a>> \in Seq(S) /\ <<b>> \in Seq(S) /\ <<>> \in Seq(S)
      OBVIOUS
    <3> QED
      <4>1. \A s \in Seq(S) : <<>> \o s = s /\ s \o <<>> = s
        BY EmptyEnds
      <4>2. <<a>> \o <<>> = <<a>> /\ <<>> \o <<b>> = <<b>> /\ <<>> \o <<>> = <<>>
        BY <3>1, <4>1
      <4> QED
        BY <2>1, <4>2
  <2>3. KeepIn(T, batch) = IF a \in T THEN IF b \in T THEN <<a, b>> ELSE <<a>>
                           ELSE IF b \in T THEN <<b>> ELSE <<>>
    <3>0. <<a>> \o <<b>> = <<a, b>>
      BY Pair
    <3>1. KeepIn(T, batch) = (IF a \in T THEN <<a>> ELSE <<>>) \o (IF b \in T THEN <<b>> ELSE <<>>)
      BY <2>2 DEF KeepIn
    <3>2. CASE a \in T /\ b \in T
      BY <3>0, <3>1, <3>2
    <3>3. CASE a \in T /\ b \notin T
      BY <2>2, <3>1, <3>3
    <3>4. CASE a \notin T /\ b \in T
      BY <2>2, <3>1, <3>4
    <3>5. CASE a \notin T /\ b \notin T
      BY <2>2, <3>1, <3>5
    <3> QED
      BY <3>2, <3>3, <3>4, <3>5
  <2> QED
    BY <2>1, <2>3 DEF Selection
<1> QED
  BY <1>1, <1>2 DEF Selection

(* Where the new rows are: after the loaded ones.                          *)
NewRowsLast(p, loaded, n) ==
  /\ p.insertedRowIndices = (loaded + 1)..n
  /\ RowsOf(p, "update") \cup RowsOf(p, "delete") \subseteq 1..loaded

LEMMA UndoOneInsertionKeeps ==
  ASSUME NEW p, Consistent(p), NEW loaded \in Nat, NEW n \in Nat, NewRowsLast(p, loaded, n),
         NEW a \in (loaded + 1)..n
  PROVE  /\ RowsRecorded(p, UndoBatchRowInsertion(p, <<a>>), p.deletedRowIndices, (loaded + 1)..(n - 1))
         /\ OnlyNewRows(p, UndoBatchRowInsertion(p, <<a>>))
<1> DEFINE f == BatchShift(<<a>>)
           q == ForgetInsertion(p, a)
           z == UndoBatchRowInsertion(p, <<a>>)
<1>1. \A r \in Nat : f[r] = IF a < r THEN r - 1 ELSE r
  BY CountInOne DEF BatchShift
<1>2. RowsRecorded(p, q, p.deletedRowIndices, ((loaded + 1)..n) \ {a}) /\ OnlyNewRows(p, q)
  BY ForgetInsertionKeeps DEF NewRowsLast
<1>3. Consistent(q) /\ q \in Pendings
  BY <1>2 DEF RowsRecorded, Consistent, Indexed
<1>4. z = RebuildChangeIndex(Renumbered(q, f))
  <2>1. KeepIn(p.insertedRowIndices, <<a>>) = <<a>>
    BY DEF KeepIn, NewRowsLast
  <2>2. ForEach(ForgetInsertion, p, <<a>>) = q
    BY DEF ForEach
  <2> HIDE DEF q
  <2>3. z = RebuildChangeIndex(BatchShifted(q, <<a>>))
    BY <2>1, <2>2 DEF UndoBatchRowInsertion, BatchShifted
  <2> QED
    BY <1>3, <2>3, BatchRenumbers
<1>5. Renumbering(q, f)
  <2>1. f \in [Nat -> Nat]
    <3>1. f = [r \in Nat |-> f[r]]
      BY DEF BatchShift
    <3>2. \A r \in Nat : f[r] \in Nat
      BY <1>1
    <3> HIDE DEF f
    <3> QED
      BY <3>1, <3>2
  <2>2. RowsOf(q, "update") \cup RowsOf(q, "delete") \subseteq 1..loaded
    BY <1>2 DEF NewRowsLast, RowsRecorded, Consistent, MarksMatch
  <2>3. q.insertedRowIndices = ((loaded + 1)..n) \ {a}
    BY <1>2 DEF RowsRecorded
  <2> HIDE DEF f, q
  <2> QED
    BY <1>1, <2>1, <2>2, <2>3 DEF Renumbering
<1>6. {f[r] : r \in ((loaded + 1)..n) \ {a}} = (loaded + 1)..(n - 1)
  <2>1. ASSUME NEW s \in (loaded + 1)..(n - 1)
        PROVE  \E r \in ((loaded + 1)..n) \ {a} : f[r] = s
    <3>1. CASE s < a
      BY <1>1, <3>1
    <3>2. CASE a <= s
      <4>1. s + 1 \in ((loaded + 1)..n) \ {a} /\ f[s + 1] = s
        BY <1>1, <3>2
      <4> QED
        BY <4>1
    <3> QED
      BY <3>1, <3>2
  <2>2. \A r \in ((loaded + 1)..n) \ {a} : f[r] \in (loaded + 1)..(n - 1)
    BY <1>1
  <2> HIDE DEF f
  <2> QED
    BY <2>1, <2>2
<1> HIDE DEF q, f, z
<1>7. /\ RowsRecorded(q, z, q.deletedRowIndices, {f[r] : r \in q.insertedRowIndices})
      /\ OnlyNewRows(q, z)
  BY <1>3, <1>4, <1>5, RenumberedKeeps
<1> QED
  BY <1>2, <1>6, <1>7 DEF RowsRecorded, OnlyNewRows, z

LEMMA UndoTwoInsertionsKeeps ==
  ASSUME NEW p, Consistent(p), NEW loaded \in Nat, NEW n \in Nat, NewRowsLast(p, loaded, n),
         NEW a \in (loaded + 1)..n, NEW b \in (loaded + 1)..n, b < a
  PROVE  /\ RowsRecorded(p, UndoBatchRowInsertion(p, <<a, b>>), p.deletedRowIndices,
                         (loaded + 1)..(n - 2))
         /\ OnlyNewRows(p, UndoBatchRowInsertion(p, <<a, b>>))
<1> DEFINE f == BatchShift(<<a, b>>)
           q1 == ForgetInsertion(p, a)
           q == ForgetInsertion(q1, b)
           z == UndoBatchRowInsertion(p, <<a, b>>)
           left == ((loaded + 1)..n) \ {a, b}
<1>1. \A r \in Nat : f[r] = IF a < r THEN r - 2 ELSE IF b < r THEN r - 1 ELSE r
  BY CountInTwo DEF BatchShift
<1>2. RowsRecorded(p, q, p.deletedRowIndices, left) /\ OnlyNewRows(p, q)
  <2>1. RowsRecorded(p, q1, p.deletedRowIndices, ((loaded + 1)..n) \ {a}) /\ OnlyNewRows(p, q1)
    BY ForgetInsertionKeeps DEF NewRowsLast
  <2>2. /\ RowsRecorded(q1, q, q1.deletedRowIndices, q1.insertedRowIndices \ {b})
        /\ OnlyNewRows(q1, q)
    <3> HIDE DEF q1
    <3> QED
      BY <2>1, ForgetInsertionKeeps DEF RowsRecorded
  <2> HIDE DEF q, q1
  <2> QED
    BY <2>1, <2>2 DEF RowsRecorded, OnlyNewRows
<1>3. Consistent(q) /\ q \in Pendings
  BY <1>2 DEF RowsRecorded, Consistent, Indexed
<1>4. z = RebuildChangeIndex(Renumbered(q, f))
  <2>1. KeepIn(p.insertedRowIndices, <<a, b>>) = <<a, b>>
    BY Pair DEF KeepIn, NewRowsLast
  <2>2. ForEach(ForgetInsertion, p, <<a, b>>) = q
    BY DEF ForEach
  <2> HIDE DEF q
  <2>3. z = RebuildChangeIndex(BatchShifted(q, <<a, b>>))
    BY <2>1, <2>2 DEF UndoBatchRowInsertion, BatchShifted
  <2> QED
    BY <1>3, <2>3, BatchRenumbers
<1>5. Renumbering(q, f)
  <2>1. f \in [Nat -> Nat]
    <3>1. f = [r \in Nat |-> f[r]]
      BY DEF BatchShift
    <3>2. \A r \in Nat : f[r] \in Nat
      BY <1>1
    <3> HIDE DEF f
    <3> QED
      BY <3>1, <3>2
  <2>2. RowsOf(q, "update") \cup RowsOf(q, "delete") \subseteq 1..loaded
    BY <1>2 DEF NewRowsLast, RowsRecorded, Consistent, MarksMatch
  <2>3. q.insertedRowIndices = left
    BY <1>2 DEF RowsRecorded
  <2> HIDE DEF f, q
  <2>4. \A r \in left : f[r] # 0
    BY <1>1
  <2>5. \A r, s \in left : f[r] = f[s] => r = s
    BY <1>1
  <2>6. \A r \in 1..loaded : f[r] = r
    BY <1>1
  <2> QED
    <3> HIDE DEF left
    <3> QED
      BY <2>1, <2>2, <2>3, <2>4, <2>5, <2>6 DEF Renumbering
<1>6. {f[r] : r \in left} = (loaded + 1)..(n - 2)
  <2>1. ASSUME NEW s \in (loaded + 1)..(n - 2)
        PROVE  \E r \in left : f[r] = s
    <3>1. CASE s < b
      BY <1>1, <3>1
    <3>2. CASE b <= s /\ s + 1 < a
      <4>1. s + 1 \in left /\ f[s + 1] = s
        BY <1>1, <3>2
      <4> QED
        BY <4>1
    <3>3. CASE b <= s /\ a <= s + 1
      <4>1. s + 2 \in left /\ f[s + 2] = s
        BY <1>1, <3>3
      <4> QED
        BY <4>1
    <3> QED
      BY <3>1, <3>2, <3>3
  <2>2. \A r \in left : f[r] \in (loaded + 1)..(n - 2)
    BY <1>1
  <2> HIDE DEF f
  <2> QED
    BY <2>1, <2>2
<1> HIDE DEF q, f, z
<1>7. /\ RowsRecorded(q, z, q.deletedRowIndices, {f[r] : r \in q.insertedRowIndices})
      /\ OnlyNewRows(q, z)
  BY <1>3, <1>4, <1>5, RenumberedKeeps
<1> QED
  BY <1>2, <1>6, <1>7 DEF RowsRecorded, OnlyNewRows, z

-------------------------------------------------------------------------------
(***************************************************************************)
(* The inductive invariant.                                                *)
(***************************************************************************)

(* The grid: whole rows, the loaded ones first and in order.               *)
GridInv(rows) ==
  /\ rows \in Seq(Rows)
  /\ Len(Base) <= Len(rows)
  /\ \A row \in 1..Len(rows) : rows[row].origin = IF row \in 1..Len(Base) THEN row ELSE 0

IInv ==
  /\ GridInv(tableRows)
  /\ Consistent(pending)
  /\ NewRowsLast(pending, Len(Base), Len(tableRows))

LEMMA BaseLength == Len(Base) \in Nat /\ DOMAIN Base = 1..Len(Base)
BY BaseAssumption

(* The commands on cells and on loaded rows leave the new rows last.       *)
LEMMA CellRecordedKeepsRows ==
  ASSUME NEW p, NEW q, NEW n \in Nat, NEW row \in 1..n,
         Consistent(p), NewRowsLast(p, Len(Base), n), CellRecorded(p, q, row)
  PROVE  Consistent(q) /\ NewRowsLast(q, Len(Base), n)
<1>1. /\ RowsOf(q, "delete") = RowsOf(p, "delete")
      /\ q.insertedRowIndices = p.insertedRowIndices
  BY DEF CellRecorded, Consistent, MarksMatch, SameRowSets
<1>2. row \notin p.insertedRowIndices => row \in 1..Len(Base)
  BY BaseLength DEF NewRowsLast
<1>3. RowsOf(q, "update") \subseteq 1..Len(Base)
  BY <1>2 DEF CellRecorded, NewRowsLast
<1> QED
  BY <1>1, <1>3 DEF CellRecorded, NewRowsLast

LEMMA RowsRecordedKeepsRows ==
  ASSUME NEW p, NEW q, NEW n, NEW m, NEW deleted, NEW inserted,
         Consistent(p), NewRowsLast(p, Len(Base), n), RowsRecorded(p, q, deleted, inserted),
         deleted \subseteq 1..Len(Base), inserted = (Len(Base) + 1)..m
  PROVE  Consistent(q) /\ NewRowsLast(q, Len(Base), m)
BY DEF RowsRecorded, Consistent, MarksMatch, NewRowsLast

LEMMA DeletedAreLoaded ==
  ASSUME NEW p, NEW n, Consistent(p), NewRowsLast(p, Len(Base), n)
  PROVE  p.deletedRowIndices \subseteq 1..Len(Base)
BY DEF Consistent, MarksMatch, NewRowsLast

LEMMA EmptyPendingConsistent ==
  /\ Consistent(EmptyPending)
  /\ \A t : RowsOf(EmptyPending, t) = {}
  /\ EmptyPending.insertedRowIndices = {}
<1>1. EmptyPending \in Pendings
  <2>1. <<>> \in Seq(RowChanges)
    OBVIOUS
  <2>2. /\ EmptyMap \in [{} -> Nat] /\ EmptyMap \in [{} -> SUBSET Columns]
        /\ EmptyMap \in [{} -> Seq(Cells)]
    BY DEF EmptyMap
  <2>3. /\ EmptyMap \in UNION {[keys -> Nat] : keys \in SUBSET (Nat \X Kinds)}
        /\ EmptyMap \in UNION {[rows -> SUBSET Columns] : rows \in SUBSET Nat}
        /\ EmptyMap \in UNION {[rows -> Seq(Cells)] : rows \in SUBSET Nat}
    BY <2>2
  <2> QED
    BY <2>1, <2>3 DEF EmptyPending, Pendings
<1>2. /\ EmptyPending.changes = <<>> /\ EmptyPending.insertedRowIndices = {}
      /\ EmptyPending.deletedRowIndices = {}
      /\ EmptyPending.modifiedCells = EmptyMap /\ EmptyPending.changeIndex = EmptyMap
      /\ DOMAIN EmptyMap = {}
  BY DEF EmptyPending, EmptyMap
<1>3. ChangesOf(EmptyPending) = {}
  BY <1>2 DEF ChangesOf
<1>4. \A t : RowsOf(EmptyPending, t) = {}
  BY <1>3 DEF RowsOf
<1> QED
  BY <1>1, <1>2, <1>3, <1>4 DEF Consistent, Indexed, IndexExact, MarksMatch, ModifiedMatches

LEMMA EmptyPendingKeepsRows ==
  Consistent(EmptyPending) /\ NewRowsLast(EmptyPending, Len(Base), Len(Base))
<1>1. (Len(Base) + 1)..Len(Base) = {}
  BY BaseLength
<1> QED
  BY <1>1, EmptyPendingConsistent DEF NewRowsLast

LEMMA InitIInv == Init => IInv
<1> SUFFICES ASSUME Init PROVE IInv
  OBVIOUS
<1>1. tableRows = [i \in 1..Len(Base) |-> ExistingRow(i)] /\ pending = EmptyPending
  BY BaseLength DEF Init
<1>2. ASSUME NEW i \in 1..Len(Base)
      PROVE  ExistingRow(i) \in Rows /\ ExistingRow(i).origin = i
  BY BaseAssumption DEF ExistingRow, Rows
<1>3. tableRows \in Seq(Rows) /\ Len(tableRows) = Len(Base)
  BY <1>1, <1>2, BaseLength
<1>4. GridInv(tableRows)
  BY <1>1, <1>2, <1>3, BaseLength DEF GridInv
<1> QED
  BY <1>1, <1>3, <1>4, EmptyPendingKeepsRows DEF IInv

-------------------------------------------------------------------------------
(***************************************************************************)
(* Every command keeps it.                                                 *)
(***************************************************************************)
LEMMA GridRow ==
  ASSUME NEW rows, GridInv(rows), NEW row \in DOMAIN rows
  PROVE  /\ rows \in Seq(Rows) /\ Len(rows) \in Nat /\ DOMAIN rows = 1..Len(rows)
         /\ rows[row] \in Rows /\ rows[row].values \in [Columns -> Cells]
         /\ row \in Nat \ {0}
<1>1. rows \in Seq(Rows) /\ Len(rows) \in Nat /\ DOMAIN rows = 1..Len(rows)
  BY DEF GridInv
<1>2. rows[row] \in Rows /\ row \in Nat \ {0}
  BY <1>1
<1> QED
  BY <1>1, <1>2 DEF Rows

LEMMA EditCellKeepsGrid ==
  ASSUME NEW rows, GridInv(rows), NEW row \in DOMAIN rows, NEW col \in Columns, NEW v \in Cells
  PROVE  GridInv(EditCell(rows, row, col, v)) /\ Len(EditCell(rows, row, col, v)) = Len(rows)
<1> DEFINE edited == [rows[row] EXCEPT !.values[col] = v]
           n == Len(rows)
<1>1. rows \in Seq(Rows) /\ n \in Nat /\ DOMAIN rows = 1..n /\ rows[row] \in Rows
  BY GridRow
<1>2. edited \in Rows /\ edited.origin = rows[row].origin
  BY <1>1 DEF Rows
<1>3. EditCell(rows, row, col, v) = [rows EXCEPT ![row] = edited]
  BY DEF EditCell
<1> HIDE DEF edited
<1>4. /\ [rows EXCEPT ![row] = edited] \in Seq(Rows)
      /\ Len([rows EXCEPT ![row] = edited]) = n
      /\ \A r \in 1..n : [rows EXCEPT ![row] = edited][r] = IF r = row THEN edited ELSE rows[r]
  BY <1>1, <1>2
<1> QED
  <2> DEFINE rows2 == [rows EXCEPT ![row] = edited]
  <2>1. \A r \in 1..n : rows2[r].origin = rows[r].origin
    BY <1>2, <1>4
  <2> HIDE DEF rows2
  <2>2. GridInv(rows2) /\ Len(rows2) = n
    BY <1>4, <2>1 DEF GridInv, rows2
  <2> QED
    BY <1>3, <2>2 DEF rows2

LEMMA CommitCellEditStep ==
  ASSUME IInv, NEW row \in DOMAIN tableRows, NEW col \in EditColumns, NEW value \in EditValues,
         CommitCellEdit(row, col, value)
  PROVE  IInv'
<1> DEFINE shown == tableRows[row].values
<1>1. GridInv(tableRows) /\ Consistent(pending) /\ NewRowsLast(pending, Len(Base), Len(tableRows))
  BY DEF IInv
<1>2. /\ shown \in [Columns -> Cells] /\ row \in Nat \ {0} /\ row \in 1..Len(tableRows)
      /\ Len(tableRows) \in Nat
  BY <1>1, GridRow
<1>3. col \in Columns /\ value \in Cells /\ shown[col] \in Cells
  BY <1>2, EditAssumption
<1>4. /\ pending' = RecordCellChange(pending, row, col, shown[col], value, shown)
      /\ tableRows' = EditCell(tableRows, row, col, value)
  BY DEF CommitCellEdit
<1>5. CellRecorded(pending, pending', row)
  <2> HIDE DEF shown
  <2> QED
    BY <1>1, <1>2, <1>3, <1>4, RecordCellChangeKeeps
<1>6. Consistent(pending') /\ NewRowsLast(pending', Len(Base), Len(tableRows))
  BY <1>1, <1>2, <1>5, CellRecordedKeepsRows
<1>7. GridInv(tableRows') /\ Len(tableRows') = Len(tableRows)
  BY <1>1, <1>3, <1>4, EditCellKeepsGrid
<1> QED
  BY <1>6, <1>7 DEF IInv

LEMMA SidebarEditStep ==
  ASSUME IInv, NEW selected, Selection(DOMAIN tableRows, selected),
         NEW col \in EditColumns, NEW value \in EditValues, SidebarEdit(selected, col, value)
  PROVE  IInv'
<1> DEFINE n == Len(tableRows)
           shown(row) == tableRows[row].values
           original == IF \A i, j \in DOMAIN selected :
                            shown(selected[i])[col] = shown(selected[j])[col]
                       THEN shown(selected[1])[col] ELSE Null
           record(p, row) == RecordCellChange(p, row, col, original, value, shown(row))
<1>1. /\ GridInv(tableRows) /\ Consistent(pending) /\ NewRowsLast(pending, Len(Base), n)
      /\ n \in Nat /\ DOMAIN tableRows = 1..n
  BY DEF IInv, GridInv
<1>2. col \in Columns /\ value \in Cells
  BY EditAssumption
<1>3. \A row \in 1..n : shown(row) \in [Columns -> Cells] /\ row \in Nat \ {0}
  BY <1>1, GridRow
<1>4. original \in Cells
  <2>1. selected[1] \in 1..n
    BY <1>1 DEF Selection
  <2>2. shown(selected[1])[col] \in Cells /\ Null \in Cells
    BY <1>2, <1>3, <2>1 DEF Cells
  <2> QED
    BY <2>2
<1>5. pending' = ForEach(record, pending, selected) /\ tableRows' = tableRows
  BY DEF SidebarEdit
<1> HIDE DEF original
<1>6. ASSUME NEW p, Consistent(p), NewRowsLast(p, Len(Base), n), NEW row \in 1..n
      PROVE  Consistent(record(p, row)) /\ NewRowsLast(record(p, row), Len(Base), n)
  <2>1. CellRecorded(p, record(p, row), row)
    BY <1>2, <1>3, <1>4, <1>6, RecordCellChangeKeeps
  <2> QED
    BY <1>1, <1>6, <2>1, CellRecordedKeepsRows
<1> HIDE DEF record, n
<1>7. Consistent(pending') /\ NewRowsLast(pending', Len(Base), n)
  <2>1. CASE \E a \in 1..n : selected = <<a>>
    <3>1. PICK a \in 1..n : selected = <<a>>
      BY <2>1
    <3>2. pending' = record(pending, a)
      BY <1>5, <3>1 DEF ForEach
    <3> QED
      BY <1>1, <1>6, <3>2
  <2>2. CASE \E a, b \in 1..n : b < a /\ selected = <<a, b>>
    <3>1. PICK a \in 1..n, b \in 1..n : selected = <<a, b>>
      BY <2>2
    <3>2. pending' = record(record(pending, a), b)
      BY <1>5, <3>1 DEF ForEach
    <3>3. Consistent(record(pending, a)) /\ NewRowsLast(record(pending, a), Len(Base), n)
      BY <1>1, <1>6
    <3> QED
      BY <1>6, <3>2, <3>3
  <2> QED
    BY <1>1, <2>1, <2>2 DEF Selection
<1> QED
  BY <1>1, <1>5, <1>7 DEF IInv, n

LEMMA NewRow ==
  ASSUME NEW v \in [Columns -> Cells]
  PROVE  v \in Seq(Cells) /\ InsertedRow(v) \in Rows /\ InsertedRow(v).origin = 0
<1>1. v \in Seq(Cells) /\ Len(v) = NumColumns
  BY NumColumnsAssumption DEF Columns
<1>2. [c \in Columns |-> IF c <= Len(v) THEN v[c] ELSE Null] \in [Columns -> Cells]
  BY DEF Cells
<1> QED
  BY <1>1, <1>2 DEF InsertedRow, Rows

LEMMA AppendKeepsGrid ==
  ASSUME NEW rows, GridInv(rows), NEW added \in Seq(Rows),
         \A k \in DOMAIN added : added[k].origin = 0
  PROVE  GridInv(rows \o added) /\ Len(rows \o added) = Len(rows) + Len(added)
<1> DEFINE all == rows \o added
           n == Len(rows)
<1>1. rows \in Seq(Rows) /\ n \in Nat /\ Len(added) \in Nat /\ Len(Base) \in Nat /\ Len(Base) <= n
  BY BaseLength DEF GridInv
<1>2. /\ all \in Seq(Rows) /\ Len(all) = n + Len(added)
      /\ \A i \in 1..n : all[i] = rows[i]
      /\ \A i \in (n + 1)..(n + Len(added)) : all[i] = added[i - n]
  BY <1>1
<1> HIDE DEF all
<1>3. ASSUME NEW row \in 1..Len(all)
      PROVE  all[row].origin = IF row \in 1..Len(Base) THEN row ELSE 0
  <2>1. CASE row <= n
    BY <1>1, <1>2, <2>1 DEF GridInv
  <2>2. CASE row > n
    <3>1. row - n \in DOMAIN added /\ all[row] = added[row - n]
      BY <1>1, <1>2, <2>2
    <3> QED
      BY <1>1, <2>2, <3>1
  <2> QED
    BY <1>1, <1>2, <2>1, <2>2
<1>4. GridInv(all) /\ Len(all) = n + Len(added)
  BY <1>1, <1>2, <1>3 DEF GridInv
<1> QED
  BY <1>4 DEF all

LEMMA RecordInsertionAtEnd ==
  ASSUME NEW p, NEW n \in Nat, Consistent(p), NewRowsLast(p, Len(Base), n), Len(Base) <= n,
         NEW v \in [Columns -> Cells]
  PROVE  LET q == RecordRowInsertion(p, n + 1, v)
         IN  Consistent(q) /\ NewRowsLast(q, Len(Base), n + 1)
<1> DEFINE q == RecordRowInsertion(p, n + 1, v)
<1>1. v \in Seq(Cells) /\ n + 1 \in Nat \ {0}
  BY NewRow
<1>2. RowsRecorded(p, q, p.deletedRowIndices, p.insertedRowIndices \cup {n + 1})
  BY <1>1, RecordRowInsertionKeeps
<1>3. p.insertedRowIndices \cup {n + 1} = (Len(Base) + 1)..(n + 1)
  BY BaseLength DEF NewRowsLast
<1>4. p.deletedRowIndices \subseteq 1..Len(Base)
  BY DeletedAreLoaded
<1> DEFINE m == n + 1
           inserted == p.insertedRowIndices \cup {n + 1}
<1>5. inserted = (Len(Base) + 1)..m /\ RowsRecorded(p, q, p.deletedRowIndices, inserted)
  BY <1>2, <1>3
<1> HIDE DEF q, m, inserted
<1>6. Consistent(q) /\ NewRowsLast(q, Len(Base), m)
  BY <1>4, <1>5, RowsRecordedKeepsRows
<1> QED
  BY <1>6 DEF q, m

(* Rows are recorded one by one, after the rows there are.                 *)
LEMMA RecordedOneByOne ==
  ASSUME Len(tableRows) \in Nat, NEW v, NEW values, InsertRows(values)
  PROVE  LET n == Len(tableRows)
         IN  /\ values = <<v>> => pending' = RecordRowInsertion(pending, n + 1, v)
             /\ values = <<v, v>> =>
                  pending' = RecordRowInsertion(RecordRowInsertion(pending, n + 1, v), n + 2, v)
<1> DEFINE n == Len(tableRows)
           record(p, k) == RecordRowInsertion(p, n + 1 + k - 1, values[k])
           order == [k \in DOMAIN values |-> k]
<1>1. pending' = ForEach(record, pending, order)
  BY DEF InsertRows
<1>2. n + 1 + 1 - 1 = n + 1 /\ n + 1 + 2 - 1 = n + 2
  OBVIOUS
<1>3. ASSUME values = <<v>>
      PROVE  pending' = RecordRowInsertion(pending, n + 1, v)
  <2>1. order = <<1>> /\ values[1] = v
    BY <1>3
  <2> HIDE DEF order
  <2>2. pending' = record(pending, 1)
    BY <1>1, <2>1 DEF ForEach
  <2> QED
    BY <1>2, <2>1, <2>2
<1>4. ASSUME values = <<v, v>>
      PROVE  pending' = RecordRowInsertion(RecordRowInsertion(pending, n + 1, v), n + 2, v)
  <2>1. DOMAIN values = 1..2 /\ values[1] = v /\ values[2] = v
    BY <1>4
  <2>2. Len(order) = 2 /\ order[1] = 1 /\ order[2] = 2
    BY <2>1
  <2> HIDE DEF order, record
  <2>3. pending' = record(record(pending, 1), 2)
    BY <1>1, <2>2 DEF ForEach
  <2> QED
    BY <1>2, <2>1, <2>3 DEF record
<1> QED
  BY <1>3, <1>4

LEMMA InsertRowsStep ==
  ASSUME IInv, NEW v \in [Columns -> Cells], NEW values, values = <<v>> \/ values = <<v, v>>,
         InsertRows(values)
  PROVE  IInv'
<1> DEFINE n == Len(tableRows)
           added == [k \in DOMAIN values |-> InsertedRow(values[k])]
           first == RecordRowInsertion(pending, n + 1, v)
<1>1. /\ GridInv(tableRows) /\ Consistent(pending) /\ NewRowsLast(pending, Len(Base), n)
      /\ n \in Nat /\ Len(Base) <= n
  BY DEF IInv, GridInv
<1>2. tableRows' = tableRows \o added
  BY DEF InsertRows
<1>3. Consistent(first) /\ NewRowsLast(first, Len(Base), n + 1)
  BY <1>1, RecordInsertionAtEnd
<1>4. CASE values = <<v>>
  <2>1. added \in Seq(Rows) /\ Len(added) = 1 /\ \A k \in DOMAIN added : added[k].origin = 0
    BY <1>4, NewRow
  <2>2. GridInv(tableRows') /\ Len(tableRows') = n + 1
    <3> HIDE DEF added
    <3> QED
      BY <1>1, <1>2, <2>1, AppendKeepsGrid
  <2>3. pending' = first
    BY <1>1, <1>4, RecordedOneByOne
  <2> QED
    BY <1>3, <2>2, <2>3 DEF IInv
<1>5. CASE values = <<v, v>>
  <2> DEFINE second == RecordRowInsertion(first, n + 2, v)
  <2>1. added \in Seq(Rows) /\ Len(added) = 2 /\ \A k \in DOMAIN added : added[k].origin = 0
    BY <1>5, NewRow
  <2>2. GridInv(tableRows') /\ Len(tableRows') = n + 2
    <3> HIDE DEF added
    <3> QED
      BY <1>1, <1>2, <2>1, AppendKeepsGrid
  <2>3. pending' = second
    BY <1>1, <1>5, RecordedOneByOne
  <2>4. Consistent(second) /\ NewRowsLast(second, Len(Base), n + 2)
    <3> HIDE DEF first
    <3>1. n + 1 \in Nat /\ Len(Base) <= n + 1 /\ n + 1 + 1 = n + 2
      BY <1>1, BaseLength
    <3>2. /\ Consistent(RecordRowInsertion(first, n + 1 + 1, v))
          /\ NewRowsLast(RecordRowInsertion(first, n + 1 + 1, v), Len(Base), n + 1 + 1)
      BY <1>3, <3>1, RecordInsertionAtEnd
    <3> QED
      BY <3>1, <3>2
  <2> QED
    BY <2>2, <2>3, <2>4 DEF IInv
<1> QED
  BY <1>4, <1>5

LEMMA AddNewRowStep ==
  ASSUME IInv, AddNewRow
  PROVE  IInv'
<1> DEFINE v == [c \in Columns |-> IF c \in DefaultColumns THEN Default ELSE Null]
<1>1. v \in [Columns -> Cells] /\ InsertRows(<<v>>)
  BY DEF AddNewRow, Cells
<1> QED
  BY <1>1, InsertRowsStep

LEMMA DuplicateRowStep ==
  ASSUME IInv, NEW source \in DOMAIN tableRows, DuplicateRow(source)
  PROVE  IInv'
<1> DEFINE v == [c \in Columns |-> IF c \in PrimaryKeyColumns THEN Default
                                    ELSE tableRows[source].values[c]]
<1>1. tableRows[source].values \in [Columns -> Cells]
  BY GridRow DEF IInv
<1>2. v \in [Columns -> Cells] /\ InsertRows(<<v>>)
  BY <1>1 DEF DuplicateRow, Cells
<1> QED
  BY <1>2, InsertRowsStep

LEMMA PasteRowsStep ==
  ASSUME IInv, NEW value \in EditValues, PasteRows(value)
  PROVE  IInv'
<1> DEFINE first(c) == c \in PrimaryKeyColumns /\ \A k \in PrimaryKeyColumns : c <= k
           v == [c \in Columns |-> IF first(c) THEN Default ELSE value]
<1>1. v \in [Columns -> Cells] /\ InsertRows(<<v, v>>)
  BY EditAssumption DEF PasteRows, Cells
<1> HIDE DEF v
<1> QED
  BY <1>1, InsertRowsStep

LEMMA UndoDeleteRowStep ==
  ASSUME IInv, NEW row \in pending.deletedRowIndices, UndoDeleteRow(row)
  PROVE  IInv'
<1>1. /\ Consistent(pending) /\ NewRowsLast(pending, Len(Base), Len(tableRows))
      /\ pending' = UndoRowDeletion(pending, row) /\ tableRows' = tableRows
  BY DEF IInv, UndoDeleteRow
<1>2. RowsRecorded(pending, pending', pending.deletedRowIndices \ {row}, pending.insertedRowIndices)
  BY <1>1, UndoRowDeletionKeeps
<1>3. /\ pending.deletedRowIndices \ {row} \subseteq 1..Len(Base)
      /\ pending.insertedRowIndices = (Len(Base) + 1)..Len(tableRows)
  BY <1>1, DeletedAreLoaded DEF NewRowsLast
<1>4. Consistent(pending') /\ NewRowsLast(pending', Len(Base), Len(tableRows))
  BY <1>1, <1>2, <1>3, RowsRecordedKeepsRows
<1> QED
  BY <1>1, <1>4 DEF IInv

LEMMA RemoveRowKeepsGrid ==
  ASSUME NEW rows, GridInv(rows), NEW row \in (Len(Base) + 1)..Len(rows)
  PROVE  /\ GridInv(RemoveRowAt(rows, row)) /\ Len(RemoveRowAt(rows, row)) = Len(rows) - 1
         /\ \A r \in 1..Len(Base) : RemoveRowAt(rows, row)[r] = rows[r]
<1> DEFINE n == Len(rows)
           front == SubSeq(rows, 1, row - 1)
           back == SubSeq(rows, row + 1, n)
           left == front \o back
<1>1. /\ rows \in Seq(Rows) /\ n \in Nat /\ Len(Base) \in Nat /\ row \in Nat
      /\ Len(Base) < row /\ row <= n /\ DOMAIN rows = 1..n
  BY BaseLength DEF GridInv
<1>2. RemoveRowAt(rows, row) = left
  <2>1. row \in DOMAIN rows
    BY <1>1
  <2>2. RemoveRowAt(rows, row) = RemoveAt(rows, row)
    BY <2>1 DEF RemoveRowAt
  <2> QED
    BY <2>2 DEF RemoveAt
<1>3. /\ front \in Seq(Rows) /\ Len(front) = row - 1
      /\ \A i \in 1..(row - 1) : front[i] = rows[i]
  BY <1>1
<1>4. /\ back \in Seq(Rows) /\ Len(back) = n - row
      /\ \A i \in 1..(n - row) : back[i] = rows[i + row]
  <2>1. row + 1 \in Int /\ n \in Int /\ \A i \in (row + 1)..n : rows[i] \in Rows
    BY <1>1
  <2>2. back \in Seq(Rows) /\ Len(back) = n - row
    <3>1. /\ back \in Seq(Rows)
          /\ Len(back) = IF row + 1 <= n THEN n - (row + 1) + 1 ELSE 0
      BY <2>1, SubSeqProperties
    <3>2. (IF row + 1 <= n THEN n - (row + 1) + 1 ELSE 0) = n - row
      <4>1. n \in Int /\ row \in Int /\ row <= n
        BY <1>1
      <4> HIDE DEF n
      <4> QED
        BY <4>1
    <3> HIDE DEF back, n
    <3> QED
      BY <3>1, <3>2
  <2>3. ASSUME NEW i \in 1..(n - row)
        PROVE  back[i] = rows[i + row]
    <3>1. i \in 1..(n - (row + 1) + 1) /\ (row + 1) + i - 1 = i + row
      BY <1>1
    <3>2. back[i] = rows[(row + 1) + i - 1]
      BY <1>1, <3>1
    <3> QED
      BY <3>1, <3>2
  <2> QED
    BY <2>2, <2>3
<1> HIDE DEF front, back
<1>5. /\ left \in Seq(Rows) /\ Len(left) = n - 1
      /\ \A i \in 1..(row - 1) : left[i] = rows[i]
      /\ \A i \in row..(n - 1) : left[i] = rows[i + 1]
  <2>1. left \in Seq(Rows) /\ Len(left) = n - 1
    <3>1. front \in Seq(Rows) /\ back \in Seq(Rows)
      BY <1>3, <1>4
    <3>2. left \in Seq(Rows) /\ Len(left) = Len(front) + Len(back)
      BY <3>1
    <3> HIDE DEF left
    <3> QED
      BY <1>1, <1>3, <1>4, <3>2
  <2>2. \A i \in 1..(row - 1) : left[i] = rows[i]
    BY <1>1, <1>3, <1>4
  <2>3. ASSUME NEW i \in row..(n - 1)
        PROVE  left[i] = rows[i + 1]
    <3>1. left[i] = back[i - (row - 1)]
      BY <1>1, <1>3, <1>4
    <3>2. i - (row - 1) \in 1..(n - row) /\ (i - (row - 1)) + row = i + 1
      BY <1>1
    <3> QED
      BY <1>4, <3>1, <3>2
  <2> QED
    BY <2>1, <2>2, <2>3
<1> HIDE DEF left
<1>6. ASSUME NEW r \in 1..Len(left)
      PROVE  left[r].origin = IF r \in 1..Len(Base) THEN r ELSE 0
  <2>1. CASE r < row
    <3>1. left[r] = rows[r] /\ r \in 1..n
      BY <1>1, <1>5, <2>1
    <3> QED
      BY <3>1 DEF GridInv
  <2>2. CASE row <= r
    <3>1. left[r] = rows[r + 1] /\ r + 1 \in 1..n /\ r \notin 1..Len(Base) /\ r + 1 \notin 1..Len(Base)
      BY <1>1, <1>5, <2>2
    <3> QED
      BY <3>1 DEF GridInv
  <2> QED
    BY <1>1, <1>5, <2>1, <2>2
<1>7. GridInv(left) /\ Len(left) = n - 1
  BY <1>1, <1>5, <1>6 DEF GridInv
<1>8. \A r \in 1..Len(Base) : left[r] = rows[r]
  BY <1>1, <1>5
<1> QED
  BY <1>2, <1>7, <1>8

(* Deleting new rows takes them out of the grid and of the changes.        *)
LEMMA DeleteNewRows ==
  ASSUME IInv, NEW new, Selection(pending.insertedRowIndices, new)
  PROVE  LET rows == ForEach(RemoveRowAt, tableRows, new)
             p == UndoBatchRowInsertion(pending, new)
         IN  /\ GridInv(rows) /\ Consistent(p) /\ NewRowsLast(p, Len(Base), Len(rows))
             /\ p.deletedRowIndices = pending.deletedRowIndices
             /\ OnlyNewRows(pending, p)
             /\ \A r \in 1..Len(Base) : rows[r] = tableRows[r]
<1> DEFINE n == Len(tableRows)
           loaded == Len(Base)
           rows == ForEach(RemoveRowAt, tableRows, new)
           p == UndoBatchRowInsertion(pending, new)
<1>1. /\ GridInv(tableRows) /\ Consistent(pending) /\ NewRowsLast(pending, loaded, n)
      /\ n \in Nat /\ loaded \in Nat /\ loaded <= n
      /\ pending.insertedRowIndices = (loaded + 1)..n
      /\ pending.deletedRowIndices \subseteq 1..loaded
  BY BaseLength, DeletedAreLoaded DEF IInv, GridInv, NewRowsLast
<1>2. CASE \E a \in (loaded + 1)..n : new = <<a>>
  <2>1. PICK a \in (loaded + 1)..n : new = <<a>>
    BY <1>2
  <2>2. rows = RemoveRowAt(tableRows, a)
    BY <2>1 DEF ForEach
  <2>3. /\ GridInv(rows) /\ Len(rows) = n - 1
        /\ \A r \in 1..loaded : rows[r] = tableRows[r]
    BY <1>1, <2>2, RemoveRowKeepsGrid
  <2>4. /\ RowsRecorded(pending, p, pending.deletedRowIndices, (loaded + 1)..(n - 1))
        /\ OnlyNewRows(pending, p)
    BY <1>1, <2>1, UndoOneInsertionKeeps
  <2> HIDE DEF p, rows
  <2> DEFINE m == n - 1
             inserted == (loaded + 1)..(n - 1)
  <2>5. /\ inserted = (loaded + 1)..m /\ RowsRecorded(pending, p, pending.deletedRowIndices, inserted)
    BY <2>4
  <2> HIDE DEF m, inserted
  <2>6. Consistent(p) /\ NewRowsLast(p, loaded, m)
    BY <1>1, <2>5, RowsRecordedKeepsRows
  <2>7. p.deletedRowIndices = pending.deletedRowIndices
    BY <2>4 DEF RowsRecorded
  <2> QED
    BY <2>3, <2>4, <2>6, <2>7 DEF p, rows, m
<1>3. CASE \E a, b \in (loaded + 1)..n : b < a /\ new = <<a, b>>
  <2>1. PICK a \in (loaded + 1)..n, b \in (loaded + 1)..n : b < a /\ new = <<a, b>>
    BY <1>3
  <2> DEFINE once == RemoveRowAt(tableRows, a)
  <2>2. rows = RemoveRowAt(once, b)
    BY <2>1 DEF ForEach
  <2>3. /\ GridInv(rows) /\ Len(rows) = n - 2
        /\ \A r \in 1..loaded : rows[r] = tableRows[r]
    <3>1. /\ GridInv(once) /\ Len(once) = n - 1
          /\ \A r \in 1..loaded : once[r] = tableRows[r]
      BY <1>1, RemoveRowKeepsGrid
    <3> HIDE DEF once
    <3>2. b \in (loaded + 1)..Len(once)
      BY <1>1, <2>1, <3>1
    <3>3. /\ GridInv(rows) /\ Len(rows) = Len(once) - 1
          /\ \A r \in 1..loaded : rows[r] = once[r]
      BY <2>2, <3>1, <3>2, RemoveRowKeepsGrid
    <3> QED
      BY <1>1, <3>1, <3>3
  <2>4. /\ RowsRecorded(pending, p, pending.deletedRowIndices, (loaded + 1)..(n - 2))
        /\ OnlyNewRows(pending, p)
    BY <1>1, <2>1, UndoTwoInsertionsKeeps
  <2> HIDE DEF p, rows
  <2> DEFINE m == n - 2
             inserted == (loaded + 1)..(n - 2)
  <2>5. /\ inserted = (loaded + 1)..m /\ RowsRecorded(pending, p, pending.deletedRowIndices, inserted)
    BY <2>4
  <2> HIDE DEF m, inserted
  <2>6. Consistent(p) /\ NewRowsLast(p, loaded, m)
    BY <1>1, <2>5, RowsRecordedKeepsRows
  <2>7. p.deletedRowIndices = pending.deletedRowIndices
    BY <2>4 DEF RowsRecorded
  <2> QED
    BY <2>3, <2>4, <2>6, <2>7 DEF p, rows, m
<1> QED
  BY <1>1, <1>2, <1>3 DEF Selection

(* Deleting loaded rows marks them.                                        *)
LEMMA DeletionOfLoaded ==
  ASSUME NEW p, NEW n, Consistent(p), NewRowsLast(p, Len(Base), n),
         NEW row \in 1..Len(Base), NEW original \in [Columns -> Cells]
  PROVE  LET q == RecordRowDeletion(p, row, original)
         IN  Consistent(q) /\ NewRowsLast(q, Len(Base), n)
<1> DEFINE q == RecordRowDeletion(p, row, original)
           deleted == p.deletedRowIndices \cup {row}
<1>0. row \in Nat \ {0}
  BY BaseLength
<1>1. RowsRecorded(p, q, deleted, p.insertedRowIndices)
  BY <1>0, RecordRowDeletionKeeps
<1>2. p.insertedRowIndices = (Len(Base) + 1)..n
  BY DEF NewRowsLast
<1>3. deleted \subseteq 1..Len(Base)
  BY DeletedAreLoaded
<1> HIDE DEF q, deleted
<1>4. Consistent(q) /\ NewRowsLast(q, Len(Base), n)
  BY <1>1, <1>2, <1>3, RowsRecordedKeepsRows
<1> QED
  BY <1>4 DEF q

(* The new rows of the selection leave the grid and the changes.           *)
Trimmed(p) ==
  /\ GridInv(tableRows')
  /\ Consistent(p)
  /\ NewRowsLast(p, Len(Base), Len(tableRows'))
  /\ p.deletedRowIndices = pending.deletedRowIndices
  /\ OnlyNewRows(pending, p)
  /\ \A r \in 1..Len(Base) : tableRows'[r] = tableRows[r]
  /\ "deleteNew" \notin Commands => p = pending /\ tableRows' = tableRows

(* Its loaded rows are marked.                                             *)
Deleted(p, row) == RecordRowDeletion(p, row, tableRows[row].values)

MarkedAfter(p) ==
  \/ pending' = p
  \/ /\ "delete" \in Commands
     /\ \/ \E a \in 1..Len(Base) : pending' = Deleted(p, a)
        \/ \E a, b \in 1..Len(Base) : pending' = Deleted(Deleted(p, a), b)

LEMMA SelectedRowsDeleted ==
  ASSUME IInv, NEW selected, Selection(DOMAIN tableRows, selected), DeleteSelectedRows(selected)
  PROVE  \E p : Trimmed(p) /\ MarkedAfter(p)
<1> DEFINE new == KeepIn(pending.insertedRowIndices, selected)
           loaded == 1..Len(Base)
           candidates == DOMAIN tableRows \ (pending.insertedRowIndices \cup pending.deletedRowIndices)
           existing == KeepIn(candidates, selected)
           item(i) == [row |-> existing[i], original |-> tableRows[existing[i]].values]
           deleted == [i \in DOMAIN existing |-> item(i)]
           record(p, it) == RecordRowDeletion(p, it.row, it.original)
           trimmed == IF new = <<>> THEN pending ELSE UndoBatchRowInsertion(pending, new)
           n == Len(tableRows')
<1>1. /\ tableRows' = ForEach(RemoveRowAt, tableRows, new)
      /\ pending' = ForEach(record, trimmed, deleted)
      /\ new # <<>> => "deleteNew" \in Commands
      /\ existing # <<>> => "delete" \in Commands
  BY DEF DeleteSelectedRows, Enabled
<1>2. /\ GridInv(tableRows) /\ DOMAIN tableRows = 1..Len(tableRows) /\ DOMAIN tableRows \in SUBSET Nat
      /\ NewRowsLast(pending, Len(Base), Len(tableRows)) /\ Consistent(pending)
      /\ pending.insertedRowIndices = (Len(Base) + 1)..Len(tableRows)
      /\ pending.insertedRowIndices \subseteq DOMAIN tableRows
  BY BaseLength DEF IInv, GridInv, NewRowsLast
<1>3. candidates \subseteq loaded
  BY <1>2, BaseLength DEF NewRowsLast
<1>4. new = <<>> \/ Selection(pending.insertedRowIndices, new)
  <2>1. new = <<>> \/ Selection((DOMAIN tableRows) \cap pending.insertedRowIndices, new)
    BY <1>2, KeepInSelects
  <2>2. (DOMAIN tableRows) \cap pending.insertedRowIndices = pending.insertedRowIndices
    BY <1>2
  <2> QED
    BY <2>1, <2>2
<1>5. Trimmed(trimmed)
  <2>1. CASE new = <<>>
    <3>1. trimmed = pending /\ tableRows' = tableRows
      BY <1>1, <2>1 DEF ForEach
    <3> HIDE DEF trimmed
    <3> QED
      BY <1>2, <3>1 DEF Trimmed, OnlyNewRows
  <2>2. CASE new # <<>>
    <3>1. Selection(pending.insertedRowIndices, new)
      BY <1>4, <2>2
    <3> HIDE DEF new
    <3>2. trimmed = UndoBatchRowInsertion(pending, new)
      BY <2>2
    <3> HIDE DEF trimmed
    <3>3. /\ GridInv(tableRows') /\ Consistent(trimmed) /\ NewRowsLast(trimmed, Len(Base), n)
          /\ trimmed.deletedRowIndices = pending.deletedRowIndices
          /\ OnlyNewRows(pending, trimmed)
          /\ \A r \in 1..Len(Base) : tableRows'[r] = tableRows[r]
      BY <1>1, <3>1, <3>2, DeleteNewRows
    <3> QED
      BY <1>1, <2>2, <3>3 DEF Trimmed
  <2> QED
    BY <2>1, <2>2
<1>6. existing = <<>> \/ Selection(loaded, existing)
  <2>1. existing = <<>> \/ Selection((DOMAIN tableRows) \cap candidates, existing)
    <3> HIDE DEF candidates
    <3> QED
      BY <1>2, KeepInSelects
  <2> HIDE DEF existing
  <2> QED
    BY <1>3, <2>1 DEF Selection
<1> HIDE DEF existing, trimmed, n, candidates, new
<1>7. MarkedAfter(trimmed)
  <2>1. CASE existing = <<>>
    <3>1. Len(deleted) = 0
      BY <2>1
    <3>2. pending' = trimmed
      BY <1>1, <3>1 DEF ForEach
    <3> QED
      BY <3>2 DEF MarkedAfter
  <2>2. CASE \E a \in loaded : existing = <<a>>
    <3>1. PICK a \in loaded : existing = <<a>>
      BY <2>2
    <3>2. Len(deleted) = 1 /\ deleted[1] = [row |-> a, original |-> tableRows[a].values]
      BY <3>1
    <3> HIDE DEF deleted, record
    <3>3. pending' = record(trimmed, [row |-> a, original |-> tableRows[a].values])
      BY <1>1, <3>2 DEF ForEach
    <3>4. pending' = Deleted(trimmed, a)
      BY <3>3 DEF record, Deleted
    <3> QED
      BY <1>1, <3>1, <3>4 DEF MarkedAfter
  <2>3. CASE \E a, b \in loaded : b < a /\ existing = <<a, b>>
    <3>1. PICK a \in loaded, b \in loaded : existing = <<a, b>>
      BY <2>3
    <3>2. /\ Len(deleted) = 2
          /\ deleted[1] = [row |-> a, original |-> tableRows[a].values]
          /\ deleted[2] = [row |-> b, original |-> tableRows[b].values]
      BY <3>1
    <3> HIDE DEF deleted, record
    <3>3. pending' = record(record(trimmed, [row |-> a, original |-> tableRows[a].values]),
                            [row |-> b, original |-> tableRows[b].values])
      BY <1>1, <3>2 DEF ForEach
    <3>4. pending' = Deleted(Deleted(trimmed, a), b)
      BY <3>3 DEF record, Deleted
    <3> QED
      BY <1>1, <3>1, <3>4 DEF MarkedAfter
  <2> QED
    BY <1>6, <2>1, <2>2, <2>3 DEF Selection
<1> QED
  BY <1>5, <1>7

LEMMA DeleteSelectedRowsStep ==
  ASSUME IInv, NEW selected, Selection(DOMAIN tableRows, selected), DeleteSelectedRows(selected)
  PROVE  IInv'
<1> DEFINE n == Len(tableRows')
<1>1. PICK p : Trimmed(p) /\ MarkedAfter(p)
  BY SelectedRowsDeleted
<1>2. GridInv(tableRows') /\ Consistent(p) /\ NewRowsLast(p, Len(Base), n)
  BY <1>1 DEF Trimmed
<1>3. \A row \in 1..Len(Base) : tableRows[row].values \in [Columns -> Cells]
  <2>1. GridInv(tableRows) /\ 1..Len(Base) \subseteq DOMAIN tableRows
    BY BaseLength DEF IInv, GridInv
  <2> QED
    BY <2>1, GridRow
<1> HIDE DEF n
<1>4. ASSUME NEW q, Consistent(q), NewRowsLast(q, Len(Base), n), NEW row \in 1..Len(Base)
      PROVE  Consistent(Deleted(q, row)) /\ NewRowsLast(Deleted(q, row), Len(Base), n)
  BY <1>3, <1>4, DeletionOfLoaded DEF Deleted
<1>5. Consistent(pending') /\ NewRowsLast(pending', Len(Base), n)
  <2>1. ASSUME NEW a \in 1..Len(Base), NEW b \in 1..Len(Base), pending' = Deleted(Deleted(p, a), b)
        PROVE  Consistent(pending') /\ NewRowsLast(pending', Len(Base), n)
    <3>1. Consistent(Deleted(p, a)) /\ NewRowsLast(Deleted(p, a), Len(Base), n)
      BY <1>2, <1>4
    <3> QED
      BY <1>4, <2>1, <3>1
  <2> QED
    BY <1>1, <1>2, <1>4, <2>1 DEF MarkedAfter
<1> QED
  BY <1>2, <1>5 DEF IInv, n

(* Discarding puts the loaded rows back and clears the changes.            *)
LEMMA RestoredRowTyped ==
  ASSUME GridInv(tableRows), Consistent(pending), NEW row \in DOMAIN tableRows
  PROVE  RestoredRow(row) \in Rows /\ RestoredRow(row).origin = tableRows[row].origin
<1>1. tableRows[row] \in Rows /\ tableRows[row].values \in [Columns -> Cells]
  BY GridRow
<1>2. CASE ~ HasChange(pending, row, "update")
  BY <1>1, <1>2 DEF RestoredRow
<1>3. CASE HasChange(pending, row, "update")
  <2> DEFINE c == ChangeFor(pending, row, "update")
             cells == c.cellChanges
             old == [k \in Columns |-> IF k \in DOMAIN cells THEN cells[k].oldValue
                                       ELSE tableRows[row].values[k]]
  <2>1. c \in RowChanges
    BY <1>3, HasChangeFinds DEF Consistent, ChangeFor
  <2>2. \A k \in DOMAIN cells : cells[k].oldValue \in Cells
    <3> HIDE DEF c
    <3>1. cells \in CellChanges
      BY <2>1 DEF RowChanges
    <3>2. PICK cols \in SUBSET Columns : cells \in [cols -> [oldValue : Cells, newValue : Cells]]
      BY <3>1 DEF CellChanges
    <3> QED
      BY <3>2
  <2>3. old \in [Columns -> Cells]
    <3> HIDE DEF cells
    <3> QED
      BY <1>1, <2>2
  <2>4. RestoredRow(row) = [tableRows[row] EXCEPT !.values = old]
    BY <1>1, <1>3 DEF RestoredRow, Rows
  <2> HIDE DEF old
  <2> QED
    BY <1>1, <2>3, <2>4 DEF Rows
<1> QED
  BY <1>2, <1>3

LEMMA FirstRowsCount ==
  ASSUME NEW n \in Nat, NEW k \in 1..n
  PROVE  Cardinality({r \in 1..n : r <= k}) = k
<1>1. {r \in 1..n : r <= k} = 1..k
  OBVIOUS
<1>2. Cardinality(1..k) = k
  BY FS_Interval
<1> QED
  BY <1>1, <1>2

LEMMA HandleDiscardDoes ==
  ASSUME IInv, HandleDiscard
  PROVE  /\ tableRows' = [k \in 1..Len(Base) |-> RestoredRow(k)]
         /\ pending' = EmptyPending
<1> DEFINE n == Len(Base)
           restored == [row \in DOMAIN tableRows |-> RestoredRow(row)]
           kept == {row \in DOMAIN restored :
                      ~ (row \in pending.insertedRowIndices /\ restored[row].origin = 0)}
           nth(k) == CHOOSE row \in kept : Cardinality({r \in kept : r <= row}) = k
<1>1. /\ GridInv(tableRows) /\ Consistent(pending) /\ n \in Nat /\ n <= Len(tableRows)
      /\ Len(tableRows) \in Nat /\ DOMAIN tableRows = 1..Len(tableRows)
      /\ pending.insertedRowIndices = (n + 1)..Len(tableRows)
      /\ \A row \in DOMAIN tableRows : tableRows[row].origin = IF row \in 1..n THEN row ELSE 0
  BY BaseLength DEF IInv, GridInv, NewRowsLast
<1>2. \A row \in DOMAIN tableRows : /\ restored[row] \in Rows
                                    /\ restored[row].origin = tableRows[row].origin
  BY <1>1, RestoredRowTyped
<1>3. kept = 1..n
  <2> HIDE DEF restored
  <2>1. DOMAIN restored = 1..Len(tableRows)
    BY <1>1 DEF restored
  <2>2. \A row \in 1..Len(tableRows) : restored[row].origin = IF row \in 1..n THEN row ELSE 0
    BY <1>1, <1>2
  <2> HIDE DEF n
  <2> QED
    BY <1>1, <2>1, <2>2
<1>4. Cardinality(kept) = n
  <2> HIDE DEF kept, n
  <2>1. Cardinality(1..n) = n
    BY <1>1, FS_Interval
  <2> QED
    BY <1>3, <2>1
<1>5. ASSUME NEW k \in 1..n
      PROVE  nth(k) = k
  <2> HIDE DEF kept, n
  <2>1. \A row \in kept : Cardinality({r \in kept : r <= row}) = row
    BY <1>1, <1>3, FirstRowsCount
  <2>2. k \in kept
    BY <1>3
  <2> QED
    BY <2>1, <2>2
<1>6. tableRows' = [k \in 1..n |-> restored[k]]
  <2>1. tableRows' = [k \in 1..Cardinality(kept) |-> restored[nth(k)]]
    BY DEF HandleDiscard, Kept
  <2> HIDE DEF kept, n, restored, nth
  <2> QED
    BY <1>4, <1>5, <2>1
<1>7. \A k \in 1..n : restored[k] = RestoredRow(k)
  BY <1>1
<1> HIDE DEF restored, n
<1>8. tableRows' = [k \in 1..n |-> RestoredRow(k)]
  BY <1>6, <1>7
<1> QED
  BY <1>8 DEF HandleDiscard, n

LEMMA HandleDiscardStep ==
  ASSUME IInv, HandleDiscard
  PROVE  IInv'
<1> DEFINE n == Len(Base)
<1>1. tableRows' = [k \in 1..n |-> RestoredRow(k)] /\ pending' = EmptyPending
  BY HandleDiscardDoes
<1>2. /\ GridInv(tableRows) /\ Consistent(pending) /\ n \in Nat
      /\ 1..n \subseteq DOMAIN tableRows
      /\ \A row \in 1..n : tableRows[row].origin = row
  BY BaseLength DEF IInv, GridInv
<1>3. \A k \in 1..n : RestoredRow(k) \in Rows /\ RestoredRow(k).origin = k
  BY <1>2, RestoredRowTyped
<1>4. tableRows' \in Seq(Rows) /\ Len(tableRows') = n
  BY <1>1, <1>2, <1>3
<1>5. GridInv(tableRows')
  BY <1>1, <1>2, <1>3, <1>4 DEF GridInv
<1> QED
  BY <1>1, <1>4, <1>5, EmptyPendingKeepsRows DEF IInv

-------------------------------------------------------------------------------
(***************************************************************************)
(* Every command but undo and redo keeps the invariant.                    *)
(***************************************************************************)
UserCommand ==
  \/ \E row \in DOMAIN tableRows, col \in EditColumns, value \in EditValues :
       CommitCellEdit(row, col, value)
  \/ \E selected \in Selections, col \in EditColumns, value \in EditValues :
       SidebarEdit(selected, col, value)
  \/ AddNewRow
  \/ \E source \in DOMAIN tableRows : DuplicateRow(source)
  \/ \E value \in EditValues : PasteRows(value)
  \/ \E selected \in Selections : DeleteSelectedRows(selected)
  \/ \E row \in pending.deletedRowIndices : UndoDeleteRow(row)
  \/ HandleDiscard

LEMMA NextIsCommand ==
  /\ Next => UserCommand \/ Undo \/ Redo
  /\ "undo" \notin Commands => ~ Undo /\ ~ Redo
<1>1. Next => UserCommand \/ Undo \/ Redo
  BY DEF Next, UserCommand
<1>2. "undo" \notin Commands => ~ Undo /\ ~ Redo
  BY DEF Undo, Redo, Enabled
<1> QED
  BY <1>1, <1>2

LEMMA SelectionsSelect ==
  ASSUME IInv, NEW selected \in Selections
  PROVE  Selection(DOMAIN tableRows, selected)
<1> DEFINE S == DOMAIN tableRows
<1>1. selected \in {<<r>> : r \in S} \cup {s \in S \X S : s[1] > s[2]}
  BY DEF Selections
<1>2. S \subseteq Nat
  <2>1. tableRows \in Seq(Rows)
    BY DEF IInv, GridInv
  <2> QED
    BY <2>1
<1> SUFFICES Selection(S, selected)
  OBVIOUS
<1> HIDE DEF S
<1>3. CASE selected \in {<<r>> : r \in S}
  <2>1. PICK r \in S : selected = <<r>>
    BY <1>3
  <2>2. Selection(S, <<r>>)
    BY DEF Selection
  <2> QED
    BY <2>1, <2>2
<1>4. CASE selected \in {s \in S \X S : s[1] > s[2]}
  <2>1. PICK a \in S, b \in S : selected = <<a, b>>
    BY <1>4
  <2>2. selected[1] > selected[2]
    BY <1>4
  <2>3. selected[1] = a /\ selected[2] = b
    BY <2>1
  <2>4. a > b
    BY <2>2, <2>3
  <2>5. a \in Nat /\ b \in Nat
    BY <1>2
  <2>6. b < a
    BY <2>4, <2>5
  <2>7. Selection(S, <<a, b>>)
    BY <2>6 DEF Selection
  <2> QED
    BY <2>1, <2>7
<1> QED
  BY <1>1, <1>3, <1>4

LEMMA CommandKeeps ==
  ASSUME IInv, UserCommand
  PROVE  IInv'
<1>1. ASSUME NEW row \in DOMAIN tableRows, NEW col \in EditColumns, NEW value \in EditValues,
             CommitCellEdit(row, col, value)
      PROVE  IInv'
  BY <1>1, CommitCellEditStep
<1>2. ASSUME NEW selected \in Selections, NEW col \in EditColumns, NEW value \in EditValues,
             SidebarEdit(selected, col, value)
      PROVE  IInv'
  BY <1>2, SelectionsSelect, SidebarEditStep
<1>3. ASSUME AddNewRow PROVE IInv'
  BY <1>3, AddNewRowStep
<1>4. ASSUME NEW source \in DOMAIN tableRows, DuplicateRow(source) PROVE IInv'
  BY <1>4, DuplicateRowStep
<1>5. ASSUME NEW value \in EditValues, PasteRows(value) PROVE IInv'
  BY <1>5, PasteRowsStep
<1>6. ASSUME NEW selected \in Selections, DeleteSelectedRows(selected) PROVE IInv'
  BY <1>6, SelectionsSelect, DeleteSelectedRowsStep
<1>7. ASSUME NEW row \in pending.deletedRowIndices, UndoDeleteRow(row) PROVE IInv'
  BY <1>7, UndoDeleteRowStep
<1>8. ASSUME HandleDiscard PROVE IInv'
  BY <1>8, HandleDiscardStep
<1> QED
  BY <1>1, <1>2, <1>3, <1>4, <1>5, <1>6, <1>7, <1>8 DEF UserCommand

LEMMA NextKeeps ==
  ASSUME "undo" \notin Commands, IInv, [Next]_vars
  PROVE  IInv'
<1>1. CASE UNCHANGED vars
  BY <1>1 DEF vars, IInv, GridInv, Consistent, Indexed, IndexExact, MarksMatch, ModifiedMatches,
              NewRowsLast
<1> QED
  BY <1>1, NextIsCommand, CommandKeeps

LEMMA SpecKeepsIInv ==
  ASSUME "undo" \notin Commands
  PROVE  Spec => []IInv
<1>1. Init => IInv
  BY InitIInv
<1>2. IInv /\ [Next]_vars => IInv'
  BY NextKeeps
<1> QED
  BY <1>1, <1>2, PTL DEF Spec

(* The parts of TypeOK that are not in GridInv and Pendings: a row number  *)
(* of a change is a row of the grid.                                       *)
LEMMA IInvTypeOK == IInv => TypeOK
<1> SUFFICES ASSUME IInv PROVE TypeOK
  OBVIOUS
<1> DEFINE n == Len(tableRows)
<1>1. /\ tableRows \in Seq(Rows) /\ DOMAIN tableRows = 1..n /\ n \in Nat /\ Len(Base) \in Nat
      /\ Len(Base) <= n /\ Consistent(pending) /\ NewRowsLast(pending, Len(Base), n)
  BY BaseLength DEF IInv, GridInv
<1>2. pending \in Pendings
  BY <1>1 DEF Consistent, Indexed
<1>3. /\ RowsOf(pending, "update") \subseteq DOMAIN tableRows
      /\ RowsOf(pending, "delete") \subseteq DOMAIN tableRows
      /\ RowsOf(pending, "insert") \subseteq DOMAIN tableRows
  <2> HIDE DEF n
  <2>1. 1..Len(Base) \subseteq 1..n /\ (Len(Base) + 1)..n \subseteq 1..n
    BY <1>1
  <2>2. pending.insertedRowIndices = RowsOf(pending, "insert")
    BY <1>1 DEF Consistent, MarksMatch
  <2> QED
    BY <1>1, <2>1, <2>2 DEF NewRowsLast
<1>4. pending.changes \in Seq(RowChanges)
  BY <1>2 DEF Pendings
<1>5. ASSUME NEW i \in DOMAIN pending.changes
      PROVE  pending.changes[i].rowIndex \in DOMAIN tableRows
  <2>1. pending.changes[i] \in RowChanges
    BY <1>4
  <2>2. pending.changes[i].type \in {"insert", "update", "delete"}
    BY <2>1 DEF RowChanges
  <2>3. pending.changes[i].rowIndex \in RowsOf(pending, pending.changes[i].type)
    BY DEF RowsOf, ChangesOf
  <2> QED
    BY <1>3, <2>2, <2>3
<1>6. /\ pending.deletedRowIndices \subseteq DOMAIN tableRows
      /\ pending.insertedRowIndices \subseteq DOMAIN tableRows
  BY <1>1, <1>3 DEF Consistent, MarksMatch
<1>7. ASSUME NEW row \in DOMAIN pending.modifiedCells
      PROVE  pending.modifiedCells[row] \in (SUBSET Columns) \ {{}}
  <2>1. PICK rows \in SUBSET Nat : pending.modifiedCells \in [rows -> SUBSET Columns]
    BY <1>2 DEF Pendings
  <2>2. pending.modifiedCells[row] \in SUBSET Columns
    BY <2>1
  <2>3. row \in RowsOf(pending, "update")
    BY <1>1 DEF Consistent, ModifiedMatches
  <2>4. PICK c \in ChangesOf(pending) : c.type = "update" /\ c.rowIndex = row
    BY <2>3 DEF RowsOf
  <2>5. pending.modifiedCells[row] # {}
    BY <1>1, <2>4 DEF Consistent, ModifiedMatches
  <2> QED
    BY <2>2, <2>5
<1>8. ASSUME NEW row \in DOMAIN pending.insertedRowData
      PROVE  pending.insertedRowData[row] \in Seq(Cells)
  <2>1. PICK rows \in SUBSET Nat : pending.insertedRowData \in [rows -> Seq(Cells)]
    BY <1>2 DEF Pendings
  <2> QED
    BY <2>1
<1> QED
  BY <1>1, <1>4, <1>5, <1>6, <1>7, <1>8 DEF TypeOK

LEMMA IInvImplies ==
  IInv => /\ ChangeIndexExact
          /\ MarksMatchChanges
          /\ ModifiedMatchesUpdates
          /\ NewRowsFollowLoaded
<1> SUFFICES ASSUME IInv
             PROVE  ChangeIndexExact /\ MarksMatchChanges /\ ModifiedMatchesUpdates
                      /\ NewRowsFollowLoaded
  OBVIOUS
<1>1. ChangeIndexExact
  BY DEF IInv, Consistent, Indexed, ChangeIndexExact
<1>2. MarksMatchChanges
  BY DEF IInv, Consistent, MarksMatchChanges
<1>3. ModifiedMatchesUpdates
  BY DEF IInv, Consistent, ModifiedMatchesUpdates
<1>4. NewRowsFollowLoaded
  <2>1. DOMAIN tableRows = 1..Len(tableRows)
    BY GridRow DEF IInv, GridInv
  <2>2. \A row \in DOMAIN tableRows : tableRows[row].origin = IF row \in Loaded THEN row ELSE 0
    BY <2>1 DEF IInv, GridInv, Loaded
  <2> QED
    BY <2>2 DEF IInv, NewRowsLast, NewRowsFollowLoaded, Loaded
<1> QED
  BY <1>1, <1>2, <1>3, <1>4
===============================================================================
