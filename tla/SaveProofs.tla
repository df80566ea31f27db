------------------------------ MODULE SaveProofs ------------------------------
(***************************************************************************)
(* Proofs that a save sends what the grid shows.                           *)
(*                                                                         *)
(* First the statements of a save: generateStatements sends, for every     *)
(* change that needs one, its statement and nothing else, inserts before   *)
(* updates before deletes and each change once.  It is a loop over the     *)
(* changes, here a recursive function; what it computes is proved by       *)
(* induction on the number of changes it has seen, where the induction     *)
(* principle is the one for sets of naturals (Induct), a consequence of    *)
(* their being well founded.                                               *)
(*                                                                         *)
(* Then what every command does to the cells of the recorded updates, to   *)
(* the recorded deletions, and to the stored values of new rows, and what  *)
(* stays true of them.                                                     *)
(***************************************************************************)
EXTENDS DataChangeProofs, WellFoundedInduction

(* A set of naturals with 0 and the successor of each of its members has   *)
(* every natural: its complement has no least element.                     *)
LEMMA Induct ==
  ASSUME NEW S, S \subseteq Nat, 0 \in S, \A n \in S : n + 1 \in S
  PROVE  S = Nat
<1> DEFINE T == Nat \ S
<1>1. SUFFICES ASSUME T # {} PROVE FALSE
  OBVIOUS
<1>2. PICK x \in T : \A y \in T : ~ (<<y, x>> \in OpToRel(<, Nat))
  <2>1. IsWellFoundedOn(OpToRel(<, Nat), Nat)
    BY NatLessThanWellFounded
  <2>2. T \subseteq Nat
    OBVIOUS
  <2> HIDE DEF T
  <2> QED
    BY <1>1, <2>1, <2>2, WFMin
<1>3. x # 0 /\ x \in Nat /\ x - 1 \in Nat
  OBVIOUS
<1>4. <<x - 1, x>> \in OpToRel(<, Nat)
  BY <1>3 DEF OpToRel
<1>5. x - 1 \in S
  BY <1>2, <1>3, <1>4
<1>6. (x - 1) + 1 \in S
  BY <1>5
<1>7. (x - 1) + 1 = x
  BY <1>3
<1> QED
  BY <1>6, <1>7

-------------------------------------------------------------------------------
(***************************************************************************)
(* The loop of generateStatements.                                         *)
(***************************************************************************)
(* f is the loop over the first m changes: f[n] is what it has after n.    *)
Collects(p, f, m) ==
  f = [n \in 0..m |-> IF n = 0 THEN NoStatements ELSE WithStatementOf(p, f[n - 1], p.changes[n])]

(* One more round.                                                         *)
LEMMA CollectsMore ==
  ASSUME NEW p, NEW m \in Nat, NEW f, Collects(p, f, m)
  PROVE  \E g : Collects(p, g, m + 1)
<1> DEFINE Round(h, n) == IF n = 0 THEN NoStatements ELSE WithStatementOf(p, h[n - 1], p.changes[n])
           g == [n \in 0..(m + 1) |-> IF n = m + 1 THEN Round(f, m + 1) ELSE f[n]]
<1>1. /\ DOMAIN f = 0..m
      /\ \A n \in 0..m : f[n] = Round(f, n)
  BY DEF Collects
<1>2. ASSUME NEW n \in 0..(m + 1)
      PROVE  g[n] = Round(g, n)
  <2>1. \A k \in 0..m : g[k] = f[k]
    OBVIOUS
  <2>2. n # 0 => n - 1 \in 0..m
    OBVIOUS
  <2>3. Round(g, n) = Round(f, n)
    <3> HIDE DEF g
    <3> QED
      BY <2>1, <2>2
  <2>4. g[n] = Round(f, n)
    <3> HIDE DEF Round
    <3> QED
      BY <1>1
  <2> HIDE DEF g, Round
  <2> QED
    BY <2>3, <2>4
<1>3. g = [n \in 0..(m + 1) |-> Round(g, n)]
  <2>1. g = [n \in 0..(m + 1) |-> g[n]]
    OBVIOUS
  <2> HIDE DEF g, Round
  <2> QED
    BY <1>2, <2>1
<1>4. Collects(p, g, m + 1)
  <2> HIDE DEF g
  <2> QED
    BY <1>3 DEF Collects
<1> HIDE DEF g
<1> QED
  BY <1>4

LEMMA CollectsAll ==
  ASSUME NEW p, NEW m \in Nat
  PROVE  \E f : Collects(p, f, m)
<1> DEFINE T == {k \in Nat : \E f : Collects(p, f, k)}
<1>1. 0 \in T
  <2> DEFINE g == [n \in 0..0 |-> NoStatements]
  <2>1. Collects(p, g, 0)
    BY DEF Collects
  <2> HIDE DEF g
  <2> QED
    BY <2>1
<1>2. ASSUME NEW k \in T
      PROVE  k + 1 \in T
  BY CollectsMore
<1>3. T \subseteq Nat
  OBVIOUS
<1> HIDE DEF T
<1>4. T = Nat
  BY <1>1, <1>2, <1>3, Induct
<1> QED
  BY <1>4 DEF T

(* What the loop has collected is what generateStatements returns.         *)
LEMMA GenerateStatementsCollects ==
  ASSUME NEW p, NEW S, p.changes \in Seq(S)
  PROVE  \E f : /\ Collects(p, f, Len(p.changes))
                /\ LET all == f[Len(p.changes)]
                   IN  GenerateStatements(p) = all.inserts \o all.updates \o all.deletes
<1> DEFINE L == Len(p.changes)
           f == CHOOSE h : Collects(p, h, L)
<1>1. L \in Nat
  OBVIOUS
<1>2. Collects(p, f, L)
  <2> HIDE DEF L
  <2> QED
    BY <1>1, CollectsAll
<1>3. GenerateStatements(p) = f[L].inserts \o f[L].updates \o f[L].deletes
  BY DEF GenerateStatements, Collects
<1> HIDE DEF f
<1> QED
  BY <1>2, <1>3

-------------------------------------------------------------------------------
(***************************************************************************)
(* What it collects.                                                       *)
(***************************************************************************)
(* Whether a change needs a statement, and which.                          *)
Emits(p, c) ==
  CASE c.type = "insert" -> c.rowIndex \in p.insertedRowIndices /\ DOMAIN InsertedValues(p, c) # {}
    [] c.type = "update" -> /\ DOMAIN c.cellChanges # {}
                            /\ \A k \in PrimaryKeyColumns : c.originalRow[k] # Null
    [] c.type = "delete" -> c.rowIndex \in p.deletedRowIndices

StatementOf(p, c) ==
  CASE c.type = "insert" -> InsertInto(c.rowIndex, InsertedValues(p, c))
    [] c.type = "update" -> UpdateRow(c.rowIndex,
                                      [col \in DOMAIN c.cellChanges |-> c.cellChanges[col].newValue],
                                      Where(c.originalRow))
    [] c.type = "delete" -> DeleteRow(c.rowIndex, Where(c.originalRow))

Emitting(p, type) == {c \in ChangesOf(p) : c.type = type /\ Emits(p, c)}

StatementsOf(p, type) == {StatementOf(p, c) : c \in Emitting(p, type)}

OpOf(type) == CASE type = "insert" -> "INSERT" [] type = "update" -> "UPDATE" [] type = "delete" -> "DELETE"

(* s has the statements of the changes of a type up to the n-th, and no    *)
(* two are of the same row.                                                *)
Gathers(p, s, type, n) ==
  /\ s \in Seq(StatementsOf(p, type))
  /\ \A k \in 1..Len(s) : \E i \in 1..n :
       p.changes[i].type = type /\ Emits(p, p.changes[i]) /\ s[k] = StatementOf(p, p.changes[i])
  /\ \A i \in 1..n : p.changes[i].type = type /\ Emits(p, p.changes[i]) =>
       \E k \in 1..Len(s) : s[k] = StatementOf(p, p.changes[i])
  /\ \A k, l \in 1..Len(s) : k < l => s[k].row # s[l].row

LEMMA StatementFields ==
  ASSUME NEW p, NEW c, c.type \in Kinds
  PROVE  StatementOf(p, c).row = c.rowIndex /\ StatementOf(p, c).op = OpOf(c.type)
BY DEF StatementOf, OpOf, InsertInto, UpdateRow, DeleteRow, Kinds

(* A change of another type adds nothing.                                  *)
LEMMA GathersSkip ==
  ASSUME NEW p, NEW s, NEW type, NEW n \in Nat, Gathers(p, s, type, n),
         ~ (p.changes[n + 1].type = type /\ Emits(p, p.changes[n + 1]))
  PROVE  Gathers(p, s, type, n + 1)
<1>1. \A i \in 1..(n + 1) : i \in 1..n \/ i = n + 1
  OBVIOUS
<1>2. \A i \in 1..n : i \in 1..(n + 1)
  OBVIOUS
<1>3. ASSUME NEW k \in 1..Len(s)
      PROVE  \E i \in 1..(n + 1) :
               p.changes[i].type = type /\ Emits(p, p.changes[i]) /\ s[k] = StatementOf(p, p.changes[i])
  BY <1>2 DEF Gathers
<1>4. ASSUME NEW i \in 1..(n + 1), p.changes[i].type = type, Emits(p, p.changes[i])
      PROVE  \E k \in 1..Len(s) : s[k] = StatementOf(p, p.changes[i])
  BY <1>1, <1>4 DEF Gathers
<1> QED
  BY <1>3, <1>4 DEF Gathers

(* A change that needs a statement adds it at the end.                     *)
LEMMA GathersOne ==
  ASSUME NEW p, Indexed(p), NEW s, NEW type \in Kinds, NEW n \in Nat, n + 1 \in DOMAIN p.changes,
         Gathers(p, s, type, n), p.changes[n + 1].type = type, Emits(p, p.changes[n + 1])
  PROVE  Gathers(p, s \o <<StatementOf(p, p.changes[n + 1])>>, type, n + 1)
<1> DEFINE c == p.changes[n + 1]
           e == StatementOf(p, c)
           t == s \o <<e>>
<1>1. e \in StatementsOf(p, type)
  BY DEF StatementsOf, Emitting, ChangesOf
<1>2. s \in Seq(StatementsOf(p, type))
  BY DEF Gathers
<1>3. /\ t \in Seq(StatementsOf(p, type)) /\ Len(s) \in Nat /\ Len(t) = Len(s) + 1
      /\ t[Len(s) + 1] = e
      /\ \A k \in 1..Len(s) : t[k] = s[k]
  <2> HIDE DEF e
  <2> QED
    BY <1>1, <1>2
<1>4. /\ \A i \in 1..(n + 1) : i \in 1..n \/ i = n + 1
      /\ \A i \in 1..n : i \in 1..(n + 1)
      /\ n + 1 \in 1..(n + 1)
  OBVIOUS
<1>5. /\ \A k \in 1..Len(t) : k \in 1..Len(s) \/ k = Len(s) + 1
      /\ \A k \in 1..Len(s) : k \in 1..Len(t)
      /\ Len(s) + 1 \in 1..Len(t)
  <2> HIDE DEF t
  <2> QED
    BY <1>3
<1> HIDE DEF t
<1>6. ASSUME NEW k \in 1..Len(t)
      PROVE  \E i \in 1..(n + 1) :
               p.changes[i].type = type /\ Emits(p, p.changes[i]) /\ t[k] = StatementOf(p, p.changes[i])
  <2>1. CASE k \in 1..Len(s)
    BY <1>3, <1>4, <2>1 DEF Gathers
  <2>2. CASE k = Len(s) + 1
    BY <1>3, <1>4, <2>2
  <2> QED
    BY <1>5, <2>1, <2>2
<1>7. ASSUME NEW i \in 1..(n + 1), p.changes[i].type = type, Emits(p, p.changes[i])
      PROVE  \E k \in 1..Len(t) : t[k] = StatementOf(p, p.changes[i])
  <2>1. CASE i \in 1..n
    <3>1. PICK k \in 1..Len(s) : s[k] = StatementOf(p, p.changes[i])
      BY <1>7, <2>1 DEF Gathers
    <3> QED
      BY <1>3, <1>5, <3>1
  <2>2. CASE i = n + 1
    BY <1>3, <1>5, <2>2
  <2> QED
    BY <1>4, <2>1, <2>2
<1>8. ASSUME NEW k \in 1..Len(s)
      PROVE  s[k].row # e.row
  <2>1. PICK i \in 1..n : p.changes[i].type = type /\ s[k] = StatementOf(p, p.changes[i])
    BY DEF Gathers
  <2>2. s[k].row = p.changes[i].rowIndex /\ e.row = c.rowIndex
    BY <2>1, StatementFields
  <2>3. i \in DOMAIN p.changes /\ i # n + 1
    <3>1. p.changes \in Seq(RowChanges)
      BY DEF Indexed, Pendings
    <3> QED
      BY <3>1
  <2>4. Key(p.changes[i]) # Key(c)
    BY <2>3, DistinctKeys
  <2> QED
    BY <2>1, <2>2, <2>4 DEF Key
<1>9. ASSUME NEW k \in 1..Len(t), NEW l \in 1..Len(t), k < l
      PROVE  t[k].row # t[l].row
  <2>1. k \in 1..Len(s)
    BY <1>3, <1>9
  <2>2. \A i, j \in 1..Len(s) : i < j => s[i].row # s[j].row
    BY DEF Gathers
  <2>3. CASE l \in 1..Len(s)
    <3>1. t[k] = s[k] /\ t[l] = s[l]
      BY <1>3, <2>1, <2>3
    <3> QED
      BY <1>9, <2>1, <2>2, <2>3, <3>1
  <2>4. CASE l = Len(s) + 1
    BY <1>3, <1>8, <2>1, <2>4
  <2> QED
    BY <1>5, <2>3, <2>4
<1> HIDE DEF e
<1>10. Gathers(p, t, type, n + 1)
  BY <1>3, <1>6, <1>7, <1>9 DEF Gathers
<1> QED
  BY <1>10 DEF t, e

(* What has been collected after n changes.                                *)
Gathered(p, x, n) ==
  \E i, u, d : /\ x = [inserts |-> i, updates |-> u, deletes |-> d]
               /\ Gathers(p, i, "insert", n)
               /\ Gathers(p, u, "update", n)
               /\ Gathers(p, d, "delete", n)

LEMMA NothingGathered ==
  ASSUME NEW p
  PROVE  Gathered(p, NoStatements, 0)
<1>1. ASSUME NEW type PROVE Gathers(p, <<>>, type, 0)
  <2> DEFINE S == StatementsOf(p, type)
  <2>1. <<>> \in Seq(S) /\ 1..Len(<<>>) = {}
    <3> HIDE DEF S
    <3> QED
      OBVIOUS
  <2>2. 1..0 = {}
    OBVIOUS
  <2> QED
    BY <2>1, <2>2 DEF Gathers
<1>2. Gathers(p, <<>>, "insert", 0) /\ Gathers(p, <<>>, "update", 0) /\ Gathers(p, <<>>, "delete", 0)
  BY <1>1
<1> QED
  BY <1>2 DEF Gathered, NoStatements

(* What one change does to what is collected: its own type gets its        *)
(* statement, if it needs one, the other types nothing.                    *)
LEMMA RoundGathers ==
  ASSUME NEW p, Indexed(p), NEW n \in Nat, n + 1 \in DOMAIN p.changes, NEW x, Gathered(p, x, n)
  PROVE  Gathered(p, WithStatementOf(p, x, p.changes[n + 1]), n + 1)
<1>1. PICK i, u, d : /\ x = [inserts |-> i, updates |-> u, deletes |-> d]
                     /\ Gathers(p, i, "insert", n)
                     /\ Gathers(p, u, "update", n)
                     /\ Gathers(p, d, "delete", n)
  BY DEF Gathered
<1> DEFINE c == p.changes[n + 1]
           new == IF Emits(p, c) THEN <<StatementOf(p, c)>> ELSE <<>>
           r == WithStatementOf(p, x, c)
<1>2. c.type \in Kinds
  <2>1. c \in RowChanges
    BY DEF Indexed, Pendings
  <2> QED
    BY <2>1 DEF RowChanges, Kinds
<1>3. ASSUME NEW s, NEW type \in Kinds, Gathers(p, s, type, n)
      PROVE  /\ c.type = type => Gathers(p, s \o new, type, n + 1)
             /\ c.type # type => Gathers(p, s, type, n + 1)
  <2>1. CASE c.type = type /\ Emits(p, c)
    BY <1>3, <2>1, GathersOne
  <2>2. CASE ~ (c.type = type /\ Emits(p, c))
    <3>1. Gathers(p, s, type, n + 1)
      BY <1>3, <2>2, GathersSkip
    <3>2. s \o <<>> = s
      BY <1>3, EmptyEnds DEF Gathers
    <3> QED
      BY <2>2, <3>1, <3>2
  <2> QED
    BY <2>1, <2>2
<1>4. /\ c.type = "insert" => r = [inserts |-> i \o new, updates |-> u, deletes |-> d]
      /\ c.type = "update" => r = [inserts |-> i, updates |-> u \o new, deletes |-> d]
      /\ c.type = "delete" => r = [inserts |-> i, updates |-> u, deletes |-> d \o new]
  <2>1. c.type = "insert" => GenerateInsertSQL(p, c) = new
    BY DEF GenerateInsertSQL, Emits, StatementOf
  <2>2. c.type = "update" => GenerateUpdateSQL(c) = new
    BY DEF GenerateUpdateSQL, Emits, StatementOf
  <2>3. c.type = "delete" => GenerateDeleteSQL(p, c) = new
    BY DEF GenerateDeleteSQL, Emits, StatementOf
  <2> HIDE DEF c, new
  <2> QED
    BY <1>1, <2>1, <2>2, <2>3 DEF WithStatementOf
<1> HIDE DEF c, new, r
<1>5. CASE c.type = "insert"
  <2>1. /\ Gathers(p, i \o new, "insert", n + 1)
        /\ Gathers(p, u, "update", n + 1)
        /\ Gathers(p, d, "delete", n + 1)
    BY <1>1, <1>3, <1>5 DEF Kinds
  <2> QED
    BY <1>4, <1>5, <2>1 DEF r, c, Gathered
<1>6. CASE c.type = "update"
  <2>1. /\ Gathers(p, i, "insert", n + 1)
        /\ Gathers(p, u \o new, "update", n + 1)
        /\ Gathers(p, d, "delete", n + 1)
    BY <1>1, <1>3, <1>6 DEF Kinds
  <2> QED
    BY <1>4, <1>6, <2>1 DEF r, c, Gathered
<1>7. CASE c.type = "delete"
  <2>1. /\ Gathers(p, i, "insert", n + 1)
        /\ Gathers(p, u, "update", n + 1)
        /\ Gathers(p, d \o new, "delete", n + 1)
    BY <1>1, <1>3, <1>7 DEF Kinds
  <2> QED
    BY <1>4, <1>7, <2>1 DEF r, c, Gathered
<1> QED
  BY <1>2, <1>5, <1>6, <1>7 DEF Kinds

(* Three sequences, one per type, and the save is the three in a row.      *)
LEMMA GenerateStatementsGathers ==
  ASSUME NEW p, Indexed(p)
  PROVE  \E i, u, d : /\ GenerateStatements(p) = i \o u \o d
                      /\ Gathers(p, i, "insert", Len(p.changes))
                      /\ Gathers(p, u, "update", Len(p.changes))
                      /\ Gathers(p, d, "delete", Len(p.changes))
<1> DEFINE L == Len(p.changes)
<1>1. p.changes \in Seq(RowChanges) /\ L \in Nat /\ DOMAIN p.changes = 1..L
  <2>1. p.changes \in Seq(RowChanges)
    BY DEF Indexed, Pendings
  <2> QED
    BY <2>1
<1>2. PICK f : /\ Collects(p, f, L)
               /\ GenerateStatements(p) = f[L].inserts \o f[L].updates \o f[L].deletes
  BY <1>1, GenerateStatementsCollects
<1> HIDE DEF L
<1> DEFINE T == {n \in Nat : n <= L => Gathered(p, f[n], n)}
<1>3. 0 \in T
  <2>1. f[0] = NoStatements
    BY <1>1, <1>2 DEF Collects
  <2> QED
    BY <2>1, NothingGathered
<1>4. ASSUME NEW n \in T
      PROVE  n + 1 \in T
  <2>1. SUFFICES ASSUME n + 1 <= L PROVE Gathered(p, f[n + 1], n + 1)
    OBVIOUS
  <2>2. n \in Nat /\ n <= L /\ n + 1 \in DOMAIN p.changes
    BY <1>1, <2>1
  <2>3. Gathered(p, f[n], n)
    BY <2>2
  <2>4. f[n + 1] = WithStatementOf(p, f[n], p.changes[n + 1])
    BY <1>1, <1>2, <2>1, <2>2 DEF Collects
  <2> QED
    BY <2>2, <2>3, <2>4, RoundGathers
<1>5. L \in T
  <2>1. T \subseteq Nat
    OBVIOUS
  <2> HIDE DEF T
  <2> QED
    BY <1>1, <1>3, <1>4, <2>1, Induct
<1>6. Gathered(p, f[L], L)
  BY <1>1, <1>5
<1>7. PICK i, u, d : /\ f[L] = [inserts |-> i, updates |-> u, deletes |-> d]
                     /\ Gathers(p, i, "insert", L)
                     /\ Gathers(p, u, "update", L)
                     /\ Gathers(p, d, "delete", L)
  BY <1>6 DEF Gathered
<1>8. GenerateStatements(p) = i \o u \o d
  BY <1>2, <1>7
<1> WITNESS i, u, d
<1> QED
  BY <1>7, <1>8 DEF L

-------------------------------------------------------------------------------
(***************************************************************************)
(* What is sent.                                                           *)
(***************************************************************************)
(* The elements of three sequences in a row, and where they are.           *)
Consecutive(s, a, b, c) ==
  /\ DOMAIN s = 1..(Len(a) + Len(b) + Len(c))
  /\ Len(a) \in Nat /\ Len(b) \in Nat /\ Len(c) \in Nat
  /\ \A k \in 1..Len(a) : s[k] = a[k]
  /\ \A k \in 1..Len(b) : s[Len(a) + k] = b[k]
  /\ \A k \in 1..Len(c) : s[Len(a) + Len(b) + k] = c[k]
  /\ \A k \in DOMAIN s : \/ k \in 1..Len(a)
                         \/ \E l \in 1..Len(b) : k = Len(a) + l
                         \/ \E l \in 1..Len(c) : k = Len(a) + Len(b) + l

LEMMA InARow ==
  ASSUME NEW S, NEW a \in Seq(S), NEW b \in Seq(S), NEW c \in Seq(S)
  PROVE  Consecutive(a \o b \o c, a, b, c)
<1> DEFINE s == a \o b \o c
           t == a \o b
           ab == Len(a) + Len(b)
<1>1. Len(a) \in Nat /\ Len(b) \in Nat /\ Len(c) \in Nat
  OBVIOUS
<1>2. /\ t \in Seq(S) /\ Len(t) = ab /\ ab \in Nat
      /\ \A k \in 1..Len(a) : t[k] = a[k]
      /\ \A k \in 1..Len(b) : t[Len(a) + k] = b[k]
  OBVIOUS
<1>3. s = t \o c
  OBVIOUS
<1> HIDE DEF t
<1>4. /\ s \in Seq(S) /\ Len(s) = ab + Len(c)
      /\ \A k \in 1..ab : s[k] = t[k]
      /\ \A k \in 1..Len(c) : s[ab + k] = c[k]
  BY <1>2, <1>3
<1> HIDE DEF s
<1>5. /\ \A k \in 1..Len(a) : k \in 1..ab
      /\ \A k \in 1..Len(b) : Len(a) + k \in 1..ab
  BY <1>1
<1>6. DOMAIN s = 1..(ab + Len(c))
  BY <1>4
<1>7. ASSUME NEW k \in 1..(ab + Len(c))
      PROVE  \/ k \in 1..Len(a)
             \/ \E l \in 1..Len(b) : k = Len(a) + l
             \/ \E l \in 1..Len(c) : k = ab + l
  <2>1. CASE k <= Len(a)
    BY <1>1, <2>1
  <2>2. CASE k > Len(a) /\ k <= ab
    <3>1. k - Len(a) \in 1..Len(b) /\ k = Len(a) + (k - Len(a))
      BY <1>1, <2>2
    <3> QED
      BY <3>1
  <2>3. CASE k > ab
    <3>1. k - ab \in 1..Len(c) /\ k = ab + (k - ab)
      BY <1>1, <2>3
    <3> QED
      BY <3>1
  <2> QED
    BY <1>1, <2>1, <2>2, <2>3
<1>8. \A k \in 1..Len(a) : s[k] = a[k]
  BY <1>2, <1>4, <1>5
<1>9. \A k \in 1..Len(b) : s[Len(a) + k] = b[k]
  BY <1>2, <1>4, <1>5
<1> QED
  BY <1>1, <1>4, <1>6, <1>7, <1>8, <1>9 DEF s, Consecutive

(* What is gathered from all changes is the statements of their type.      *)
LEMMA GathersAll ==
  ASSUME NEW p, Indexed(p), NEW type \in Kinds, NEW s, Gathers(p, s, type, Len(p.changes))
  PROVE  /\ \A k \in 1..Len(s) : s[k] \in StatementsOf(p, type) /\ s[k].op = OpOf(type)
         /\ \A e \in StatementsOf(p, type) : \E k \in 1..Len(s) : s[k] = e
<1>1. DOMAIN p.changes = 1..Len(p.changes)
  <2>1. p.changes \in Seq(RowChanges)
    BY DEF Indexed, Pendings
  <2> QED
    BY <2>1
<1>2. ASSUME NEW k \in 1..Len(s)
      PROVE  s[k] \in StatementsOf(p, type) /\ s[k].op = OpOf(type)
  <2>1. PICK i \in 1..Len(p.changes) :
          p.changes[i].type = type /\ Emits(p, p.changes[i]) /\ s[k] = StatementOf(p, p.changes[i])
    BY DEF Gathers
  <2>2. s[k].op = OpOf(type)
    BY <2>1, StatementFields
  <2> QED
    BY <1>1, <2>1, <2>2 DEF StatementsOf, Emitting, ChangesOf
<1>3. ASSUME NEW e \in StatementsOf(p, type)
      PROVE  \E k \in 1..Len(s) : s[k] = e
  <2>1. PICK i \in 1..Len(p.changes) :
          p.changes[i].type = type /\ Emits(p, p.changes[i]) /\ e = StatementOf(p, p.changes[i])
    BY <1>1 DEF StatementsOf, Emitting, ChangesOf
  <2> QED
    BY <2>1 DEF Gathers
<1> QED
  BY <1>2, <1>3

AnyStatement(p) == UNION {StatementsOf(p, type) : type \in Kinds}

(* The save in three parts.                                                *)
Parts(p, i, u, d) ==
  /\ GenerateStatements(p) = i \o u \o d
  /\ Gathers(p, i, "insert", Len(p.changes))
  /\ Gathers(p, u, "update", Len(p.changes))
  /\ Gathers(p, d, "delete", Len(p.changes))
  /\ i \in Seq(AnyStatement(p)) /\ u \in Seq(AnyStatement(p)) /\ d \in Seq(AnyStatement(p))

LEMMA PartsExist ==
  ASSUME NEW p, Indexed(p)
  PROVE  \E i, u, d : Parts(p, i, u, d)
<1>1. PICK i, u, d : /\ GenerateStatements(p) = i \o u \o d
                     /\ Gathers(p, i, "insert", Len(p.changes))
                     /\ Gathers(p, u, "update", Len(p.changes))
                     /\ Gathers(p, d, "delete", Len(p.changes))
  BY GenerateStatementsGathers
<1>2. ASSUME NEW type \in Kinds, NEW s, Gathers(p, s, type, Len(p.changes))
      PROVE  s \in Seq(AnyStatement(p))
  <2>1. s \in Seq(StatementsOf(p, type)) /\ StatementsOf(p, type) \subseteq AnyStatement(p)
    BY <1>2 DEF Gathers, AnyStatement
  <2> QED
    BY <2>1
<1>3. i \in Seq(AnyStatement(p)) /\ u \in Seq(AnyStatement(p)) /\ d \in Seq(AnyStatement(p))
  BY <1>1, <1>2 DEF Kinds
<1> QED
  BY <1>1, <1>3 DEF Parts

SentBy(p, op) ==
  LET all == GenerateStatements(p)
  IN  {all[i] : i \in {j \in DOMAIN all : all[j].op = op}}

(* The statements of one kind that a save sends are those of the changes   *)
(* of that kind that need one.                                             *)
LEMMA SentAre ==
  ASSUME NEW p, Indexed(p), NEW type \in Kinds
  PROVE  SentBy(p, OpOf(type)) = StatementsOf(p, type)
<1>1. PICK i, u, d : Parts(p, i, u, d)
  BY PartsExist
<1> DEFINE all == i \o u \o d
           iu == Len(i) + Len(u)
<1>2. GenerateStatements(p) = all
  BY <1>1 DEF Parts
<1>3. /\ DOMAIN all = 1..(iu + Len(d)) /\ Len(i) \in Nat /\ Len(u) \in Nat /\ Len(d) \in Nat
      /\ \A k \in 1..Len(i) : all[k] = i[k]
      /\ \A k \in 1..Len(u) : all[Len(i) + k] = u[k]
      /\ \A k \in 1..Len(d) : all[iu + k] = d[k]
      /\ \A k \in DOMAIN all : \/ k \in 1..Len(i)
                               \/ \E l \in 1..Len(u) : k = Len(i) + l
                               \/ \E l \in 1..Len(d) : k = iu + l
  <2> DEFINE S == AnyStatement(p)
  <2>1. i \in Seq(S) /\ u \in Seq(S) /\ d \in Seq(S)
    BY <1>1 DEF Parts
  <2>2. Consecutive(all, i, u, d)
    <3> HIDE DEF S
    <3> QED
      BY <2>1, InARow
  <2> HIDE DEF all
  <2> QED
    BY <2>2 DEF Consecutive
<1>4. /\ \A k \in 1..Len(i) : k \in DOMAIN all
      /\ \A k \in 1..Len(u) : Len(i) + k \in DOMAIN all
      /\ \A k \in 1..Len(d) : iu + k \in DOMAIN all
  <2> HIDE DEF all
  <2> QED
    BY <1>3
<1> HIDE DEF all, iu
<1>5. /\ \A k \in 1..Len(i) : i[k] \in StatementsOf(p, "insert") /\ i[k].op = "INSERT"
      /\ \A e \in StatementsOf(p, "insert") : \E k \in 1..Len(i) : i[k] = e
  BY <1>1, GathersAll DEF Parts, Kinds, OpOf
<1>6. /\ \A k \in 1..Len(u) : u[k] \in StatementsOf(p, "update") /\ u[k].op = "UPDATE"
      /\ \A e \in StatementsOf(p, "update") : \E k \in 1..Len(u) : u[k] = e
  BY <1>1, GathersAll DEF Parts, Kinds, OpOf
<1>7. /\ \A k \in 1..Len(d) : d[k] \in StatementsOf(p, "delete") /\ d[k].op = "DELETE"
      /\ \A e \in StatementsOf(p, "delete") : \E k \in 1..Len(d) : d[k] = e
  BY <1>1, GathersAll DEF Parts, Kinds, OpOf
<1>8. OpOf("insert") = "INSERT" /\ OpOf("update") = "UPDATE" /\ OpOf("delete") = "DELETE"
  BY DEF OpOf
<1>9. ASSUME NEW e \in SentBy(p, OpOf(type))
      PROVE  e \in StatementsOf(p, type)
  <2>1. PICK k \in DOMAIN all : e = all[k] /\ all[k].op = OpOf(type)
    BY <1>2 DEF SentBy
  <2>2. CASE k \in 1..Len(i)
    BY <1>3, <1>5, <1>8, <2>1, <2>2 DEF Kinds
  <2>3. CASE \E l \in 1..Len(u) : k = Len(i) + l
    BY <1>3, <1>6, <1>8, <2>1, <2>3 DEF Kinds
  <2>4. CASE \E l \in 1..Len(d) : k = iu + l
    BY <1>3, <1>7, <1>8, <2>1, <2>4 DEF Kinds
  <2> QED
    BY <1>3, <2>2, <2>3, <2>4
<1>10. ASSUME NEW e \in StatementsOf(p, type)
       PROVE  e \in SentBy(p, OpOf(type))
  <2>1. \E k \in DOMAIN all : all[k] = e /\ all[k].op = OpOf(type)
    <3>1. CASE type = "insert"
      BY <1>3, <1>4, <1>5, <1>8, <3>1
    <3>2. CASE type = "update"
      BY <1>3, <1>4, <1>6, <1>8, <3>2
    <3>3. CASE type = "delete"
      BY <1>3, <1>4, <1>7, <1>8, <3>3
    <3> QED
      BY <3>1, <3>2, <3>3 DEF Kinds
  <2> QED
    BY <1>2, <2>1 DEF SentBy
<1> QED
  BY <1>9, <1>10

(* Inserts before updates before deletes, each change once.                *)
InOrder(all) ==
  \A i, j \in DOMAIN all :
    i < j => /\ Rank(all[i].op) <= Rank(all[j].op)
             /\ <<all[i].op, all[i].row>> # <<all[j].op, all[j].row>>

LEMMA SentInOrder ==
  ASSUME NEW p, Indexed(p)
  PROVE  InOrder(GenerateStatements(p))
<1>1. PICK i, u, d : Parts(p, i, u, d)
  BY PartsExist
<1> DEFINE all == i \o u \o d
           iu == Len(i) + Len(u)
<1>2. GenerateStatements(p) = all
  BY <1>1 DEF Parts
<1>3. /\ DOMAIN all = 1..(iu + Len(d)) /\ Len(i) \in Nat /\ Len(u) \in Nat /\ Len(d) \in Nat
      /\ \A k \in 1..Len(i) : all[k] = i[k]
      /\ \A k \in 1..Len(u) : all[Len(i) + k] = u[k]
      /\ \A k \in 1..Len(d) : all[iu + k] = d[k]
      /\ \A k \in DOMAIN all : \/ k \in 1..Len(i)
                               \/ \E l \in 1..Len(u) : k = Len(i) + l
                               \/ \E l \in 1..Len(d) : k = iu + l
  <2> DEFINE S == AnyStatement(p)
  <2>1. i \in Seq(S) /\ u \in Seq(S) /\ d \in Seq(S)
    BY <1>1 DEF Parts
  <2>2. Consecutive(all, i, u, d)
    <3> HIDE DEF S
    <3> QED
      BY <2>1, InARow
  <2> HIDE DEF all
  <2> QED
    BY <2>2 DEF Consecutive
<1> HIDE DEF all
<1>4. /\ \A k \in 1..Len(i) : i[k].op = "INSERT"
      /\ \A k \in 1..Len(u) : u[k].op = "UPDATE"
      /\ \A k \in 1..Len(d) : d[k].op = "DELETE"
  BY <1>1, GathersAll DEF Parts, Kinds, OpOf
<1>5. /\ \A k, l \in 1..Len(i) : k < l => i[k].row # i[l].row
      /\ \A k, l \in 1..Len(u) : k < l => u[k].row # u[l].row
      /\ \A k, l \in 1..Len(d) : k < l => d[k].row # d[l].row
  BY <1>1 DEF Parts, Gathers
<1>6. Rank("INSERT") = 1 /\ Rank("UPDATE") = 2 /\ Rank("DELETE") = 3
  BY DEF Rank
<1>7. ASSUME NEW k \in DOMAIN all, NEW l \in DOMAIN all, k < l
      PROVE  /\ Rank(all[k].op) <= Rank(all[l].op)
             /\ <<all[k].op, all[k].row>> # <<all[l].op, all[l].row>>
  <2>1. CASE k \in 1..Len(i)
    <3>1. CASE l \in 1..Len(i)
      BY <1>3, <1>4, <1>5, <1>6, <1>7, <2>1, <3>1
    <3>2. CASE \E m \in 1..Len(u) : l = Len(i) + m
      <4>1. PICK m \in 1..Len(u) : l = Len(i) + m
        BY <3>2
      <4>2. all[k] = i[k] /\ all[l] = u[m]
        BY <1>3, <2>1, <4>1
      <4> QED
        BY <1>4, <1>6, <2>1, <4>2
    <3>3. CASE \E m \in 1..Len(d) : l = iu + m
      <4>1. PICK m \in 1..Len(d) : l = iu + m
        BY <3>3
      <4>2. all[k] = i[k] /\ all[l] = d[m]
        BY <1>3, <2>1, <4>1
      <4> QED
        BY <1>4, <1>6, <2>1, <4>2
    <3> QED
      BY <1>3, <3>1, <3>2, <3>3
  <2>2. CASE \E m \in 1..Len(u) : k = Len(i) + m
    <3>1. PICK m \in 1..Len(u) : k = Len(i) + m
      BY <2>2
    <3>2. l \notin 1..Len(i)
      BY <1>3, <1>7, <3>1
    <3>3. CASE \E n \in 1..Len(u) : l = Len(i) + n
      <4>1. PICK n \in 1..Len(u) : l = Len(i) + n
        BY <3>3
      <4>2. m < n
        BY <1>3, <1>7, <3>1, <4>1
      <4>3. u[m].row # u[n].row
        BY <1>5, <4>2
      <4> QED
        BY <1>3, <1>4, <1>6, <3>1, <4>1, <4>3
    <3>4. CASE \E n \in 1..Len(d) : l = iu + n
      <4>1. PICK n \in 1..Len(d) : l = iu + n
        BY <3>4
      <4>2. all[k] = u[m] /\ all[l] = d[n]
        BY <1>3, <3>1, <4>1
      <4>3. all[k].op = "UPDATE" /\ all[l].op = "DELETE"
        BY <1>4, <4>2
      <4> QED
        BY <1>6, <4>3
    <3> QED
      BY <1>3, <3>2, <3>3, <3>4
  <2>3. CASE \E m \in 1..Len(d) : k = iu + m
    <3>1. PICK m \in 1..Len(d) : k = iu + m
      BY <2>3
    <3>2. l > iu
      BY <1>3, <1>7, <3>1
    <3>3. PICK n \in 1..Len(d) : l = iu + n
      BY <1>3, <3>2
    <3>4. m < n
      BY <1>3, <1>7, <3>1, <3>3
    <3>5. d[m].row # d[n].row
      BY <1>5, <3>4
    <3> QED
      BY <1>3, <1>4, <1>6, <3>1, <3>3, <3>5
  <2> QED
    BY <1>3, <2>1, <2>2, <2>3
<1>8. InOrder(all)
  BY <1>7 DEF InOrder
<1> QED
  BY <1>2, <1>8

LEMMA SaveSendsInOrder == IInv => EachSentOnceInOrder
<1>1. ASSUME IInv PROVE InOrder(GenerateStatements(pending))
  BY <1>1, SentInOrder DEF IInv, Consistent
<1> QED
  BY <1>1 DEF InOrder, EachSentOnceInOrder, Statements

-------------------------------------------------------------------------------
(***************************************************************************)
(* Editing a cell.                                                         *)
(***************************************************************************)
(* The update of a row gets these cells, and goes when there are none.     *)
UpdateBecomes(p, q, row, cells, original) ==
  /\ UpdatesOf(q) = OtherUpdatesOf(p, row)
                      \cup (IF DOMAIN cells = {} THEN {} ELSE {RowChange(row, "update", cells, original)})
  /\ DeletionsOf(q) = DeletionsOf(p)
  /\ q.insertedRowData = p.insertedRowData

(* The cells of an update after one of them goes from old to new: the      *)
(* first old value is kept, and a cell back at it is no change.            *)
FirstValue(cells, col, old) == IF col \in DOMAIN cells THEN cells[col].oldValue ELSE old

RecordedCells(cells, col, old, new) ==
  IF FirstValue(cells, col, old) = new THEN Without(cells, col)
  ELSE Put(cells, col, CellChange(FirstValue(cells, col, old), new))

(* The other updates are those of the other rows.                          *)
LEMMA OthersAreOfOtherRows ==
  ASSUME NEW p, Indexed(p), NEW i \in DOMAIN p.changes, p.changes[i].type = "update"
  PROVE  /\ OtherUpdatesOf(p, p.changes[i].rowIndex) = UpdatesOf(p) \ {p.changes[i]}
         /\ p.changes[i] \in UpdatesOf(p)
<1>1. p.changes[i] \in UpdatesOf(p)
  BY DEF UpdatesOf, ChangesOf
<1>2. ASSUME NEW c \in UpdatesOf(p), c.rowIndex = p.changes[i].rowIndex
      PROVE  c = p.changes[i]
  BY <1>1, <1>2, OtherUpdates DEF UpdatesOf
<1> QED
  BY <1>1, <1>2 DEF OtherUpdatesOf

(* The update at position i has these cells, and nothing else is changed.  *)
UpdateAtHas(p, q, i, cells) ==
  /\ Indexed(q) /\ i \in DOMAIN q.changes
  /\ q.changes[i] = RowChange(p.changes[i].rowIndex, "update", cells, p.changes[i].originalRow)
  /\ UpdatesOf(q) = OtherUpdatesOf(p, p.changes[i].rowIndex) \cup {q.changes[i]}
  /\ DeletionsOf(q) = DeletionsOf(p)
  /\ q.insertedRowData = p.insertedRowData

LEMMA SetCellsContent ==
  ASSUME NEW p, Consistent(p), NEW i \in DOMAIN p.changes, p.changes[i].type = "update",
         NEW cells \in CellChanges, NEW m \in PartialFunctions(Nat, SUBSET Columns)
  PROVE  UpdateAtHas(p, SetCells(p, i, cells, m, p.insertedRowData), i, cells)
<1> DEFINE c == p.changes[i]
           q == SetCells(p, i, cells, m, p.insertedRowData)
           d == [c EXCEPT !.cellChanges = cells]
<1>1. /\ Indexed(p) /\ c \in RowChanges /\ c \in ChangesOf(p)
      /\ p.insertedRowData \in PartialFunctions(Nat, Seq(Cells))
  <2>1. Indexed(p) /\ p.insertedRowData \in PartialFunctions(Nat, Seq(Cells))
    BY PartialFields DEF Consistent, Indexed
  <2> QED
    BY <2>1, UpdateAt
<1>2. CellsSet(p, q, i, cells, m, p.insertedRowData)
  BY <1>1, ChangeEdited
<1>3. d = RowChange(c.rowIndex, "update", cells, c.originalRow) /\ d.type = "update"
  BY <1>1 DEF RowChange, RowChanges
<1>4. /\ Indexed(q) /\ DOMAIN q.changes = DOMAIN p.changes /\ q.changes[i] = d
      /\ ChangesOf(q) = (ChangesOf(p) \ {c}) \cup {d} /\ q.insertedRowData = p.insertedRowData
  BY <1>2 DEF CellsSet
<1> HIDE DEF d, q
<1>5. UpdatesOf(q) = (UpdatesOf(p) \ {c}) \cup {d}
  BY <1>3, <1>4 DEF UpdatesOf
<1>6. OtherUpdatesOf(p, c.rowIndex) = UpdatesOf(p) \ {c}
  BY <1>1, OthersAreOfOtherRows
<1>7. DeletionsOf(q) = DeletionsOf(p)
  BY <1>3, <1>4 DEF DeletionsOf
<1> QED
  BY <1>3, <1>4, <1>5, <1>6, <1>7 DEF q, UpdateAtHas

LEMMA DropCellContent ==
  ASSUME NEW p, Consistent(p), NEW i \in DOMAIN p.changes, p.changes[i].type = "update",
         NEW col \in DOMAIN p.changes[i].cellChanges
  PROVE  UpdateBecomes(p, DropCell(p, i, col), p.changes[i].rowIndex,
                       Without(p.changes[i].cellChanges, col), p.changes[i].originalRow)
<1> DEFINE c == p.changes[i]
           row == c.rowIndex
           cells == Without(c.cellChanges, col)
           m == UnmarkCell(p.modifiedCells, row, col)
           q0 == SetCells(p, i, cells, m, p.insertedRowData)
           q == DropCell(p, i, col)
<1>1. /\ row \in DOMAIN p.modifiedCells /\ c.cellChanges \in CellChanges
      /\ p \in Pendings /\ p.modifiedCells \in PartialFunctions(Nat, SUBSET Columns)
  BY UpdateAt, PartialFields DEF Consistent, Indexed
<1>2. q = IF DOMAIN cells = {} THEN RemoveChangeAt(q0, i) ELSE q0
  BY <1>1 DEF DropCell, SetCells, Pendings
<1>3. cells \in CellChanges
  BY <1>1, CellsWithout
<1>4. m \in PartialFunctions(Nat, SUBSET Columns)
  BY <1>1, UnmarkCellUnmarks DEF Unmarked
<1> HIDE DEF m
<1>5. /\ Indexed(q0) /\ i \in DOMAIN q0.changes
      /\ q0.changes[i] = RowChange(row, "update", cells, c.originalRow)
      /\ UpdatesOf(q0) = OtherUpdatesOf(p, row) \cup {q0.changes[i]}
      /\ DeletionsOf(q0) = DeletionsOf(p)
      /\ q0.insertedRowData = p.insertedRowData
  BY <1>3, <1>4, SetCellsContent DEF UpdateAtHas
<1> HIDE DEF q0, q
<1>6. CASE DOMAIN cells # {}
  BY <1>2, <1>5, <1>6 DEF UpdateBecomes, q
<1>7. CASE DOMAIN cells = {}
  <2> DEFINE d == q0.changes[i]
  <2>1. Indexed(q) /\ ChangesOf(q) = ChangesOf(q0) \ {d} /\ SameMarks(q0, q)
    BY <1>2, <1>5, <1>7, RemoveChangeAtRemoves
  <2>2. d.rowIndex = row /\ d.type = "update"
    BY <1>5 DEF RowChange
  <2> HIDE DEF d
  <2>3. d \notin OtherUpdatesOf(p, row)
    BY <2>2 DEF OtherUpdatesOf
  <2>4. UpdatesOf(q) = UpdatesOf(q0) \ {d}
    BY <2>1 DEF UpdatesOf
  <2>5. UpdatesOf(q) = OtherUpdatesOf(p, row)
    BY <1>5, <2>3, <2>4 DEF d
  <2>6. DeletionsOf(q) = DeletionsOf(q0)
    BY <2>1, <2>2 DEF DeletionsOf
  <2>7. q.insertedRowData = p.insertedRowData
    BY <1>5, <2>1 DEF SameMarks
  <2> QED
    BY <1>5, <1>7, <2>5, <2>6, <2>7 DEF UpdateBecomes, q
<1> QED
  BY <1>6, <1>7

LEMMA MergeUpdateCellContent ==
  ASSUME NEW p, Consistent(p), NEW i \in DOMAIN p.changes, p.changes[i].type = "update",
         NEW col \in Columns, NEW old \in Cells, NEW new \in Cells, old # new
  PROVE  UpdateBecomes(p, MergeUpdateCell(p, i, col, old, new), p.changes[i].rowIndex,
                       RecordedCells(p.changes[i].cellChanges, col, old, new),
                       p.changes[i].originalRow)
<1> DEFINE c == p.changes[i]
           q == MergeUpdateCell(p, i, col, old, new)
           v == CellChange(FirstValue(c.cellChanges, col, old), new)
           m == IF col \in DOMAIN c.cellChanges THEN p.modifiedCells
                ELSE MarkCell(p.modifiedCells, c.rowIndex, col)
           cells == Put(c.cellChanges, col, v)
<1>1. /\ c.cellChanges \in CellChanges /\ p \in Pendings /\ c.rowIndex \in Nat
      /\ p.modifiedCells \in PartialFunctions(Nat, SUBSET Columns)
  BY UpdateAt, PartialFields DEF Consistent, Indexed
<1>2. CASE FirstValue(c.cellChanges, col, old) = new
  <2>1. col \in DOMAIN c.cellChanges /\ q = DropCell(p, i, col)
    BY <1>2 DEF MergeUpdateCell, FirstValue
  <2>2. RecordedCells(c.cellChanges, col, old, new) = Without(c.cellChanges, col)
    BY <1>2 DEF RecordedCells
  <2> QED
    BY <2>1, <2>2, DropCellContent
<1>3. CASE FirstValue(c.cellChanges, col, old) # new
  <2>1. q = SetCells(p, i, cells, m, p.insertedRowData)
    BY <1>1, <1>3 DEF MergeUpdateCell, SetCells, Pendings, FirstValue
  <2>2. v \in [oldValue : Cells, newValue : Cells]
    BY <1>1 DEF CellChanges, CellChange, FirstValue
  <2>3. cells \in CellChanges /\ DOMAIN cells = DOMAIN c.cellChanges \cup {col}
    <3> HIDE DEF v
    <3> QED
      BY <1>1, <2>2, CellsPut
  <2>4. m \in PartialFunctions(Nat, SUBSET Columns)
    BY <1>1, MarkCellMarks DEF Marked
  <2>5. RecordedCells(c.cellChanges, col, old, new) = cells
    BY <1>3 DEF RecordedCells
  <2> HIDE DEF m, cells, q
  <2>6. /\ q.changes[i] = RowChange(c.rowIndex, "update", cells, c.originalRow)
        /\ UpdatesOf(q) = OtherUpdatesOf(p, c.rowIndex) \cup {q.changes[i]}
        /\ DeletionsOf(q) = DeletionsOf(p)
        /\ q.insertedRowData = p.insertedRowData
    <3>1. UpdateAtHas(p, SetCells(p, i, cells, m, p.insertedRowData), i, cells)
      BY <2>3, <2>4, SetCellsContent
    <3>2. UpdateAtHas(p, q, i, cells)
      BY <2>1, <3>1
    <3> QED
      BY <3>2 DEF UpdateAtHas
  <2>7. DOMAIN cells # {}
    BY <2>3
  <2> QED
    BY <2>5, <2>6, <2>7 DEF UpdateBecomes, q
<1> QED
  BY <1>2, <1>3

(* The edit of a new row leaves updates and deletions alone.               *)
LEMMA UpdateInsertedCellContent ==
  ASSUME NEW p, Consistent(p), NEW i \in DOMAIN p.changes, p.changes[i].type = "insert",
         NEW col \in Columns, NEW new \in Cells
  PROVE  LET q == UpdateInsertedCell(p, i, col, new)
             row == p.changes[i].rowIndex
             data == p.insertedRowData
         IN  /\ UpdatesOf(q) = UpdatesOf(p)
             /\ DeletionsOf(q) = DeletionsOf(p)
             /\ q.insertedRowData = IF row \in DOMAIN data /\ col <= Len(data[row])
                                    THEN [data EXCEPT ![row] = [@ EXCEPT ![col] = new]]
                                    ELSE data
<1> DEFINE q == UpdateInsertedCell(p, i, col, new)
           c == p.changes[i]
           row == c.rowIndex
           data == p.insertedRowData
           s == [p.changes EXCEPT ![i].cellChanges = Put(@, col, CellChange(Null, new))]
<1>1. p \in Pendings /\ p.changes \in Seq(RowChanges)
  BY PartialFields DEF Consistent, Indexed
<1>2. q.changes = s /\ q.insertedRowData = IF row \in DOMAIN data /\ col <= Len(data[row])
                                            THEN [data EXCEPT ![row] = [@ EXCEPT ![col] = new]]
                                            ELSE data
  BY <1>1 DEF UpdateInsertedCell, Pendings
<1>3. DOMAIN s = DOMAIN p.changes /\ \A j \in DOMAIN p.changes \ {i} : s[j] = p.changes[j]
  BY <1>1
<1>4. s[i].type = "insert"
  <2>1. c \in RowChanges
    BY <1>1
  <2>2. s[i] = [c EXCEPT !.cellChanges = Put(@, col, CellChange(Null, new))]
    BY <1>1
  <2> QED
    BY <2>1, <2>2 DEF RowChanges
<1> HIDE DEF q, s
<1>5. ASSUME NEW t \in {"update", "delete"}
      PROVE  {d \in ChangesOf(q) : d.type = t} = {d \in ChangesOf(p) : d.type = t}
  BY <1>2, <1>3, <1>4 DEF ChangesOf
<1> QED
  BY <1>2, <1>5 DEF q, UpdatesOf, DeletionsOf

(* A first edit of a row.                                                  *)
LEMMA UpdateAddedContent ==
  ASSUME NEW p, Consistent(p), NEW row \in Nat \ {0}, NEW col \in Columns,
         NEW v \in [oldValue : Cells, newValue : Cells], NEW original \in [Columns -> Cells],
         ~ HasChange(p, row, "update")
  PROVE  UpdateBecomes(p, [AppendChange(p, RowChange(row, "update", Put(EmptyMap, col, v), original))
                             EXCEPT !.modifiedCells = MarkCell(@, row, col)],
                       row, Put(EmptyMap, col, v), original)
<1> DEFINE cells == Put(EmptyMap, col, v)
           c == RowChange(row, "update", cells, original)
           a == AppendChange(p, c)
           q == [a EXCEPT !.modifiedCells = MarkCell(@, row, col)]
<1>1. Indexed(p)
  BY DEF Consistent
<1>2. cells \in CellChanges /\ DOMAIN cells = {col}
  <2>1. cells \in [{col} -> [oldValue : Cells, newValue : Cells]]
    BY DEF Put, EmptyMap
  <2>2. {col} \in SUBSET Columns
    OBVIOUS
  <2> QED
    BY <2>1, <2>2 DEF CellChanges
<1>3. c \in RowChanges /\ c.rowIndex = row /\ c.type = "update"
  BY <1>2 DEF RowChange, RowChanges
<1> HIDE DEF cells
<1>4. Indexed(a) /\ ChangesOf(a) = ChangesOf(p) \cup {c} /\ SameMarks(p, a)
  BY <1>1, <1>3, AppendChangeAdds
<1>5. q.changes = a.changes /\ q.insertedRowData = p.insertedRowData
  BY <1>4 DEF Indexed, Pendings, SameMarks
<1> HIDE DEF q
<1>6. ChangesOf(q) = ChangesOf(p) \cup {c}
  BY <1>4, <1>5 DEF ChangesOf
<1>7. OtherUpdatesOf(p, row) = UpdatesOf(p)
  <2>1. row \notin RowsOf(p, "update")
    BY <1>1, HasChangeFinds
  <2> QED
    BY <2>1 DEF OtherUpdatesOf, UpdatesOf, RowsOf
<1> HIDE DEF c
<1>8. UpdatesOf(q) = UpdatesOf(p) \cup {c} /\ DeletionsOf(q) = DeletionsOf(p)
  BY <1>3, <1>6 DEF UpdatesOf, DeletionsOf
<1>9. UpdateBecomes(p, q, row, cells, original)
  BY <1>2, <1>5, <1>7, <1>8 DEF UpdateBecomes, c
<1> QED
  BY <1>9 DEF q, cells, c

(* The recorded cells of a row, and the row as it was before them.         *)
UpdateCells(p, row) ==
  IF HasChange(p, row, "update") THEN ChangeFor(p, row, "update").cellChanges ELSE EmptyMap

UpdateOriginal(p, row, original) ==
  IF HasChange(p, row, "update") THEN ChangeFor(p, row, "update").originalRow ELSE original

LEMMA UpdateCellsAre ==
  ASSUME NEW p, Indexed(p), NEW row
  PROVE  /\ \A c \in UpdatesOf(p) : c.rowIndex = row =>
              /\ HasChange(p, row, "update")
              /\ c = ChangeFor(p, row, "update")
              /\ c.cellChanges = UpdateCells(p, row)
         /\ HasChange(p, row, "update") =>
              /\ ChangeFor(p, row, "update") \in UpdatesOf(p)
              /\ ChangeFor(p, row, "update").rowIndex = row
<1>1. ASSUME HasChange(p, row, "update")
      PROVE  /\ ChangeFor(p, row, "update") \in UpdatesOf(p)
             /\ ChangeFor(p, row, "update").rowIndex = row
  BY <1>1, HasChangeFinds DEF ChangeFor, UpdatesOf, ChangesOf
<1>2. ASSUME NEW c \in UpdatesOf(p), c.rowIndex = row
      PROVE  HasChange(p, row, "update") /\ c = ChangeFor(p, row, "update")
  <2>1. row \in RowsOf(p, "update")
    BY <1>2 DEF RowsOf, UpdatesOf
  <2>2. HasChange(p, row, "update")
    BY <2>1, HasChangeFinds
  <2>3. c = ChangeFor(p, row, "update")
    BY <1>1, <1>2, <2>2, OtherUpdates DEF UpdatesOf
  <2> QED
    BY <2>2, <2>3
<1> QED
  BY <1>1, <1>2 DEF UpdateCells

(* What an edit of one cell records.                                       *)
EditRecorded(p, q, row, col, old, new, original) ==
  UpdateBecomes(p, q, row, RecordedCells(UpdateCells(p, row), col, old, new),
                UpdateOriginal(p, row, original))

LEMMA RecordCellChangeContent ==
  ASSUME NEW p, Consistent(p), NEW row \in Nat \ {0}, NEW col \in Columns,
         NEW old \in Cells, NEW new \in Cells, old # new, NEW original \in [Columns -> Cells],
         ~ HasChange(p, row, "insert")
  PROVE  EditRecorded(p, RecordCellChange(p, row, col, old, new, original),
                      row, col, old, new, original)
<1> DEFINE q == RecordCellChange(p, row, col, old, new, original)
<1>1. Indexed(p) /\ q = ApplyCellChange(p, row, col, old, new, original)
  BY DEF Consistent, RecordCellChange
<1>2. CASE HasChange(p, row, "update")
  <2> DEFINE i == p.changeIndex[<<row, "update">>]
  <2>1. i \in DOMAIN p.changes /\ p.changes[i].type = "update" /\ p.changes[i].rowIndex = row
    BY <1>1, <1>2, HasChangeFinds
  <2>2. q = MergeUpdateCell(p, i, col, old, new)
    BY <1>1, <1>2 DEF ApplyCellChange
  <2>3. /\ UpdateCells(p, row) = p.changes[i].cellChanges
        /\ UpdateOriginal(p, row, original) = p.changes[i].originalRow
    BY <1>2 DEF UpdateCells, UpdateOriginal, ChangeFor
  <2> HIDE DEF i, q
  <2>4. EditRecorded(p, q, row, col, old, new, original)
    BY <2>1, <2>2, <2>3, MergeUpdateCellContent DEF EditRecorded
  <2> QED
    BY <2>4 DEF q
<1>3. CASE ~ HasChange(p, row, "update")
  <2> DEFINE v == CellChange(old, new)
             cells == Put(EmptyMap, col, v)
  <2>1. v \in [oldValue : Cells, newValue : Cells]
    BY DEF CellChange
  <2>2. q = [AppendChange(p, RowChange(row, "update", Put(EmptyMap, col, v), original))
               EXCEPT !.modifiedCells = MarkCell(@, row, col)]
    BY <1>1, <1>3 DEF ApplyCellChange
  <2>3. UpdateBecomes(p, q, row, cells, original)
    <3> HIDE DEF v
    <3> QED
      BY <1>3, <2>1, <2>2, UpdateAddedContent
  <2>4. UpdateCells(p, row) = EmptyMap /\ UpdateOriginal(p, row, original) = original
    BY <1>3 DEF UpdateCells, UpdateOriginal
  <2>5. RecordedCells(EmptyMap, col, old, new) = cells
    BY DEF RecordedCells, FirstValue, EmptyMap
  <2> HIDE DEF cells
  <2> QED
    BY <2>3, <2>4, <2>5 DEF EditRecorded
<1> QED
  BY <1>2, <1>3

(* Whatever is recorded, it is recorded like that, or it is the edit of a  *)
(* new row, or nothing.                                                    *)
LEMMA RecordCellChangeKeepsOthers ==
  ASSUME NEW p, Consistent(p), NEW row \in Nat \ {0}, NEW col \in Columns,
         NEW old \in Cells, NEW new \in Cells, NEW original \in [Columns -> Cells]
  PROVE  LET q == RecordCellChange(p, row, col, old, new, original)
         IN  /\ DeletionsOf(q) = DeletionsOf(p)
             /\ UpdatesOf(q) = UpdatesOf(p) \/ EditRecorded(p, q, row, col, old, new, original)
<1> DEFINE q == RecordCellChange(p, row, col, old, new, original)
<1>1. Indexed(p)
  BY DEF Consistent
<1>2. CASE old # new /\ ~ HasChange(p, row, "insert")
  BY <1>2, RecordCellChangeContent DEF EditRecorded, UpdateBecomes
<1>3. CASE old # new /\ HasChange(p, row, "insert")
  <2> DEFINE i == p.changeIndex[<<row, "insert">>]
  <2>1. i \in DOMAIN p.changes /\ p.changes[i].type = "insert"
    BY <1>1, <1>3, HasChangeFinds
  <2>2. q = UpdateInsertedCell(p, i, col, new)
    BY <1>3 DEF RecordCellChange, ApplyCellChange
  <2> HIDE DEF i, q
  <2>3. UpdatesOf(q) = UpdatesOf(p) /\ DeletionsOf(q) = DeletionsOf(p)
    BY <2>1, <2>2, UpdateInsertedCellContent
  <2> QED
    BY <2>3 DEF q
<1>4. CASE old = new /\ MatchesOriginal(p, row, col, new)
  <2> DEFINE i == p.changeIndex[<<row, "update">>]
  <2>1. /\ HasChange(p, row, "update") /\ col \in DOMAIN p.changes[i].cellChanges
        /\ p.changes[i].cellChanges[col].oldValue = new
    BY <1>4 DEF MatchesOriginal, ChangeFor
  <2>2. i \in DOMAIN p.changes /\ p.changes[i].type = "update" /\ p.changes[i].rowIndex = row
    BY <1>1, <2>1, HasChangeFinds
  <2>3. q = DropCell(p, i, col)
    BY <1>4 DEF RecordCellChange
  <2>4. /\ UpdateCells(p, row) = p.changes[i].cellChanges
        /\ UpdateOriginal(p, row, original) = p.changes[i].originalRow
    BY <2>1 DEF UpdateCells, UpdateOriginal, ChangeFor
  <2>5. RecordedCells(p.changes[i].cellChanges, col, old, new) = Without(p.changes[i].cellChanges, col)
    BY <2>1 DEF RecordedCells, FirstValue
  <2> HIDE DEF i, q
  <2>6. EditRecorded(p, q, row, col, old, new, original)
    BY <2>1, <2>2, <2>3, <2>4, <2>5, DropCellContent DEF EditRecorded
  <2> QED
    BY <2>6 DEF q, EditRecorded, UpdateBecomes
<1>5. CASE old = new /\ ~ MatchesOriginal(p, row, col, new)
  BY <1>5 DEF RecordCellChange
<1> QED
  BY <1>2, <1>3, <1>4, <1>5

(* The cells after an edit, one by one.                                    *)
LEMMA RecordedCellsAre ==
  ASSUME NEW u, NEW col, NEW old, NEW new
  PROVE  LET cells == RecordedCells(u, col, old, new)
         IN  /\ \A k \in DOMAIN cells : k # col => k \in DOMAIN u /\ cells[k] = u[k]
             /\ col \in DOMAIN cells => /\ FirstValue(u, col, old) # new
                                       /\ cells[col].oldValue = FirstValue(u, col, old)
                                       /\ cells[col].newValue = new
             /\ \A k \in DOMAIN u : k # col => k \in DOMAIN cells
             /\ FirstValue(u, col, old) # new => col \in DOMAIN cells
BY DEF RecordedCells, Put, Without, CellChange

(* The updates after an edit: those of the other rows and, if it has a     *)
(* cell, the one of the row.                                               *)
LEMMA EditedUpdates ==
  ASSUME NEW p, Indexed(p), NEW q, NEW row, NEW col, NEW old, NEW new, NEW original,
         EditRecorded(p, q, row, col, old, new, original)
  PROVE  LET cells == RecordedCells(UpdateCells(p, row), col, old, new)
         IN  /\ \A c \in UpdatesOf(q) :
                  \/ c \in UpdatesOf(p) /\ c.rowIndex # row
                  \/ /\ c.rowIndex = row /\ c.cellChanges = cells
                     /\ c.originalRow = UpdateOriginal(p, row, original)
             /\ \A c \in UpdatesOf(p) : c.rowIndex # row => c \in UpdatesOf(q)
             /\ DOMAIN cells # {} => \E c \in UpdatesOf(q) : c.rowIndex = row /\ c.cellChanges = cells
<1> DEFINE cells == RecordedCells(UpdateCells(p, row), col, old, new)
           d == RowChange(row, "update", cells, UpdateOriginal(p, row, original))
<1>1. UpdatesOf(q) = OtherUpdatesOf(p, row) \cup (IF DOMAIN cells = {} THEN {} ELSE {d})
  BY DEF EditRecorded, UpdateBecomes
<1>2. /\ d.rowIndex = row /\ d.cellChanges = cells
      /\ d.originalRow = UpdateOriginal(p, row, original)
  BY DEF RowChange
<1> HIDE DEF cells, d
<1>3. /\ \A c \in UpdatesOf(q) :
           \/ c \in UpdatesOf(p) /\ c.rowIndex # row
           \/ /\ c.rowIndex = row /\ c.cellChanges = cells
              /\ c.originalRow = UpdateOriginal(p, row, original)
      /\ \A c \in UpdatesOf(p) : c.rowIndex # row => c \in UpdatesOf(q)
      /\ DOMAIN cells # {} => \E c \in UpdatesOf(q) : c.rowIndex = row /\ c.cellChanges = cells
  BY <1>1, <1>2 DEF OtherUpdatesOf
<1> QED
  BY <1>3 DEF cells

(* What holds of the cells of all updates holds of the cells of a row.     *)
LEMMA CellsOfUpdate ==
  ASSUME NEW p, Indexed(p), NEW row
  PROVE  \A k \in DOMAIN UpdateCells(p, row) :
           \E c \in UpdatesOf(p) : c.rowIndex = row /\ c.cellChanges = UpdateCells(p, row)
<1>1. CASE HasChange(p, row, "update")
  BY <1>1, UpdateCellsAre DEF UpdateCells
<1>2. CASE ~ HasChange(p, row, "update")
  BY <1>2 DEF UpdateCells, EmptyMap
<1> QED
  BY <1>1, <1>2

-------------------------------------------------------------------------------
(***************************************************************************)
(* Every recorded cell is in a column the user edits and changes its       *)
(* value.                                                                  *)
(***************************************************************************)
SoundCells(p) ==
  \A c \in UpdatesOf(p) : \A col \in DOMAIN c.cellChanges :
    col \in EditColumns /\ c.cellChanges[col].oldValue # c.cellChanges[col].newValue

LEMMA EditKeepsSound ==
  ASSUME NEW p, Indexed(p), SoundCells(p), NEW q, NEW row, NEW col \in EditColumns, NEW old, NEW new,
         NEW original, EditRecorded(p, q, row, col, old, new, original)
  PROVE  SoundCells(q)
<1> DEFINE u == UpdateCells(p, row)
           cells == RecordedCells(u, col, old, new)
<1>1. ASSUME NEW k \in DOMAIN u
      PROVE  k \in EditColumns /\ u[k].oldValue # u[k].newValue
  BY CellsOfUpdate DEF SoundCells
<1> HIDE DEF u
<1>2. ASSUME NEW k \in DOMAIN cells
      PROVE  k \in EditColumns /\ cells[k].oldValue # cells[k].newValue
  <2>1. /\ k # col => k \in DOMAIN u /\ cells[k] = u[k]
        /\ k = col => cells[k].oldValue # new /\ cells[k].newValue = new
    BY RecordedCellsAre
  <2> QED
    BY <1>1, <2>1
<1>3. \A c \in UpdatesOf(q) : c \in UpdatesOf(p) \/ c.cellChanges = cells
  BY EditedUpdates DEF u
<1> HIDE DEF cells
<1> QED
  BY <1>2, <1>3 DEF SoundCells

LEMMA FewerKeepSound ==
  ASSUME NEW p, SoundCells(p), NEW q, UpdatesOf(q) \subseteq UpdatesOf(p)
  PROVE  SoundCells(q)
BY DEF SoundCells

(* Whatever edit of a cell is recorded.                                    *)
LEMMA RecordCellChangeKeepsSound ==
  ASSUME NEW p, Consistent(p), SoundCells(p), NEW row \in Nat \ {0}, NEW col \in EditColumns,
         NEW old \in Cells, NEW new \in Cells, NEW original \in [Columns -> Cells]
  PROVE  LET q == RecordCellChange(p, row, col, old, new, original)
         IN  SoundCells(q) /\ DeletionsOf(q) = DeletionsOf(p)
<1> DEFINE q == RecordCellChange(p, row, col, old, new, original)
<1>1. col \in Columns /\ Indexed(p)
  BY EditAssumption DEF Consistent
<1>2. /\ DeletionsOf(q) = DeletionsOf(p)
      /\ UpdatesOf(q) = UpdatesOf(p) \/ EditRecorded(p, q, row, col, old, new, original)
  BY <1>1, RecordCellChangeKeepsOthers
<1> HIDE DEF q
<1>3. SoundCells(q)
  BY <1>1, <1>2, EditKeepsSound, FewerKeepSound
<1> QED
  BY <1>2, <1>3 DEF q

-------------------------------------------------------------------------------
(***************************************************************************)
(* What the user's commands do to the grid and to what is recorded.        *)
(***************************************************************************)
(* One cell of the grid is edited and the edit recorded, with the row as   *)
(* it was shown when it is its first.                                      *)
CellShown(row, col, value) ==
  /\ DOMAIN tableRows' = DOMAIN tableRows
  /\ \A r \in DOMAIN tableRows \ {row} : tableRows'[r] = tableRows[r]
  /\ tableRows'[row].values = [tableRows[row].values EXCEPT ![col] = value]

NewRowEdited(p, q, row, col, value) ==
  /\ OnlyNewRows(p, q)
  /\ q.insertedRowData = IF row \in DOMAIN p.insertedRowData /\ col <= Len(p.insertedRowData[row])
                         THEN [p.insertedRowData EXCEPT ![row] = [@ EXCEPT ![col] = value]]
                         ELSE p.insertedRowData

CellEdited(row, col, value) ==
  LET shown == tableRows[row].values
  IN  /\ row \notin pending.deletedRowIndices
      /\ shown[col] # value
      /\ CellShown(row, col, value)
      /\ SameRowSets(pending, pending')
      /\ row \in Loaded => EditRecorded(pending, pending', row, col, shown[col], value, shown)
      /\ row \notin Loaded => NewRowEdited(pending, pending', row, col, value)

LEMMA NewRowsAreInserted ==
  ASSUME IInv, NEW row \in DOMAIN tableRows
  PROVE  HasChange(pending, row, "insert") <=> row \notin Loaded
<1>1. /\ Indexed(pending) /\ RowsOf(pending, "insert") = (Len(Base) + 1)..Len(tableRows)
      /\ DOMAIN tableRows = 1..Len(tableRows)
  BY DEF IInv, GridInv, NewRowsLast, Consistent, MarksMatch
<1>2. HasChange(pending, row, "insert") <=> row \in RowsOf(pending, "insert")
  BY <1>1, HasChangeFinds
<1> QED
  BY <1>1, <1>2, BaseLength DEF Loaded

LEMMA NewRowEditRecorded ==
  ASSUME NEW p, Consistent(p), NEW row \in Nat \ {0}, NEW col \in Columns,
         NEW old \in Cells, NEW new \in Cells, old # new, NEW original \in [Columns -> Cells],
         HasChange(p, row, "insert")
  PROVE  NewRowEdited(p, RecordCellChange(p, row, col, old, new, original), row, col, new)
<1> DEFINE i == p.changeIndex[<<row, "insert">>]
           q == RecordCellChange(p, row, col, old, new, original)
<1>1. i \in DOMAIN p.changes /\ p.changes[i].type = "insert" /\ p.changes[i].rowIndex = row
  BY HasChangeFinds DEF Consistent
<1>2. q = UpdateInsertedCell(p, i, col, new)
  BY DEF RecordCellChange, ApplyCellChange
<1> HIDE DEF i, q
<1>3. /\ UpdatesOf(q) = UpdatesOf(p) /\ DeletionsOf(q) = DeletionsOf(p)
      /\ q.insertedRowData = IF row \in DOMAIN p.insertedRowData /\ col <= Len(p.insertedRowData[row])
                             THEN [p.insertedRowData EXCEPT ![row] = [@ EXCEPT ![col] = new]]
                             ELSE p.insertedRowData
  BY <1>1, <1>2, UpdateInsertedCellContent
<1> QED
  BY <1>3 DEF NewRowEdited, OnlyNewRows, q

LEMMA EditCellShows ==
  ASSUME IInv, NEW row \in DOMAIN tableRows, NEW col, NEW value,
         tableRows' = EditCell(tableRows, row, col, value)
  PROVE  CellShown(row, col, value)
<1>1. tableRows \in Seq(Rows) /\ tableRows[row] \in Rows
  BY GridRow DEF IInv
<1>2. tableRows' = [tableRows EXCEPT ![row].values[col] = value]
  BY DEF EditCell
<1>3. tableRows'[row] = [tableRows[row] EXCEPT !.values[col] = value]
  BY <1>1, <1>2
<1>4. tableRows'[row].values = [tableRows[row].values EXCEPT ![col] = value]
  BY <1>1, <1>3 DEF Rows
<1>5. DOMAIN tableRows' = DOMAIN tableRows /\ \A r \in DOMAIN tableRows \ {row} : tableRows'[r] = tableRows[r]
  BY <1>1, <1>2
<1> QED
  BY <1>4, <1>5 DEF CellShown

LEMMA CommitCellEditDoes ==
  ASSUME IInv, NEW row \in DOMAIN tableRows, NEW col \in EditColumns, NEW value \in EditValues,
         CommitCellEdit(row, col, value)
  PROVE  CellEdited(row, col, value)
<1> DEFINE shown == tableRows[row].values
<1>1. Consistent(pending) /\ GridInv(tableRows)
  BY DEF IInv
<1>2. shown \in [Columns -> Cells] /\ row \in Nat \ {0}
  BY <1>1, GridRow
<1>3. col \in Columns /\ value \in Cells /\ shown[col] \in Cells
  BY <1>2, EditAssumption
<1>4. /\ row \notin pending.deletedRowIndices /\ shown[col] # value
      /\ pending' = RecordCellChange(pending, row, col, shown[col], value, shown)
      /\ tableRows' = EditCell(tableRows, row, col, value)
  BY DEF CommitCellEdit
<1>5. CellShown(row, col, value)
  BY <1>4, EditCellShows
<1> HIDE DEF shown
<1>6. SameRowSets(pending, pending')
  BY <1>1, <1>2, <1>3, <1>4, RecordCellChangeKeeps DEF CellRecorded
<1>7. ASSUME row \in Loaded
      PROVE  EditRecorded(pending, pending', row, col, shown[col], value, shown)
  BY <1>1, <1>2, <1>3, <1>4, <1>7, NewRowsAreInserted, RecordCellChangeContent
<1>8. ASSUME row \notin Loaded
      PROVE  NewRowEdited(pending, pending', row, col, value)
  BY <1>1, <1>2, <1>3, <1>4, <1>8, NewRowsAreInserted, NewRowEditRecorded
<1> QED
  BY <1>4, <1>5, <1>6, <1>7, <1>8 DEF CellEdited, shown

(* The inspector changes no grid row and no deletion.                      *)
LEMMA SidebarEditDoes ==
  ASSUME IInv, NEW selected, Selection(DOMAIN tableRows, selected),
         NEW col \in EditColumns, NEW value \in EditValues, SidebarEdit(selected, col, value)
  PROVE  /\ tableRows' = tableRows
         /\ DeletionsOf(pending') = DeletionsOf(pending)
         /\ SoundCells(pending) => SoundCells(pending')
<1> DEFINE n == Len(tableRows)
           shown(row) == tableRows[row].values
           original == IF \A i, j \in DOMAIN selected :
                            shown(selected[i])[col] = shown(selected[j])[col]
                       THEN shown(selected[1])[col] ELSE Null
           record(p, row) == RecordCellChange(p, row, col, original, value, shown(row))
<1>1. GridInv(tableRows) /\ Consistent(pending) /\ n \in Nat /\ DOMAIN tableRows = 1..n
  BY DEF IInv, GridInv
<1>2. col \in Columns /\ value \in Cells
  BY EditAssumption
<1>3. \A row \in 1..n : shown(row) \in [Columns -> Cells] /\ row \in Nat \ {0}
  BY <1>1, GridRow
<1>4. original \in Cells
  <2>1. selected[1] \in 1..n
    BY <1>1 DEF Selection
  <2>2. shown(selected[1])[col] \in Cells /\ Null \in Cells
    BY <1>2, <1>3, <2>1 DEF Cells
  <2> QED
    BY <2>2
<1>5. pending' = ForEach(record, pending, selected) /\ tableRows' = tableRows
  BY DEF SidebarEdit
<1> HIDE DEF original
<1>6. ASSUME NEW p, Consistent(p), NEW row \in 1..n
      PROVE  /\ Consistent(record(p, row))
             /\ DeletionsOf(record(p, row)) = DeletionsOf(p)
             /\ SoundCells(p) => SoundCells(record(p, row))
  <2>1. CellRecorded(p, record(p, row), row)
    BY <1>2, <1>3, <1>4, <1>6, RecordCellChangeKeeps
  <2>2. DeletionsOf(record(p, row)) = DeletionsOf(p)
    BY <1>2, <1>3, <1>4, <1>6, RecordCellChangeKeepsOthers
  <2>3. ASSUME SoundCells(p) PROVE SoundCells(record(p, row))
    BY <1>2, <1>3, <1>4, <1>6, <2>3, RecordCellChangeKeepsSound
  <2> QED
    BY <2>1, <2>2, <2>3 DEF CellRecorded
<1> HIDE DEF record, n
<1>7. CASE \E a \in 1..n : selected = <<a>>
  <2>1. PICK a \in 1..n : selected = <<a>>
    BY <1>7
  <2>2. pending' = record(pending, a)
    BY <1>5, <2>1 DEF ForEach
  <2> QED
    BY <1>1, <1>5, <1>6, <2>2
<1>8. CASE \E a, b \in 1..n : b < a /\ selected = <<a, b>>
  <2>1. PICK a \in 1..n, b \in 1..n : selected = <<a, b>>
    BY <1>8
  <2> DEFINE once == record(pending, a)
  <2>2. pending' = record(once, b)
    BY <1>5, <2>1 DEF ForEach
  <2>3. /\ Consistent(once) /\ DeletionsOf(once) = DeletionsOf(pending)
        /\ SoundCells(pending) => SoundCells(once)
    BY <1>1, <1>6
  <2> HIDE DEF once
  <2> QED
    BY <1>5, <1>6, <2>2, <2>3
<1> QED
  BY <1>1, <1>7, <1>8 DEF Selection
(* New rows come in after the others, with the values that are stored.     *)
RowsInserted ==
  /\ \A r \in DOMAIN tableRows : r \in DOMAIN tableRows' /\ tableRows'[r] = tableRows[r]
  /\ OnlyNewRows(pending, pending')
  /\ pending'.deletedRowIndices = pending.deletedRowIndices
  /\ \A r \in DOMAIN tableRows :
       r \in DOMAIN pending.insertedRowData =>
         /\ r \in DOMAIN pending'.insertedRowData
         /\ pending'.insertedRowData[r] = pending.insertedRowData[r]
  /\ \A r \in DOMAIN tableRows' \ DOMAIN tableRows :
       /\ r \in DOMAIN pending'.insertedRowData
       /\ pending'.insertedRowData[r] = tableRows'[r].values

LEMMA NewRowValues ==
  ASSUME NEW v \in [Columns -> Cells]
  PROVE  InsertedRow(v).values = v
<1>1. v \in Seq(Cells) /\ Len(v) = NumColumns
  BY NumColumnsAssumption DEF Columns
<1>2. InsertedRow(v).values = [c \in Columns |-> v[c]]
  BY <1>1, NumColumnsAssumption DEF InsertedRow, Columns
<1> QED
  BY <1>2

LEMMA InsertRowsDoes ==
  ASSUME IInv, NEW v \in [Columns -> Cells], NEW values, values = <<v>> \/ values = <<v, v>>,
         InsertRows(values)
  PROVE  RowsInserted
<1> DEFINE n == Len(tableRows)
           added == [k \in DOMAIN values |-> InsertedRow(values[k])]
           row == InsertedRow(v)
           first == RecordRowInsertion(pending, n + 1, v)
           second == RecordRowInsertion(first, n + 2, v)
<1>1. /\ GridInv(tableRows) /\ Consistent(pending) /\ NewRowsLast(pending, Len(Base), n)
      /\ n \in Nat /\ DOMAIN tableRows = 1..n /\ tableRows \in Seq(Rows) /\ Len(Base) <= n
  BY DEF IInv, GridInv
<1>2. v \in Seq(Cells) /\ row \in Rows /\ row.values = v /\ n + 1 \in Nat \ {0} /\ n + 2 \in Nat \ {0}
  BY <1>1, NewRow, NewRowValues
<1>3. tableRows' = tableRows \o added
  BY DEF InsertRows
<1>4. Consistent(first) /\ first.deletedRowIndices = pending.deletedRowIndices
      /\ RowInsertionRecorded(pending, first, n + 1, v)
  BY <1>1, <1>2, RecordRowInsertionKeeps DEF RowsRecorded
<1>5. second.deletedRowIndices = first.deletedRowIndices /\ RowInsertionRecorded(first, second, n + 2, v)
  <2> HIDE DEF first
  <2> QED
    BY <1>2, <1>4, RecordRowInsertionKeeps DEF RowsRecorded
<1> HIDE DEF row
<1>6. CASE values = <<v>>
  <2>1. added = <<row>>
    BY <1>6 DEF row
  <2> HIDE DEF added
  <2>2. /\ DOMAIN tableRows' = 1..(n + 1) /\ tableRows'[n + 1] = row
        /\ \A r \in 1..n : tableRows'[r] = tableRows[r]
    BY <1>1, <1>2, <1>3, <2>1
  <2>3. pending' = first
    BY <1>1, <1>6, RecordedOneByOne
  <2> HIDE DEF first, second, n
  <2> QED
    BY <1>1, <1>2, <1>4, <2>2, <2>3 DEF RowsInserted, RowInsertionRecorded, OnlyNewRows, Put
<1>7. CASE values = <<v, v>>
  <2>1. added = <<row, row>>
    BY <1>7 DEF row
  <2> HIDE DEF added
  <2>2. /\ DOMAIN tableRows' = 1..(n + 2) /\ tableRows'[n + 1] = row /\ tableRows'[n + 2] = row
        /\ \A r \in 1..n : tableRows'[r] = tableRows[r]
    BY <1>1, <1>2, <1>3, <2>1
  <2>3. pending' = second
    BY <1>1, <1>7, RecordedOneByOne
  <2> HIDE DEF first, second, n
  <2>4. pending'.insertedRowData = Put(Put(pending.insertedRowData, n + 1, v), n + 2, v)
    BY <1>4, <1>5, <2>3 DEF RowInsertionRecorded
  <2>5. OnlyNewRows(pending, pending') /\ pending'.deletedRowIndices = pending.deletedRowIndices
    BY <1>4, <1>5, <2>3 DEF RowInsertionRecorded, OnlyNewRows
  <2>6. ASSUME NEW r \in 1..n, r \in DOMAIN pending.insertedRowData
        PROVE  /\ r \in DOMAIN pending'.insertedRowData
               /\ pending'.insertedRowData[r] = pending.insertedRowData[r]
    BY <1>1, <2>4, <2>6 DEF Put
  <2>7. ASSUME NEW r \in {n + 1, n + 2}
        PROVE  r \in DOMAIN pending'.insertedRowData /\ pending'.insertedRowData[r] = v
    BY <1>1, <2>4 DEF Put
  <2>8. \A r \in DOMAIN tableRows' \ DOMAIN tableRows :
          r \in {n + 1, n + 2} /\ tableRows'[r].values = v
    <3>1. DOMAIN tableRows' \ DOMAIN tableRows = {n + 1, n + 2}
      BY <1>1, <2>2
    <3> QED
      BY <1>2, <2>2, <3>1
  <2>9. \A r \in DOMAIN tableRows : r \in DOMAIN tableRows' /\ tableRows'[r] = tableRows[r]
    BY <1>1, <2>2
  <2> QED
    BY <1>1, <2>5, <2>6, <2>7, <2>8, <2>9 DEF RowsInserted
<1> QED
  BY <1>6, <1>7

LEMMA RowCommandsDo ==
  ASSUME IInv
  PROVE  /\ AddNewRow => RowsInserted
         /\ \A source \in DOMAIN tableRows : DuplicateRow(source) => RowsInserted
         /\ \A value \in EditValues : PasteRows(value) => RowsInserted
<1>1. ASSUME AddNewRow PROVE RowsInserted
  <2> DEFINE v == [c \in Columns |-> IF c \in DefaultColumns THEN Default ELSE Null]
  <2>1. v \in [Columns -> Cells] /\ InsertRows(<<v>>)
    BY <1>1 DEF AddNewRow, Cells
  <2> QED
    BY <2>1, InsertRowsDoes
<1>2. ASSUME NEW source \in DOMAIN tableRows, DuplicateRow(source) PROVE RowsInserted
  <2> DEFINE v == [c \in Columns |-> IF c \in PrimaryKeyColumns THEN Default
                                      ELSE tableRows[source].values[c]]
  <2>1. tableRows[source].values \in [Columns -> Cells]
    BY GridRow DEF IInv
  <2>2. v \in [Columns -> Cells] /\ InsertRows(<<v>>)
    BY <1>2, <2>1 DEF DuplicateRow, Cells
  <2> QED
    BY <2>2, InsertRowsDoes
<1>3. ASSUME NEW value \in EditValues, PasteRows(value) PROVE RowsInserted
  <2> DEFINE first(c) == c \in PrimaryKeyColumns /\ \A k \in PrimaryKeyColumns : c <= k
             v == [c \in Columns |-> IF first(c) THEN Default ELSE value]
  <2>1. v \in [Columns -> Cells] /\ InsertRows(<<v, v>>)
    BY <1>3, EditAssumption DEF PasteRows, Cells
  <2> HIDE DEF v
  <2> QED
    BY <2>1, InsertRowsDoes
<1> QED
  BY <1>1, <1>2, <1>3

(* Rows are marked deleted with the values the grid shows; the updates of  *)
(* these rows, and no others, go.                                          *)
MoreDeleted(p, q) ==
  /\ UpdatesOf(q) \subseteq UpdatesOf(p)
  /\ \A c \in UpdatesOf(p) : c \in UpdatesOf(q) \/ c.rowIndex \in q.deletedRowIndices
  /\ \A c \in DeletionsOf(q) :
       \/ c \in DeletionsOf(p)
       \/ c.rowIndex \in Loaded /\ c.originalRow = tableRows[c.rowIndex].values
  /\ \A c \in UpdatesOf(q) : c.rowIndex \in q.deletedRowIndices => c.rowIndex \in p.deletedRowIndices
  /\ p.deletedRowIndices \subseteq q.deletedRowIndices
  /\ q.insertedRowData = p.insertedRowData

RowsDeleted ==
  /\ \A r \in Loaded : tableRows'[r] = tableRows[r]
  /\ \E p : /\ OnlyNewRows(pending, p)
            /\ p.deletedRowIndices = pending.deletedRowIndices
            /\ "deleteNew" \notin Commands => p = pending /\ tableRows' = tableRows
            /\ MoreDeleted(p, pending')
            /\ "delete" \notin Commands => pending' = p

LEMMA LoadedRows ==
  ASSUME GridInv(tableRows)
  PROVE  /\ Loaded \subseteq DOMAIN tableRows /\ Loaded \subseteq Nat \ {0}
         /\ \A r \in Loaded : tableRows[r].values \in [Columns -> Cells]
         /\ \A r \in Loaded : tableRows[r].origin = r /\ tableRows[r] \in Rows
<1>1. Loaded \subseteq DOMAIN tableRows /\ Loaded \subseteq Nat \ {0}
  BY BaseLength DEF GridInv, Loaded
<1>2. \A r \in Loaded : tableRows[r].origin = r
  BY <1>1, BaseLength DEF GridInv, Loaded
<1> QED
  BY <1>1, <1>2, GridRow

LEMMA DeletedMarks ==
  ASSUME NEW p, Consistent(p), NEW row \in Loaded, GridInv(tableRows)
  PROVE  Consistent(Deleted(p, row)) /\ MoreDeleted(p, Deleted(p, row))
<1> DEFINE original == tableRows[row].values
           q == Deleted(p, row)
           d == RowChange(row, "delete", EmptyMap, original)
<1>1. row \in Nat \ {0} /\ original \in [Columns -> Cells]
  BY LoadedRows
<1>2. /\ RowsRecorded(p, q, p.deletedRowIndices \cup {row}, p.insertedRowIndices)
      /\ RowDeletionRecorded(p, q, row, original)
  BY <1>1, RecordRowDeletionKeeps DEF Deleted
<1>3. d.rowIndex = row /\ d.originalRow = original
  BY DEF RowChange
<1>4. /\ Consistent(q) /\ q.deletedRowIndices = p.deletedRowIndices \cup {row}
      /\ q.insertedRowData = p.insertedRowData
  BY <1>2 DEF RowsRecorded, RowDeletionRecorded
<1> HIDE DEF q, d
<1>5. CASE row \in p.deletedRowIndices
  <2>1. q = p
    BY <1>2, <1>5 DEF RowDeletionRecorded
  <2>2. MoreDeleted(p, p)
    BY DEF MoreDeleted
  <2>3. MoreDeleted(p, q)
    BY <2>1, <2>2
  <2> QED
    BY <1>4, <2>3 DEF q
<1>6. CASE row \notin p.deletedRowIndices
  <2>1. UpdatesOf(q) = OtherUpdatesOf(p, row) /\ DeletionsOf(q) = DeletionsOf(p) \cup {d}
    BY <1>2, <1>6 DEF RowDeletionRecorded, d
  <2>2. ASSUME NEW c \in DeletionsOf(q), c \notin DeletionsOf(p)
        PROVE  c.rowIndex \in Loaded /\ c.originalRow = tableRows[c.rowIndex].values
    BY <1>3, <2>1, <2>2
  <2>3. UpdatesOf(q) \subseteq UpdatesOf(p)
    BY <2>1 DEF OtherUpdatesOf
  <2>4. \A c \in UpdatesOf(p) : c \in UpdatesOf(q) \/ c.rowIndex \in q.deletedRowIndices
    BY <1>4, <2>1 DEF OtherUpdatesOf
  <2>6. \A c \in UpdatesOf(q) : c.rowIndex \in q.deletedRowIndices => c.rowIndex \in p.deletedRowIndices
    BY <1>4, <2>1 DEF OtherUpdatesOf
  <2>5. MoreDeleted(p, q)
    BY <1>4, <2>2, <2>3, <2>4, <2>6 DEF MoreDeleted
  <2> QED
    BY <1>4, <2>5 DEF q
<1> QED
  BY <1>5, <1>6

LEMMA DeleteSelectedRowsDoes ==
  ASSUME IInv, NEW selected, Selection(DOMAIN tableRows, selected), DeleteSelectedRows(selected)
  PROVE  RowsDeleted
<1>1. GridInv(tableRows)
  BY DEF IInv
<1>2. PICK p : Trimmed(p) /\ MarkedAfter(p)
  BY SelectedRowsDeleted
<1>3. MoreDeleted(p, p)
  BY DEF MoreDeleted
<1>4. MoreDeleted(p, pending')
  <2>1. Consistent(p)
    BY <1>2 DEF Trimmed
  <2>2. ASSUME NEW a \in Loaded, NEW b \in Loaded, pending' = Deleted(Deleted(p, a), b)
        PROVE  MoreDeleted(p, pending')
    <3> DEFINE once == Deleted(p, a)
    <3>1. Consistent(once) /\ MoreDeleted(p, once)
      BY <1>1, <2>1, DeletedMarks
    <3> HIDE DEF once
    <3>2. MoreDeleted(once, pending')
      BY <1>1, <2>2, <3>1, DeletedMarks DEF once
    <3> QED
      BY <3>1, <3>2 DEF MoreDeleted
  <2>3. ASSUME NEW a \in Loaded, pending' = Deleted(p, a)
        PROVE  MoreDeleted(p, pending')
    BY <1>1, <2>1, <2>3, DeletedMarks
  <2> QED
    BY <1>2, <1>3, <2>2, <2>3 DEF MarkedAfter, Loaded
<1>5. "delete" \notin Commands => pending' = p
  BY <1>2 DEF MarkedAfter
<1> QED
  BY <1>2, <1>4, <1>5 DEF Trimmed, RowsDeleted, Loaded

LEMMA UndoDeleteRowDoes ==
  ASSUME IInv, NEW row \in pending.deletedRowIndices, UndoDeleteRow(row)
  PROVE  /\ tableRows' = tableRows
         /\ RowDeletionUndone(pending, pending', row)
         /\ pending'.deletedRowIndices = pending.deletedRowIndices \ {row}
BY UndoRowDeletionKeeps DEF IInv, UndoDeleteRow, RowsRecorded
-------------------------------------------------------------------------------
(***************************************************************************)
(* Every command but undo and redo is one of these.                        *)
(***************************************************************************)
InspectorEdited ==
  /\ tableRows' = tableRows
  /\ DeletionsOf(pending') = DeletionsOf(pending)
  /\ SoundCells(pending) => SoundCells(pending')

DeletionUndone(row) ==
  /\ tableRows' = tableRows
  /\ RowDeletionUndone(pending, pending', row)
  /\ pending'.deletedRowIndices = pending.deletedRowIndices \ {row}

Discarded ==
  /\ tableRows' = [k \in 1..Len(Base) |-> RestoredRow(k)]
  /\ pending' = EmptyPending

StepTaken ==
  \/ \E row \in DOMAIN tableRows, col \in EditColumns, value \in EditValues : CellEdited(row, col, value)
  \/ "sidebar" \in Commands /\ InspectorEdited
  \/ RowsInserted
  \/ RowsDeleted
  \/ "undoDelete" \in Commands /\ \E row \in pending.deletedRowIndices : DeletionUndone(row)
  \/ "discard" \in Commands /\ Discarded
  \/ UNCHANGED <<tableRows, pending>>

LEMMA CommandIsTaken ==
  ASSUME IInv, UserCommand
  PROVE  StepTaken
<1>1. ASSUME NEW row \in DOMAIN tableRows, NEW col \in EditColumns, NEW value \in EditValues,
             CommitCellEdit(row, col, value)
      PROVE  StepTaken
  BY <1>1, CommitCellEditDoes DEF StepTaken
<1>2. ASSUME NEW selected \in Selections, NEW col \in EditColumns, NEW value \in EditValues,
             SidebarEdit(selected, col, value)
      PROVE  StepTaken
  <2>1. Selection(DOMAIN tableRows, selected)
    BY SelectionsSelect
  <2>2. InspectorEdited
    BY <1>2, <2>1, SidebarEditDoes DEF InspectorEdited
  <2>3. "sidebar" \in Commands
    BY <1>2 DEF SidebarEdit, Enabled
  <2> QED
    BY <2>2, <2>3 DEF StepTaken
<1>3. ASSUME AddNewRow PROVE StepTaken
  BY <1>3, RowCommandsDo DEF StepTaken
<1>4. ASSUME NEW source \in DOMAIN tableRows, DuplicateRow(source) PROVE StepTaken
  BY <1>4, RowCommandsDo DEF StepTaken
<1>5. ASSUME NEW value \in EditValues, PasteRows(value) PROVE StepTaken
  BY <1>5, RowCommandsDo DEF StepTaken
<1>6. ASSUME NEW selected \in Selections, DeleteSelectedRows(selected) PROVE StepTaken
  <2>1. Selection(DOMAIN tableRows, selected)
    BY SelectionsSelect
  <2> QED
    BY <1>6, <2>1, DeleteSelectedRowsDoes DEF StepTaken
<1>7. ASSUME NEW row \in pending.deletedRowIndices, UndoDeleteRow(row) PROVE StepTaken
  <2>1. DeletionUndone(row)
    BY <1>7, UndoDeleteRowDoes DEF DeletionUndone
  <2>2. "undoDelete" \in Commands
    BY <1>7 DEF UndoDeleteRow, Enabled
  <2> QED
    BY <2>1, <2>2 DEF StepTaken
<1>8. ASSUME HandleDiscard PROVE StepTaken
  <2>1. Discarded
    BY <1>8, HandleDiscardDoes DEF Discarded
  <2>2. "discard" \in Commands
    BY <1>8 DEF HandleDiscard, Enabled
  <2> QED
    BY <2>1, <2>2 DEF StepTaken
<1> QED
  BY <1>1, <1>2, <1>3, <1>4, <1>5, <1>6, <1>7, <1>8 DEF UserCommand

LEMMA StepIsTaken ==
  ASSUME "undo" \notin Commands, IInv, [Next]_vars
  PROVE  StepTaken
<1>1. CASE UNCHANGED vars
  BY <1>1 DEF vars, StepTaken
<1> QED
  BY <1>1, NextIsCommand, CommandIsTaken

LEMMA NothingRecorded ==
  /\ UpdatesOf(EmptyPending) = {} /\ DeletionsOf(EmptyPending) = {}
  /\ EmptyPending.deletedRowIndices = {}
BY DEF EmptyPending, UpdatesOf, DeletionsOf, ChangesOf

LEMMA InitRecordsNothing ==
  ASSUME Init
  PROVE  /\ pending = EmptyPending
         /\ \A r \in Loaded : tableRows[r] = ExistingRow(r)
         /\ DOMAIN tableRows = Loaded
BY BaseLength DEF Init, Loaded

-------------------------------------------------------------------------------
(***************************************************************************)
(* No idle updates.                                                        *)
(***************************************************************************)
LEMMA StepKeepsSound ==
  ASSUME IInv, SoundCells(pending), StepTaken
  PROVE  SoundCells(pending')
<1>1. Indexed(pending)
  BY DEF IInv, Consistent
<1>2. ASSUME NEW row \in DOMAIN tableRows, NEW col \in EditColumns, NEW value \in EditValues,
             CellEdited(row, col, value)
      PROVE  SoundCells(pending')
  <2>1. CASE row \in Loaded
    BY <1>1, <1>2, <2>1, EditKeepsSound DEF CellEdited
  <2>2. CASE row \notin Loaded
    BY <1>2, <2>2, FewerKeepSound DEF CellEdited, NewRowEdited, OnlyNewRows
  <2> QED
    BY <2>1, <2>2
<1>3. ASSUME RowsInserted PROVE SoundCells(pending')
  BY <1>3, FewerKeepSound DEF RowsInserted, OnlyNewRows
<1>4. ASSUME RowsDeleted PROVE SoundCells(pending')
  BY <1>4, FewerKeepSound DEF RowsDeleted, OnlyNewRows, MoreDeleted
<1>5. ASSUME NEW row, DeletionUndone(row) PROVE SoundCells(pending')
  BY <1>5, FewerKeepSound DEF DeletionUndone, RowDeletionUndone
<1>6. ASSUME Discarded PROVE SoundCells(pending')
  BY <1>6, NothingRecorded DEF Discarded, SoundCells
<1> QED
  BY <1>2, <1>3, <1>4, <1>5, <1>6 DEF StepTaken, InspectorEdited

LEMMA SpecKeepsSound ==
  ASSUME "undo" \notin Commands
  PROVE  Spec => [](IInv /\ SoundCells(pending))
<1>1. Init => SoundCells(pending)
  BY InitRecordsNothing, NothingRecorded DEF SoundCells
<1>2. IInv /\ SoundCells(pending) /\ [Next]_vars => SoundCells(pending)'
  BY StepIsTaken, StepKeepsSound
<1> QED
  BY <1>1, <1>2, SpecKeepsIInv, PTL DEF Spec

LEMMA UpdatedRows ==
  ASSUME IInv, NEW row \in RowsOf(pending, "update")
  PROVE  /\ ChangeFor(pending, row, "update") \in UpdatesOf(pending)
         /\ ChangeFor(pending, row, "update").rowIndex = row
<1>1. Indexed(pending)
  BY DEF IInv, Consistent
<1>2. HasChange(pending, row, "update")
  BY <1>1, HasChangeFinds
<1> QED
  BY <1>1, <1>2, UpdateCellsAre

LEMMA SoundIsNotIdle == IInv /\ SoundCells(pending) => NoIdleUpdate
BY UpdatedRows DEF SoundCells, NoIdleUpdate, Updated

-------------------------------------------------------------------------------
(***************************************************************************)
(* Updates write what the grid shows, when cells are edited in the grid.   *)
(***************************************************************************)
ShownCells(p, rows) ==
  \A c \in UpdatesOf(p) : \A col \in DOMAIN c.cellChanges :
    c.cellChanges[col].newValue = rows[c.rowIndex].values[col]

LEMMA UpdatesAreOfLoaded ==
  ASSUME IInv, NEW c \in UpdatesOf(pending)
  PROVE  c.rowIndex \in Loaded /\ c \in RowChanges /\ DOMAIN c.cellChanges \subseteq Columns
<1>1. pending.changes \in Seq(RowChanges) /\ NewRowsLast(pending, Len(Base), Len(tableRows))
  BY DEF IInv, Consistent, Indexed, Pendings
<1>2. c \in RowChanges
  BY <1>1 DEF UpdatesOf, ChangesOf
<1>3. c.rowIndex \in RowsOf(pending, "update")
  BY DEF UpdatesOf, RowsOf
<1>4. DOMAIN c.cellChanges \subseteq Columns
  BY <1>2 DEF RowChanges, CellChanges
<1> QED
  BY <1>1, <1>2, <1>3, <1>4 DEF NewRowsLast, Loaded

LEMMA EditKeepsShown ==
  ASSUME IInv, ShownCells(pending, tableRows), NEW row \in DOMAIN tableRows, NEW col \in EditColumns,
         NEW value \in EditValues, CellEdited(row, col, value)
  PROVE  ShownCells(pending', tableRows')
<1> DEFINE shown == tableRows[row].values
           u == UpdateCells(pending, row)
           cells == RecordedCells(u, col, shown[col], value)
<1>1. /\ Indexed(pending) /\ shown \in [Columns -> Cells] /\ col \in Columns
  BY GridRow, EditAssumption DEF IInv, Consistent
<1>2. CellShown(row, col, value)
  BY DEF CellEdited
<1>3. \A r \in DOMAIN tableRows : r # row => tableRows'[r] = tableRows[r]
  BY <1>2 DEF CellShown
<1>4. tableRows'[row].values[col] = value /\ \A k \in Columns : k # col => tableRows'[row].values[k] = shown[k]
  BY <1>1, <1>2 DEF CellShown
<1>5. Loaded \subseteq DOMAIN tableRows
  BY LoadedRows DEF IInv
<1>6. CASE row \notin Loaded
  <2>1. UpdatesOf(pending') = UpdatesOf(pending)
    BY <1>6 DEF CellEdited, NewRowEdited, OnlyNewRows
  <2> QED
    BY <1>3, <1>5, <1>6, <2>1, UpdatesAreOfLoaded DEF ShownCells
<1>7. CASE row \in Loaded
  <2>1. EditRecorded(pending, pending', row, col, shown[col], value, shown)
    BY <1>7 DEF CellEdited
  <2>2. \A k \in DOMAIN u : u[k].newValue = shown[k] /\ k \in Columns
    BY <1>1, CellsOfUpdate, UpdatesAreOfLoaded DEF ShownCells
  <2> HIDE DEF shown, u
  <2>3. \A c \in UpdatesOf(pending') :
          \/ c \in UpdatesOf(pending) /\ c.rowIndex # row
          \/ c.rowIndex = row /\ c.cellChanges = cells
    BY <1>1, <2>1, EditedUpdates DEF u
  <2>4. ASSUME NEW k \in DOMAIN cells
        PROVE  cells[k].newValue = tableRows'[row].values[k]
    <3>1. /\ k # col => k \in DOMAIN u /\ cells[k] = u[k]
          /\ k = col => cells[k].newValue = value
      BY RecordedCellsAre
    <3> QED
      BY <1>4, <2>2, <3>1
  <2> HIDE DEF cells
  <2> QED
    BY <1>3, <1>5, <2>3, <2>4, UpdatesAreOfLoaded DEF ShownCells
<1> QED
  BY <1>6, <1>7

LEMMA StepKeepsShown ==
  ASSUME "sidebar" \notin Commands, IInv, ShownCells(pending, tableRows), StepTaken
  PROVE  ShownCells(pending', tableRows')
<1>1. \A c \in UpdatesOf(pending) : c.rowIndex \in Loaded
  BY UpdatesAreOfLoaded
<1>2. ASSUME UpdatesOf(pending') \subseteq UpdatesOf(pending),
             \A r \in Loaded : tableRows'[r] = tableRows[r]
      PROVE  ShownCells(pending', tableRows')
  BY <1>1, <1>2 DEF ShownCells
<1>3. Loaded \subseteq DOMAIN tableRows
  BY LoadedRows DEF IInv
<1>4. ASSUME RowsInserted PROVE ShownCells(pending', tableRows')
  BY <1>2, <1>3, <1>4 DEF RowsInserted, OnlyNewRows
<1>5. ASSUME RowsDeleted PROVE ShownCells(pending', tableRows')
  BY <1>2, <1>5 DEF RowsDeleted, OnlyNewRows, MoreDeleted
<1>6. ASSUME NEW row, DeletionUndone(row) PROVE ShownCells(pending', tableRows')
  BY <1>2, <1>6 DEF DeletionUndone, RowDeletionUndone
<1>7. ASSUME Discarded PROVE ShownCells(pending', tableRows')
  BY <1>7, NothingRecorded DEF Discarded, ShownCells
<1>8. CASE UNCHANGED <<tableRows, pending>>
  BY <1>8
<1> QED
  BY <1>4, <1>5, <1>6, <1>7, <1>8, EditKeepsShown DEF StepTaken

LEMMA SpecKeepsShown ==
  ASSUME Commands \cap {"undo", "sidebar"} = {}
  PROVE  Spec => [](IInv /\ ShownCells(pending, tableRows))
<1>0. "undo" \notin Commands /\ "sidebar" \notin Commands
  OBVIOUS
<1>1. Init => ShownCells(pending, tableRows)
  BY InitRecordsNothing, NothingRecorded DEF ShownCells
<1>2. IInv /\ ShownCells(pending, tableRows) /\ [Next]_vars => ShownCells(pending, tableRows)'
  BY <1>0, StepIsTaken, StepKeepsShown
<1> QED
  BY <1>0, <1>1, <1>2, SpecKeepsIInv, PTL DEF Spec

LEMMA ShownIsWritten == IInv /\ ShownCells(pending, tableRows) => UpdatesWriteWhatIsShown
BY UpdatedRows DEF ShownCells, UpdatesWriteWhatIsShown, Updated

-------------------------------------------------------------------------------
(***************************************************************************)
(* Deletes pick the row, when no key column is edited.                     *)
(***************************************************************************)
(* The columns a WHERE clause compares.                                    *)
KeyColumns == IF PrimaryKeyColumns # {} THEN PrimaryKeyColumns ELSE Columns

(* These values of a row have the same key as the row in the database.     *)
SameKey(values, row) == \A k \in KeyColumns : values[k] = Base[row][k]

KeysKept(p, rows) ==
  /\ \A r \in Loaded : SameKey(rows[r].values, r)
  /\ \A c \in DeletionsOf(p) : c.rowIndex \in Loaded /\ SameKey(c.originalRow, c.rowIndex)

LEMMA SameKeySameWhere ==
  ASSUME NEW values, NEW row, SameKey(values, row)
  PROVE  Where(values) = Where(Base[row])
BY DEF Where, SameKey, KeyColumns

(* What discarding shows in a loaded row.                                  *)
LEMMA RestoredValues ==
  ASSUME IInv, NEW row \in Loaded
  PROVE  /\ RestoredRow(row).origin = row
         /\ RestoredRow(row).values =
              [c \in Columns |-> IF c \in DOMAIN UpdateCells(pending, row)
                                 THEN UpdateCells(pending, row)[c].oldValue
                                 ELSE tableRows[row].values[c]]
         /\ RestoredRow(row) \in Rows
<1> DEFINE cells == ChangeFor(pending, row, "update").cellChanges
           old == [c \in Columns |-> IF c \in DOMAIN cells THEN cells[c].oldValue
                                     ELSE tableRows[row].values[c]]
<1>1. GridInv(tableRows) /\ Consistent(pending)
  BY DEF IInv
<1>2. /\ row \in DOMAIN tableRows /\ tableRows[row] \in Rows /\ tableRows[row].origin = row
      /\ tableRows[row].values \in [Columns -> Cells]
  BY <1>1, LoadedRows
<1>3. RestoredRow(row) \in Rows /\ RestoredRow(row).origin = row
  BY <1>1, <1>2, RestoredRowTyped
<1>4. CASE HasChange(pending, row, "update")
  <2>1. RestoredRow(row) = [tableRows[row] EXCEPT !.values = old]
    BY <1>2, <1>4 DEF RestoredRow, Rows
  <2>2. UpdateCells(pending, row) = cells
    BY <1>4 DEF UpdateCells
  <2> HIDE DEF cells
  <2>3. RestoredRow(row).values = old
    <3> HIDE DEF old
    <3> QED
      BY <1>2, <2>1 DEF Rows
  <2> QED
    BY <1>3, <2>2, <2>3
<1>5. CASE ~ HasChange(pending, row, "update")
  <2>1. RestoredRow(row) = tableRows[row] /\ DOMAIN UpdateCells(pending, row) = {}
    BY <1>5 DEF RestoredRow, UpdateCells, EmptyMap
  <2>2. tableRows[row].values = [c \in Columns |-> tableRows[row].values[c]]
    BY <1>2
  <2> QED
    BY <1>3, <2>1, <2>2
<1> QED
  BY <1>4, <1>5

(* The grid of loaded rows and the deletions are only read.                *)
LEMMA SameRowsKeepKeys ==
  ASSUME KeysKept(pending, tableRows), \A r \in Loaded : tableRows'[r] = tableRows[r],
         \A c \in DeletionsOf(pending') :
           \/ c \in DeletionsOf(pending)
           \/ c.rowIndex \in Loaded /\ c.originalRow = tableRows[c.rowIndex].values
  PROVE  KeysKept(pending', tableRows')
BY DEF KeysKept

LEMMA EditKeepsKeys ==
  ASSUME KeyColumns \cap EditColumns = {}, IInv, KeysKept(pending, tableRows),
         NEW row \in DOMAIN tableRows, NEW col \in EditColumns, NEW value \in EditValues,
         CellEdited(row, col, value)
  PROVE  KeysKept(pending', tableRows')
<1>1. CellShown(row, col, value)
  BY DEF CellEdited
<1>2. Loaded \subseteq DOMAIN tableRows /\ tableRows[row].values \in [Columns -> Cells]
  BY GridRow, LoadedRows DEF IInv
<1>3. KeyColumns \subseteq Columns /\ col \notin KeyColumns
  BY PrimaryKeyAssumption DEF KeyColumns
<1>4. ASSUME NEW r \in Loaded PROVE SameKey(tableRows'[r].values, r)
  BY <1>1, <1>2, <1>3 DEF CellShown, KeysKept, SameKey
<1>5. DeletionsOf(pending') = DeletionsOf(pending)
  BY DEF CellEdited, EditRecorded, UpdateBecomes, NewRowEdited, OnlyNewRows
<1> QED
  BY <1>4, <1>5 DEF KeysKept

LEMMA StepKeepsKeys ==
  ASSUME KeyColumns \cap EditColumns = {}, IInv, SoundCells(pending), KeysKept(pending, tableRows),
         StepTaken
  PROVE  KeysKept(pending', tableRows')
<1>1. Loaded \subseteq DOMAIN tableRows
  BY LoadedRows DEF IInv
<1>2. ASSUME RowsInserted PROVE KeysKept(pending', tableRows')
  BY <1>1, <1>2, SameRowsKeepKeys DEF RowsInserted, OnlyNewRows
<1>3. ASSUME RowsDeleted PROVE KeysKept(pending', tableRows')
  BY <1>3, SameRowsKeepKeys DEF RowsDeleted, OnlyNewRows, MoreDeleted
<1>4. ASSUME NEW row, DeletionUndone(row) PROVE KeysKept(pending', tableRows')
  BY <1>4, SameRowsKeepKeys DEF DeletionUndone, RowDeletionUndone
<1>5. ASSUME InspectorEdited PROVE KeysKept(pending', tableRows')
  BY <1>5, SameRowsKeepKeys DEF InspectorEdited
<1>6. ASSUME Discarded PROVE KeysKept(pending', tableRows')
  <2>1. ASSUME NEW r \in Loaded PROVE SameKey(tableRows'[r].values, r)
    <3>1. tableRows'[r] = RestoredRow(r)
      BY <1>6 DEF Discarded, Loaded
    <3>2. \A k \in DOMAIN UpdateCells(pending, r) : k \notin KeyColumns
      BY CellsOfUpdate DEF SoundCells, IInv, Consistent
    <3>3. KeyColumns \subseteq Columns
      BY PrimaryKeyAssumption DEF KeyColumns
    <3>4. ASSUME NEW k \in KeyColumns PROVE RestoredRow(r).values[k] = tableRows[r].values[k]
      <4> DEFINE u == UpdateCells(pending, r)
                 shown == tableRows[r].values
      <4>1. RestoredRow(r).values = [c \in Columns |-> IF c \in DOMAIN u THEN u[c].oldValue ELSE shown[c]]
        BY RestoredValues
      <4>2. k \in Columns /\ k \notin DOMAIN u
        BY <3>2, <3>3
      <4> HIDE DEF u, shown
      <4>3. RestoredRow(r).values[k] = shown[k]
        BY <4>1, <4>2
      <4> QED
        BY <4>3 DEF shown
    <3> QED
      BY <3>1, <3>4 DEF KeysKept, SameKey
  <2>2. DeletionsOf(pending') = {}
    BY <1>6, NothingRecorded DEF Discarded
  <2> QED
    BY <2>1, <2>2 DEF KeysKept
<1>7. CASE UNCHANGED <<tableRows, pending>>
  BY <1>7
<1> QED
  BY <1>2, <1>3, <1>4, <1>5, <1>6, <1>7, EditKeepsKeys DEF StepTaken

(* What the DELETE statements are.                                         *)
LEMMA SentDeletes ==
  ASSUME IInv
  PROVE  Sent("DELETE") = {DeleteRow(c.rowIndex, Where(c.originalRow)) : c \in DeletionsOf(pending)}
<1>1. Consistent(pending) /\ Indexed(pending)
  BY DEF IInv, Consistent
<1>2. Sent("DELETE") = StatementsOf(pending, "delete")
  <2>1. SentBy(pending, OpOf("delete")) = StatementsOf(pending, "delete")
    BY <1>1, SentAre DEF Kinds
  <2> QED
    BY <2>1 DEF Sent, Statements, SentBy, OpOf
<1>3. \A c \in DeletionsOf(pending) : c.rowIndex \in pending.deletedRowIndices
  BY <1>1 DEF DeletionsOf, RowsOf, Consistent, MarksMatch
<1>4. Emitting(pending, "delete") = DeletionsOf(pending)
  BY <1>3 DEF Emitting, Emits, DeletionsOf
<1>5. \A c \in DeletionsOf(pending) :
        StatementOf(pending, c) = DeleteRow(c.rowIndex, Where(c.originalRow))
  BY DEF StatementOf, DeletionsOf
<1> QED
  BY <1>2, <1>4, <1>5 DEF StatementsOf

LEMMA KeysPick ==
  ASSUME IInv, KeysKept(pending, tableRows)
  PROVE  DeletesPickTheRow
<1>1. pending.deletedRowIndices = {c.rowIndex : c \in DeletionsOf(pending)}
  BY DEF IInv, Consistent, MarksMatch, RowsOf, DeletionsOf
<1>2. \A c \in DeletionsOf(pending) : Where(c.originalRow) = Where(Base[c.rowIndex])
  BY SameKeySameWhere DEF KeysKept
<1>3. {DeleteRow(c.rowIndex, Where(c.originalRow)) : c \in DeletionsOf(pending)}
        = {DeleteRow(row, Where(Base[row])) : row \in pending.deletedRowIndices}
  BY <1>1, <1>2
<1> QED
  BY <1>3, SentDeletes DEF DeletesPickTheRow

LEMMA SpecKeepsKeys ==
  ASSUME "undo" \notin Commands, KeyColumns \cap EditColumns = {}
  PROVE  Spec => [](IInv /\ KeysKept(pending, tableRows))
<1> DEFINE Inv == IInv /\ SoundCells(pending)
<1>1. Init => KeysKept(pending, tableRows)
  BY InitRecordsNothing, NothingRecorded DEF KeysKept, SameKey, ExistingRow
<1>2. Inv /\ KeysKept(pending, tableRows) /\ [Next]_vars => KeysKept(pending, tableRows)'
  BY StepIsTaken, StepKeepsKeys
<1>3. Spec => []Inv
  BY SpecKeepsSound
<1>4. Inv => IInv
  OBVIOUS
<1> HIDE DEF Inv
<1> QED
  BY <1>1, <1>2, <1>3, <1>4, PTL DEF Spec

-------------------------------------------------------------------------------
(***************************************************************************)
(* Inserts have the values the grid shows.                                 *)
(***************************************************************************)
StoredValues(p, rows) ==
  \A r \in DOMAIN rows \ Loaded :
    r \in DOMAIN p.insertedRowData /\ p.insertedRowData[r] = rows[r].values

LEMMA StepKeepsStored ==
  ASSUME Commands \cap {"sidebar", "deleteNew"} = {}, IInv, StoredValues(pending, tableRows), StepTaken
  PROVE  StoredValues(pending', tableRows')
<1>0. "sidebar" \notin Commands /\ "deleteNew" \notin Commands
  OBVIOUS
<1>1. ASSUME NEW row \in DOMAIN tableRows, NEW col \in EditColumns, NEW value \in EditValues,
             CellEdited(row, col, value)
      PROVE  StoredValues(pending', tableRows')
  <2>1. CellShown(row, col, value)
    BY <1>1 DEF CellEdited
  <2>2. CASE row \in Loaded
    <3>1. pending'.insertedRowData = pending.insertedRowData
      BY <1>1, <2>2 DEF CellEdited, EditRecorded, UpdateBecomes
    <3> QED
      BY <2>1, <2>2, <3>1 DEF CellShown, StoredValues
  <2>3. CASE row \notin Loaded
    <3> DEFINE data == pending.insertedRowData
               shown == tableRows[row].values
    <3>1. row \in DOMAIN data /\ data[row] = shown /\ shown \in [Columns -> Cells] /\ col \in Columns
      BY <2>3, GridRow, EditAssumption DEF StoredValues, IInv
    <3>2. col <= Len(data[row])
      BY <3>1, NumColumnsAssumption DEF Columns
    <3>3. pending'.insertedRowData = [data EXCEPT ![row] = [@ EXCEPT ![col] = value]]
      BY <1>1, <2>3, <3>1, <3>2 DEF CellEdited, NewRowEdited
    <3>4. \A r \in DOMAIN tableRows' \ Loaded : r \in DOMAIN data /\ data[r] = tableRows[r].values
      BY <2>1 DEF CellShown, StoredValues
    <3> QED
      BY <2>1, <3>1, <3>3, <3>4 DEF CellShown, StoredValues
  <2> QED
    BY <2>2, <2>3
<1>2. ASSUME RowsInserted PROVE StoredValues(pending', tableRows')
  BY <1>2 DEF RowsInserted, StoredValues
<1>3. ASSUME RowsDeleted PROVE StoredValues(pending', tableRows')
  BY <1>0, <1>3 DEF RowsDeleted, MoreDeleted, StoredValues
<1>4. ASSUME NEW row, DeletionUndone(row) PROVE StoredValues(pending', tableRows')
  BY <1>4 DEF DeletionUndone, RowDeletionUndone, StoredValues
<1>5. ASSUME Discarded PROVE StoredValues(pending', tableRows')
  BY <1>5 DEF Discarded, StoredValues, Loaded
<1>6. CASE UNCHANGED <<tableRows, pending>>
  BY <1>6
<1> QED
  BY <1>0, <1>1, <1>2, <1>3, <1>4, <1>5, <1>6 DEF StepTaken

(* What the INSERT statement of a row is.                                  *)
InsertedShown(row) ==
  [c \in {k \in Columns : tableRows[row].values[k] # Default} |-> tableRows[row].values[c]]

LEMMA StoredAreInserted ==
  ASSUME IInv, StoredValues(pending, tableRows)
  PROVE  InsertsAreTheNewRows
<1> DEFINE New == DOMAIN tableRows \ Loaded
           Insertions == {c \in ChangesOf(pending) : c.type = "insert"}
           Needed == {r \in New : \E k \in Columns : tableRows[r].values[k] # Default}
<1>1. Consistent(pending) /\ Indexed(pending) /\ GridInv(tableRows)
  BY DEF IInv, Consistent
<1>2. Sent("INSERT") = StatementsOf(pending, "insert")
  <2>1. SentBy(pending, OpOf("insert")) = StatementsOf(pending, "insert")
    BY <1>1, SentAre DEF Kinds
  <2> QED
    BY <2>1 DEF Sent, Statements, SentBy, OpOf
<1>3. pending.insertedRowIndices = New /\ New = {c.rowIndex : c \in Insertions}
  <2>1. DOMAIN tableRows = 1..Len(tableRows) /\ Len(tableRows) \in Nat
    BY <1>1 DEF GridInv
  <2>2. pending.insertedRowIndices = New
    BY <2>1, BaseLength DEF IInv, NewRowsLast, Loaded
  <2> QED
    BY <1>1, <2>2 DEF Consistent, MarksMatch, RowsOf
<1>4. ASSUME NEW r \in New
      PROVE  tableRows[r].values \in [Columns -> Cells]
  BY <1>1, GridRow
<1>5. ASSUME NEW c \in Insertions
      PROVE  /\ InsertedValues(pending, c) = InsertedShown(c.rowIndex)
             /\ Emits(pending, c) <=> c.rowIndex \in Needed
             /\ StatementOf(pending, c) = InsertInto(c.rowIndex, InsertedShown(c.rowIndex))
  <2> DEFINE row == c.rowIndex
  <2>1. row \in New
    BY <1>3
  <2>2. /\ row \in DOMAIN pending.insertedRowData
        /\ pending.insertedRowData[row] = tableRows[row].values
        /\ DOMAIN tableRows[row].values = Columns
    BY <1>4, <2>1 DEF StoredValues
  <2>3. InsertedValues(pending, c) = InsertedShown(row)
    BY <2>2 DEF InsertedValues, InsertedShown
  <2>4. DOMAIN InsertedShown(row) = {k \in Columns : tableRows[row].values[k] # Default}
    BY DEF InsertedShown
  <2>5. Emits(pending, c) <=> row \in pending.insertedRowIndices /\ DOMAIN InsertedValues(pending, c) # {}
    BY DEF Emits
  <2>6. StatementOf(pending, c) = InsertInto(row, InsertedValues(pending, c))
    BY DEF StatementOf
  <2>7. Emits(pending, c) <=> row \in Needed
    BY <1>3, <2>1, <2>3, <2>4, <2>5
  <2> QED
    BY <2>3, <2>6, <2>7
<1>6. Emitting(pending, "insert") = {c \in Insertions : c.rowIndex \in Needed}
  BY <1>5 DEF Emitting
<1>7. StatementsOf(pending, "insert") = {InsertInto(row, InsertedShown(row)) : row \in Needed}
  <2> HIDE DEF Insertions, Needed
  <2>1. \A r \in Needed : \E c \in Insertions : c.rowIndex = r
    BY <1>3 DEF Needed
  <2> QED
    BY <1>5, <1>6, <2>1 DEF StatementsOf
<1> QED
  BY <1>2, <1>7 DEF InsertsAreTheNewRows, InsertedShown

-------------------------------------------------------------------------------
(***************************************************************************)
(* Updates are the difference between the grid and the database, and       *)
(* discarding them shows the database.                                     *)
(***************************************************************************)
(* The first value of a cell and the original row are what was loaded.     *)
FromBase(p) ==
  \A c \in UpdatesOf(p) :
    /\ c.originalRow = Base[c.rowIndex]
    /\ \A col \in DOMAIN c.cellChanges : c.cellChanges[col].oldValue = Base[c.rowIndex][col]

(* A cell that shows another value than was loaded is recorded.            *)
CellRecordedIn(p, row, col) == \E c \in UpdatesOf(p) : c.rowIndex = row /\ col \in DOMAIN c.cellChanges

DifferencesRecorded(p, rows) ==
  \A r \in Loaded \ p.deletedRowIndices : \A col \in Columns :
    rows[r].values[col] # Base[r][col] => CellRecordedIn(p, r, col)

(* A deleted row is not updated.                                           *)
DeletedNotUpdated(p) == \A c \in UpdatesOf(p) : c.rowIndex \notin p.deletedRowIndices

DifferenceInv(p, rows) ==
  /\ FromBase(p)
  /\ DifferencesRecorded(p, rows)
  /\ DeletedNotUpdated(p)
  /\ "delete" \notin Commands => p.deletedRowIndices = {}

LEMMA BaseRows ==
  ASSUME NEW r \in Loaded
  PROVE  Base[r] \in [Columns -> Cells]
BY BaseAssumption, BaseLength DEF Loaded

(* The row an edit of a cell starts from.                                  *)
LEMMA BeforeEdit ==
  ASSUME IInv, DifferenceInv(pending, tableRows), NEW row \in Loaded, row \notin pending.deletedRowIndices
  PROVE  LET u == UpdateCells(pending, row)
             shown == tableRows[row].values
         IN  /\ \A k \in DOMAIN u : u[k].oldValue = Base[row][k]
             /\ \A k \in Columns \ DOMAIN u : shown[k] = Base[row][k]
             /\ UpdateOriginal(pending, row, shown) = Base[row]
<1> DEFINE u == UpdateCells(pending, row)
           shown == tableRows[row].values
<1>1. Indexed(pending) /\ GridInv(tableRows)
  BY DEF IInv, Consistent
<1>2. shown \in [Columns -> Cells] /\ Base[row] \in [Columns -> Cells]
  BY <1>1, LoadedRows, BaseRows
<1>3. \A k \in DOMAIN u : u[k].oldValue = Base[row][k]
  BY <1>1, CellsOfUpdate DEF DifferenceInv, FromBase
<1>4. \A c \in UpdatesOf(pending) : c.rowIndex = row => HasChange(pending, row, "update") /\ c.cellChanges = u
  BY <1>1, UpdateCellsAre
<1>5. ASSUME NEW k \in Columns, shown[k] # Base[row][k]
      PROVE  HasChange(pending, row, "update") /\ k \in DOMAIN u
  <2>1. CellRecordedIn(pending, row, k)
    BY <1>5 DEF DifferenceInv, DifferencesRecorded
  <2> HIDE DEF u
  <2> QED
    BY <1>4, <2>1 DEF CellRecordedIn
<1>6. CASE HasChange(pending, row, "update")
  <2>1. UpdateOriginal(pending, row, shown) = Base[row]
    BY <1>1, <1>6, UpdateCellsAre DEF UpdateOriginal, DifferenceInv, FromBase
  <2> QED
    BY <1>3, <1>5, <2>1
<1>7. CASE ~ HasChange(pending, row, "update")
  <2>1. \A k \in Columns : shown[k] = Base[row][k]
    BY <1>5, <1>7
  <2> HIDE DEF shown
  <2>2. shown = Base[row]
    BY <1>2, <2>1
  <2>3. UpdateOriginal(pending, row, shown) = shown
    BY <1>7 DEF UpdateOriginal
  <2> QED
    BY <1>3, <2>1, <2>2, <2>3 DEF shown
<1> QED
  BY <1>6, <1>7

LEMMA EditKeepsDifference ==
  ASSUME IInv, DifferenceInv(pending, tableRows), NEW row \in DOMAIN tableRows, NEW col \in EditColumns,
         NEW value \in EditValues, CellEdited(row, col, value)
  PROVE  DifferenceInv(pending', tableRows')
<1> DEFINE shown == tableRows[row].values
           u == UpdateCells(pending, row)
           cells == RecordedCells(u, col, shown[col], value)
<1>1. /\ Indexed(pending) /\ shown \in [Columns -> Cells] /\ col \in Columns
      /\ row \notin pending.deletedRowIndices
  BY GridRow, EditAssumption DEF IInv, Consistent, CellEdited
<1>2. CellShown(row, col, value) /\ pending'.deletedRowIndices = pending.deletedRowIndices
  BY DEF CellEdited, SameRowSets
<1>3. \A r \in DOMAIN tableRows : r # row => tableRows'[r] = tableRows[r]
  BY <1>2 DEF CellShown
<1>4. /\ tableRows'[row].values[col] = value
      /\ \A k \in Columns : k # col => tableRows'[row].values[k] = shown[k]
  BY <1>1, <1>2 DEF CellShown
<1>5. Loaded \subseteq DOMAIN tableRows
  BY LoadedRows DEF IInv
<1>6. CASE row \notin Loaded
  <2>1. UpdatesOf(pending') = UpdatesOf(pending)
    BY <1>6 DEF CellEdited, NewRowEdited, OnlyNewRows
  <2>2. FromBase(pending') /\ DeletedNotUpdated(pending')
    BY <1>2, <2>1 DEF DifferenceInv, FromBase, DeletedNotUpdated
  <2>3. DifferencesRecorded(pending', tableRows')
    BY <1>2, <1>3, <1>5, <1>6, <2>1 DEF DifferenceInv, DifferencesRecorded, CellRecordedIn
  <2> QED
    BY <1>2, <2>2, <2>3 DEF DifferenceInv
<1>7. CASE row \in Loaded
  <2>1. EditRecorded(pending, pending', row, col, shown[col], value, shown)
    BY <1>7 DEF CellEdited
  <2>2. /\ \A k \in DOMAIN u : u[k].oldValue = Base[row][k]
        /\ \A k \in Columns \ DOMAIN u : shown[k] = Base[row][k]
        /\ UpdateOriginal(pending, row, shown) = Base[row]
    BY <1>1, <1>7, BeforeEdit
  <2> HIDE DEF shown, u
  <2>3. /\ \A c \in UpdatesOf(pending') :
             \/ c \in UpdatesOf(pending) /\ c.rowIndex # row
             \/ c.rowIndex = row /\ c.cellChanges = cells /\ c.originalRow = Base[row]
        /\ \A c \in UpdatesOf(pending) : c.rowIndex # row => c \in UpdatesOf(pending')
        /\ DOMAIN cells # {} => \E c \in UpdatesOf(pending') : c.rowIndex = row /\ c.cellChanges = cells
    BY <1>1, <2>1, <2>2, EditedUpdates DEF u
  <2>4. FirstValue(u, col, shown[col]) = Base[row][col]
    BY <1>1, <2>2 DEF FirstValue
  <2>5. ASSUME NEW k \in DOMAIN cells
        PROVE  cells[k].oldValue = Base[row][k]
    <3>1. /\ k # col => k \in DOMAIN u /\ cells[k] = u[k]
          /\ k = col => cells[k].oldValue = FirstValue(u, col, shown[col])
      BY RecordedCellsAre
    <3> QED
      BY <2>2, <2>4, <3>1
  <2>6. ASSUME NEW k \in Columns, tableRows'[row].values[k] # Base[row][k]
        PROVE  k \in DOMAIN cells
    <3>1. /\ k # col /\ k \in DOMAIN u => k \in DOMAIN cells
          /\ FirstValue(u, col, shown[col]) # value => col \in DOMAIN cells
      BY RecordedCellsAre
    <3> QED
      BY <1>4, <2>2, <2>4, <2>6, <3>1
  <2> HIDE DEF cells
  <2>7. FromBase(pending')
    BY <2>3, <2>5 DEF DifferenceInv, FromBase
  <2>8. DeletedNotUpdated(pending')
    BY <1>1, <1>2, <2>3 DEF DifferenceInv, DeletedNotUpdated
  <2>9. ASSUME NEW r \in Loaded \ pending'.deletedRowIndices, NEW k \in Columns,
               tableRows'[r].values[k] # Base[r][k]
        PROVE  CellRecordedIn(pending', r, k)
    <3>1. CASE r = row
      BY <2>3, <2>6, <2>9, <3>1 DEF CellRecordedIn
    <3>2. CASE r # row
      <4>1. CellRecordedIn(pending, r, k)
        BY <1>2, <1>3, <1>5, <2>9, <3>2 DEF DifferenceInv, DifferencesRecorded
      <4> QED
        BY <2>3, <3>2, <4>1 DEF CellRecordedIn
    <3> QED
      BY <3>1, <3>2
  <2>10. DifferencesRecorded(pending', tableRows')
    BY <2>9 DEF DifferencesRecorded
  <2> QED
    BY <1>2, <2>7, <2>8, <2>10 DEF DifferenceInv
<1> QED
  BY <1>6, <1>7

(* Discarding, when no row was deleted.                                    *)
LEMMA DiscardShowsBase ==
  ASSUME IInv, DifferenceInv(pending, tableRows), "delete" \notin Commands, NEW row \in Loaded
  PROVE  RestoredRow(row) = ExistingRow(row)
<1> DEFINE u == UpdateCells(pending, row)
           shown == tableRows[row].values
<1>1. row \notin pending.deletedRowIndices
  BY DEF DifferenceInv
<1>2. /\ \A k \in DOMAIN u : u[k].oldValue = Base[row][k]
      /\ \A k \in Columns \ DOMAIN u : shown[k] = Base[row][k]
  BY <1>1, BeforeEdit
<1>3. /\ RestoredRow(row).origin = row /\ RestoredRow(row) \in Rows
      /\ RestoredRow(row).values = [c \in Columns |-> IF c \in DOMAIN u THEN u[c].oldValue ELSE shown[c]]
  BY RestoredValues
<1> HIDE DEF u, shown
<1>4. Base[row] \in [Columns -> Cells]
  BY BaseRows
<1>5. RestoredRow(row).values = Base[row]
  BY <1>2, <1>3, <1>4
<1> QED
  BY <1>3, <1>5 DEF ExistingRow, Rows

SimpleEdits ==
  /\ Commands \cap {"undo", "sidebar", "undoDelete"} = {}
  /\ ~ {"delete", "discard"} \subseteq Commands

LEMMA StepKeepsDifference ==
  ASSUME SimpleEdits, IInv, DifferenceInv(pending, tableRows), StepTaken
  PROVE  DifferenceInv(pending', tableRows')
<1>0. "sidebar" \notin Commands /\ "undoDelete" \notin Commands
  BY DEF SimpleEdits
<1>1. Loaded \subseteq DOMAIN tableRows
  BY LoadedRows DEF IInv
<1>2. ASSUME RowsInserted PROVE DifferenceInv(pending', tableRows')
  <2>1. /\ UpdatesOf(pending') = UpdatesOf(pending)
        /\ pending'.deletedRowIndices = pending.deletedRowIndices
        /\ \A r \in Loaded : tableRows'[r] = tableRows[r]
    BY <1>1, <1>2 DEF RowsInserted, OnlyNewRows
  <2> QED
    BY <2>1 DEF DifferenceInv, FromBase, DifferencesRecorded, CellRecordedIn, DeletedNotUpdated
<1>3. ASSUME RowsDeleted PROVE DifferenceInv(pending', tableRows')
  <2>1. \A r \in Loaded : tableRows'[r] = tableRows[r]
    BY <1>3 DEF RowsDeleted
  <2>2. /\ UpdatesOf(pending') \subseteq UpdatesOf(pending)
        /\ \A c \in UpdatesOf(pending) : c \in UpdatesOf(pending') \/ c.rowIndex \in pending'.deletedRowIndices
        /\ \A c \in UpdatesOf(pending') : c.rowIndex \in pending'.deletedRowIndices
                                            => c.rowIndex \in pending.deletedRowIndices
        /\ pending.deletedRowIndices \subseteq pending'.deletedRowIndices
        /\ "delete" \notin Commands => pending'.deletedRowIndices = pending.deletedRowIndices
    BY <1>3 DEF RowsDeleted, OnlyNewRows, MoreDeleted
  <2>3. FromBase(pending') /\ DeletedNotUpdated(pending')
    BY <2>2 DEF DifferenceInv, FromBase, DeletedNotUpdated
  <2>4. DifferencesRecorded(pending', tableRows')
    BY <2>1, <2>2 DEF DifferenceInv, DifferencesRecorded, CellRecordedIn
  <2> QED
    BY <2>2, <2>3, <2>4 DEF DifferenceInv
<1>4. ASSUME "discard" \in Commands, Discarded PROVE DifferenceInv(pending', tableRows')
  <2>1. "delete" \notin Commands
    BY <1>4 DEF SimpleEdits
  <2>2. \A r \in Loaded : tableRows'[r].values = Base[r]
    BY <1>4, <2>1, DiscardShowsBase DEF Discarded, Loaded, ExistingRow
  <2>3. UpdatesOf(pending') = {} /\ pending'.deletedRowIndices = {}
    BY <1>4, NothingRecorded DEF Discarded
  <2> QED
    BY <2>2, <2>3 DEF DifferenceInv, FromBase, DifferencesRecorded, DeletedNotUpdated
<1>5. CASE UNCHANGED <<tableRows, pending>>
  BY <1>5
<1> QED
  BY <1>0, <1>2, <1>3, <1>4, <1>5, EditKeepsDifference DEF StepTaken

LEMMA SpecKeepsDifference ==
  ASSUME SimpleEdits
  PROVE  Spec => [](IInv /\ DifferenceInv(pending, tableRows))
<1>0. "undo" \notin Commands
  BY DEF SimpleEdits
<1>1. Init => DifferenceInv(pending, tableRows)
  BY InitRecordsNothing, NothingRecorded
     DEF DifferenceInv, FromBase, DifferencesRecorded, DeletedNotUpdated, ExistingRow
<1>2. IInv /\ DifferenceInv(pending, tableRows) /\ [Next]_vars => DifferenceInv(pending, tableRows)'
  BY <1>0, StepIsTaken, StepKeepsDifference
<1> QED
  BY <1>0, <1>1, <1>2, SpecKeepsIInv, PTL DEF Spec
(* What the UPDATE statements are.                                         *)
LEMMA SentUpdates ==
  ASSUME IInv
  PROVE  Sent("UPDATE") =
           {UpdateRow(c.rowIndex, [col \in DOMAIN c.cellChanges |-> c.cellChanges[col].newValue],
                      Where(c.originalRow)) :
              c \in {d \in UpdatesOf(pending) : \A k \in PrimaryKeyColumns : d.originalRow[k] # Null}}
<1> DEFINE Sending == {d \in UpdatesOf(pending) : \A k \in PrimaryKeyColumns : d.originalRow[k] # Null}
<1>1. Consistent(pending) /\ Indexed(pending)
  BY DEF IInv, Consistent
<1>2. Sent("UPDATE") = StatementsOf(pending, "update")
  <2>1. SentBy(pending, OpOf("update")) = StatementsOf(pending, "update")
    BY <1>1, SentAre DEF Kinds
  <2> QED
    BY <2>1 DEF Sent, Statements, SentBy, OpOf
<1>3. \A c \in UpdatesOf(pending) : DOMAIN c.cellChanges # {}
  BY <1>1 DEF UpdatesOf, Consistent, ModifiedMatches
<1>4. Emitting(pending, "update") = Sending
  BY <1>3 DEF Emitting, Emits, UpdatesOf
<1>5. \A c \in Sending :
        StatementOf(pending, c) =
          UpdateRow(c.rowIndex, [col \in DOMAIN c.cellChanges |-> c.cellChanges[col].newValue],
                    Where(c.originalRow))
  BY DEF StatementOf, UpdatesOf
<1> HIDE DEF Sending
<1>6. StatementsOf(pending, "update") =
        {UpdateRow(c.rowIndex, [col \in DOMAIN c.cellChanges |-> c.cellChanges[col].newValue],
                   Where(c.originalRow)) : c \in Sending}
  BY <1>4, <1>5 DEF StatementsOf
<1> QED
  BY <1>2, <1>6 DEF Sending

ShownUpdate(row) ==
  UpdateRow(row, [c \in ChangedColumns(row) |-> tableRows[row].values[c]], Where(Base[row]))

LEMMA DifferenceIsSent ==
  ASSUME IInv, SoundCells(pending), ShownCells(pending, tableRows), DifferenceInv(pending, tableRows),
         \A r \in Loaded : \A k \in PrimaryKeyColumns : Base[r][k] # Null
  PROVE  UpdatesAreTheDifference
<1> DEFINE Differing == {r \in Loaded \ pending.deletedRowIndices : ChangedColumns(r) # {}}
           statement(c) ==
             UpdateRow(c.rowIndex, [col \in DOMAIN c.cellChanges |-> c.cellChanges[col].newValue],
                       Where(c.originalRow))
<1>1. \A c \in UpdatesOf(pending) : /\ c.rowIndex \in Loaded /\ DOMAIN c.cellChanges \subseteq Columns
                                    /\ c.originalRow = Base[c.rowIndex]
                                    /\ c.rowIndex \notin pending.deletedRowIndices
                                    /\ DOMAIN c.cellChanges # {}
  <2>1. \A c \in UpdatesOf(pending) : DOMAIN c.cellChanges # {}
    BY DEF IInv, Consistent, ModifiedMatches, UpdatesOf
  <2> QED
    BY <2>1, UpdatesAreOfLoaded DEF DifferenceInv, FromBase, DeletedNotUpdated
<1>2. ASSUME NEW c \in UpdatesOf(pending)
      PROVE  DOMAIN c.cellChanges = ChangedColumns(c.rowIndex)
  <2> DEFINE row == c.rowIndex
  <2>1. ASSUME NEW k \in DOMAIN c.cellChanges
        PROVE  k \in ChangedColumns(row)
    <3>1. /\ c.cellChanges[k].oldValue # c.cellChanges[k].newValue
          /\ c.cellChanges[k].newValue = tableRows[row].values[k]
          /\ c.cellChanges[k].oldValue = Base[row][k]
      BY DEF SoundCells, ShownCells, DifferenceInv, FromBase
    <3> QED
      BY <1>1, <3>1 DEF ChangedColumns
  <2>2. ASSUME NEW k \in ChangedColumns(row)
        PROVE  k \in DOMAIN c.cellChanges
    <3>1. PICK d \in UpdatesOf(pending) : d.rowIndex = row /\ k \in DOMAIN d.cellChanges
      <4>1. CellRecordedIn(pending, row, k)
        BY <1>1 DEF ChangedColumns, DifferenceInv, DifferencesRecorded
      <4> QED
        BY <4>1 DEF CellRecordedIn
    <3>2. d = c
      BY <3>1, OtherUpdates DEF IInv, Consistent, UpdatesOf
    <3> QED
      BY <3>1, <3>2
  <2> QED
    BY <2>1, <2>2
<1>3. ASSUME NEW c \in UpdatesOf(pending)
      PROVE  statement(c) = ShownUpdate(c.rowIndex)
  <2>1. [col \in DOMAIN c.cellChanges |-> c.cellChanges[col].newValue]
          = [k \in ChangedColumns(c.rowIndex) |-> tableRows[c.rowIndex].values[k]]
    BY <1>2 DEF ShownCells
  <2> QED
    BY <1>1, <2>1 DEF ShownUpdate
<1>4. {d \in UpdatesOf(pending) : \A k \in PrimaryKeyColumns : d.originalRow[k] # Null}
        = UpdatesOf(pending)
  BY <1>1
<1>5. Sent("UPDATE") = {statement(c) : c \in UpdatesOf(pending)}
  BY <1>4, SentUpdates
<1>6. \A c \in UpdatesOf(pending) : c.rowIndex \in Differing
  BY <1>1, <1>2
<1>7. ASSUME NEW r \in Differing
      PROVE  \E c \in UpdatesOf(pending) : c.rowIndex = r
  <2>1. PICK k \in ChangedColumns(r) : TRUE
    OBVIOUS
  <2>2. CellRecordedIn(pending, r, k)
    BY <2>1 DEF ChangedColumns, DifferenceInv, DifferencesRecorded
  <2> QED
    BY <2>2 DEF CellRecordedIn
<1> HIDE DEF statement, Differing
<1>8. {statement(c) : c \in UpdatesOf(pending)} = {ShownUpdate(r) : r \in Differing}
  BY <1>3, <1>6, <1>7
<1> QED
  BY <1>5, <1>8 DEF UpdatesAreTheDifference, ShownUpdate, Differing

(* A save sends one UPDATE for each loaded row that is not deleted and     *)
(* that the grid shows differently from what was loaded, which sets just   *)
(* the cells that differ and picks the row by what was loaded, and no      *)
(* other: with edits of cells, additions and deletions of rows in any      *)
(* order, and with discards when nothing was deleted (recordCellChange,    *)
(* recordRowDeletion, generateUpdateSQL).  A row with a NULL key gets none.*)
THEOREM UpdatesAreExactlyTheDifference ==
  ASSUME SimpleEdits, \A r \in Loaded : \A k \in PrimaryKeyColumns : Base[r][k] # Null
  PROVE  Spec => []UpdatesAreTheDifference
<1>0. "undo" \notin Commands /\ Commands \cap {"undo", "sidebar"} = {}
  BY DEF SimpleEdits
<1>1. IInv /\ SoundCells(pending) /\ ShownCells(pending, tableRows) /\ DifferenceInv(pending, tableRows)
        => UpdatesAreTheDifference
  BY DifferenceIsSent
<1>2. Spec => [](IInv /\ SoundCells(pending))
  BY <1>0, SpecKeepsSound
<1>3. Spec => [](IInv /\ ShownCells(pending, tableRows))
  BY <1>0, SpecKeepsShown
<1>4. Spec => [](IInv /\ DifferenceInv(pending, tableRows))
  BY SpecKeepsDifference
<1> QED
  BY <1>1, <1>2, <1>3, <1>4, PTL

-------------------------------------------------------------------------------
(***************************************************************************)
(* Discard.                                                                *)
(***************************************************************************)
(* The undo stack is a sequence, so that registering leaves it not empty.  *)
StackIsSequence == undoStack \in Seq({undoStack[i] : i \in DOMAIN undoStack})

LEMMA AppendNotEmpty ==
  ASSUME NEW s, s \in Seq({s[i] : i \in DOMAIN s}), NEW e
  PROVE  LET t == Append(s, e)
         IN  t # <<>> /\ t \in Seq({t[i] : i \in DOMAIN t})
<1> DEFINE S == {s[i] : i \in DOMAIN s} \cup {e}
           t == Append(s, e)
<1>1. s \in Seq(S)
  OBVIOUS
<1> HIDE DEF S
<1>2. t \in Seq(S) /\ Len(t) = Len(s) + 1 /\ Len(s) \in Nat
  BY <1>1 DEF S
<1> HIDE DEF t
<1>3. t # <<>> /\ t \in Seq({t[i] : i \in DOMAIN t})
  BY <1>2
<1> QED
  BY <1>3 DEF t

LEMMA RegisterKeeps ==
  ASSUME StackIsSequence, NEW group, Register(group)
  PROVE  undoStack' # <<>> /\ StackIsSequence'
<1>1. undoStack' = Append(undoStack, group)
  BY DEF Register
<1>2. undoStack' # <<>> /\ undoStack' \in Seq({undoStack'[i] : i \in DOMAIN undoStack'})
  BY <1>1, AppendNotEmpty DEF StackIsSequence
<1> QED
  BY <1>2 DEF StackIsSequence

(* Every step but a discard registers what undoes it, or nothing.          *)
LEMMA StepsRegister ==
  ASSUME SimpleEdits, StackIsSequence, Next
  PROVE  /\ StackIsSequence'
         /\ HandleDiscard \/ undoStack' # <<>>
<1>0. "sidebar" \notin Commands /\ "undoDelete" \notin Commands /\ "undo" \notin Commands
  BY DEF SimpleEdits
<1>1. ASSUME NEW group, Register(group)
      PROVE  undoStack' # <<>> /\ StackIsSequence'
  BY <1>1, RegisterKeeps
<1>2. ASSUME NEW row, NEW col, NEW value, CommitCellEdit(row, col, value)
      PROVE  undoStack' # <<>> /\ StackIsSequence'
  BY <1>1, <1>2 DEF CommitCellEdit
<1>3. ASSUME NEW values, InsertRows(values)
      PROVE  undoStack' # <<>> /\ StackIsSequence'
  BY <1>1, <1>3 DEF InsertRows
<1>4. ASSUME NEW selected, DeleteSelectedRows(selected)
      PROVE  undoStack' # <<>> /\ StackIsSequence'
  BY <1>1, <1>4 DEF DeleteSelectedRows
<1>5. ASSUME HandleDiscard PROVE StackIsSequence'
  <2>1. undoStack' = <<>>
    BY <1>5 DEF HandleDiscard
  <2> QED
    BY <2>1 DEF StackIsSequence
<1>6. ~ Undo /\ ~ Redo
  BY <1>0 DEF Undo, Redo, Enabled
<1>7. ASSUME NEW selected, NEW col, NEW value, SidebarEdit(selected, col, value)
      PROVE  FALSE
  <2>1. "sidebar" \in Commands
    BY <1>7 DEF SidebarEdit, Enabled
  <2> QED
    BY <1>0, <2>1
<1>8. \A row : ~ UndoDeleteRow(row)
  BY <1>0 DEF UndoDeleteRow, Enabled
<1>9. AddNewRow => undoStack' # <<>> /\ StackIsSequence'
  BY <1>3 DEF AddNewRow
<1>10. \A source : DuplicateRow(source) => undoStack' # <<>> /\ StackIsSequence'
  BY <1>3 DEF DuplicateRow
<1>11. \A value : PasteRows(value) => undoStack' # <<>> /\ StackIsSequence'
  BY <1>3 DEF PasteRows
<1> QED
  BY <1>2, <1>4, <1>5, <1>6, <1>7, <1>8, <1>9, <1>10, <1>11 DEF Next

LEMMA DiscardIsPristine ==
  ASSUME SimpleEdits, IInv, DifferenceInv(pending, tableRows), HandleDiscard
  PROVE  Pristine'
<1>1. "delete" \notin Commands
  BY DEF SimpleEdits, HandleDiscard, Enabled
<1>2. tableRows' = [k \in 1..Len(Base) |-> RestoredRow(k)] /\ pending' = EmptyPending
  BY HandleDiscardDoes
<1>3. \A k \in 1..Len(Base) : RestoredRow(k) = ExistingRow(k)
  BY <1>1, DiscardShowsBase DEF Loaded
<1>4. tableRows' = [i \in DOMAIN Base |-> ExistingRow(i)]
  BY <1>2, <1>3, BaseLength
<1>5. pending'.changes = <<>>
  BY <1>2 DEF EmptyPending
<1> QED
  BY <1>4, <1>5 DEF Pristine

(* Discard puts the grid back as it was loaded, cell by cell and without   *)
(* the new rows, and leaves no change (handleDiscard).  The rows deleted   *)
(* after an edit are where it fails: recordRowDeletion drops the update    *)
(* that held the first values, so nothing puts them back.                  *)
THEOREM DiscardRestoresTheGrid ==
  ASSUME SimpleEdits
  PROVE  Spec => DiscardRestores
<1> DEFINE Inv == IInv /\ DifferenceInv(pending, tableRows)
<1>1. Init => StackIsSequence
  BY DEF Init, StackIsSequence
<1>2. StackIsSequence /\ [Next]_vars => StackIsSequence'
  <2>1. ASSUME StackIsSequence, UNCHANGED vars PROVE StackIsSequence'
    BY <2>1 DEF vars, StackIsSequence
  <2> QED
    BY <2>1, StepsRegister
<1>3. Inv /\ StackIsSequence /\ [Next]_vars
        => [pending.changes # <<>> /\ undoStack' = <<>> /\ redoStack' = <<>> => Pristine']_vars
  BY StepsRegister, DiscardIsPristine
<1>4. Spec => []Inv
  BY SpecKeepsDifference
<1>5. Spec => []StackIsSequence
  BY <1>1, <1>2, PTL DEF Spec
<1> HIDE DEF Inv
<1> QED
  BY <1>3, <1>4, <1>5, PTL DEF Spec, DiscardRestores
===============================================================================
