------------------------------ MODULE SyncProofs ------------------------------
(* Proofs about iCloud sync: type correctness for every instance, and that *)
(* nothing is missed when one sync runs at a time and the user does not    *)
(* edit while a push is under way.  What an edit at that moment loses is   *)
(* shown by the run lostmark.                                              *)
EXTENDS SyncProperties, FiniteSetTheorems, TLAPS

-------------------------------------------------------------------------------
(***************************************************************************)
(* What the helpers return.                                                *)
(***************************************************************************)
(* The initial sync records have their type.                               *)
LEMMA SyncType ==
  ASSUME NEW pc \in Places, NEW R \in SUBSET Records, NEW V \in [Records -> Versions],
         NEW D \in SUBSET Records, NEW since \in Nat, NEW upto \in Nat
  PROVE  /\ Sync(pc, R, V, D, since, upto) \in SyncRecords
         /\ Sync(pc, R, V, D, since, upto).pc = pc
         /\ Sync(pc, R, V, D, since, upto).records = R
         /\ Sync(pc, R, V, D, since, upto).values = V
         /\ Sync(pc, R, V, D, since, upto).deletions = D
         /\ Sync(pc, R, V, D, since, upto).since = since
         /\ Sync(pc, R, V, D, since, upto).upto = upto
BY DEF Sync, SyncRecords

(* No record has a value in Nothing.                                       *)
LEMMA NothingType == Nothing \in [Records -> Versions] /\ \A r \in Records : Nothing[r] = Absent
BY BoundsAssumption DEF Nothing, Versions, Absent

(* The sync records without a payload have their type.                     *)
LEMMA PlainSyncs ==
  /\ NoSync \in SyncRecords /\ NoSync.pc = "none" /\ NoSync.values = Nothing
  /\ AtZone \in SyncRecords /\ AtZone.pc = "zone" /\ AtZone.values = Nothing
  /\ \A n \in Nat : /\ AtPull(n) \in SyncRecords /\ AtPull(n).pc = "pull"
                    /\ AtPull(n).since = n /\ AtPull(n).values = Nothing
<1> Nothing \in [Records -> Versions]
  BY NothingType
<1> QED
  BY DEF NoSync, AtZone, AtPull, Sync, SyncRecords, Places

(* Goto moves one sync and leaves the others.                              *)
LEMMA GotoMoves ==
  ASSUME NEW d \in Devices, NEW s \in Slots, NEW k \in SyncRecords, Goto(d, s, k),
         sync \in [Devices -> [Slots -> SyncRecords]]
  PROVE  /\ sync' \in [Devices -> [Slots -> SyncRecords]]
         /\ \A e \in Devices : \A u \in Slots :
              sync'[e][u] = IF e = d /\ u = s THEN k ELSE sync[e][u]
BY DEF Goto

(* So does changing where it is.                                           *)
LEMMA MoveMoves ==
  ASSUME NEW d \in Devices, NEW s \in Slots, NEW p \in Places,
         sync' = [sync EXCEPT ![d][s].pc = p],
         sync \in [Devices -> [Slots -> SyncRecords]]
  PROVE  /\ sync' \in [Devices -> [Slots -> SyncRecords]]
         /\ \A e \in Devices : \A u \in Slots :
              sync'[e][u] = IF e = d /\ u = s THEN [sync[e][u] EXCEPT !.pc = p] ELSE sync[e][u]
<1>1. /\ sync[d] \in [Slots -> SyncRecords]
      /\ sync[d][s] \in SyncRecords
  OBVIOUS
<1>2. [sync[d][s] EXCEPT !.pc = p] \in SyncRecords
  BY <1>1 DEF SyncRecords
<1>3. Goto(d, s, [sync[d][s] EXCEPT !.pc = p])
  BY DEF Goto
<1> QED
  BY <1>2, <1>3, GotoMoves

(* A landing gives every record it writes a change of its own and leaves   *)
(* the others.                                                             *)
LEMMA LandedChanges ==
  ASSUME TypeOK, NEW k \in SyncRecords, NEW S \in SUBSET Records, Landed(k, S)
  PROVE  /\ zone' \in [Records -> [value : Versions, change : Nat]]
         /\ changes' = changes + 1
         /\ changes' \in Nat
         /\ \A r \in Records : zone'[r] = zone[r] \/ zone'[r].change = changes + 1
         /\ \A r \in Records : zone'[r].value \in {zone[r].value, k.values[r], Absent}
         /\ \A r \in S : r \in k.records \cup k.deletions =>
              zone'[r].change = changes + 1 \/ zone'[r].value = Absent
<1> USE DEF TypeOK, Landed, SyncRecords
<1>1. changes + 1 \in Nat /\ changes' = changes + 1
  OBVIOUS
<1>2. Absent \in Versions
  BY BoundsAssumption DEF Versions, Absent
<1>3. \A r \in Records : k.values[r] \in Versions
  OBVIOUS
<1>4. \A r \in Records :
        zone'[r] = CASE r \in S \cap k.records -> [value |-> k.values[r], change |-> changes + 1]
                     [] r \in (S \cap k.deletions) \ k.records /\ zone[r].value # Absent ->
                          [value |-> Absent, change |-> changes + 1]
                     [] OTHER -> zone[r]
  OBVIOUS
<1>5. ASSUME NEW r \in Records
      PROVE  /\ zone'[r] \in [value : Versions, change : Nat]
             /\ zone'[r] = zone[r] \/ zone'[r].change = changes + 1
             /\ zone'[r].value \in {zone[r].value, k.values[r], Absent}
             /\ r \in S /\ r \in k.records \cup k.deletions =>
                  zone'[r].change = changes + 1 \/ zone'[r].value = Absent
  <2>1. CASE r \in S \cap k.records
    BY <1>1, <1>3, <1>4, <2>1
  <2>2. CASE r \in (S \cap k.deletions) \ k.records /\ zone[r].value # Absent
    BY <1>1, <1>2, <1>4, <2>2
  <2>3. CASE /\ r \notin S \cap k.records
             /\ ~(r \in (S \cap k.deletions) \ k.records /\ zone[r].value # Absent)
    BY <1>4, <2>3
  <2> QED
    BY <2>1, <2>2, <2>3
<1>6. zone' \in [Records -> [value : Versions, change : Nat]]
  BY <1>5
<1> QED
  BY <1>1, <1>5, <1>6

(* An order of finitely many conflicts is a sequence of them.              *)
LEMMA OrdersAreSequences ==
  ASSUME NEW S, IsFiniteSet(S), NEW q \in SetToSeqs(S)
  PROVE  q \in Seq(S)
<1>1. Cardinality(S) \in Nat
  BY FS_CardinalityType
<1> QED
  BY <1>1 DEF SetToSeqs

(* The conflicts of a pull are conflicts about connections.                *)
LEMMA ConflictsType ==
  ASSUME TypeOK, NEW d \in Devices, NEW k \in SyncRecords
  PROVE  IsFiniteSet(ConflictsOf(d, k)) /\ ConflictsOf(d, k) \in SUBSET ConflictRecords
<1> DEFINE C == Conflicting(d, k)
           f == [r \in C |-> [record |-> r, value |-> local[d][r]]]
<1>1. C \subseteq Connections /\ IsFiniteSet(C)
  BY RecordsAssumption, FS_Subset DEF Conflicting, Present
<1>2. ConflictsOf(d, k) \subseteq ConflictRecords
  BY <1>1 DEF ConflictsOf, ConflictRecords, TypeOK, Records
<1>3. f \in Surjection(C, ConflictsOf(d, k))
  BY DEF Surjection, ConflictsOf
<1> QED
  BY <1>1, <1>2, <1>3, FS_Surjection

-------------------------------------------------------------------------------
(***************************************************************************)
(* Type correctness.                                                       *)
(***************************************************************************)
LEMMA InitType == Init => TypeOK
<1> SUFFICES ASSUME Init PROVE TypeOK
  OBVIOUS
<1> USE DEF Init
<1>1. Absent \in Versions /\ 1 \in Versions /\ 1 \in 0..MaxEdits /\ 0 \in 0..MaxFailures
  BY BoundsAssumption DEF Versions, Absent
<1>2. zone \in [Records -> [value : Versions, change : Nat]]
  BY <1>1
<1>3. local \in [Devices -> [Records -> Versions]]
  BY <1>2
<1>4. sync \in [Devices -> [Slots -> SyncRecords]]
  BY PlainSyncs
<1>5. conflicts \in [Devices -> Seq(ConflictRecords)] /\ resolved \in [Devices -> SUBSET ConflictRecords]
  OBVIOUS
<1>6. created \subseteq Records
  BY InitiallyAssumption DEF Records
<1> QED
  BY <1>1, <1>2, <1>3, <1>4, <1>5, <1>6 DEF TypeOK

(* What saving a record leaves.                                            *)
LEMMA SaveType ==
  ASSUME TypeOK, NEW d \in Devices, NEW r \in Records, Save(d, r), created' \subseteq Records
  PROVE  TypeOK'
<1>1. edits + 1 \in Versions /\ edits' \in 0..MaxEdits
  BY BoundsAssumption DEF Save, MayEdit, TypeOK, Versions
<1>2. Marked(d, r) \subseteq Records
  BY DEF Marked, Present, Records
<1>3. local' \in [Devices -> [Records -> Versions]]
  BY <1>1 DEF Save, TypeOK
<1>4. dirty' \in [Devices -> SUBSET Records]
  BY <1>2 DEF Save, TypeOK
<1>5. scheduled' \in [Devices -> BOOLEAN]
  BY DEF Save, Schedule, TypeOK
<1> QED
  BY <1>1, <1>3, <1>4, <1>5 DEF Save, TypeOK, zoneVars

(* What deleting one leaves.                                               *)
LEMMA DeleteType ==
  ASSUME TypeOK, NEW d \in Devices, NEW r \in Records, Delete(d, r)
  PROVE  TypeOK'
<1>1. Absent \in Versions /\ edits' \in 0..MaxEdits
  BY BoundsAssumption DEF Delete, MayEdit, TypeOK, Versions, Absent
<1>2. Marked(d, r) \subseteq Records
  BY DEF Marked, Present, Records
<1>3. local' \in [Devices -> [Records -> Versions]]
  BY <1>1 DEF Delete, TypeOK
<1>4. dirty' \in [Devices -> SUBSET Records] /\ tombstones' \in [Devices -> SUBSET Records]
  BY <1>2 DEF Delete, TypeOK
<1>5. scheduled' \in [Devices -> BOOLEAN]
  BY DEF Delete, Schedule, TypeOK
<1> QED
  BY <1>1, <1>3, <1>4, <1>5 DEF Delete, TypeOK, zoneVars

(* The steps that begin a sync.                                            *)
LEMMA BeginningType ==
  ASSUME TypeOK, NEW d \in Devices, NEW s \in Slots,
         Foreground(d, s) \/ TimerFires(d, s) \/ Restart(d, s) \/ ZoneFails(d, s)
  PROVE  TypeOK'
<1>1. CASE Foreground(d, s) \/ TimerFires(d, s)
  <2>1. sync' \in [Devices -> [Slots -> SyncRecords]]
    BY <1>1, PlainSyncs, GotoMoves DEF Foreground, TimerFires, SyncNow, TypeOK
  <2>2. syncing' \in [Devices -> BOOLEAN] /\ scheduled' \in [Devices -> BOOLEAN]
    BY <1>1 DEF Foreground, TimerFires, SyncNow, TypeOK
  <2> QED
    BY <1>1, <2>1, <2>2 DEF Foreground, TimerFires, TypeOK, zoneVars, markVars
<1>2. CASE Restart(d, s)
  <2>1. sync' \in [Devices -> [Slots -> SyncRecords]]
    BY <1>2, PlainSyncs DEF Restart, TypeOK
  <2>2. syncing' \in [Devices -> BOOLEAN] /\ scheduled' \in [Devices -> BOOLEAN]
    BY <1>2 DEF Restart, TypeOK
  <2>3. token' \in [Devices -> Nat] /\ failures' \in 0..MaxFailures
    BY <1>2, BoundsAssumption DEF Restart, Fails, TypeOK
  <2>4. conflicts' \in [Devices -> Seq(ConflictRecords)] /\ resolved' \in [Devices -> SUBSET ConflictRecords]
    BY <1>2 DEF Restart, TypeOK
  <2> QED
    BY <1>2, <2>1, <2>2, <2>3, <2>4 DEF Restart, TypeOK, zoneVars, markVars
<1>3. CASE ZoneFails(d, s)
  <2>1. sync' \in [Devices -> [Slots -> SyncRecords]]
    BY <1>3, PlainSyncs, GotoMoves DEF ZoneFails, TypeOK
  <2>2. syncing' \in [Devices -> BOOLEAN]
    BY <1>3 DEF ZoneFails, TypeOK
  <2>3. failures' \in 0..MaxFailures
    BY <1>3, BoundsAssumption DEF ZoneFails, Fails, TypeOK
  <2> QED
    BY <1>3, <2>1, <2>2, <2>3 DEF ZoneFails, TypeOK, zoneVars, markVars
<1> QED
  BY <1>1, <1>2, <1>3

(* What a push takes along.                                                *)
LEMMA PayloadType ==
  ASSUME TypeOK, NEW d \in Devices, NEW s \in Slots, BeginPush(d, s)
  PROVE  \E k \in SyncRecords :
           /\ Goto(d, s, k)
           /\ \/ k = AtPull(token[d]) /\ Present(d, dirty[d]) \cup tombstones[d] = {}
              \/ /\ k.pc = "push"
                 /\ k.records = Present(d, dirty[d])
                 /\ k.values = [r \in Records |-> IF r \in Present(d, dirty[d]) THEN local[d][r] ELSE Absent]
                 /\ k.deletions = tombstones[d]
<1> DEFINE saves == Present(d, dirty[d])
           values == [r \in Records |-> IF r \in saves THEN local[d][r] ELSE Absent]
           k == Sync("push", saves, values, tombstones[d], 0, 0)
<1>1. values \in [Records -> Versions]
  BY BoundsAssumption DEF TypeOK, Versions, Absent
<1>2. saves \in SUBSET Records /\ tombstones[d] \in SUBSET Records /\ token[d] \in Nat
  BY DEF TypeOK, Present
<1>3. /\ k \in SyncRecords /\ k.pc = "push" /\ k.records = saves /\ k.values = values
      /\ k.deletions = tombstones[d]
  BY <1>1, <1>2, SyncType DEF Places
<1>4. AtPull(token[d]) \in SyncRecords
  BY <1>2, PlainSyncs
<1>5. CASE saves \cup tombstones[d] = {}
  BY <1>4, <1>5 DEF BeginPush
<1>6. CASE saves \cup tombstones[d] # {}
  <2>1. Goto(d, s, k)
    BY <1>6 DEF BeginPush
  <2> QED
    BY <1>3, <2>1
<1> QED
  BY <1>5, <1>6

(* The steps of a push.                                                    *)
LEMMA PushType ==
  ASSUME TypeOK, NEW d \in Devices, NEW s \in Slots,
         \/ BeginPush(d, s) \/ PushLands(d, s) \/ PushRetried(d, s) \/ PushFails(d, s)
         \/ PushDone(d, s)
  PROVE  TypeOK'
<1>1. CASE BeginPush(d, s)
  <2>1. sync' \in [Devices -> [Slots -> SyncRecords]]
    BY <1>1, PayloadType, GotoMoves DEF TypeOK
  <2> QED
    BY <1>1, <2>1 DEF BeginPush, TypeOK, zoneVars, markVars
<1>2. CASE PushLands(d, s)
  <2>1. sync[d][s] \in SyncRecords
    BY DEF TypeOK
  <2>2. zone' \in [Records -> [value : Versions, change : Nat]] /\ changes' \in Nat
    BY <1>2, <2>1, LandedChanges DEF PushLands
  <2>3. sync' \in [Devices -> [Slots -> SyncRecords]]
    BY <1>2, MoveMoves DEF PushLands, TypeOK, Places
  <2> QED
    BY <1>2, <2>2, <2>3 DEF PushLands, TypeOK, markVars
<1>3. CASE PushRetried(d, s)
  <2>1. sync' \in [Devices -> [Slots -> SyncRecords]]
    BY <1>3, MoveMoves DEF PushRetried, TypeOK, Places
  <2>2. failures' \in 0..MaxFailures
    BY <1>3, BoundsAssumption DEF PushRetried, Fails, TypeOK
  <2> QED
    BY <1>3, <2>1, <2>2 DEF PushRetried, TypeOK, zoneVars, markVars
<1>4. CASE PushFails(d, s)
  <2>1. sync[d][s] \in SyncRecords
    BY DEF TypeOK
  <2>2. PICK S \in SUBSET Records : Landed(sync[d][s], S)
    BY <1>4 DEF PushFails
  <2>3. zone' \in [Records -> [value : Versions, change : Nat]] /\ changes' \in Nat
    BY <2>1, <2>2, LandedChanges
  <2>4. sync' \in [Devices -> [Slots -> SyncRecords]]
    <3>1. AtPull(token[d]) \in SyncRecords
      BY PlainSyncs DEF TypeOK
    <3> QED
      BY <1>4, <3>1, GotoMoves DEF PushFails, TypeOK
  <2>5. failures' \in 0..MaxFailures
    BY <1>4, BoundsAssumption DEF PushFails, Fails, TypeOK
  <2> QED
    BY <1>4, <2>3, <2>4, <2>5 DEF PushFails, TypeOK, markVars
<1>5. CASE PushDone(d, s)
  <2>1. sync' \in [Devices -> [Slots -> SyncRecords]]
    <3>1. AtPull(token[d]) \in SyncRecords
      BY PlainSyncs DEF TypeOK
    <3> QED
      BY <1>5, <3>1, GotoMoves DEF PushDone, TypeOK
  <2> QED
    BY <1>5, <2>1 DEF PushDone, TypeOK, zoneVars
<1> QED
  BY <1>1, <1>2, <1>3, <1>4, <1>5

(* What a fetch brings.                                                    *)
LEMMA FetchType ==
  ASSUME TypeOK, NEW d \in Devices, NEW s \in Slots, Fetch(d, s)
  PROVE  \E k \in SyncRecords :
           /\ Goto(d, s, k)
           /\ k.pc = "fetched"
           /\ k.records = {r \in Records : zone[r].change > sync[d][s].since}
           /\ k.values = [r \in Records |-> IF r \in k.records THEN zone[r].value ELSE Absent]
           /\ k.since = sync[d][s].since
           /\ k.upto = changes
<1> DEFINE changed == {r \in Records : zone[r].change > sync[d][s].since}
           values == [r \in Records |-> IF r \in changed THEN zone[r].value ELSE Absent]
           k == Sync("fetched", changed, values, {}, sync[d][s].since, changes)
<1>1. values \in [Records -> Versions]
  BY BoundsAssumption DEF TypeOK, Versions, Absent
<1>2. changed \in SUBSET Records /\ sync[d][s].since \in Nat /\ changes \in Nat
  BY DEF TypeOK, SyncRecords
<1>3. Goto(d, s, k)
  BY DEF Fetch
<1> HIDE DEF values, changed
<1>4. /\ k \in SyncRecords /\ k.pc = "fetched" /\ k.records = changed /\ k.values = values
      /\ k.since = sync[d][s].since /\ k.upto = changes
  BY <1>1, <1>2, SyncType DEF Places
<1>5. values = [r \in Records |-> IF r \in changed THEN zone[r].value ELSE Absent]
  BY DEF values
<1> QED
  BY <1>3, <1>4, <1>5 DEF changed

(* The steps of a pull.                                                    *)
LEMMA PullType ==
  ASSUME TypeOK, NEW d \in Devices, NEW s \in Slots,
         Fetch(d, s) \/ TokenExpires(d, s) \/ PullFails(d, s) \/ ApplyPull(d, s)
  PROVE  TypeOK'
<1>1. CASE Fetch(d, s)
  <2>1. sync' \in [Devices -> [Slots -> SyncRecords]]
    BY <1>1, FetchType, GotoMoves DEF TypeOK
  <2> QED
    BY <1>1, <2>1 DEF Fetch, TypeOK, zoneVars, markVars
<1>2. CASE TokenExpires(d, s)
  <2>1. sync' \in [Devices -> [Slots -> SyncRecords]]
    BY <1>2, PlainSyncs, GotoMoves DEF TokenExpires, TypeOK
  <2>2. token' \in [Devices -> Nat] /\ failures' \in 0..MaxFailures
    BY <1>2, BoundsAssumption DEF TokenExpires, Fails, TypeOK
  <2> QED
    BY <1>2, <2>1, <2>2 DEF TokenExpires, TypeOK, zoneVars, markVars
<1>3. CASE PullFails(d, s)
  <2>1. sync' \in [Devices -> [Slots -> SyncRecords]]
    BY <1>3, PlainSyncs, GotoMoves DEF PullFails, TypeOK
  <2>2. syncing' \in [Devices -> BOOLEAN]
    BY <1>3 DEF PullFails, TypeOK
  <2>3. failures' \in 0..MaxFailures
    BY <1>3, BoundsAssumption DEF PullFails, Fails, TypeOK
  <2> QED
    BY <1>3, <2>1, <2>2, <2>3 DEF PullFails, TypeOK, zoneVars, markVars
<1>4. CASE ApplyPull(d, s)
  <2> DEFINE k == sync[d][s]
  <2>1. k \in SyncRecords
    BY DEF TypeOK
  <2>2. k.upto \in Nat /\ k.values \in [Records -> Versions]
    BY <2>1 DEF SyncRecords
  <2>3. sync' \in [Devices -> [Slots -> SyncRecords]]
    BY <1>4, PlainSyncs, GotoMoves DEF ApplyPull, TypeOK
  <2>4. syncing' \in [Devices -> BOOLEAN]
    BY <1>4 DEF ApplyPull, TypeOK
  <2>5. token' \in [Devices -> Nat]
    BY <1>4, <2>2 DEF ApplyPull, TypeOK
  <2>6. local' \in [Devices -> [Records -> Versions]]
    BY <1>4, <2>2 DEF ApplyPull, TypeOK
  <2>7. conflicts' \in [Devices -> Seq(ConflictRecords)]
    <3>1. PICK q \in SetToSeqs(ConflictsOf(d, k)) : conflicts' = [conflicts EXCEPT ![d] = @ \o q]
      BY <1>4 DEF ApplyPull
    <3>2. q \in Seq(ConflictsOf(d, k)) /\ ConflictsOf(d, k) \subseteq ConflictRecords
      BY <2>1, <3>1, ConflictsType, OrdersAreSequences
    <3>3. q \in Seq(ConflictRecords)
      BY <3>2
    <3>4. conflicts[d] \o q \in Seq(ConflictRecords)
      BY <3>3 DEF TypeOK
    <3> QED
      BY <3>1, <3>4 DEF TypeOK
  <2> QED
    BY <1>4, <2>3, <2>4, <2>5, <2>6, <2>7 DEF ApplyPull, TypeOK, zoneVars
<1> QED
  BY <1>1, <1>2, <1>3, <1>4

(* The steps of a conflict.                                                *)
LEMMA ConflictType ==
  ASSUME TypeOK, NEW d \in Devices
  PROVE  /\ \A keepLocal \in BOOLEAN : ResolveConflict(d, keepLocal) => TypeOK'
         /\ \A e \in resolved[d] : ResolvedLands(d, e) \/ ResolvedFails(d, e) => TypeOK'
<1>1. ASSUME NEW keepLocal \in BOOLEAN, ResolveConflict(d, keepLocal)
      PROVE  TypeOK'
  <2>1. conflicts[d] \in Seq(ConflictRecords) /\ conflicts[d] # <<>>
    BY <1>1 DEF ResolveConflict, TypeOK
  <2>2. Head(conflicts[d]) \in ConflictRecords /\ Tail(conflicts[d]) \in Seq(ConflictRecords)
    BY <2>1
  <2>3. conflicts' \in [Devices -> Seq(ConflictRecords)] /\ resolved' \in [Devices -> SUBSET ConflictRecords]
    BY <1>1, <2>2 DEF ResolveConflict, TypeOK
  <2> QED
    BY <1>1, <2>3 DEF ResolveConflict, TypeOK, zoneVars, markVars
<1>2. ASSUME NEW e \in resolved[d], ResolvedLands(d, e)
      PROVE  TypeOK'
  <2>1. e \in ConflictRecords /\ e.record \in Records /\ e.value \in Versions
    BY DEF TypeOK, ConflictRecords, Records
  <2>2. zone' \in [Records -> [value : Versions, change : Nat]] /\ changes' \in Nat
    BY <1>2, <2>1 DEF ResolvedLands, TypeOK
  <2>3. resolved' \in [Devices -> SUBSET ConflictRecords]
    BY <1>2 DEF ResolvedLands, TypeOK
  <2> QED
    BY <1>2, <2>2, <2>3 DEF ResolvedLands, TypeOK, markVars
<1>3. ASSUME NEW e \in resolved[d], ResolvedFails(d, e)
      PROVE  TypeOK'
  <2>1. resolved' \in [Devices -> SUBSET ConflictRecords]
    BY <1>3 DEF ResolvedFails, TypeOK
  <2>2. failures' \in 0..MaxFailures
    BY <1>3, BoundsAssumption DEF ResolvedFails, Fails, TypeOK
  <2> QED
    BY <1>3, <2>1, <2>2 DEF ResolvedFails, TypeOK, zoneVars, markVars
<1> QED
  BY <1>1, <1>2, <1>3

(* Every step keeps the types.                                             *)
LEMMA NextType == TypeOK /\ [Next]_vars => TypeOK'
<1>1. ASSUME TypeOK, UNCHANGED vars PROVE TypeOK'
  BY <1>1 DEF vars, TypeOK
<1>2. ASSUME TypeOK, NEW d \in Devices, User(d) PROVE TypeOK'
  <2>1. ASSUME NEW r \in Records, Add(d, r) \/ Edit(d, r) PROVE TypeOK'
    <3>1. Save(d, r) /\ created' \subseteq Records
      BY <1>2, <2>1 DEF Add, Edit, TypeOK
    <3> QED
      BY <1>2, <3>1, SaveType
  <2> QED
    BY <1>2, <2>1, DeleteType, ConflictType DEF User
<1>3. ASSUME TypeOK, NEW d \in Devices, NEW s \in Slots,
             \/ Goes(d, s) \/ GoesWrong(d, s)
             \/ Foreground(d, s) \/ TimerFires(d, s) \/ Restart(d, s)
      PROVE  TypeOK'
  BY <1>3, BeginningType, PushType, PullType DEF Goes, GoesWrong
<1>4. ASSUME TypeOK, NEW d \in Devices, NEW e \in resolved[d],
             ResolvedLands(d, e) \/ ResolvedFails(d, e)
      PROVE  TypeOK'
  BY <1>4, ConflictType
<1> QED
  BY <1>1, <1>2, <1>3, <1>4 DEF Next

(* Every state has its type, on any number of devices and with any number  *)
(* of syncs at once.                                                       *)
THEOREM TypeCorrect == Spec => []TypeOK
BY InitType, NextType, PTL DEF Spec

-------------------------------------------------------------------------------
(***************************************************************************)
(* The inductive invariant.                                                *)
(***************************************************************************)
(* Nothing present is unknown: a new record is nowhere yet, not even among *)
(* the deletions.                                                          *)
AllCreated ==
  /\ \A d \in Devices : tombstones[d] \subseteq created
  /\ \A r \in Records : zone[r].value # Absent => r \in created
  /\ \A d \in Devices : \A r \in Records : local[d][r] # Absent => r \in created
  /\ \A d \in Devices : \A s \in Slots : \A r \in Records :
       sync[d][s].values[r] # Absent => r \in created
  /\ \A d \in Devices : \A e \in resolved[d] : e.record \in created
  /\ \A d \in Devices : \A i \in 1..Len(conflicts[d]) : conflicts[d][i].record \in created

(* What is marked as deleted is not there.                                 *)
DeletedIsGone ==
  \A d \in Devices : \A r \in Records : r \in tombstones[d] => local[d][r] = Absent

(* A push carries what is marked.                                          *)
PushCarries(d, s) ==
  sync[d][s].pc \in {"push", "landed"} =>
    /\ sync[d][s].records = Present(d, dirty[d])
    /\ sync[d][s].deletions = tombstones[d]
    /\ \A r \in sync[d][s].records : sync[d][s].values[r] = local[d][r]

(* Once it has landed, the next pull brings it back, or it is there.       *)
PushReached(d, s) ==
  sync[d][s].pc = "landed" =>
    \A r \in Present(d, dirty[d]) \cup tombstones[d] :
      zone[r].change > token[d] \/ zone[r].value = local[d][r]

(* A pull is since the token.                                              *)
PullSinceToken(d, s) ==
  sync[d][s].pc \in {"pull", "fetched"} => sync[d][s].since = token[d]

(* What a fetch brought is what the zone has, or has changed since.        *)
FetchIsComplete(d, s) ==
  sync[d][s].pc = "fetched" =>
    /\ sync[d][s].upto <= changes
    /\ \A r \in Records :
         \/ zone[r].change > sync[d][s].upto
         \/ r \in sync[d][s].records /\ sync[d][s].values[r] = zone[r].value
         \/ r \notin sync[d][s].records /\ zone[r].change <= sync[d][s].since

Underway ==
  \A d \in Devices : \A s \in Slots :
    PushCarries(d, s) /\ PushReached(d, s) /\ PullSinceToken(d, s) /\ FetchIsComplete(d, s)

(* NothingIsMissed, where a mark counts only if a push will carry it: one  *)
(* of a record that a pull has deleted does not.                           *)
Accounted(d, r) ==
  \/ local[d][r] = zone[r].value
  \/ r \in Present(d, dirty[d])
  \/ r \in tombstones[d]
  \/ zone[r].change > token[d]

AllAccounted ==
  \A d \in Devices : token[d] <= changes /\ \A r \in Records : Accounted(d, r)

IInv == TypeOK /\ AllCreated /\ DeletedIsGone /\ Underway /\ AllAccounted

(* One sync at a time, and the user does not edit while its push is under  *)
(* way.                                                                    *)
QuietPushes ==
  /\ \A s, u \in Slots : s = u
  /\ EditsWhile \cap {"push", "landed"} = {}

-------------------------------------------------------------------------------
(***************************************************************************)
(* AllCreated.                                                             *)
(***************************************************************************)

(* At first.                                                               *)
LEMMA InitCreated == Init => AllCreated
<1> SUFFICES ASSUME Init PROVE AllCreated
  OBVIOUS
<1>1. \A r \in Records : zone[r].value # Absent => r \in created
  BY DEF Init
<1>2. \A d \in Devices : \A r \in Records : local[d][r] # Absent => r \in created
  BY <1>1 DEF Init
<1>3. \A d \in Devices : \A s \in Slots : \A r \in Records : sync[d][s].values[r] = Absent
  BY PlainSyncs, NothingType DEF Init
<1>4. \A d \in Devices : tombstones[d] = {} /\ resolved[d] = {} /\ conflicts[d] = <<>>
  BY DEF Init
<1> QED
  BY <1>1, <1>2, <1>3, <1>4 DEF AllCreated

(* Saving a record that was created.                                       *)
LEMMA SaveCreated ==
  ASSUME TypeOK, AllCreated, NEW d \in Devices, NEW r \in Records, Save(d, r),
         r \in created', created \subseteq created', TypeOK'
  PROVE  AllCreated'
<1>1. \A e \in Devices : \A x \in Records : local'[e][x] # Absent => x \in created'
  BY DEF Save, AllCreated, TypeOK
<1>2. UNCHANGED <<zone, tombstones, sync, resolved, conflicts>>
  BY DEF Save, zoneVars
<1> QED
  BY <1>1, <1>2 DEF AllCreated

(* What the user does.                                                     *)
LEMMA UserCreated ==
  ASSUME TypeOK, AllCreated, NEW d \in Devices, User(d), TypeOK'
  PROVE  AllCreated'
<1>1. ASSUME NEW r \in Records, Add(d, r) \/ Edit(d, r)
      PROVE  AllCreated'
  <2>1. Save(d, r) /\ r \in created' /\ created \subseteq created'
    BY <1>1 DEF Add, Edit, AllCreated, Present
  <2> QED
    BY <2>1, SaveCreated
<1>2. ASSUME NEW r \in Records, Delete(d, r)
      PROVE  AllCreated'
  <2>1. \A e \in Devices : \A x \in Records : local'[e][x] # Absent => x \in created
    BY <1>2 DEF Delete, AllCreated, TypeOK
  <2>2. \A e \in Devices : tombstones'[e] \subseteq created
    BY <1>2 DEF Delete, AllCreated, TypeOK, Present
  <2>3. UNCHANGED <<zone, sync, resolved, conflicts, created>>
    BY <1>2 DEF Delete, zoneVars
  <2> QED
    BY <2>1, <2>2, <2>3 DEF AllCreated
<1>3. ASSUME NEW keepLocal \in BOOLEAN, ResolveConflict(d, keepLocal)
      PROVE  AllCreated'
  <2> DEFINE q == conflicts[d]
  <2>1. q \in Seq(ConflictRecords) /\ q # <<>> /\ \A i \in 1..Len(q) : q[i].record \in created
    BY <1>3 DEF ResolveConflict, AllCreated, TypeOK
  <2>2. conflicts' = [conflicts EXCEPT ![d] = Tail(q)] /\ conflicts \in [Devices -> Seq(ConflictRecords)]
    BY <1>3 DEF ResolveConflict, TypeOK
  <2>a. resolved' = [resolved EXCEPT ![d] = IF keepLocal THEN @ \cup {Head(q)} ELSE @]
    BY <1>3 DEF ResolveConflict
  <2> HIDE DEF q
  <2>3. /\ Head(q).record \in created
        /\ \A i \in 1..Len(Tail(q)) : Tail(q)[i].record \in created
    BY <2>1
  <2>4. \A e \in Devices : \A i \in 1..Len(conflicts'[e]) : conflicts'[e][i].record \in created
    BY <2>2, <2>3 DEF AllCreated
  <2>5. \A e \in Devices : \A x \in resolved'[e] : x.record \in created
    BY <2>a, <2>3 DEF AllCreated, TypeOK
  <2>6. UNCHANGED <<zone, local, tombstones, sync, created>>
    BY <1>3 DEF ResolveConflict, zoneVars, markVars
  <2> QED
    BY <2>4, <2>5, <2>6 DEF AllCreated
<1> QED
  BY <1>1, <1>2, <1>3 DEF User

(* Steps that only move a sync.                                            *)
LEMMA MovesCreated ==
  ASSUME TypeOK, AllCreated, TypeOK', NEW d \in Devices, NEW s \in Slots,
         NEW k \in SyncRecords, Goto(d, s, k),
         \A r \in Records : k.values[r] # Absent => r \in created,
         \A e \in Devices : tombstones'[e] \subseteq created,
         \A r \in Records : zone'[r].value # Absent => r \in created,
         UNCHANGED <<local, resolved, conflicts, created>>
  PROVE  AllCreated'
<1>1. \A e \in Devices : \A u \in Slots : \A r \in Records :
        sync'[e][u].values[r] # Absent => r \in created
  <2>1. \A e \in Devices : \A u \in Slots :
          sync'[e][u] = IF e = d /\ u = s THEN k ELSE sync[e][u]
    <3>1. sync \in [Devices -> [Slots -> SyncRecords]]
      BY DEF TypeOK
    <3> QED
      BY <3>1, GotoMoves
  <2> QED
    BY <2>1 DEF AllCreated
<1> QED
  BY <1>1 DEF AllCreated

(* Before a push and before a fetch a sync carries no values.              *)
LEMMA PlainKnown ==
  /\ NoSync \in SyncRecords /\ \A r \in Records : NoSync.values[r] = Absent
  /\ AtZone \in SyncRecords /\ \A r \in Records : AtZone.values[r] = Absent
  /\ AtPull(0) \in SyncRecords /\ \A r \in Records : AtPull(0).values[r] = Absent
BY PlainSyncs, NothingType

(* A sync that begins carries nothing yet.                                 *)
LEMMA BeginningCreated ==
  ASSUME TypeOK, AllCreated, TypeOK', NEW d \in Devices, NEW s \in Slots,
         Foreground(d, s) \/ TimerFires(d, s) \/ Restart(d, s) \/ ZoneFails(d, s)
  PROVE  AllCreated'
<1>1. CASE Foreground(d, s) \/ TimerFires(d, s)
  <2>1. Goto(d, s, AtZone) /\ UNCHANGED <<zone, tombstones, local, resolved, conflicts, created>>
    BY <1>1 DEF Foreground, TimerFires, SyncNow, zoneVars, markVars
  <2> QED
    BY <2>1, PlainKnown, MovesCreated DEF AllCreated
<1>2. CASE ZoneFails(d, s)
  <2>1. Goto(d, s, NoSync) /\ UNCHANGED <<zone, tombstones, local, resolved, conflicts, created>>
    BY <1>2 DEF ZoneFails, zoneVars, markVars
  <2> QED
    BY <2>1, PlainKnown, MovesCreated DEF AllCreated
<1>3. CASE Restart(d, s)
  <2>1. \A e \in Devices : \A u \in Slots : \A r \in Records :
          sync'[e][u].values[r] # Absent => r \in created
    BY <1>3, PlainSyncs, NothingType DEF Restart, AllCreated, TypeOK
  <2>2. \A e \in Devices : \A x \in resolved'[e] : x.record \in created
    BY <1>3 DEF Restart, AllCreated, TypeOK
  <2>3. \A e \in Devices : \A i \in 1..Len(conflicts'[e]) : conflicts'[e][i].record \in created
    BY <1>3 DEF Restart, AllCreated, TypeOK
  <2>4. UNCHANGED <<zone, local, tombstones, created>>
    BY <1>3 DEF Restart, zoneVars, markVars
  <2> QED
    BY <2>1, <2>2, <2>3, <2>4 DEF AllCreated
<1> QED
  BY <1>1, <1>2, <1>3

(* What lands was taken along.                                             *)
LEMMA LandedCreated ==
  ASSUME TypeOK, AllCreated, NEW d \in Devices, NEW s \in Slots, NEW S \in SUBSET Records,
         Landed(sync[d][s], S)
  PROVE  \A r \in Records : zone'[r].value # Absent => r \in created
<1>1. sync[d][s] \in SyncRecords
  BY DEF TypeOK
<1> QED
  BY <1>1, LandedChanges DEF AllCreated

(* The steps of a push.                                                    *)
LEMMA PushCreated ==
  ASSUME TypeOK, AllCreated, TypeOK', NEW d \in Devices, NEW s \in Slots,
         \/ BeginPush(d, s) \/ PushLands(d, s) \/ PushRetried(d, s) \/ PushFails(d, s)
         \/ PushDone(d, s)
  PROVE  AllCreated'
<1>0. AtPull(token[d]) \in SyncRecords /\ \A r \in Records : AtPull(token[d]).values[r] = Absent
  BY PlainSyncs, NothingType DEF TypeOK
<1>1. CASE BeginPush(d, s)
  <2>1. PICK k \in SyncRecords :
           /\ Goto(d, s, k)
           /\ \/ k = AtPull(token[d])
              \/ k.values = [r \in Records |-> IF r \in Present(d, dirty[d]) THEN local[d][r] ELSE Absent]
    BY <1>1, PayloadType
  <2>2. \A r \in Records : k.values[r] # Absent => r \in created
    BY <1>0, <2>1 DEF AllCreated
  <2>3. UNCHANGED <<zone, tombstones, local, resolved, conflicts, created>>
    BY <1>1 DEF BeginPush, zoneVars, markVars
  <2> QED
    BY <2>1, <2>2, <2>3, MovesCreated DEF AllCreated
<1>2. CASE PushLands(d, s) \/ PushRetried(d, s)
  <2>1. PICK p \in {"push", "landed"} : sync' = [sync EXCEPT ![d][s].pc = p]
    BY <1>2 DEF PushLands, PushRetried
  <2>2. \A e \in Devices : \A u \in Slots : sync'[e][u].values = sync[e][u].values
    BY <2>1, MoveMoves DEF TypeOK, Places, SyncRecords
  <2>3. \A r \in Records : zone'[r].value # Absent => r \in created
    BY <1>2, LandedCreated DEF PushLands, PushRetried, zoneVars, AllCreated
  <2>4. UNCHANGED <<tombstones, local, resolved, conflicts, created>>
    BY <1>2 DEF PushLands, PushRetried, markVars
  <2> QED
    BY <2>2, <2>3, <2>4 DEF AllCreated
<1>3. CASE PushFails(d, s)
  <2>1. \A r \in Records : zone'[r].value # Absent => r \in created
    BY <1>3, LandedCreated DEF PushFails
  <2>2. Goto(d, s, AtPull(token[d])) /\ UNCHANGED <<tombstones, local, resolved, conflicts, created>>
    BY <1>3 DEF PushFails, markVars
  <2>3. \A e \in Devices : tombstones'[e] \subseteq created
    BY <2>2 DEF AllCreated
  <2> QED
    BY <1>0, <2>1, <2>2, <2>3, MovesCreated
<1>4. CASE PushDone(d, s)
  <2>1. \A e \in Devices : tombstones'[e] \subseteq created
    BY <1>4 DEF PushDone, AllCreated, TypeOK
  <2>2. Goto(d, s, AtPull(token[d])) /\ UNCHANGED <<zone, local, resolved, conflicts, created>>
    BY <1>4 DEF PushDone, zoneVars
  <2> QED
    BY <1>0, <2>1, <2>2, MovesCreated DEF AllCreated
<1> QED
  BY <1>1, <1>2, <1>3, <1>4

(* The steps of a pull.                                                    *)
LEMMA PullCreated ==
  ASSUME TypeOK, AllCreated, TypeOK', NEW d \in Devices, NEW s \in Slots,
         Fetch(d, s) \/ TokenExpires(d, s) \/ PullFails(d, s) \/ ApplyPull(d, s)
  PROVE  AllCreated'
<1>1. CASE Fetch(d, s)
  <2>1. PICK k \in SyncRecords :
           /\ Goto(d, s, k)
           /\ k.values = [r \in Records |-> IF r \in k.records THEN zone[r].value ELSE Absent]
    BY <1>1, FetchType
  <2>2. \A r \in Records : k.values[r] # Absent => r \in created
    BY <2>1 DEF AllCreated
  <2>3. UNCHANGED <<zone, tombstones, local, resolved, conflicts, created>>
    BY <1>1 DEF Fetch, zoneVars, markVars
  <2> QED
    BY <2>1, <2>2, <2>3, MovesCreated DEF AllCreated
<1>2. CASE TokenExpires(d, s)
  <2>1. Goto(d, s, AtPull(0)) /\ UNCHANGED <<zone, tombstones, local, resolved, conflicts, created>>
    BY <1>2 DEF TokenExpires, zoneVars, markVars
  <2> QED
    BY <2>1, PlainKnown, MovesCreated DEF AllCreated
<1>3. CASE PullFails(d, s)
  <2>1. Goto(d, s, NoSync) /\ UNCHANGED <<zone, tombstones, local, resolved, conflicts, created>>
    BY <1>3 DEF PullFails, zoneVars, markVars
  <2> QED
    BY <2>1, PlainKnown, MovesCreated DEF AllCreated
<1>4. CASE ApplyPull(d, s)
  <2> DEFINE k == sync[d][s]
  <2>1. k \in SyncRecords
    BY DEF TypeOK
  <2>2. \A e \in Devices : \A r \in Records : local'[e][r] # Absent => r \in created
    BY <1>4 DEF ApplyPull, AllCreated, TypeOK
  <2>3. \A e \in Devices : \A u \in Slots : \A r \in Records :
          sync'[e][u].values[r] # Absent => r \in created
    <3>1. \A e \in Devices : \A u \in Slots :
            sync'[e][u] = IF e = d /\ u = s THEN NoSync ELSE sync[e][u]
      <4>1. sync \in [Devices -> [Slots -> SyncRecords]]
        BY DEF TypeOK
      <4>2. Goto(d, s, NoSync)
        BY <1>4 DEF ApplyPull
      <4> QED
        BY <4>1, <4>2, PlainKnown, GotoMoves
    <3> QED
      BY <3>1, PlainKnown DEF AllCreated
  <2>4. PICK q \in SetToSeqs(ConflictsOf(d, k)) : conflicts' = [conflicts EXCEPT ![d] = @ \o q]
    BY <1>4 DEF ApplyPull
  <2>5. \A x \in ConflictsOf(d, k) : x.record \in created
    BY DEF ConflictsOf, Conflicting, Present, AllCreated, Records
  <2>6. q \in Seq(ConflictsOf(d, k)) /\ ConflictsOf(d, k) \in SUBSET ConflictRecords
    BY <2>1, <2>4, ConflictsType, OrdersAreSequences
  <2>7. q \in Seq(ConflictRecords) /\ \A i \in 1..Len(q) : q[i].record \in created
    BY <2>5, <2>6
  <2>8. \A e \in Devices : \A i \in 1..Len(conflicts'[e]) : conflicts'[e][i].record \in created
    <3> DEFINE p == conflicts[d]
    <3>1. p \in Seq(ConflictRecords) /\ \A i \in 1..Len(p) : p[i].record \in created
      BY DEF AllCreated, TypeOK
    <3>2. conflicts' = [conflicts EXCEPT ![d] = p \o q]
      BY <2>4
    <3> HIDE DEF p
    <3>3. \A i \in 1..Len(p \o q) : (p \o q)[i].record \in created
      BY <2>7, <3>1
    <3> QED
      BY <3>2, <3>3 DEF AllCreated, TypeOK
  <2>9. UNCHANGED <<zone, tombstones, resolved, created>>
    BY <1>4 DEF ApplyPull, zoneVars
  <2> QED
    BY <2>2, <2>3, <2>8, <2>9 DEF AllCreated
<1> QED
  BY <1>1, <1>2, <1>3, <1>4

(* Resolved conflicts on their way.                                        *)
LEMMA ResolvedCreated ==
  ASSUME TypeOK, AllCreated, TypeOK', NEW d \in Devices, NEW e \in resolved[d],
         ResolvedLands(d, e) \/ ResolvedFails(d, e)
  PROVE  AllCreated'
<1>1. e.record \in created /\ e.record \in Records
  BY DEF AllCreated, TypeOK
<1>2. \A x \in Devices : \A y \in resolved'[x] : y.record \in created
  <2>1. resolved' = [resolved EXCEPT ![d] = @ \ {e}]
    BY DEF ResolvedLands, ResolvedFails
  <2> QED
    BY <2>1 DEF AllCreated, TypeOK
<1>3. \A r \in Records : zone'[r].value # Absent => r \in created
  BY <1>1 DEF ResolvedLands, ResolvedFails, AllCreated, TypeOK, zoneVars
<1>4. UNCHANGED <<local, tombstones, sync, conflicts, created>>
  BY DEF ResolvedLands, ResolvedFails, markVars
<1> QED
  BY <1>2, <1>3, <1>4 DEF AllCreated

(* Every step.                                                             *)
LEMMA NextCreated == TypeOK /\ AllCreated /\ TypeOK' /\ [Next]_vars => AllCreated'
<1>1. ASSUME TypeOK, AllCreated, UNCHANGED vars PROVE AllCreated'
  BY <1>1 DEF vars, AllCreated
<1> QED
  BY <1>1, UserCreated, BeginningCreated, PushCreated, PullCreated, ResolvedCreated
  DEF Next, Goes, GoesWrong

-------------------------------------------------------------------------------
(***************************************************************************)
(* DeletedIsGone.                                                          *)
(***************************************************************************)
LEMMA InitGone == Init => DeletedIsGone
BY DEF Init, DeletedIsGone

(* What the user deletes is gone, and what is added was not deleted.       *)
LEMMA UserGone ==
  ASSUME TypeOK, AllCreated, DeletedIsGone, NEW d \in Devices, User(d)
  PROVE  DeletedIsGone'
<1>1. ASSUME NEW r \in Records, Add(d, r) \/ Edit(d, r)
      PROVE  DeletedIsGone'
  <2>1. r \notin tombstones[d]
    BY <1>1 DEF Add, Edit, AllCreated, DeletedIsGone, Present
  <2>2. local' = [local EXCEPT ![d][r] = edits + 1] /\ UNCHANGED tombstones
    BY <1>1 DEF Add, Edit, Save
  <2>3. local \in [Devices -> [Records -> Versions]]
    BY DEF TypeOK
  <2> QED
    BY <2>1, <2>2, <2>3 DEF DeletedIsGone
<1>2. ASSUME NEW r \in Records, Delete(d, r)
      PROVE  DeletedIsGone'
  BY <1>2 DEF Delete, DeletedIsGone, TypeOK
<1>3. ASSUME NEW keepLocal \in BOOLEAN, ResolveConflict(d, keepLocal)
      PROVE  DeletedIsGone'
  BY <1>3 DEF ResolveConflict, DeletedIsGone, markVars
<1> QED
  BY <1>1, <1>2, <1>3 DEF User

(* Every step: a pull brings nothing back that is deleted here.            *)
LEMMA NextGone == TypeOK /\ AllCreated /\ DeletedIsGone /\ [Next]_vars => DeletedIsGone'
<1>1. ASSUME DeletedIsGone, UNCHANGED <<local, tombstones>> PROVE DeletedIsGone'
  BY <1>1 DEF DeletedIsGone
<1>2. ASSUME TypeOK, DeletedIsGone, NEW d \in Devices, NEW s \in Slots, PushDone(d, s)
      PROVE  DeletedIsGone'
  BY <1>2 DEF PushDone, DeletedIsGone, TypeOK
<1>3. ASSUME TypeOK, DeletedIsGone, NEW d \in Devices, NEW s \in Slots, ApplyPull(d, s)
      PROVE  DeletedIsGone'
  <2> DEFINE k == sync[d][s]
  <2>1. \A r \in Applied(d, k) : r \in tombstones[d] => k.values[r] = Absent
    BY DEF Applied
  <2>2. /\ local' = [local EXCEPT ![d] = [r \in Records |->
                                            IF r \in Applied(d, k) THEN k.values[r] ELSE @[r]]]
        /\ UNCHANGED tombstones
    BY <1>3 DEF ApplyPull
  <2> HIDE DEF k
  <2> QED
    BY <1>3, <2>1, <2>2 DEF DeletedIsGone, TypeOK
<1>4. ASSUME NEW d \in Devices, NEW s \in Slots,
             Goes(d, s) \/ GoesWrong(d, s) \/ Foreground(d, s) \/ TimerFires(d, s) \/ Restart(d, s)
      PROVE  UNCHANGED <<local, tombstones>> \/ PushDone(d, s) \/ ApplyPull(d, s)
  BY <1>4 DEF Goes, GoesWrong, Foreground, TimerFires, Restart, BeginPush, PushLands, Fetch,
              ZoneFails, PushRetried, PushFails, TokenExpires, PullFails, markVars
<1>5. ASSUME NEW d \in Devices, NEW e \in resolved[d], ResolvedLands(d, e) \/ ResolvedFails(d, e)
      PROVE  UNCHANGED <<local, tombstones>>
  BY <1>5 DEF ResolvedLands, ResolvedFails, markVars
<1>6. UNCHANGED vars => UNCHANGED <<local, tombstones>>
  BY DEF vars
<1> QED
  BY <1>1, <1>2, <1>3, <1>4, <1>5, <1>6, UserGone DEF Next

-------------------------------------------------------------------------------
(***************************************************************************)
(* Underway.                                                               *)
(***************************************************************************)
(* The zone only moves on.                                                 *)
ZoneMovesOn ==
  /\ changes \in Nat /\ changes' \in Nat /\ changes <= changes'
  /\ \A r \in Records : zone'[r] = zone[r] \/ zone'[r].change = changes + 1

(* The step is none of device e's.                                         *)
Apart(e) ==
  UNCHANGED <<local[e], dirty[e], tombstones[e], token[e], sync[e]>>

SlotInv(d, s) == PushCarries(d, s) /\ PushReached(d, s) /\ PullSinceToken(d, s) /\ FetchIsComplete(d, s)

(* A device that is left alone keeps what is said of its syncs, whatever   *)
(* the zone does.                                                          *)
LEMMA ApartKeeps ==
  ASSUME TypeOK, NEW e \in Devices, NEW u \in Slots, SlotInv(e, u), token[e] <= changes,
         Apart(e), ZoneMovesOn
  PROVE  SlotInv(e, u)'
<1> DEFINE k == sync[e][u]
<1>1. k \in SyncRecords /\ token[e] \in Nat /\ k.upto \in Nat
  BY DEF TypeOK, SyncRecords
<1>2. sync'[e][u] = k /\ token'[e] = token[e]
  BY DEF Apart
<1>3. Present(e, dirty[e])' = Present(e, dirty[e])
  BY DEF Apart, Present
<1>4. PushCarries(e, u)'
  BY <1>2, <1>3 DEF PushCarries, SlotInv, Apart
<1>5. PullSinceToken(e, u)'
  BY <1>2 DEF PullSinceToken, SlotInv
<1>6. PushReached(e, u)'
  <2> SUFFICES ASSUME k.pc = "landed",
                      NEW r \in Present(e, dirty[e]) \cup tombstones[e]
               PROVE  zone'[r].change > token[e] \/ zone'[r].value = local[e][r]
    BY <1>2, <1>3 DEF PushReached, Apart
  <2>1. r \in Records
    BY DEF Present, TypeOK
  <2>2. zone[r].change > token[e] \/ zone[r].value = local[e][r]
    BY DEF SlotInv, PushReached
  <2>3. zone'[r] = zone[r] \/ zone'[r].change = changes + 1
    BY <2>1 DEF ZoneMovesOn
  <2> QED
    BY <1>1, <2>2, <2>3 DEF ZoneMovesOn
<1>7. FetchIsComplete(e, u)'
  <2> SUFFICES ASSUME k.pc = "fetched"
               PROVE  /\ k.upto <= changes'
                      /\ \A r \in Records :
                           \/ zone'[r].change > k.upto
                           \/ r \in k.records /\ k.values[r] = zone'[r].value
                           \/ r \notin k.records /\ zone'[r].change <= k.since
    BY <1>2 DEF FetchIsComplete
  <2>1. /\ k.upto <= changes
        /\ \A r \in Records :
             \/ zone[r].change > k.upto
             \/ r \in k.records /\ k.values[r] = zone[r].value
             \/ r \notin k.records /\ zone[r].change <= k.since
    BY DEF SlotInv, FetchIsComplete
  <2> HIDE DEF k
  <2>2. k.upto <= changes'
    BY <1>1, <2>1 DEF ZoneMovesOn
  <2>3. ASSUME NEW r \in Records
        PROVE  \/ zone'[r].change > k.upto
               \/ r \in k.records /\ k.values[r] = zone'[r].value
               \/ r \notin k.records /\ zone'[r].change <= k.since
    <3>1. CASE zone'[r] = zone[r]
      BY <2>1, <3>1
    <3>2. CASE zone'[r].change = changes + 1
      BY <1>1, <2>1, <3>2 DEF ZoneMovesOn
    <3> QED
      BY <3>1, <3>2 DEF ZoneMovesOn
  <2> QED
    BY <2>2, <2>3
<1> QED
  BY <1>4, <1>5, <1>6, <1>7 DEF SlotInv

(* A sync at the start, or none, promises nothing yet.                     *)
LEMMA IdleSlot ==
  ASSUME NEW d \in Devices, NEW s \in Slots, sync[d][s].pc \in {"none", "zone"}
  PROVE  SlotInv(d, s)
BY DEF SlotInv, PushCarries, PushReached, PullSinceToken, FetchIsComplete

LEMMA IdleSlotNext ==
  ASSUME NEW d \in Devices, NEW s \in Slots, sync'[d][s].pc \in {"none", "zone"}
  PROVE  SlotInv(d, s)'
BY DEF SlotInv, PushCarries, PushReached, PullSinceToken, FetchIsComplete

(* A sync at the pull promises that it is since the token.                 *)
LEMMA PullingSlotNext ==
  ASSUME NEW d \in Devices, NEW s \in Slots, sync'[d][s].pc = "pull", sync'[d][s].since = token'[d]
  PROVE  SlotInv(d, s)'
BY DEF SlotInv, PushCarries, PushReached, PullSinceToken, FetchIsComplete

(* No sync is under way at first.                                          *)
LEMMA InitUnderway == Init => Underway
<1> SUFFICES ASSUME Init, NEW d \in Devices, NEW s \in Slots
             PROVE  SlotInv(d, s)
  BY DEF Underway, SlotInv
<1>1. sync[d][s].pc = "none"
  BY PlainSyncs DEF Init
<1> QED
  BY <1>1, IdleSlot

(* With one slot, Goto says what all of them are.                          *)
LEMMA GotoAll ==
  ASSUME TypeOK, QuietPushes, NEW d \in Devices, NEW s \in Slots, NEW k \in SyncRecords, Goto(d, s, k)
  PROVE  /\ \A u \in Slots : sync'[d][u] = k
         /\ \A e \in Devices \ {d} : sync'[e] = sync[e]
<1>1. sync \in [Devices -> [Slots -> SyncRecords]]
  BY DEF TypeOK
<1>2. sync'[d][s] = k
  BY <1>1, GotoMoves
<1>3. \A e \in Devices \ {d} : sync'[e] = sync[e]
  BY <1>1 DEF Goto
<1> QED
  BY <1>2, <1>3 DEF QuietPushes

(* Steps of device d leave the others apart.                               *)
LEMMA UserApart ==
  ASSUME TypeOK, NEW d \in Devices, User(d)
  PROVE  ZoneMovesOn /\ \A e \in Devices \ {d} : Apart(e)
<1>1. ASSUME NEW r \in Records, Add(d, r) \/ Edit(d, r) \/ Delete(d, r)
      PROVE  /\ UNCHANGED <<zone, changes, token, sync>>
             /\ \A e \in Devices \ {d} : UNCHANGED <<local[e], dirty[e], tombstones[e]>>
  BY <1>1 DEF Add, Edit, Delete, Save, zoneVars, TypeOK
<1>2. ASSUME NEW keepLocal \in BOOLEAN, ResolveConflict(d, keepLocal)
      PROVE  UNCHANGED <<zone, changes, token, sync, local, dirty, tombstones>>
  BY <1>2 DEF ResolveConflict, zoneVars, markVars
<1> QED
  BY <1>1, <1>2 DEF User, ZoneMovesOn, Apart, TypeOK

(* While the user edits, nothing of a push is under way.                   *)
LEMMA UserSlots ==
  ASSUME TypeOK, QuietPushes, Underway, AllAccounted, NEW d \in Devices, User(d), NEW s \in Slots
  PROVE  SlotInv(d, s)'
<1>1. SlotInv(d, s) /\ token[d] <= changes
  BY DEF Underway, SlotInv, AllAccounted
<1>2. ASSUME NEW r \in Records, Add(d, r) \/ Edit(d, r) \/ Delete(d, r)
      PROVE  SlotInv(d, s)'
  <2>1. MayEdit(d) /\ UNCHANGED <<zone, changes, token, sync>>
    BY <1>2 DEF Add, Edit, Delete, Save, zoneVars
  <2>2. sync[d][s].pc \notin {"push", "landed"}
    BY <2>1 DEF MayEdit, QuietPushes
  <2>3. PushCarries(d, s)' /\ PushReached(d, s)'
    BY <2>1, <2>2 DEF PushCarries, PushReached
  <2>4. PullSinceToken(d, s)' /\ FetchIsComplete(d, s)'
    BY <1>1, <2>1 DEF SlotInv, PullSinceToken, FetchIsComplete
  <2> QED
    BY <2>3, <2>4 DEF SlotInv
<1>3. ASSUME NEW keepLocal \in BOOLEAN, ResolveConflict(d, keepLocal)
      PROVE  SlotInv(d, s)'
  <2>1. UNCHANGED <<zone, changes, token, sync, local, dirty, tombstones>>
    BY <1>3 DEF ResolveConflict, zoneVars, markVars
  <2>2. Apart(d) /\ ZoneMovesOn
    BY <2>1 DEF Apart, ZoneMovesOn, TypeOK
  <2> QED
    BY <1>1, <2>2, ApartKeeps
<1> QED
  BY <1>2, <1>3 DEF User

(* The steps that begin or end a sync, or set out to pull.                 *)
LEMMA EasySlots ==
  ASSUME TypeOK, QuietPushes, NEW d \in Devices, NEW s \in Slots, NEW u \in Slots,
         \/ Foreground(d, s) \/ TimerFires(d, s) \/ Restart(d, s) \/ ZoneFails(d, s)
         \/ PushFails(d, s) \/ PushDone(d, s) \/ TokenExpires(d, s) \/ PullFails(d, s)
         \/ ApplyPull(d, s)
  PROVE  /\ SlotInv(d, u)'
         /\ ZoneMovesOn
         /\ \A e \in Devices \ {d} : Apart(e)
<1>0. token[d] \in Nat /\ 0 \in Nat /\ sync[d][s] \in SyncRecords
  BY DEF TypeOK
<1>1. CASE Foreground(d, s) \/ TimerFires(d, s)
  <2>1. Goto(d, s, AtZone) /\ UNCHANGED <<zone, changes, token, local, dirty, tombstones>>
    BY <1>1 DEF Foreground, TimerFires, SyncNow, zoneVars, markVars
  <2>2. sync'[d][u] = AtZone /\ \A e \in Devices \ {d} : sync'[e] = sync[e]
    BY <2>1, GotoAll, PlainSyncs
  <2> QED
    BY <2>1, <2>2, PlainSyncs, IdleSlotNext DEF Apart, ZoneMovesOn, TypeOK
<1>2. CASE Restart(d, s)
  <2>1. UNCHANGED <<zone, changes, local, dirty, tombstones>> /\ \A e \in Devices \ {d} : token'[e] = token[e]
    BY <1>2 DEF Restart, zoneVars, markVars, TypeOK
  <2>2. /\ sync'[d] = [w \in Slots |-> IF w = s THEN AtZone ELSE NoSync]
        /\ \A e \in Devices \ {d} : sync'[e] = sync[e]
    BY <1>2 DEF Restart, TypeOK
  <2>3. sync'[d][u].pc \in {"none", "zone"}
    BY <2>2, PlainSyncs
  <2>4. SlotInv(d, u)'
    BY <2>3, IdleSlotNext
  <2> QED
    BY <2>1, <2>2, <2>4 DEF Apart, ZoneMovesOn, TypeOK
<1>3. CASE ZoneFails(d, s) \/ PullFails(d, s)
  <2>1. Goto(d, s, NoSync) /\ UNCHANGED <<zone, changes, token, local, dirty, tombstones>>
    BY <1>3 DEF ZoneFails, PullFails, zoneVars, markVars
  <2>2. sync'[d][u] = NoSync /\ \A e \in Devices \ {d} : sync'[e] = sync[e]
    BY <2>1, GotoAll, PlainSyncs
  <2> QED
    BY <2>1, <2>2, PlainSyncs, IdleSlotNext DEF Apart, ZoneMovesOn, TypeOK
<1>4. CASE PushFails(d, s)
  <2>1. Goto(d, s, AtPull(token[d])) /\ UNCHANGED <<token, local, dirty, tombstones>>
    BY <1>4 DEF PushFails, markVars
  <2>2. sync'[d][u] = AtPull(token[d]) /\ \A e \in Devices \ {d} : sync'[e] = sync[e]
    BY <1>0, <2>1, GotoAll, PlainSyncs
  <2>3. PICK S \in SUBSET Records : Landed(sync[d][s], S)
    BY <1>4 DEF PushFails
  <2>4. ZoneMovesOn
    <3>1. changes' = changes + 1 /\ \A r \in Records : zone'[r] = zone[r] \/ zone'[r].change = changes + 1
      BY <1>0, <2>3, LandedChanges
    <3> QED
      BY <3>1 DEF ZoneMovesOn, TypeOK
  <2> QED
    BY <1>0, <2>1, <2>2, <2>4, PlainSyncs, PullingSlotNext DEF Apart
<1>5. CASE PushDone(d, s)
  <2>1. Goto(d, s, AtPull(token[d])) /\ UNCHANGED <<zone, changes, token, local>>
    BY <1>5 DEF PushDone, zoneVars
  <2>2. sync'[d][u] = AtPull(token[d]) /\ \A e \in Devices \ {d} : sync'[e] = sync[e]
    BY <1>0, <2>1, GotoAll, PlainSyncs
  <2>3. \A e \in Devices \ {d} : dirty'[e] = dirty[e] /\ tombstones'[e] = tombstones[e]
    BY <1>5 DEF PushDone, TypeOK
  <2>4. sync'[d][u].pc = "pull" /\ sync'[d][u].since = token'[d]
    BY <1>0, <2>1, <2>2, <2>3, PlainSyncs
  <2>5. SlotInv(d, u)'
    BY <2>4, PullingSlotNext
  <2> QED
    BY <2>1, <2>2, <2>3, <2>5 DEF Apart, ZoneMovesOn, TypeOK
<1>6. CASE TokenExpires(d, s)
  <2>1. Goto(d, s, AtPull(0)) /\ UNCHANGED <<zone, changes, local, dirty, tombstones>>
    BY <1>6 DEF TokenExpires, zoneVars, markVars
  <2>2. sync'[d][u] = AtPull(0) /\ \A e \in Devices \ {d} : sync'[e] = sync[e]
    BY <1>0, <2>1, GotoAll, PlainSyncs
  <2>3. token'[d] = 0 /\ \A e \in Devices \ {d} : token'[e] = token[e]
    BY <1>6 DEF TokenExpires, TypeOK
  <2>4. sync'[d][u].pc = "pull" /\ sync'[d][u].since = token'[d]
    BY <1>0, <2>1, <2>2, <2>3, PlainSyncs
  <2>5. SlotInv(d, u)'
    BY <2>4, PullingSlotNext
  <2> QED
    BY <2>1, <2>2, <2>3, <2>5 DEF Apart, ZoneMovesOn, TypeOK
<1>7. CASE ApplyPull(d, s)
  <2>1. Goto(d, s, NoSync) /\ UNCHANGED <<zone, changes, dirty, tombstones>>
    BY <1>7 DEF ApplyPull, zoneVars
  <2>2. sync'[d][u] = NoSync /\ \A e \in Devices \ {d} : sync'[e] = sync[e]
    BY <2>1, GotoAll, PlainSyncs
  <2>3. \A e \in Devices \ {d} : token'[e] = token[e] /\ local'[e] = local[e]
    BY <1>7 DEF ApplyPull, TypeOK
  <2> QED
    BY <2>1, <2>2, <2>3, PlainSyncs, IdleSlotNext DEF Apart, ZoneMovesOn, TypeOK
<1> QED
  BY <1>1, <1>2, <1>3, <1>4, <1>5, <1>6, <1>7

(* The push sets out with what is marked.                                  *)
LEMMA BeginPushSlots ==
  ASSUME TypeOK, QuietPushes, NEW d \in Devices, NEW s \in Slots, NEW u \in Slots, BeginPush(d, s)
  PROVE  /\ SlotInv(d, u)'
         /\ ZoneMovesOn
         /\ \A e \in Devices \ {d} : Apart(e)
<1>1. UNCHANGED <<zone, changes, token, local, dirty, tombstones>>
  BY DEF BeginPush, zoneVars, markVars
<1>2. PICK k \in SyncRecords :
        /\ Goto(d, s, k)
        /\ \/ k = AtPull(token[d])
           \/ /\ k.pc = "push"
              /\ k.records = Present(d, dirty[d])
              /\ k.values = [r \in Records |-> IF r \in Present(d, dirty[d]) THEN local[d][r] ELSE Absent]
              /\ k.deletions = tombstones[d]
  BY PayloadType
<1>3. sync'[d][u] = k /\ \A e \in Devices \ {d} : sync'[e] = sync[e]
  BY <1>2, GotoAll
<1>4. SlotInv(d, u)'
  <2>1. CASE k = AtPull(token[d])
    <3>1. token[d] \in Nat
      BY DEF TypeOK
    <3> QED
      BY <1>1, <1>3, <2>1, <3>1, PlainSyncs, PullingSlotNext
  <2>2. CASE /\ k.pc = "push"
             /\ k.records = Present(d, dirty[d])
             /\ k.values = [r \in Records |-> IF r \in Present(d, dirty[d]) THEN local[d][r] ELSE Absent]
             /\ k.deletions = tombstones[d]
    <3>1. Present(d, dirty[d])' = Present(d, dirty[d])
      BY <1>1 DEF Present
    <3>2. Present(d, dirty[d]) \subseteq Records
      BY DEF Present, TypeOK
    <3>3. PushCarries(d, u)'
      BY <1>1, <1>3, <2>2, <3>1, <3>2 DEF PushCarries
    <3>4. PushReached(d, u)' /\ PullSinceToken(d, u)' /\ FetchIsComplete(d, u)'
      BY <1>3, <2>2 DEF PushReached, PullSinceToken, FetchIsComplete
    <3> QED
      BY <3>3, <3>4 DEF SlotInv
  <2> QED
    BY <1>2, <2>1, <2>2
<1> QED
  BY <1>1, <1>3, <1>4 DEF Apart, ZoneMovesOn, TypeOK

(* The push lands, or is sent again.                                       *)
LEMMA LandingSlots ==
  ASSUME TypeOK, QuietPushes, DeletedIsGone, Underway, AllAccounted,
         NEW d \in Devices, NEW s \in Slots, NEW u \in Slots, PushLands(d, s) \/ PushRetried(d, s)
  PROVE  /\ SlotInv(d, u)'
         /\ ZoneMovesOn
         /\ \A e \in Devices \ {d} : Apart(e)
<1> DEFINE k == sync[d][s]
<1>0. k \in SyncRecords /\ u = s /\ token[d] \in Nat /\ token[d] <= changes /\ changes \in Nat
  BY DEF TypeOK, QuietPushes, AllAccounted
<1>1. UNCHANGED <<token, local, dirty, tombstones>>
  BY DEF PushLands, PushRetried, markVars
<1>2. PICK p \in {"push", "landed"} : sync' = [sync EXCEPT ![d][s].pc = p]
  BY DEF PushLands, PushRetried
<1>3. sync'[d][u] = [k EXCEPT !.pc = p] /\ \A e \in Devices \ {d} : sync'[e] = sync[e]
  <2>1. sync \in [Devices -> [Slots -> SyncRecords]]
    BY DEF TypeOK
  <2>2. p \in Places
    BY DEF Places
  <2>3. sync'[d][s] = [k EXCEPT !.pc = p]
    BY <1>2, <2>1, <2>2, MoveMoves
  <2>4. \A e \in Devices \ {d} : sync'[e] = sync[e]
    BY <1>2, <2>1
  <2> QED
    BY <1>0, <2>3, <2>4
<1>4. PushCarries(d, s) /\ k.pc \in {"push", "landed"}
  BY DEF Underway, PushLands, PushRetried, At
<1>5. /\ sync'[d][u].pc = p /\ p \in {"push", "landed"}
      /\ sync'[d][u].records = k.records /\ sync'[d][u].values = k.values
      /\ sync'[d][u].deletions = k.deletions
  BY <1>0, <1>3 DEF SyncRecords
<1>6. Present(d, dirty[d])' = Present(d, dirty[d])
  BY <1>1 DEF Present
<1>7. PushCarries(d, u)'
  BY <1>0, <1>1, <1>4, <1>5, <1>6 DEF PushCarries
<1>8. PullSinceToken(d, u)' /\ FetchIsComplete(d, u)'
  BY <1>5 DEF PullSinceToken, FetchIsComplete
<1>9. CASE PushRetried(d, s)
  <2>1. UNCHANGED <<zone, changes>>
    BY <1>9 DEF PushRetried, zoneVars
  <2>2. sync'[d][u].pc = "push"
    <3>1. Goto(d, s, [k EXCEPT !.pc = "push"])
      BY <1>9 DEF PushRetried, Goto, TypeOK
    <3>2. [k EXCEPT !.pc = "push"] \in SyncRecords /\ [k EXCEPT !.pc = "push"].pc = "push"
      BY <1>0 DEF SyncRecords, Places
    <3>3. sync'[d][u] = [k EXCEPT !.pc = "push"]
      BY <3>1, <3>2, GotoAll
    <3> QED
      BY <3>2, <3>3
  <2>3. PushReached(d, u)'
    BY <2>2 DEF PushReached
  <2> QED
    BY <1>1, <1>3, <1>7, <1>8, <2>1, <2>3 DEF SlotInv, ZoneMovesOn, Apart, TypeOK
<1>10. CASE PushLands(d, s)
  <2>1. Landed(k, Records)
    BY <1>10 DEF PushLands
  <2>2. /\ changes' = changes + 1
        /\ \A r \in Records : zone'[r] = zone[r] \/ zone'[r].change = changes + 1
        /\ \A r \in Records : r \in k.records \cup k.deletions =>
             zone'[r].change = changes + 1 \/ zone'[r].value = Absent
    BY <1>0, <2>1, LandedChanges
  <2>3. \A r \in k.records : zone'[r].change = changes + 1
    BY <1>0, <2>1 DEF Landed, SyncRecords
  <2>4. k.records = Present(d, dirty[d]) /\ k.deletions = tombstones[d]
    BY <1>4 DEF PushCarries
  <2> HIDE DEF k
  <2>5. ASSUME NEW r \in Present(d, dirty[d]) \cup tombstones[d]
        PROVE  zone'[r].change > token[d] \/ zone'[r].value = local[d][r]
    <3>1. r \in Records
      BY DEF Present, TypeOK
    <3>2. CASE zone'[r].change = changes + 1
      BY <1>0, <3>2
    <3>3. CASE zone'[r].change # changes + 1
      <4>1. r \in tombstones[d] /\ zone'[r].value = Absent
        BY <2>2, <2>3, <2>4, <3>1, <3>3
      <4> QED
        BY <3>1, <4>1 DEF DeletedIsGone
    <3> QED
      BY <3>2, <3>3
  <2>6. PushReached(d, u)'
    BY <1>1, <1>6, <2>5 DEF PushReached
  <2>7. ZoneMovesOn
    BY <1>0, <2>2 DEF ZoneMovesOn
  <2> QED
    BY <1>1, <1>3, <1>7, <1>8, <2>6, <2>7 DEF SlotInv, Apart
<1> QED
  BY <1>9, <1>10

(* The fetch brings what the zone has changed.                             *)
LEMMA FetchSlots ==
  ASSUME TypeOK, QuietPushes, Underway,
         NEW d \in Devices, NEW s \in Slots, NEW u \in Slots, Fetch(d, s)
  PROVE  /\ SlotInv(d, u)'
         /\ ZoneMovesOn
         /\ \A e \in Devices \ {d} : Apart(e)
<1>1. UNCHANGED <<zone, changes, token, local, dirty, tombstones>>
  BY DEF Fetch, zoneVars, markVars
<1>2. PICK k \in SyncRecords :
           /\ Goto(d, s, k)
           /\ k.pc = "fetched"
           /\ k.records = {r \in Records : zone[r].change > sync[d][s].since}
           /\ k.values = [r \in Records |-> IF r \in k.records THEN zone[r].value ELSE Absent]
           /\ k.since = sync[d][s].since
           /\ k.upto = changes
  BY FetchType
<1>3. sync'[d][u] = k /\ \A e \in Devices \ {d} : sync'[e] = sync[e]
  BY <1>2, GotoAll
<1>4. sync[d][s].since = token[d]
  BY DEF Underway, PullSinceToken, Fetch, At
<1>5. PushCarries(d, u)' /\ PushReached(d, u)' /\ PullSinceToken(d, u)'
  BY <1>1, <1>2, <1>3, <1>4 DEF PushCarries, PushReached, PullSinceToken
<1>6. k.upto <= changes /\ changes \in Nat
  BY <1>2 DEF TypeOK
<1>7. ASSUME NEW r \in Records
      PROVE  \/ r \in k.records /\ k.values[r] = zone[r].value
             \/ r \notin k.records /\ zone[r].change <= k.since
  <2>1. zone[r].change \in Nat /\ k.since \in Nat
    BY DEF TypeOK, SyncRecords
  <2> QED
    BY <1>2, <2>1
<1>8. FetchIsComplete(d, u)'
  BY <1>1, <1>3, <1>6, <1>7 DEF FetchIsComplete
<1> QED
  BY <1>1, <1>3, <1>5, <1>6, <1>8 DEF SlotInv, ZoneMovesOn, Apart

(* A resolved conflict that lands or fails leaves every device alone.      *)
LEMMA ResolvedApart ==
  ASSUME TypeOK, NEW d \in Devices, NEW e \in resolved[d], ResolvedLands(d, e) \/ ResolvedFails(d, e)
  PROVE  ZoneMovesOn /\ \A x \in Devices : Apart(x)
<1>1. UNCHANGED <<token, sync, local, dirty, tombstones>>
  BY DEF ResolvedLands, ResolvedFails, markVars
<1>2. ZoneMovesOn
  <2>1. CASE ResolvedLands(d, e)
    BY <2>1 DEF ResolvedLands, ZoneMovesOn, TypeOK
  <2>2. CASE ResolvedFails(d, e)
    BY <2>2 DEF ResolvedFails, zoneVars, ZoneMovesOn, TypeOK
  <2> QED
    BY <2>1, <2>2
<1> QED
  BY <1>1, <1>2 DEF Apart

(* Every step.                                                             *)
LEMMA NextUnderway ==
  ASSUME QuietPushes, TypeOK, DeletedIsGone, Underway, AllAccounted, [Next]_vars
  PROVE  Underway'
<1> SUFFICES ASSUME NEW e \in Devices, NEW u \in Slots
             PROVE  SlotInv(e, u)'
  BY DEF Underway, SlotInv
<1>1. SlotInv(e, u) /\ token[e] <= changes
  BY DEF Underway, SlotInv, AllAccounted
<1>2. CASE UNCHANGED vars
  <2>1. Apart(e) /\ ZoneMovesOn
    BY <1>2 DEF vars, Apart, ZoneMovesOn, TypeOK
  <2> QED
    BY <1>1, <2>1, ApartKeeps
<1>3. ASSUME NEW d \in Devices, User(d)
      PROVE  SlotInv(e, u)'
  BY <1>1, <1>3, UserApart, UserSlots, ApartKeeps
<1>4. ASSUME NEW d \in Devices, NEW s \in Slots,
             Goes(d, s) \/ GoesWrong(d, s) \/ Foreground(d, s) \/ TimerFires(d, s) \/ Restart(d, s)
      PROVE  SlotInv(e, u)'
  <2>1. /\ SlotInv(d, u)'
        /\ ZoneMovesOn
        /\ \A x \in Devices \ {d} : Apart(x)
    BY <1>4, EasySlots, BeginPushSlots, LandingSlots, FetchSlots DEF Goes, GoesWrong
  <2>2. CASE e = d
    BY <2>1, <2>2
  <2>3. CASE e # d
    BY <1>1, <2>1, <2>3, ApartKeeps
  <2> QED
    BY <2>2, <2>3
<1>5. ASSUME NEW d \in Devices, NEW x \in resolved[d], ResolvedLands(d, x) \/ ResolvedFails(d, x)
      PROVE  SlotInv(e, u)'
  BY <1>1, <1>5, ResolvedApart, ApartKeeps
<1> QED
  BY <1>2, <1>3, <1>4, <1>5 DEF Next

-------------------------------------------------------------------------------
(***************************************************************************)
(* AllAccounted.                                                           *)
(***************************************************************************)
LEMMA InitAccounted == Init => AllAccounted
<1> SUFFICES ASSUME Init, NEW d \in Devices PROVE token[d] <= changes /\ \A r \in Records : Accounted(d, r)
  BY DEF AllAccounted
<1>1. token[d] = 1 /\ changes = 1 /\ \A r \in Records : local[d][r] = zone[r].value
  BY DEF Init
<1> QED
  BY <1>1 DEF Accounted

(* A device that is left alone stays accounted for.                        *)
LEMMA ApartAccounted ==
  ASSUME TypeOK, NEW e \in Devices, token[e] <= changes, \A r \in Records : Accounted(e, r),
         Apart(e), ZoneMovesOn
  PROVE  token'[e] <= changes' /\ \A r \in Records : Accounted(e, r)'
<1>0. token[e] \in Nat /\ token'[e] = token[e]
  BY DEF TypeOK, Apart
<1>1. token'[e] <= changes'
  BY <1>0 DEF ZoneMovesOn
<1>2. ASSUME NEW r \in Records PROVE Accounted(e, r)'
  <2>1. CASE zone'[r] = zone[r]
    BY <2>1 DEF Accounted, Apart, Present
  <2>2. CASE zone'[r].change = changes + 1
    <3>1. zone'[r].change > token'[e]
      BY <1>0, <2>2 DEF ZoneMovesOn
    <3> QED
      BY <3>1 DEF Accounted
  <2> QED
    BY <2>1, <2>2 DEF ZoneMovesOn
<1> QED
  BY <1>1, <1>2

(* What the user does is marked.                                           *)
LEMMA UserAccounted ==
  ASSUME TypeOK, NEW d \in Devices, User(d), token[d] <= changes, \A r \in Records : Accounted(d, r)
  PROVE  token'[d] <= changes' /\ \A r \in Records : Accounted(d, r)'
<1>1. ASSUME NEW r \in Records, Add(d, r) \/ Edit(d, r)
      PROVE  token'[d] <= changes' /\ \A x \in Records : Accounted(d, x)'
  <2>1. /\ UNCHANGED <<zone, changes, token, tombstones>>
        /\ local' = [local EXCEPT ![d][r] = edits + 1]
        /\ dirty' = [dirty EXCEPT ![d] = @ \cup Marked(d, r)]
    BY <1>1 DEF Add, Edit, Save, zoneVars
  <2>2. /\ local'[d][r] = edits + 1 /\ \A x \in Records \ {r} : local'[d][x] = local[d][x]
        /\ r \in dirty'[d] /\ dirty[d] \subseteq dirty'[d]
    BY <2>1 DEF TypeOK, Marked
  <2>3. edits + 1 # Absent
    BY DEF TypeOK, Absent
  <2>4. Accounted(d, r)'
    BY <2>2, <2>3 DEF Accounted, Present
  <2>5. ASSUME NEW x \in Records \ {r} PROVE Accounted(d, x)'
    BY <2>1, <2>2 DEF Accounted, Present
  <2> QED
    BY <2>1, <2>4, <2>5
<1>2. ASSUME NEW r \in Records, Delete(d, r)
      PROVE  token'[d] <= changes' /\ \A x \in Records : Accounted(d, x)'
  <2>1. /\ UNCHANGED <<zone, changes, token>>
        /\ local' = [local EXCEPT ![d][r] = Absent]
        /\ dirty' = [dirty EXCEPT ![d] = (@ \cup Marked(d, r)) \ {r}]
        /\ tombstones' = [tombstones EXCEPT ![d] = @ \cup {r}]
    BY <1>2 DEF Delete, zoneVars
  <2>2. /\ \A x \in Records \ {r} : local'[d][x] = local[d][x]
        /\ dirty[d] \ {r} \subseteq dirty'[d]
        /\ tombstones[d] \subseteq tombstones'[d] /\ r \in tombstones'[d]
    BY <2>1 DEF TypeOK
  <2>3. Accounted(d, r)'
    BY <2>2 DEF Accounted
  <2>4. ASSUME NEW x \in Records \ {r} PROVE Accounted(d, x)'
    BY <2>1, <2>2 DEF Accounted, Present
  <2> QED
    BY <2>1, <2>3, <2>4
<1>3. ASSUME NEW keepLocal \in BOOLEAN, ResolveConflict(d, keepLocal)
      PROVE  token'[d] <= changes' /\ \A x \in Records : Accounted(d, x)'
  <2>1. UNCHANGED <<zone, changes, token, sync, local, dirty, tombstones>>
    BY <1>3 DEF ResolveConflict, zoneVars, markVars
  <2>2. Apart(d) /\ ZoneMovesOn
    BY <2>1 DEF Apart, ZoneMovesOn, TypeOK
  <2> QED
    BY <2>2, ApartAccounted
<1> QED
  BY <1>1, <1>2, <1>3 DEF User

(* The steps that leave what is here, its marks and the token; others may  *)
(* have put the token back.                                                *)
LEMMA MovesAccounted ==
  ASSUME TypeOK, TypeOK', NEW d \in Devices, NEW s \in Slots, ZoneMovesOn,
         token[d] <= changes, \A r \in Records : Accounted(d, r),
         \/ Foreground(d, s) \/ TimerFires(d, s) \/ Restart(d, s) \/ ZoneFails(d, s)
         \/ BeginPush(d, s) \/ PushLands(d, s) \/ PushRetried(d, s) \/ PushFails(d, s)
         \/ Fetch(d, s) \/ TokenExpires(d, s) \/ PullFails(d, s)
  PROVE  token'[d] <= changes' /\ \A r \in Records : Accounted(d, r)'
<1>1. UNCHANGED <<local, dirty, tombstones>>
  BY DEF Foreground, TimerFires, Restart, ZoneFails, BeginPush, PushLands, PushRetried, PushFails,
         Fetch, TokenExpires, PullFails, markVars
<1>2. token' = token \/ token' = [token EXCEPT ![d] = 0] \/ token' = [token EXCEPT ![d] = token[d]]
  BY DEF Foreground, TimerFires, Restart, ZoneFails, BeginPush, PushLands, PushRetried, PushFails,
         Fetch, TokenExpires, PullFails
<1>3. token[d] \in Nat /\ token'[d] \in Nat /\ token'[d] <= token[d]
  BY <1>2 DEF TypeOK
<1>4. token'[d] <= changes'
  BY <1>3 DEF ZoneMovesOn
<1>5. ASSUME NEW r \in Records PROVE Accounted(d, r)'
  <2>0. zone[r].change \in Nat
    BY DEF TypeOK
  <2>1. CASE zone'[r] = zone[r]
    <3>1. CASE zone[r].change > token[d]
      <4>1. zone'[r].change > token'[d]
        BY <1>3, <2>0, <2>1, <3>1
      <4> QED
        BY <4>1 DEF Accounted
    <3>2. CASE ~(zone[r].change > token[d])
      BY <1>1, <2>1, <3>2 DEF Accounted, Present
    <3> QED
      BY <3>1, <3>2
  <2>2. CASE zone'[r].change = changes + 1
    <3>1. zone'[r].change > token'[d]
      BY <1>3, <2>2 DEF ZoneMovesOn
    <3> QED
      BY <3>1 DEF Accounted
  <2> QED
    BY <2>1, <2>2 DEF ZoneMovesOn
<1> QED
  BY <1>4, <1>5

(* What a landed push has taken along needs no mark.                       *)
LEMMA PushDoneAccounted ==
  ASSUME TypeOK, Underway, NEW d \in Devices, NEW s \in Slots, PushDone(d, s),
         token[d] <= changes, \A r \in Records : Accounted(d, r)
  PROVE  token'[d] <= changes' /\ \A r \in Records : Accounted(d, r)'
<1>1. UNCHANGED <<zone, changes, local, token>>
  BY DEF PushDone, zoneVars
<1>2. \A r \in Present(d, dirty[d]) \cup tombstones[d] :
        zone[r].change > token[d] \/ zone[r].value = local[d][r]
  BY DEF PushDone, At, Underway, PushReached
<1>3. ASSUME NEW r \in Records PROVE Accounted(d, r)'
  <2>1. zone[r].change > token[d] \/ zone[r].value = local[d][r]
    BY <1>2 DEF Accounted
  <2> QED
    BY <1>1, <2>1 DEF Accounted
<1> QED
  BY <1>1, <1>3

(* A pull takes over what it brought, or has a reason not to.              *)
LEMMA ApplyAccounted ==
  ASSUME TypeOK, Underway, NEW d \in Devices, NEW s \in Slots, ApplyPull(d, s),
         token[d] <= changes, \A r \in Records : Accounted(d, r)
  PROVE  token'[d] <= changes' /\ \A r \in Records : Accounted(d, r)'
<1> DEFINE k == sync[d][s]
<1>0. k \in SyncRecords /\ k.upto \in Nat
  BY DEF TypeOK, SyncRecords
<1>1. /\ k.since = token[d] /\ k.upto <= changes
      /\ \A r \in Records :
           \/ zone[r].change > k.upto
           \/ r \in k.records /\ k.values[r] = zone[r].value
           \/ r \notin k.records /\ zone[r].change <= k.since
  BY DEF ApplyPull, At, Underway, PullSinceToken, FetchIsComplete
<1>2. UNCHANGED <<zone, changes, dirty, tombstones>> /\ token'[d] = k.upto
  BY DEF ApplyPull, zoneVars, TypeOK
<1>3. local'[d] = [r \in Records |-> IF r \in Applied(d, k) THEN k.values[r] ELSE local[d][r]]
  BY DEF ApplyPull, TypeOK
<1> HIDE DEF k
<1>4. ASSUME NEW r \in Records, zone[r].change <= k.upto PROVE Accounted(d, r)'
  <2>0. zone[r].change \in Nat /\ token[d] \in Nat
    BY DEF TypeOK
  <2>1. CASE r \in k.records /\ k.values[r] = zone[r].value
    <3>1. CASE r \in Applied(d, k)
      <4>1. local'[d][r] = zone'[r].value
        BY <1>2, <1>3, <2>1, <3>1
      <4> QED
        BY <4>1 DEF Accounted
    <3>2. CASE r \notin Applied(d, k)
      <4>1. local'[d][r] = local[d][r]
        BY <1>3, <3>2
      <4>2. r \in tombstones[d] \/ r \in Present(d, Connections) \cap dirty[d]
        BY <2>1, <3>2 DEF Applied, Conflicting
      <4> QED
        BY <1>2, <4>1, <4>2 DEF Accounted, Present
    <3> QED
      BY <3>1, <3>2
  <2>2. CASE r \notin k.records /\ zone[r].change <= k.since
    <3>1. r \notin Applied(d, k)
      BY <2>2 DEF Applied
    <3>2. local'[d][r] = local[d][r]
      BY <1>3, <3>1
    <3>3. ~(zone[r].change > token[d])
      BY <1>1, <2>0, <2>2
    <3>4. \/ local[d][r] = zone[r].value
          \/ r \in Present(d, dirty[d])
          \/ r \in tombstones[d]
      BY <3>3 DEF Accounted
    <3> QED
      BY <1>2, <3>2, <3>4 DEF Accounted, Present
  <2> QED
    BY <1>0, <1>1, <1>4, <2>0, <2>1, <2>2
<1>5. ASSUME NEW r \in Records, ~(zone[r].change <= k.upto) PROVE Accounted(d, r)'
  <2>1. zone[r].change \in Nat
    BY DEF TypeOK
  <2>2. zone'[r].change > token'[d]
    BY <1>0, <1>2, <1>5, <2>1
  <2> QED
    BY <2>2 DEF Accounted
<1> QED
  BY <1>1, <1>2, <1>4, <1>5

(* Every step.                                                             *)
LEMMA NextAccounted ==
  ASSUME QuietPushes, TypeOK, TypeOK', DeletedIsGone, Underway, AllAccounted, [Next]_vars
  PROVE  AllAccounted'
<1> SUFFICES ASSUME NEW e \in Devices
             PROVE  token'[e] <= changes' /\ \A r \in Records : Accounted(e, r)'
  BY DEF AllAccounted
<1>1. token[e] <= changes /\ \A r \in Records : Accounted(e, r)
  BY DEF AllAccounted
<1>2. CASE UNCHANGED vars
  <2>1. Apart(e) /\ ZoneMovesOn
    BY <1>2 DEF vars, Apart, ZoneMovesOn, TypeOK
  <2> QED
    BY <1>1, <2>1, ApartAccounted
<1>3. ASSUME NEW d \in Devices, User(d)
      PROVE  token'[e] <= changes' /\ \A r \in Records : Accounted(e, r)'
  <2>1. CASE e = d
    BY <1>1, <1>3, <2>1, UserAccounted
  <2>2. CASE e # d
    BY <1>1, <1>3, <2>2, UserApart, ApartAccounted
  <2> QED
    BY <2>1, <2>2
<1>4. ASSUME NEW d \in Devices, NEW s \in Slots,
             Goes(d, s) \/ GoesWrong(d, s) \/ Foreground(d, s) \/ TimerFires(d, s) \/ Restart(d, s)
      PROVE  token'[e] <= changes' /\ \A r \in Records : Accounted(e, r)'
  <2>1. ZoneMovesOn /\ \A x \in Devices \ {d} : Apart(x)
    BY <1>4, EasySlots, BeginPushSlots, LandingSlots, FetchSlots DEF Goes, GoesWrong
  <2>2. CASE e = d
    BY <1>1, <1>4, <2>1, <2>2, MovesAccounted, PushDoneAccounted, ApplyAccounted DEF Goes, GoesWrong
  <2>3. CASE e # d
    BY <1>1, <2>1, <2>3, ApartAccounted
  <2> QED
    BY <2>2, <2>3
<1>5. ASSUME NEW d \in Devices, NEW x \in resolved[d], ResolvedLands(d, x) \/ ResolvedFails(d, x)
      PROVE  token'[e] <= changes' /\ \A r \in Records : Accounted(e, r)'
  BY <1>1, <1>5, ResolvedApart, ApartAccounted
<1> QED
  BY <1>2, <1>3, <1>4, <1>5 DEF Next

-------------------------------------------------------------------------------
(***************************************************************************)
(* The theorems.                                                           *)
(***************************************************************************)
(* The invariant holds when one sync runs at a time and nobody edits while *)
(* its push is under way.                                                  *)
THEOREM Invariance == ASSUME QuietPushes PROVE Spec => []IInv
<1>1. Init => IInv
  BY InitType, InitCreated, InitGone, InitUnderway, InitAccounted DEF IInv
<1>2. IInv /\ [Next]_vars => IInv'
  <2> SUFFICES ASSUME IInv, [Next]_vars PROVE IInv'
    OBVIOUS
  <2>1. TypeOK /\ AllCreated /\ DeletedIsGone /\ Underway /\ AllAccounted
    BY DEF IInv
  <2>2. TypeOK'
    BY <2>1, NextType
  <2>3. AllCreated'
    BY <2>1, <2>2, NextCreated
  <2>4. DeletedIsGone'
    BY <2>1, NextGone
  <2>5. Underway'
    BY <2>1, NextUnderway
  <2>6. AllAccounted'
    BY <2>1, <2>2, NextAccounted
  <2> QED
    BY <2>2, <2>3, <2>4, <2>5, <2>6 DEF IInv
<1> QED
  BY <1>1, <1>2, PTL DEF Spec

(* Then what differs from the zone on a Mac is marked, or is still to be   *)
(* pulled, whatever fails and whenever a Mac restarts: nothing is missed.  *)
THEOREM NothingEverMissed == ASSUME QuietPushes PROVE Spec => []NothingIsMissed
<1>1. IInv => NothingIsMissed
  BY DEF IInv, AllAccounted, Accounted, Present, NothingIsMissed
<1> QED
  BY <1>1, Invariance, PTL
================================================================================
