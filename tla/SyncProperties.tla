---------------------------- MODULE SyncProperties ----------------------------
(* What iCloud sync promises.                                              *)
EXTENDS CloudSync

Versions == 0..MaxEdits

SyncRecords ==
  [pc : Places, records : SUBSET Records, values : [Records -> Versions],
   deletions : SUBSET Records, since : Nat, upto : Nat]

ConflictRecords == [record : Connections, value : Versions]

(* Type correctness.                                                       *)
TypeOK ==
  /\ zone \in [Records -> [value : Versions, change : Nat]]
  /\ changes \in Nat
  /\ local \in [Devices -> [Records -> Versions]]
  /\ dirty \in [Devices -> SUBSET Records]
  /\ tombstones \in [Devices -> SUBSET Records]
  /\ token \in [Devices -> Nat]
  /\ syncing \in [Devices -> BOOLEAN]
  /\ scheduled \in [Devices -> BOOLEAN]
  /\ sync \in [Devices -> [Slots -> SyncRecords]]
  /\ conflicts \in [Devices -> Seq(ConflictRecords)]
  /\ resolved \in [Devices -> SUBSET ConflictRecords]
  /\ created \subseteq Records
  /\ edits \in 0..MaxEdits
  /\ failures \in 0..MaxFailures

(* "TablePro auto-syncs ... 2 seconds after you modify synced data": what  *)
(* differs from the zone on a Mac is marked and will be pushed, or the     *)
(* zone's change is still to be pulled.  A difference that is neither      *)
(* stays for ever.                                                         *)
NothingIsMissed ==
  \A d \in Devices : \A r \in Records :
    \/ local[d][r] = zone[r].value
    \/ r \in dirty[d] \cup tombstones[d]
    \/ zone[r].change > token[d]

(* Every Mac has what the zone has, once the user has stopped.             *)
InStep == \A d \in Devices : \A r \in Records : local[d][r] = zone[r].value

Converges == <>[]InStep
================================================================================
