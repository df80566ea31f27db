------------------------------- MODULE CloudSync -------------------------------
(***************************************************************************)
(* SyncCoordinator on several Macs, with SyncChangeTracker,                *)
(* SyncMetadataStorage and ConflictResolver, and the CloudKit zone they    *)
(* share.                                                                  *)
(*                                                                         *)
(* A sync pushes what is marked, then pulls what the zone has changed      *)
(* since the token.  The coordinator runs on the main actor, so everything *)
(* between two awaits is one step, and whatever the user does happens      *)
(* between them.  A record's value is the number of the edit that wrote    *)
(* it, Absent when it does not exist.                                      *)
(***************************************************************************)
EXTENDS Naturals, Sequences, FiniteSets, SequencesExt

CONSTANTS
  Devices,
  Connections,   \* their conflicts are asked about
  Groups,        \* so are not those of groups; saving one marks them all
  Initially,     \* records every Mac and the zone have at the start
  Slots,         \* how many syncs one device may have under way at once
  EditsWhile,    \* the places of a sync at which this instance lets the user edit
  MaxEdits, MaxFailures

Places == {"none", "zone", "push", "landed", "pull", "fetched"}

ASSUME RecordsAssumption == Connections \cap Groups = {} /\ IsFiniteSet(Connections)
ASSUME PlacesAssumption == EditsWhile \subseteq Places
ASSUME InitiallyAssumption == Initially \subseteq Connections \cup Groups
ASSUME BoundsAssumption == MaxEdits \in Nat \ {0} /\ MaxFailures \in Nat

Records == Connections \cup Groups

Absent == 0

VARIABLES
  zone,        \* record -> its value and the number of its last change
  changes,     \* the number of the zone's latest change
  local,       \* device -> record -> its value in the storages
  dirty,       \* device -> records marked as edited
  tombstones,  \* device -> records marked as deleted
  token,       \* device -> the change it has pulled up to; 0 for no token
  syncing,     \* device -> status is .syncing
  scheduled,   \* device -> syncTask sleeps its two seconds
  sync,        \* device -> slot -> a sync and the await it is at
  conflicts,   \* device -> conflicts the user is to resolve, the first one first
  resolved,    \* device -> resolved conflicts on their way to the zone
  created,     \* records that were ever added
  edits, failures   \* how many there were

zoneVars == <<zone, changes>>
markVars == <<local, dirty, tombstones>>
vars == <<zone, changes, local, dirty, tombstones, token, syncing, scheduled, sync,
          conflicts, resolved, created, edits, failures>>

(* records are those to save, then those fetched; values theirs.           *)
Sync(pc, records, values, deletions, since, upto) ==
  [pc |-> pc, records |-> records, values |-> values, deletions |-> deletions,
   since |-> since, upto |-> upto]

Nothing == [r \in Records |-> Absent]

NoSync    == Sync("none", {}, Nothing, {}, 0, 0)
AtZone    == Sync("zone", {}, Nothing, {}, 0, 0)
AtPull(n) == Sync("pull", {}, Nothing, {}, n, 0)

(* All Macs have synced once.                                              *)
Init ==
  /\ zone = [r \in Records |-> IF r \in Initially THEN [value |-> 1, change |-> 1]
                                                  ELSE [value |-> Absent, change |-> 0]]
  /\ changes = 1
  /\ local = [d \in Devices |-> [r \in Records |-> zone[r].value]]
  /\ dirty = [d \in Devices |-> {}]
  /\ tombstones = [d \in Devices |-> {}]
  /\ token = [d \in Devices |-> 1]
  /\ syncing = [d \in Devices |-> FALSE]
  /\ scheduled = [d \in Devices |-> FALSE]
  /\ sync = [d \in Devices |-> [s \in Slots |-> NoSync]]
  /\ conflicts = [d \in Devices |-> <<>>]
  /\ resolved = [d \in Devices |-> {}]
  /\ created = Initially
  /\ edits = 1
  /\ failures = 0

At(d, s, pc) == sync[d][s].pc = pc

Goto(d, s, to) == sync' = [sync EXCEPT ![d][s] = to]

Fails == failures < MaxFailures /\ failures' = failures + 1

-------------------------------------------------------------------------------
(***************************************************************************)
(* The user's data and its marks.                                          *)
(***************************************************************************)
Present(d, S) == {r \in S : local[d][r] # Absent}

MayEdit(d) == edits < MaxEdits /\ \A s \in Slots : sync[d][s].pc \in EditsWhile

(* observeLocalChanges: the timer starts anew, unless a sync is under way. *)
Schedule(d) == scheduled' = [scheduled EXCEPT ![d] = @ \/ ~syncing[d]]

(* What saving r marks: saveGroups marks every group.                      *)
Marked(d, r) == IF r \in Groups THEN Present(d, Groups) \cup {r} ELSE {r}

Save(d, r) ==
  /\ MayEdit(d)
  /\ edits' = edits + 1
  /\ local' = [local EXCEPT ![d][r] = edits + 1]
  /\ dirty' = [dirty EXCEPT ![d] = @ \cup Marked(d, r)]
  /\ Schedule(d)
  /\ UNCHANGED <<zoneVars, tombstones, token, syncing, sync, conflicts, resolved,
                 failures>>

Add(d, r) == r \notin created /\ created' = created \cup {r} /\ Save(d, r)

Edit(d, r) == r \in Present(d, Records) /\ UNCHANGED created /\ Save(d, r)

(* deleteGroup saves the groups that are left, which marks them.           *)
Delete(d, r) ==
  /\ MayEdit(d)
  /\ edits' = edits + 1
  /\ r \in Present(d, Records)
  /\ local' = [local EXCEPT ![d][r] = Absent]
  /\ dirty' = [dirty EXCEPT ![d] = (@ \cup Marked(d, r)) \ {r}]
  /\ tombstones' = [tombstones EXCEPT ![d] = @ \cup {r}]
  /\ Schedule(d)
  /\ UNCHANGED <<zoneVars, token, syncing, sync, conflicts, resolved, created, failures>>

-------------------------------------------------------------------------------
(***************************************************************************)
(* A sync begins.                                                          *)
(***************************************************************************)
(* syncNow up to the await of ensureZoneExists.                            *)
SyncNow(d, s) ==
  /\ At(d, s, "none")
  /\ Goto(d, s, AtZone)
  /\ syncing' = [syncing EXCEPT ![d] = TRUE]

(* syncIfNeeded when the app becomes active, or the Sync Now button.       *)
Foreground(d, s) ==
  /\ ~syncing[d]
  /\ SyncNow(d, s)
  /\ UNCHANGED <<zoneVars, markVars, token, scheduled, conflicts, resolved, created, edits,
                 failures>>

(* The two seconds are over; nobody asks whether a sync is under way.      *)
TimerFires(d, s) ==
  /\ scheduled[d]
  /\ scheduled' = [scheduled EXCEPT ![d] = FALSE]
  /\ SyncNow(d, s)
  /\ UNCHANGED <<zoneVars, markVars, token, conflicts, resolved, created, edits, failures>>

(* The app is quit or crashes, and start() runs when it is back: without   *)
(* connections the token is cleared.  What was on its way is lost.         *)
Restart(d, s) ==
  /\ Fails
  /\ sync' = [sync EXCEPT ![d] = [u \in Slots |-> IF u = s THEN AtZone ELSE NoSync]]
  /\ syncing' = [syncing EXCEPT ![d] = TRUE]
  /\ scheduled' = [scheduled EXCEPT ![d] = FALSE]
  /\ token' = [token EXCEPT ![d] = IF Present(d, Connections) = {} THEN 0 ELSE @]
  /\ conflicts' = [conflicts EXCEPT ![d] = <<>>]
  /\ resolved' = [resolved EXCEPT ![d] = {}]
  /\ UNCHANGED <<zoneVars, markVars, created, edits>>

ZoneFails(d, s) ==
  /\ At(d, s, "zone")
  /\ Fails
  /\ Goto(d, s, NoSync)
  /\ syncing' = [syncing EXCEPT ![d] = FALSE]
  /\ UNCHANGED <<zoneVars, markVars, token, scheduled, conflicts, resolved, created, edits>>

-------------------------------------------------------------------------------
(***************************************************************************)
(* Push.                                                                   *)
(***************************************************************************)
(* performPush takes what is marked and still there, and the deletions.    *)
BeginPush(d, s) ==
  LET saves == Present(d, dirty[d])
      values == [r \in Records |-> IF r \in saves THEN local[d][r] ELSE Absent]
  IN  /\ At(d, s, "zone")
      /\ Goto(d, s, IF saves \cup tombstones[d] = {}
                    THEN AtPull(token[d])
                    ELSE Sync("push", saves, values, tombstones[d], 0, 0))
      /\ UNCHANGED <<zoneVars, markVars, token, syncing, scheduled, conflicts, resolved, created,
                     edits, failures>>

(* The zone takes the saves and deletions of k among S.  With .changedKeys *)
(* it asks for no change tag, so the last writer wins.                     *)
Landed(k, S) ==
  /\ changes' = changes + 1
  /\ zone' = [r \in Records |->
                CASE r \in S \cap k.records -> [value |-> k.values[r], change |-> changes + 1]
                  [] r \in (S \cap k.deletions) \ k.records /\ zone[r].value # Absent ->
                       [value |-> Absent, change |-> changes + 1]
                  [] OTHER -> zone[r]]

PushLands(d, s) ==
  /\ At(d, s, "push")
  /\ Landed(sync[d][s], Records)
  /\ sync' = [sync EXCEPT ![d][s].pc = "landed"]
  /\ UNCHANGED <<markVars, token, syncing, scheduled, conflicts, resolved, created, edits,
                 failures>>

(* A transient error after the fact: withRetry sends it all again.         *)
PushRetried(d, s) ==
  /\ At(d, s, "landed")
  /\ Fails
  /\ sync' = [sync EXCEPT ![d][s].pc = "push"]
  /\ UNCHANGED <<zoneVars, markVars, token, syncing, scheduled, conflicts, resolved, created,
                 edits>>

(* Mutant: the marks go when the push is sent off, before it has landed.   *)
PushAndForget(d, s) ==
  /\ At(d, s, "push")
  /\ Fails
  /\ \E S \in SUBSET Records : Landed(sync[d][s], S)
  /\ Goto(d, s, AtPull(token[d]))
  /\ dirty' = [dirty EXCEPT ![d] = {}]
  /\ tombstones' = [tombstones EXCEPT ![d] = {}]
  /\ UNCHANGED <<local, token, syncing, scheduled, conflicts, resolved, created, edits>>

(* The operation is not atomic: some records may land when it fails.  The  *)
(* marks stay, and the pull follows.                                       *)
PushFails(d, s) ==
  /\ At(d, s, "push")
  /\ Fails
  /\ \E S \in SUBSET Records : Landed(sync[d][s], S)
  /\ Goto(d, s, AtPull(token[d]))
  /\ UNCHANGED <<markVars, token, syncing, scheduled, conflicts, resolved, created, edits>>

(* Every mark there is now is cleared, whatever was pushed.                *)
PushDone(d, s) ==
  /\ At(d, s, "landed")
  /\ dirty' = [dirty EXCEPT ![d] = {}]
  /\ tombstones' = [tombstones EXCEPT ![d] = {}]
  /\ Goto(d, s, AtPull(token[d]))
  /\ UNCHANGED <<zoneVars, local, token, syncing, scheduled, conflicts, resolved, created, edits,
                 failures>>

-------------------------------------------------------------------------------
(***************************************************************************)
(* Pull.                                                                   *)
(***************************************************************************)
(* The zone answers with what changed after since, deletions included.     *)
Fetch(d, s) ==
  LET changed == {r \in Records : zone[r].change > sync[d][s].since}
      values == [r \in Records |-> IF r \in changed THEN zone[r].value ELSE Absent]
  IN  /\ At(d, s, "pull")
      /\ Goto(d, s, Sync("fetched", changed, values, {}, sync[d][s].since, changes))
      /\ UNCHANGED <<zoneVars, markVars, token, syncing, scheduled, conflicts, resolved, created,
                     edits, failures>>

(* changeTokenExpired: the token goes, and everything is fetched.          *)
TokenExpires(d, s) ==
  /\ At(d, s, "pull")
  /\ sync[d][s].since # 0
  /\ Fails
  /\ token' = [token EXCEPT ![d] = 0]
  /\ Goto(d, s, AtPull(0))
  /\ UNCHANGED <<zoneVars, markVars, syncing, scheduled, conflicts, resolved, created, edits>>

(* performPull keeps its errors to itself.                                 *)
PullFails(d, s) ==
  /\ At(d, s, "pull")
  /\ Fails
  /\ Goto(d, s, NoSync)
  /\ syncing' = [syncing EXCEPT ![d] = FALSE]
  /\ UNCHANGED <<zoneVars, markVars, token, scheduled, conflicts, resolved, created, edits>>

(* Mutant: groups are asked about too.                                     *)
ConflictingAll(d, k) ==
  {r \in k.records \cap Present(d, Records) \cap dirty[d] : k.values[r] # Absent}

(* Connections the zone has saved and that have an edit of their own here. *)
Conflicting(d, k) ==
  {r \in k.records \cap Present(d, Connections) \cap dirty[d] : k.values[r] # Absent}

(* Mutant: only what was saved is taken over.                              *)
AppliedSaves(d, k) ==
  {r \in k.records : k.values[r] # Absent /\ r \notin tombstones[d] \cup Conflicting(d, k)}

(* The fetched records that are taken over: all deletions, and what was    *)
(* saved unless it is deleted here or in conflict.                         *)
Applied(d, k) ==
  {r \in k.records : k.values[r] = Absent \/ r \notin tombstones[d] \cup Conflicting(d, k)}

(* The conflicts of one pull, in some order.                               *)
ConflictsOf(d, k) == {[record |-> r, value |-> local[d][r]] : r \in Conflicting(d, k)}

ApplyPull(d, s) ==
  LET k == sync[d][s]
  IN  /\ At(d, s, "fetched")
      /\ token' = [token EXCEPT ![d] = k.upto]
      /\ local' = [local EXCEPT ![d] = [r \in Records |->
                                          IF r \in Applied(d, k) THEN k.values[r] ELSE @[r]]]
      /\ \E q \in SetToSeqs(ConflictsOf(d, k)) : conflicts' = [conflicts EXCEPT ![d] = @ \o q]
      /\ Goto(d, s, NoSync)
      /\ syncing' = [syncing EXCEPT ![d] = FALSE]
      /\ UNCHANGED <<zoneVars, dirty, tombstones, scheduled, resolved, created, edits, failures>>

-------------------------------------------------------------------------------
(***************************************************************************)
(* Conflicts.                                                              *)
(***************************************************************************)
(* Keeping the local version pushes it; keeping the server's does nothing: *)
(* the edit here stays, and stays marked.                                  *)
ResolveConflict(d, keepLocal) ==
  /\ conflicts[d] # <<>>
  /\ conflicts' = [conflicts EXCEPT ![d] = Tail(@)]
  /\ resolved' = [resolved EXCEPT ![d] = IF keepLocal THEN @ \cup {Head(conflicts[d])} ELSE @]
  /\ UNCHANGED <<zoneVars, markVars, token, syncing, scheduled, sync, created, edits, failures>>

ResolvedLands(d, e) ==
  /\ e \in resolved[d]
  /\ resolved' = [resolved EXCEPT ![d] = @ \ {e}]
  /\ changes' = changes + 1
  /\ zone' = [zone EXCEPT ![e.record] = [value |-> e.value, change |-> changes + 1]]
  /\ UNCHANGED <<markVars, token, syncing, scheduled, sync, conflicts, created, edits, failures>>

ResolvedFails(d, e) ==
  /\ e \in resolved[d]
  /\ Fails
  /\ resolved' = [resolved EXCEPT ![d] = @ \ {e}]
  /\ UNCHANGED <<zoneVars, markVars, token, syncing, scheduled, sync, conflicts, created, edits>>

-------------------------------------------------------------------------------
User(d) ==
  \/ \E r \in Records : Add(d, r) \/ Edit(d, r) \/ Delete(d, r)
  \/ \E keepLocal \in BOOLEAN : ResolveConflict(d, keepLocal)

Goes(d, s) ==
  \/ BeginPush(d, s) \/ PushLands(d, s) \/ PushDone(d, s) \/ Fetch(d, s) \/ ApplyPull(d, s)

GoesWrong(d, s) ==
  \/ ZoneFails(d, s) \/ PushRetried(d, s) \/ PushFails(d, s) \/ TokenExpires(d, s) \/ PullFails(d, s)

Next ==
  \E d \in Devices :
    \/ User(d)
    \/ \E s \in Slots :
         \/ Goes(d, s) \/ GoesWrong(d, s)
         \/ Foreground(d, s) \/ TimerFires(d, s) \/ Restart(d, s)
    \/ \E e \in resolved[d] : ResolvedLands(d, e) \/ ResolvedFails(d, e)

(* The steps of a sync happen, the zone answers, and each Mac is used      *)
(* again and again.                                                        *)
Fairness ==
  \A d \in Devices : \A s \in Slots : WF_vars(Goes(d, s)) /\ WF_vars(Foreground(d, s))

Spec == Init /\ [][Next]_vars /\ Fairness
================================================================================
