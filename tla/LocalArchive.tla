---------------------------- MODULE LocalArchive ----------------------------
(***************************************************************************)
(* The local archive backend, crates/hsm-local/src/archive.rs.             *)
(*                                                                         *)
(* objects/ holds one create-only receipt file per archive key, attempts/  *)
(* one Prepared file per (attempt, key) and one payload directory per      *)
(* prepared attempt.  Every operation runs under the serial mutex and      *)
(* reads everything it needs from the files: a handle has no state, so     *)
(* opening one changes nothing here.                                       *)
(*                                                                         *)
(* An Op is an operation ID with its attempt epoch: the controller epoch   *)
(* is left out of the name of the Prepared file and of same_attempt, so    *)
(* that a new controller resumes the attempt of the previous one.          *)
(***************************************************************************)
EXTENDS LocalLayouts

CONSTANTS
  Op, Key, Data,
  View,          \* pinned views: records with at least `data' and `content'
  DiskFaults,    \* which failures happen, of DiskFaultKind
  NoObject, NoAttempt

DiskFaultKind == {"prepare", "seal", "publish", "crash", "power"}

ASSUME ArchiveAssumption ==
  /\ \A v \in View : v.data \in Data /\ v.content \in Content
  /\ DiskFaults \subseteq DiskFaultKind

ArchiveReceipt == [key: Key, data: Data, content: Content,
                   receipt_id: Nat, wellformed: BOOLEAN]
ArchiveTarget == [key: Key, payload: Id]
Prepared == [view: View, target: ArchiveTarget, synced: BOOLEAN]
Committed == [receipt: ArchiveReceipt, payload: Id]

\* An absent file is told from one that exists.
ASSUME AbsentAssumption ==
  /\ NoObject \notin Committed \cup [receipt: ArchiveReceipt, bytes: Content \cup {NoData}]
  /\ NoAttempt \notin Prepared

VARIABLES
  objects,   \* the receipt files under objects/, as a reader finds them
  synced,    \* the keys whose receipt file is certain to survive
  attempts,  \* the Prepared files
  dirs,      \* the payload directories under attempts/
  serial,    \* the next UUID
  returned   \* history: the receipts callers have received

vars == <<objects, synced, attempts, dirs, serial, returned>>

Init ==
  /\ objects = [k \in Key |-> NoObject]
  /\ synced = {}
  /\ attempts = [x \in Op \X Key |-> NoAttempt]
  /\ dirs = [l \in Id |-> Removed]
  /\ serial = 1
  /\ returned = {}

-----------------------------------------------------------------------------
Published == {k \in Key : objects[k] # NoObject}

\* committed finds a payload with the digest its receipt states; otherwise
\* it fails (Integrity, or Io) and its caller with it.
PayloadMatches(k) == dirs[objects[k].payload].data = objects[k].receipt.content

CommittedIs(k) == k \in Published /\ PayloadMatches(k)

\* Wrong variants: the sync is left out; a key is taken for settled unseen.
SettleNothing == UNCHANGED synced
SettleEverything == synced' = Key

\* committed syncs objects/ before it answers, which settles every receipt
\* an earlier publication left unsynced.
SettleObjects == synced' = Published

Return(receipt) == returned' = returned \cup {receipt}

\* inspect of a committed key; an absent key changes nothing.
Inspect(k) ==
  /\ CommittedIs(k)
  /\ SettleObjects
  /\ Return(objects[k].receipt)
  /\ UNCHANGED <<objects, attempts, dirs, serial>>

\* open gives the payload only of the very receipt it is asked for.
OpenMatches(receipt) == objects[receipt.key].receipt = receipt

Open(receipt) ==
  /\ CommittedIs(receipt.key)
  /\ SettleObjects
  /\ UNCHANGED <<objects, attempts, dirs, serial, returned>>

-----------------------------------------------------------------------------
(* prepare: one private payload directory per attempt and key.             *)

\* Wrong variant: attempts share one payload directory.
SharedTarget(k) == [key |-> k, payload |-> 1]

NewTarget(k) == [key |-> k, payload |-> serial]

\* A key already committed is refused (Conflict) after the sync of objects/.
PrepareRefused(k) ==
  /\ CommittedIs(k)
  /\ SettleObjects
  /\ UNCHANGED <<objects, attempts, dirs, serial, returned>>

\* The sync of attempts/ settles every Prepared file in it.
SettledAttempts ==
  [x \in Op \X Key |->
     IF attempts[x] = NoAttempt THEN NoAttempt ELSE [attempts[x] EXCEPT !.synced = TRUE]]

\* A Prepared file that exists answers for itself: see Target.
PrepareNew(op, k, view) ==
  /\ k \notin Published
  /\ attempts[<<op, k>>] = NoAttempt
  /\ serial \in Id
  /\ dirs' = [dirs EXCEPT ![serial] = NewLayout]
  /\ serial' = serial + 1
  /\ \/ attempts' = [SettledAttempts EXCEPT ![<<op, k>>] =
                       [view |-> view, target |-> NewTarget(k), synced |-> TRUE]]
     \/ /\ "prepare" \in DiskFaults   \* renamed, not synced: Unknown
        /\ attempts' = [SettledAttempts EXCEPT ![<<op, k>>] =
                          [view |-> view, target |-> NewTarget(k), synced |-> FALSE]]
     \/ /\ "prepare" \in DiskFaults   \* not written: the directory is left behind
        /\ attempts' = SettledAttempts
  /\ UNCHANGED <<objects, synced, returned>>

\* Whether a prepare with this view is given the stored target.
Owns(op, k, view) == attempts[<<op, k>>] # NoAttempt /\ attempts[<<op, k>>].view = view

Target(op, k) == attempts[<<op, k>>].target

-----------------------------------------------------------------------------
(* commit and resume_commit.                                               *)

OwnsTarget(op, target, view) ==
  /\ Owns(op, target.key, view)
  /\ Target(op, target.key) = target

\* The key is committed: the same content is answered with its receipt.
CommitAgain(op, target, view) ==
  /\ OwnsTarget(op, target, view)
  /\ CommittedIs(target.key)
  /\ SettleObjects
  /\ IF /\ objects[target.key].receipt.data = view.data
        /\ objects[target.key].receipt.content = view.content
       THEN Return(objects[target.key].receipt)
       ELSE UNCHANGED returned   \* Conflict
  /\ UNCHANGED <<objects, attempts, dirs, serial>>

\* The bytes were read back and are the pinned ones.
Verified(target, view, evidence) ==
  /\ dirs[target.payload].data = view.content
  /\ evidence = dirs[target.payload].data

\* Wrong variants: the payload may still be written; the key may be taken.
CanCommitUnlocked(op, target, view, evidence) ==
  /\ OwnsTarget(op, target, view)
  /\ target.key \notin Published
  /\ Verified(target, view, evidence)

CanCommitTwice(op, target, view, evidence) ==
  /\ OwnsTarget(op, target, view)
  /\ ~Locked(dirs, target.payload)
  /\ Verified(target, view, evidence)

CanCommit(op, target, view, evidence) ==
  /\ OwnsTarget(op, target, view)
  /\ target.key \notin Published
  /\ ~Locked(dirs, target.payload)
  /\ Verified(target, view, evidence)

NewReceipt(target, view) ==
  [key |-> target.key, data |-> view.data, content |-> dirs[target.payload].data,
   receipt_id |-> serial, wellformed |-> TRUE]

Publish(target, receipt) ==
  objects' = [objects EXCEPT ![target.key] = [receipt |-> receipt, payload |-> target.payload]]

\* Sealed, linked, synced and answered.
Commit(op, target, view, evidence) ==
  /\ CanCommit(op, target, view, evidence)
  /\ serial \in Id
  /\ serial' = serial + 1
  /\ dirs' = Seal(dirs, target.payload)
  /\ Publish(target, NewReceipt(target, view))
  /\ synced' = Published \cup {target.key}
  /\ Return(NewReceipt(target, view))
  /\ UNCHANGED attempts

\* Linked, but the directory sync fails: Unknown, no receipt returned.
CommitUnsynced(op, target, view, evidence) ==
  /\ "publish" \in DiskFaults
  /\ CanCommit(op, target, view, evidence)
  /\ serial \in Id
  /\ serial' = serial + 1
  /\ dirs' = Seal(dirs, target.payload)
  /\ Publish(target, NewReceipt(target, view))
  /\ UNCHANGED <<synced, attempts, returned>>

\* Sealed, then the publication fails, or the process dies, before the link.
CommitStopsSealed(op, target, view, evidence) ==
  /\ "publish" \in DiskFaults
  /\ CanCommit(op, target, view, evidence)
  /\ dirs' = Seal(dirs, target.payload)
  /\ UNCHANGED <<objects, synced, attempts, serial, returned>>

\* sealed.json is renamed, its sync fails.
CommitSealUncertain(op, target, view, evidence) ==
  /\ "seal" \in DiskFaults
  /\ CanCommit(op, target, view, evidence)
  /\ dirs' = SealUnsynced(dirs, target.payload)
  /\ UNCHANGED <<objects, synced, attempts, serial, returned>>

AnyCommit(op, target, view, evidence) ==
  \/ CommitAgain(op, target, view)
  \/ Commit(op, target, view, evidence)
  \/ CommitUnsynced(op, target, view, evidence)
  \/ CommitStopsSealed(op, target, view, evidence)
  \/ CommitSealUncertain(op, target, view, evidence)

\* A payload that is sealed is committed from its own read-back.
ResumeCommit(op, target, view) ==
  /\ Fenced(dirs, target.payload)
  /\ AnyCommit(op, target, view, view.content)

-----------------------------------------------------------------------------
(* The mover, restarts and power losses.                                   *)

BeginRead(l) ==
  /\ dirs[l].there /\ ~Locked(dirs, l)
  /\ dirs' = [dirs EXCEPT ![l].session = "reading"]
  /\ UNCHANGED <<objects, synced, attempts, serial, returned>>

BeginWrite(l) ==
  /\ dirs[l].there /\ ~Locked(dirs, l)
  /\ ~Fenced(dirs, l)
  /\ dirs' = [dirs EXCEPT ![l].session = "writing"]
  /\ UNCHANGED <<objects, synced, attempts, serial, returned>>

WriteBytes(l, c) ==
  /\ dirs[l].session = "writing"
  /\ dirs[l].data # c
  /\ dirs' = [dirs EXCEPT ![l].data = c]
  /\ UNCHANGED <<objects, synced, attempts, serial, returned>>

EndSession(l) ==
  /\ Locked(dirs, l)
  /\ dirs' = [dirs EXCEPT ![l].session = "free"]
  /\ UNCHANGED <<objects, synced, attempts, serial, returned>>

Crash ==
  /\ "crash" \in DiskFaults
  /\ dirs' = Unlocked(dirs)
  /\ UNCHANGED <<objects, synced, attempts, serial, returned>>

\* Receipts and Prepared files whose directory was not synced may be lost.
PowerLoss ==
  /\ "power" \in DiskFaults
  /\ \E gone \in SUBSET (Published \ synced) :
       /\ objects' = [k \in Key |-> IF k \in gone THEN NoObject ELSE objects[k]]
       /\ synced' = Published \ gone
  /\ \E gone \in SUBSET {x \in Op \X Key :
                           attempts[x] # NoAttempt /\ ~attempts[x].synced} :
       attempts' = [x \in Op \X Key |-> IF x \in gone THEN NoAttempt ELSE SettledAttempts[x]]
  /\ \E lost \in SUBSET Volatile(dirs) : dirs' = AfterPowerLoss(dirs, lost)
  /\ UNCHANGED <<serial, returned>>

\* The targets prepare has handed out.
Targets == {attempts[x].target : x \in {y \in Op \X Key : attempts[y] # NoAttempt}}

Call ==
  \/ \E k \in Key : Inspect(k) \/ PrepareRefused(k)
  \/ \E receipt \in returned : Open(receipt)
  \/ \E op \in Op, view \in View :
       \/ \E k \in Key : PrepareNew(op, k, view)
       \/ \E target \in Targets :
            \/ \E evidence \in Content : AnyCommit(op, target, view, evidence)
            \/ ResumeCommit(op, target, view)

Mover ==
  \/ \E k \in Published : BeginRead(objects[k].payload)
  \/ \E target \in Targets :
       \/ BeginWrite(target.payload)
       \/ \E c \in Content : WriteBytes(target.payload, c)
  \/ \E l \in Id : EndSession(l)

Next == Call \/ Mover \/ Crash \/ PowerLoss

Spec == Init /\ [][Next]_vars

-----------------------------------------------------------------------------
(* Properties.                                                             *)

\* Every variable has its type.
TypeOK ==
  /\ objects \in [Key -> Committed \cup {NoObject}]
  /\ synced \subseteq Published
  /\ attempts \in [Op \X Key -> Prepared \cup {NoAttempt}]
  /\ dirs \in [Id -> Layout]
  /\ serial \in 1 .. MaxId + 1
  /\ returned \subseteq ArchiveReceipt

(***************************************************************************)
(* Every receipt file names a payload that exists, is durably sealed and   *)
(* holds the bytes the receipt states: commit seals before it links, and   *)
(* no session of a slow or repeated copy can write the payload afterwards. *)
(***************************************************************************)
CommittedIntact ==
  \A k \in Published :
    LET payload == dirs[objects[k].payload]
    IN /\ objects[k].receipt.key = k
       /\ payload.there
       /\ payload.seal = "sealed"
       /\ payload.data = objects[k].receipt.content

(***************************************************************************)
(* A receipt a caller has seen, from commit, resume_commit or inspect, is  *)
(* the durable one of its key: committed syncs objects/ before it answers, *)
(* so no power loss withdraws it and no later attempt gets another.        *)
(***************************************************************************)
ReceiptsDurable ==
  \A r \in returned : r.key \in synced /\ objects[r.key].receipt = r

(***************************************************************************)
(* Two attempts never share a payload directory, and a committed payload   *)
(* belongs to no attempt for another key: what prepare hands out is        *)
(* private to the attempt, whatever Prepared files a power loss removed.   *)
(***************************************************************************)
PayloadsPrivate ==
  \A x \in Op \X Key :
    attempts[x] # NoAttempt =>
      /\ dirs[attempts[x].target.payload].there
      /\ attempts[x].target.key = x[2]
      /\ \A y \in Op \X Key :
           attempts[y] # NoAttempt /\ attempts[y].target.payload = attempts[x].target.payload
             => y = x
      /\ \A k \in Published : objects[k].payload = attempts[x].target.payload => k = x[2]

Contract == INSTANCE ArchiveContract WITH
  Nothing <- NoObject,
  catalog <- [k \in Key |-> IF k \in synced
                              THEN [receipt |-> objects[k].receipt,
                                    bytes |-> dirs[objects[k].payload].data]
                              ELSE NoObject],
  issued <- returned

\* The receipt files that are durable, with the payloads they name,
\* implement the promise of the trait through crashes and power losses.
ImplementsContract == Contract!Spec
=============================================================================
