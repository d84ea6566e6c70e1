--------------------------- MODULE HsmEngine_proofs ---------------------------
(***************************************************************************)
(* What the engine promises over its two adapters, for every value of the  *)
(* constants: no anchor without its bytes, no entity without a copy, no    *)
(* transfer that is disturbed, no result that a restart takes back.        *)
(*                                                                         *)
(* The adapters are used through their own theorems: S and A are the       *)
(* storage and the archive of module HsmEngine, with what is proved about  *)
(* their operations.                                                       *)
(***************************************************************************)
EXTENDS HsmEngine, TLAPS

S == INSTANCE LocalStorage_proofs WITH
  Receipt <- {}, AskedData <- {}, Uses <- Op \X StepNames

A == INSTANCE LocalArchive_proofs WITH
  Data <- Storage!DataKey, View <- Storage!DataView

-----------------------------------------------------------------------------
(* What a task holds while its call is on its way.                         *)

Archiving(t) == Plan[t].kind = "Archive"
Releasing(t) == Plan[t].kind = "Release"
Recalling(t) == Plan[t].kind = "Recall"

TaskState ==
  [pc: Labels,
   expected: S!EntityState \cup {NoValue},
   view: S!DataView \cup {NoValue},
   receipt: A!ArchiveReceipt \cup {NoValue},
   target: A!ArchiveTarget \cup S!RecallTarget \cup {NoValue},
   evidence: Content \cup {NoValue}]

\* Where each kind of action can be.
LabelsOf(t) ==
  {"new", "ready", "done", "failed"} \cup
    IF Archiving(t)
      THEN {"pin", "lookup", "stage", "resume", "copy", "copying", "commit", "bind"}
    ELSE IF Releasing(t) THEN {"inspect", "verify", "release"}
    ELSE {"lookup", "pin", "open", "copy", "copying", "commit"}

Within(t, labels) == tasks[t].pc \in labels

\* The observation was an answer of the source: its anchors were bound.
Observed(t) ==
  LET expected == tasks[t].expected
  IN /\ expected \in S!EntityState
     /\ expected.anchors \subseteq returned
     /\ \A a \in expected.anchors : a.content = expected.content

HoldsView(t) ==
  LET view == tasks[t].view
  IN /\ view \in S!DataView
     /\ view.data = DataOf(t)
     /\ S!ViewIntact(view, layouts, fresh)

HoldsReceipt(t) == tasks[t].receipt \in returned /\ tasks[t].receipt.key = Plan[t].key

HoldsAttempt(t) ==
  tasks[t].target \in A!ArchiveTarget /\ tasks[t].target.key = Plan[t].key

HoldsTarget(t) ==
  LET target == tasks[t].target
  IN /\ target \in S!RecallTarget
     /\ target.data = DataOf(t) /\ target.archive = Plan[t].key

Anchored(t) == \E a \in tasks[t].expected.anchors : a.key = Plan[t].key

\* The directories of a transfer, one of the source and one of the archive.
LayoutOf(t) == IF Archiving(t) THEN tasks[t].view.source ELSE tasks[t].target.layout_id
PayloadOf(t) == IF Archiving(t) THEN tasks[t].target.payload ELSE objects[Plan[t].key].payload

\* Both locks are held, the one of the destination for writing.
HoldsLocks(t) ==
  /\ layouts[LayoutOf(t)].there
  /\ layouts[LayoutOf(t)].session = IF Archiving(t) THEN "reading" ELSE "writing"
  /\ dirs[PayloadOf(t)].session = IF Archiving(t) THEN "writing" ELSE "reading"

HasOutcome(t) == \A s \in S!Documents : S!Outcome(s, Plan[t].op, DataOf(t), ActionOf(t))

TaskKept(t) ==
  /\ tasks[t].pc \in LabelsOf(t)
  /\ ~At(t, "new") => Observed(t)
  /\ Archiving(t) =>
       /\ Within(t, {"lookup", "stage", "resume", "copy", "copying", "commit", "bind"})
            => HoldsView(t)
       /\ Within(t, {"resume", "copy", "copying", "commit"}) => HoldsAttempt(t)
       /\ At(t, "bind") => HoldsReceipt(t)
  /\ Recalling(t) =>
       /\ Within(t, {"lookup", "pin", "open", "copy", "copying", "commit"}) => Anchored(t)
       /\ Within(t, {"copy", "copying", "commit", "open"}) => HoldsTarget(t)
  /\ At(t, "copying") => HoldsLocks(t)
  /\ At(t, "done") => HasOutcome(t)

Apart ==
  \A t, u \in Task : At(t, "copying") /\ At(u, "copying") /\ t # u =>
    LayoutOf(t) # LayoutOf(u) /\ PayloadOf(t) # PayloadOf(u)

(***************************************************************************)
(* The inductive invariant: those of the adapters, what the documents of   *)
(* the source say of answers and of receipts the archive has returned, and *)
(* what the calls that are on their way hold.                              *)
(***************************************************************************)
EngineInv ==
  /\ S!StorageInv
  /\ A!ArchiveInv
  /\ \A s \in S!Documents : S!Reliable(s, returned, layouts, fresh)
  /\ budget \in 0 .. Budget
  /\ tasks \in [Task -> TaskState]
  /\ \A t \in Task : TaskKept(t)
  /\ Apart

-----------------------------------------------------------------------------
(* The adapters of the engine are those the theorems are about.            *)

LEMMA SourceAssumed ==
  /\ NoLayout \notin S!Id
  /\ {} \subseteq S!ArchiveReceipt
  /\ {} \subseteq S!DataKey
  /\ Faults \subseteq S!FaultKind
  /\ NoEntity \notin S!EntityRecord
  /\ NoStep \notin S!SavedStep
  /\ NoOutcome \notin S!Completed
BY AdapterAssumption
   DEF Id, S!Id, Storage!Id, S!FaultKind, Storage!FaultKind, S!EntityRecord, Storage!EntityRecord,
       S!SavedStep, Storage!SavedStep, S!Completed, Storage!Completed, S!EntityState,
       Storage!EntityState, S!ArchiveReceipt, Storage!ArchiveReceipt, S!DataKey, Storage!DataKey,
       S!DataView, Storage!DataView, S!RecallTarget, Storage!RecallTarget, S!Request,
       Storage!Request, S!StepValue, Storage!StepValue, S!SavedFailure, Storage!SavedFailure,
       S!ManagedAction, Storage!ManagedAction

LEMMA ArchiveAssumed ==
  /\ \A v \in Storage!DataView : v.data \in Storage!DataKey /\ v.content \in Content
  /\ DiskFaults \subseteq A!DiskFaultKind
  /\ NoObject \notin A!Committed
                     \cup [receipt: A!ArchiveReceipt, bytes: Content \cup {NoData}]
  /\ NoAttempt \notin A!Prepared
<1>1. \A v \in Storage!DataView : v.data \in Storage!DataKey /\ v.content \in Content
  BY DEF Storage!DataView
<1> QED
  BY <1>1, AdapterAssumption
     DEF A!DiskFaultKind, Backend!DiskFaultKind, A!Committed, Backend!Committed, A!ArchiveReceipt,
         Backend!ArchiveReceipt, A!Prepared, Backend!Prepared, A!ArchiveTarget,
         Backend!ArchiveTarget, A!Id, Backend!Id

LEMMA SourceTypes ==
  /\ Storage!EntityState = S!EntityState /\ Storage!DataView = S!DataView
  /\ Storage!RecallTarget = S!RecallTarget /\ Storage!DataKey = S!DataKey
  /\ Storage!Healthy = S!Healthy /\ Storage!Id = S!Id /\ Id = S!Id
BY DEF Id, Storage!Id, S!Id, Storage!EntityState, S!EntityState, Storage!DataKey, S!DataKey,
       Storage!ArchiveReceipt, S!ArchiveReceipt, Storage!DataView, S!DataView,
       Storage!RecallTarget, S!RecallTarget, Storage!Healthy, S!Healthy

LEMMA SamePrepareArchive ==
  \A op, data :
    /\ Storage!PrepareArchive(op, data) <=> S!PrepareArchive(op, data)
BY DEF Storage!PrepareArchive, S!PrepareArchive, Storage!PrepareArchiveError,
       S!PrepareArchiveError, Storage!NewView, S!NewView, Storage!Pinned, S!Pinned,
       Storage!Id, S!Id, Storage!Healthy, S!Healthy, Storage!Step, S!Step,
       Storage!AfterStep, S!AfterStep, Storage!Persist, S!Persist, Storage!PersistOk,
       S!PersistOk, Storage!PersistUnsynced, S!PersistUnsynced, Storage!PersistFailed,
       S!PersistFailed, Storage!docs, S!docs, Storage!EntityError, S!EntityError,
       Storage!FinishError, S!FinishError, Storage!Finished, S!Finished, Storage!Moved,
       S!Moved, Storage!Locked, S!Locked

LEMMA SameCommitArchive ==
  \A op, view, receipt :
    /\ Storage!CommitArchive(op, view, receipt) <=> S!CommitArchive(op, view, receipt)
BY DEF Storage!CommitArchive, S!CommitArchive, Storage!CommitArchiveError,
       S!CommitArchiveError, Storage!CommittedArchive, S!CommittedArchive,
       Storage!Archived, S!Archived, Storage!Binds, S!Binds, Storage!ArchiveTo,
       S!ArchiveTo, Storage!Healthy, S!Healthy, Storage!Step, S!Step, Storage!AfterStep,
       S!AfterStep, Storage!Persist, S!Persist, Storage!PersistOk, S!PersistOk,
       Storage!PersistUnsynced, S!PersistUnsynced, Storage!PersistFailed,
       S!PersistFailed, Storage!docs, S!docs, Storage!EntityError, S!EntityError,
       Storage!FinishError, S!FinishError, Storage!Finished, S!Finished, Storage!Moved,
       S!Moved, Storage!Locked, S!Locked

LEMMA SameRelease ==
  \A op, expected :
    /\ Storage!Release(op, expected) <=> S!Release(op, expected)
BY DEF Storage!Release, S!Release, Storage!ReleaseError, S!ReleaseError,
       Storage!CommittedRelease, S!CommittedRelease, Storage!Released, S!Released,
       Storage!ReleaseIt, S!ReleaseIt, Storage!Pinned, S!Pinned, Storage!Healthy,
       S!Healthy, Storage!Step, S!Step, Storage!AfterStep, S!AfterStep, Storage!Persist,
       S!Persist, Storage!PersistOk, S!PersistOk, Storage!PersistUnsynced,
       S!PersistUnsynced, Storage!PersistFailed, S!PersistFailed, Storage!docs, S!docs,
       Storage!EntityError, S!EntityError, Storage!FinishError, S!FinishError,
       Storage!Finished, S!Finished, Storage!Moved, S!Moved, Storage!Locked, S!Locked

LEMMA SamePrepareRecall ==
  \A op, expected, anchor :
    /\ Storage!PrepareRecall(op, expected, anchor) <=> S!PrepareRecall(op, expected, anchor)
BY DEF Storage!PrepareRecall, S!PrepareRecall, Storage!PrepareRecallError,
       S!PrepareRecallError, Storage!NewTarget, S!NewTarget, Storage!NewLayout,
       S!NewLayout, Storage!Id, S!Id, Storage!Healthy, S!Healthy, Storage!Step, S!Step,
       Storage!AfterStep, S!AfterStep, Storage!Persist, S!Persist, Storage!PersistOk,
       S!PersistOk, Storage!PersistUnsynced, S!PersistUnsynced, Storage!PersistFailed,
       S!PersistFailed, Storage!docs, S!docs, Storage!EntityError, S!EntityError,
       Storage!FinishError, S!FinishError, Storage!Finished, S!Finished, Storage!Moved,
       S!Moved, Storage!Locked, S!Locked

LEMMA SameCommitRecall ==
  \A op, target, evidence :
    /\ Storage!CommitRecallRefused(op, target, evidence) <=> S!CommitRecallRefused(op, target, evidence)
    /\ Storage!CommitRecall(op, target, evidence) <=> S!CommitRecall(op, target, evidence)
    /\ Storage!CommitRecallSealUncertain(op, target, evidence) <=> S!CommitRecallSealUncertain(op, target, evidence)
BY DEF Storage!CommitRecallRefused, S!CommitRecallRefused, Storage!CommitRecall,
       S!CommitRecall, Storage!CommitRecallSealUncertain, S!CommitRecallSealUncertain,
       Storage!VerifyRecallError, S!VerifyRecallError, Storage!CommittedRecall,
       S!CommittedRecall, Storage!Recalled, S!Recalled, Storage!RecallRequest,
       S!RecallRequest, Storage!RecallFrom, S!RecallFrom, Storage!ReadBackMatches,
       S!ReadBackMatches, Storage!SavedFailure, S!SavedFailure, Storage!Seal, S!Seal,
       Storage!SealUnsynced, S!SealUnsynced, Storage!Healthy, S!Healthy, Storage!Step,
       S!Step, Storage!AfterStep, S!AfterStep, Storage!Persist, S!Persist,
       Storage!PersistOk, S!PersistOk, Storage!PersistUnsynced, S!PersistUnsynced,
       Storage!PersistFailed, S!PersistFailed, Storage!docs, S!docs,
       Storage!EntityError, S!EntityError, Storage!FinishError, S!FinishError,
       Storage!Finished, S!Finished, Storage!Moved, S!Moved, Storage!Locked, S!Locked

LEMMA SameReplay ==
  \A op, name, request :
    /\ Storage!Replay(op, name, request) <=> S!Replay(op, name, request)
BY DEF Storage!Replay, S!Replay, Storage!FingerprintMatches, S!FingerprintMatches,
       Storage!Healthy, S!Healthy

LEMMA SameImport ==
  \A e, c :
    /\ Storage!Import(e, c) <=> S!Import(e, c)
BY DEF Storage!Import, S!Import, Storage!Imported, S!Imported, Storage!SealedLayout,
       S!SealedLayout, Storage!Id, S!Id, Storage!Healthy, S!Healthy, Storage!Persist,
       S!Persist, Storage!PersistOk, S!PersistOk, Storage!PersistUnsynced,
       S!PersistUnsynced, Storage!PersistFailed, S!PersistFailed

LEMMA SameSystem ==
  /\ Storage!CollectGarbage <=> S!CollectGarbage
  /\ Storage!CollectGarbageStops <=> S!CollectGarbageStops
  /\ Storage!Crash <=> S!Crash
  /\ Storage!PowerLoss <=> S!PowerLoss
  /\ Storage!Reopen <=> S!Reopen
  /\ Storage!Init <=> S!Init
BY DEF Storage!CollectGarbage, S!CollectGarbage, Storage!CollectGarbageStops,
       S!CollectGarbageStops, Storage!Crash, S!Crash, Storage!PowerLoss, S!PowerLoss,
       Storage!Reopen, S!Reopen, Storage!Init, S!Init, Storage!EmptyState, S!EmptyState,
       Storage!StepName, S!StepName, Storage!Remove, S!Remove, Storage!Removed,
       S!Removed, Storage!Unlocked, S!Unlocked, Storage!Volatile, S!Volatile,
       Storage!AfterPowerLoss, S!AfterPowerLoss, Storage!Id, S!Id, Storage!Healthy,
       S!Healthy, Storage!Persist, S!Persist, Storage!PersistOk, S!PersistOk,
       Storage!PersistUnsynced, S!PersistUnsynced, Storage!PersistFailed,
       S!PersistFailed, Storage!docs, S!docs, Storage!Locked, S!Locked

LEMMA SameSessions ==
  \A l, c :
    /\ Storage!BeginRead(l) <=> S!BeginRead(l)
    /\ Storage!BeginWrite(l) <=> S!BeginWrite(l)
    /\ Storage!WriteBytes(l, c) <=> S!WriteBytes(l, c)
    /\ Storage!EndSession(l) <=> S!EndSession(l)
BY DEF Storage!BeginRead, S!BeginRead, Storage!BeginWrite, S!BeginWrite,
       Storage!WriteBytes, S!WriteBytes, Storage!EndSession, S!EndSession,
       Storage!Locked, S!Locked, Storage!Fenced, S!Fenced, Storage!docs, S!docs

LEMMA ArchiveTypes ==
  /\ Backend!ArchiveReceipt = A!ArchiveReceipt /\ Backend!ArchiveTarget = A!ArchiveTarget
  /\ Backend!Published = A!Published /\ Id = A!Id
BY DEF Id, Backend!ArchiveReceipt, A!ArchiveReceipt, Backend!ArchiveTarget, A!ArchiveTarget,
       Backend!Published, A!Published, Backend!Id, A!Id

LEMMA SameAnswers ==
  \A k, receipt :
    /\ Backend!Inspect(k) <=> A!Inspect(k)
    /\ Backend!PrepareRefused(k) <=> A!PrepareRefused(k)
    /\ Backend!Open(receipt) <=> A!Open(receipt)
BY DEF Backend!Inspect, A!Inspect, Backend!PrepareRefused, A!PrepareRefused,
       Backend!Open, A!Open, Backend!CommittedIs, A!CommittedIs, Backend!PayloadMatches,
       A!PayloadMatches, Backend!Published, A!Published, Backend!SettleObjects,
       A!SettleObjects, Backend!Return, A!Return

LEMMA SamePrepareNew ==
  \A op, k, view :
    /\ Backend!PrepareNew(op, k, view) <=> A!PrepareNew(op, k, view)
BY DEF Backend!PrepareNew, A!PrepareNew, Backend!Published, A!Published,
       Backend!NewLayout, A!NewLayout, Backend!NewTarget, A!NewTarget,
       Backend!SettledAttempts, A!SettledAttempts, Backend!Id, A!Id

LEMMA SameCommits ==
  \A op, target, view, evidence :
    /\ Backend!OwnsTarget(op, target, view) <=> A!OwnsTarget(op, target, view)
    /\ Backend!CommitAgain(op, target, view) <=> A!CommitAgain(op, target, view)
    /\ Backend!Commit(op, target, view, evidence) <=> A!Commit(op, target, view, evidence)
    /\ Backend!CommitUnsynced(op, target, view, evidence) <=> A!CommitUnsynced(op, target, view, evidence)
    /\ Backend!CommitStopsSealed(op, target, view, evidence) <=> A!CommitStopsSealed(op, target, view, evidence)
    /\ Backend!CommitSealUncertain(op, target, view, evidence) <=> A!CommitSealUncertain(op, target, view, evidence)
BY DEF Backend!OwnsTarget, A!OwnsTarget, Backend!Owns, A!Owns, Backend!Target, A!Target,
       Backend!CommitAgain, A!CommitAgain, Backend!Commit, A!Commit,
       Backend!CommitUnsynced, A!CommitUnsynced, Backend!CommitStopsSealed,
       A!CommitStopsSealed, Backend!CommitSealUncertain, A!CommitSealUncertain,
       Backend!CanCommit, A!CanCommit, Backend!Verified, A!Verified, Backend!NewReceipt,
       A!NewReceipt, Backend!Publish, A!Publish, Backend!Published, A!Published,
       Backend!CommittedIs, A!CommittedIs, Backend!PayloadMatches, A!PayloadMatches,
       Backend!SettleObjects, A!SettleObjects, Backend!Return, A!Return, Backend!Seal,
       A!Seal, Backend!SealUnsynced, A!SealUnsynced, Backend!Locked, A!Locked,
       Backend!Id, A!Id

LEMMA SameArchiveSessions ==
  \A l, c :
    /\ Backend!BeginRead(l) <=> A!BeginRead(l)
    /\ Backend!BeginWrite(l) <=> A!BeginWrite(l)
    /\ Backend!WriteBytes(l, c) <=> A!WriteBytes(l, c)
    /\ Backend!EndSession(l) <=> A!EndSession(l)
BY DEF Backend!BeginRead, A!BeginRead, Backend!BeginWrite, A!BeginWrite,
       Backend!WriteBytes, A!WriteBytes, Backend!EndSession, A!EndSession,
       Backend!Locked, A!Locked, Backend!Fenced, A!Fenced

LEMMA SameDisasters ==
  /\ Backend!Crash <=> A!Crash
  /\ Backend!PowerLoss <=> A!PowerLoss
  /\ Backend!Init <=> A!Init
BY DEF Backend!Crash, A!Crash, Backend!PowerLoss, A!PowerLoss, Backend!Init, A!Init,
       Backend!Removed, A!Removed, Backend!Unlocked, A!Unlocked, Backend!Volatile,
       A!Volatile, Backend!AfterPowerLoss, A!AfterPowerLoss, Backend!SettledAttempts,
       A!SettledAttempts, Backend!Published, A!Published, Backend!Id, A!Id

-----------------------------------------------------------------------------
(* What every step keeps, of the adapters and of the other tasks.          *)

AdaptersKept ==
  /\ S!StorageInv' /\ A!ArchiveInv'
  /\ (\A s \in S!Documents : S!Reliable(s, returned, layouts, fresh))'
  /\ S!LayoutsFrame /\ S!OutcomesFrame /\ A!Keeps

\* No call of the archive touches the lock of a directory.
DirsFrame == \A l \in Id : Locked(dirs, l) => dirs'[l].session = dirs[l].session

SessionsKept == (\A l \in Id : S!SessionFrame(l)) /\ DirsFrame

LEMMA EngineParts ==
  ASSUME EngineInv
  PROVE  /\ S!StorageInv /\ A!ArchiveInv /\ S!CallsInv(returned)
         /\ layouts \in [Id -> Layout] /\ dirs \in [Id -> Layout]
         /\ S!Id = Id /\ A!Id = Id /\ S!Layout = Layout /\ A!Layout = Layout
         /\ fresh \in Nat /\ serial \in Nat
<1>1. S!Id = Id /\ A!Id = Id /\ S!Layout = Layout /\ A!Layout = Layout
  BY DEF Id, S!Id, A!Id, Layout, S!Layout, A!Layout
<1>2. S!StorageInv /\ A!ArchiveInv /\ S!CallsInv(returned)
  BY DEF EngineInv, S!CallsInv
<1>3. layouts \in [Id -> Layout] /\ dirs \in [Id -> Layout] /\ fresh \in Nat /\ serial \in Nat
  BY <1>1, <1>2, LayoutAssumption DEF S!StorageInv, S!TypeOK, A!ArchiveInv, A!TypeOK
<1> QED
  BY <1>1, <1>2, <1>3

LEMMA SourceQuiet ==
  ASSUME EngineInv, UNCHANGED storageVars
  PROVE  /\ S!StorageInv' /\ S!LayoutsFrame /\ S!OutcomesFrame
         /\ S!Documents' = S!Documents /\ \A l \in Id : S!SessionFrame(l)
<1>1. S!StorageInv /\ fresh <= fresh' /\ layouts' = layouts /\ S!Id = Id
  BY EngineParts DEF storageVars
<1>2. S!StorageInv'
  BY <1>1, S!NextSafe, LayoutAssumption, SourceAssumed DEF storageVars, S!vars
<1>3. S!LayoutsFrame /\ \A l \in Id : S!SessionFrame(l)
  BY <1>1, S!QuietFrame, LayoutAssumption, SourceAssumed
<1>4. S!Documents' = S!Documents
  BY DEF storageVars, S!Documents
<1>5. S!OutcomesFrame
  BY <1>4 DEF S!OutcomesFrame, S!Continues, S!Outcome
<1> QED
  BY <1>2, <1>3, <1>4, <1>5

LEMMA ArchiveQuiet ==
  ASSUME EngineInv, UNCHANGED archiveVars
  PROVE  A!ArchiveInv' /\ A!Keeps /\ DirsFrame
<1>1. A!ArchiveInv' /\ A!Keeps
  BY EngineParts, A!NextKeeps, LayoutAssumption, ArchiveAssumed DEF archiveVars, A!vars
<1> QED
  BY <1>1 DEF archiveVars, DirsFrame

LEMMA SourceCall ==
  ASSUME EngineInv, S!CallKept(returned), UNCHANGED archiveVars
  PROVE  AdaptersKept /\ SessionsKept
<1>1. A!ArchiveInv' /\ A!Keeps /\ DirsFrame /\ S!Id = Id /\ returned' = returned
  BY ArchiveQuiet, EngineParts DEF archiveVars
<1> QED
  BY <1>1 DEF S!CallKept, AdaptersKept, SessionsKept

LEMMA ArchiveCall ==
  ASSUME EngineInv, UNCHANGED storageVars, A!ArchiveInv', A!Keeps, DirsFrame
  PROVE  AdaptersKept /\ SessionsKept
<1>1. /\ S!StorageInv' /\ S!LayoutsFrame /\ S!OutcomesFrame
      /\ S!Documents' = S!Documents /\ \A l \in Id : S!SessionFrame(l)
  BY SourceQuiet
<1>2. returned \subseteq returned' /\ layouts' = layouts /\ fresh' = fresh
  BY DEF A!Keeps, storageVars
<1>3. ASSUME NEW s \in S!Documents PROVE S!Reliable(s, returned', layouts', fresh')
  BY <1>2, <1>3 DEF EngineInv, S!Reliable, S!AnchorsFrom
<1> QED
  BY <1>1, <1>3 DEF AdaptersKept, SessionsKept

LEMMA QuietCall ==
  ASSUME EngineInv, UNCHANGED storageVars, UNCHANGED archiveVars
  PROVE  AdaptersKept /\ SessionsKept
BY ArchiveQuiet, ArchiveCall

\* An anchor an observation names, or a receipt, is durable in the archive.
LEMMA ReturnedKept ==
  ASSUME EngineInv, NEW a \in returned
  PROVE  /\ a.key \in synced /\ objects[a.key].receipt = a
         /\ a.key \in Key /\ objects[a.key] # NoObject
         /\ objects[a.key].payload \in Id
         /\ dirs[objects[a.key].payload].there
         /\ dirs[objects[a.key].payload].seal = "sealed"
         /\ dirs[objects[a.key].payload].data = a.content
<1>1. A!ArchiveInv /\ A!Id = Id
  BY EngineParts
<1>2. a.key \in synced /\ objects[a.key].receipt = a /\ a \in A!ArchiveReceipt
  BY <1>1 DEF A!ArchiveInv, A!ReceiptsDurable, A!TypeOK
<1>3. a.key \in Key /\ objects[a.key] # NoObject
  BY <1>1, <1>2 DEF A!ArchiveInv, A!TypeOK, A!Published
<1>4. objects[a.key].payload \in A!Id
  BY <1>1, <1>3 DEF A!ArchiveInv, A!TypeOK, A!Committed
<1>5. A!ObjectKept(objects[a.key], a.key, dirs, serial)
  BY <1>1, <1>3 DEF A!ArchiveInv, A!ObjectsKept
<1> QED
  BY <1>1, <1>2, <1>3, <1>4, <1>5 DEF A!ObjectKept

\* The directories of a transfer, and what they are for as long as it runs.
LEMMA TransferParts ==
  ASSUME EngineInv, NEW t \in Task, Within(t, {"copy", "copying", "commit"})
  PROVE  /\ Archiving(t) \/ Recalling(t)
         /\ LayoutOf(t) \in Id /\ PayloadOf(t) \in Id
         /\ Recalling(t) => /\ Plan[t].key \in synced
                            /\ dirs[PayloadOf(t)].seal = "sealed"
                            /\ dirs[PayloadOf(t)].data = tasks[t].expected.content
<1>1. TaskKept(t) /\ ~At(t, "new")
  BY DEF EngineInv, Within, At
<1>2. Archiving(t) \/ Recalling(t)
  <2>1. tasks[t].pc \in LabelsOf(t)
    BY <1>1 DEF TaskKept
  <2>2. Plan[t].kind \in {"Archive", "Release", "Recall"}
    BY EngineAssumption
  <2> QED
    BY <2>1, <2>2 DEF LabelsOf, Within, Archiving, Releasing, Recalling
<1>3. Archiving(t) /\ Recalling(t) => FALSE
  BY DEF Archiving, Recalling
<1>4. CASE Archiving(t)
  <2>1. HoldsView(t) /\ HoldsAttempt(t)
    BY <1>1, <1>4 DEF TaskKept, Within
  <2>2. tasks[t].view.source \in Id /\ tasks[t].target.payload \in Id
    BY <2>1, EngineParts DEF HoldsView, HoldsAttempt, S!DataView, A!ArchiveTarget
  <2> QED
    BY <1>3, <1>4, <2>2 DEF LayoutOf, PayloadOf
<1>5. CASE Recalling(t)
  <2>1. Anchored(t) /\ HoldsTarget(t) /\ Observed(t)
    BY <1>1, <1>5 DEF TaskKept, Within
  <2>2. PICK a \in tasks[t].expected.anchors : a.key = Plan[t].key
    BY <2>1 DEF Anchored
  <2>3. a \in returned /\ a.content = tasks[t].expected.content
    BY <2>1, <2>2 DEF Observed
  <2>4. tasks[t].target.layout_id \in Id
    BY <2>1, EngineParts DEF HoldsTarget, S!RecallTarget
  <2> QED
    BY <1>3, <1>5, <2>2, <2>3, <2>4, ReturnedKept DEF LayoutOf, PayloadOf
<1> QED
  BY <1>2, <1>4, <1>5

-----------------------------------------------------------------------------
(* What a task holds stays good while the adapters move on.                *)

LEMMA HoldingStays ==
  ASSUME EngineInv, AdaptersKept, NEW t \in Task, tasks'[t].expected = tasks[t].expected
  PROVE  /\ Observed(t) => Observed(t)'
         /\ HoldsView(t) /\ tasks'[t].view = tasks[t].view => HoldsView(t)'
         /\ HoldsReceipt(t) /\ tasks'[t].receipt = tasks[t].receipt => HoldsReceipt(t)'
         /\ HoldsAttempt(t) /\ tasks'[t].target = tasks[t].target => HoldsAttempt(t)'
         /\ HoldsTarget(t) /\ tasks'[t].target = tasks[t].target => HoldsTarget(t)'
         /\ Anchored(t) => Anchored(t)'
         /\ HasOutcome(t) => HasOutcome(t)'
<1>1. returned \subseteq returned' /\ S!LayoutsFrame /\ S!OutcomesFrame
  BY DEF AdaptersKept, A!Keeps
<1>2. Observed(t) => Observed(t)'
  BY <1>1 DEF Observed
<1>3. ASSUME HoldsView(t), tasks'[t].view = tasks[t].view PROVE HoldsView(t)'
  <2>1. tasks[t].view \in S!DataView /\ S!ViewIntact(tasks[t].view, layouts, fresh)
    BY <1>3 DEF HoldsView
  <2>2. tasks[t].view.source \in S!Id /\ tasks[t].view.source \in Nat
    BY <2>1 DEF S!DataView, S!Id
  <2>3. fresh \in Nat /\ fresh' \in Nat
    BY EngineParts, LayoutAssumption DEF AdaptersKept, S!StorageInv, S!TypeOK
  <2>4. S!ViewIntact(tasks[t].view, layouts', fresh')
    BY <1>1, <2>1, <2>2, <2>3 DEF S!LayoutsFrame, S!ViewIntact
  <2> QED
    BY <1>3, <2>4 DEF HoldsView, DataOf
<1>4. HoldsReceipt(t) /\ tasks'[t].receipt = tasks[t].receipt => HoldsReceipt(t)'
  BY <1>1 DEF HoldsReceipt
<1>5. /\ HoldsAttempt(t) /\ tasks'[t].target = tasks[t].target => HoldsAttempt(t)'
      /\ HoldsTarget(t) /\ tasks'[t].target = tasks[t].target => HoldsTarget(t)'
      /\ Anchored(t) => Anchored(t)'
  BY DEF HoldsAttempt, HoldsTarget, Anchored, DataOf
<1>6. ASSUME HasOutcome(t) PROVE HasOutcome(t)'
  <2> SUFFICES ASSUME NEW s \in S!Documents'
               PROVE  S!Outcome(s, Plan[t].op, DataOf(t), ActionOf(t))
    BY DEF HasOutcome, DataOf, ActionOf
  <2>1. PICK r \in S!Documents : S!Continues(r, s)
    BY <1>1 DEF S!OutcomesFrame
  <2>2. S!Outcome(r, Plan[t].op, DataOf(t), ActionOf(t))
    BY <1>6 DEF HasOutcome
  <2>3. Plan[t].op \in Op
    BY EngineAssumption
  <2> QED
    BY <2>1, <2>2, <2>3 DEF S!Continues, S!Outcome
<1> QED
  BY <1>2, <1>3, <1>4, <1>5, <1>6

\* The directories of a transfer stay the same ones.
LEMMA TransferStays ==
  ASSUME EngineInv, AdaptersKept, NEW t \in Task, tasks'[t] = tasks[t],
         Within(t, {"copy", "copying", "commit"})
  PROVE  LayoutOf(t)' = LayoutOf(t) /\ PayloadOf(t)' = PayloadOf(t)
<1>1. Recalling(t) => objects'[Plan[t].key] = objects[Plan[t].key]
  BY TransferParts DEF AdaptersKept, A!Keeps
<1>2. Archiving(t) \/ Recalling(t)
  BY TransferParts
<1> QED
  BY <1>1, <1>2 DEF LayoutOf, PayloadOf, Archiving, Recalling

\* Its locks are left alone.
LocksStay(t) ==
  /\ layouts'[LayoutOf(t)].there = layouts[LayoutOf(t)].there
  /\ layouts'[LayoutOf(t)].session = layouts[LayoutOf(t)].session
  /\ dirs'[PayloadOf(t)].session = dirs[PayloadOf(t)].session

LEMMA SessionsStay ==
  ASSUME EngineInv, SessionsKept, NEW t \in Task, At(t, "copying")
  PROVE  LocksStay(t)
<1>1. LayoutOf(t) \in Id /\ PayloadOf(t) \in Id
  BY TransferParts DEF At, Within
<1>2. HoldsLocks(t)
  BY DEF EngineInv, TaskKept
<1>3. S!Locked(layouts, LayoutOf(t)) /\ Locked(dirs, PayloadOf(t))
  BY <1>2 DEF HoldsLocks, S!Locked, Locked
<1> QED
  BY <1>1, <1>3 DEF SessionsKept, S!SessionFrame, DirsFrame, LocksStay

LEMMA TaskStays ==
  ASSUME EngineInv, AdaptersKept, NEW t \in Task, tasks'[t] = tasks[t],
         (At(t, "copying") => LocksStay(t))
  PROVE  TaskKept(t)'
<1>1. TaskKept(t)
  BY DEF EngineInv
<1>2. /\ Observed(t) => Observed(t)'
      /\ HoldsView(t) => HoldsView(t)'
      /\ HoldsReceipt(t) => HoldsReceipt(t)'
      /\ HoldsAttempt(t) => HoldsAttempt(t)'
      /\ HoldsTarget(t) => HoldsTarget(t)'
      /\ Anchored(t) => Anchored(t)'
      /\ HasOutcome(t) => HasOutcome(t)'
  BY HoldingStays
<1>3. ASSUME At(t, "copying") PROVE HoldsLocks(t)'
  <2>1. HoldsLocks(t) /\ LocksStay(t)
    BY <1>1, <1>3 DEF TaskKept
  <2>2. LayoutOf(t)' = LayoutOf(t) /\ PayloadOf(t)' = PayloadOf(t)
    BY <1>3, TransferStays DEF At, Within
  <2> QED
    BY <2>1, <2>2 DEF HoldsLocks, LocksStay, Archiving
<1> QED
  <2>1. \A label : At(t, label)' <=> At(t, label)
    BY DEF At
  <2>2. \A labels : Within(t, labels)' <=> Within(t, labels)
    BY DEF Within
  <2>3. (tasks[t].pc \in LabelsOf(t))'
    BY <1>1 DEF TaskKept, LabelsOf, Archiving, Releasing
  <2>4. (Archiving(t)' <=> Archiving(t)) /\ (Recalling(t)' <=> Recalling(t))
    BY DEF Archiving, Recalling
  <2>5. (~At(t, "new") => Observed(t))' /\ (At(t, "done") => HasOutcome(t))'
    BY <1>1, <1>2, <2>1 DEF TaskKept
  <2>6. (Archiving(t) =>
          /\ Within(t, {"lookup", "stage", "resume", "copy", "copying", "commit", "bind"})
               => HoldsView(t)
          /\ Within(t, {"resume", "copy", "copying", "commit"}) => HoldsAttempt(t)
          /\ At(t, "bind") => HoldsReceipt(t))'
    BY <1>1, <1>2, <2>1, <2>2, <2>4 DEF TaskKept
  <2>7. (Recalling(t) =>
          /\ Within(t, {"lookup", "pin", "open", "copy", "copying", "commit"}) => Anchored(t)
          /\ Within(t, {"copy", "copying", "commit", "open"}) => HoldsTarget(t))'
    BY <1>1, <1>2, <2>2, <2>4 DEF TaskKept
  <2>8. (At(t, "copying") => HoldsLocks(t))'
    BY <1>3, <2>1
  <2> QED
    BY <2>3, <2>5, <2>6, <2>7, <2>8 DEF TaskKept

\* No other transfer meets a lock.
Undisturbed(t) == \A u \in Task : u # t /\ At(u, "copying") => LocksStay(u)

\* A step of task t; a transfer it starts has directories of its own.
LEMMA StepKeeps ==
  ASSUME EngineInv, AdaptersKept, budget' \in 0 .. Budget, NEW t \in Task, Undisturbed(t),
         \A u \in Task : u # t => tasks'[u] = tasks[u],
         tasks' \in [Task -> TaskState], TaskKept(t)',
         At(t, "copying")' => \A u \in Task : u # t /\ At(u, "copying") =>
           LayoutOf(t)' # LayoutOf(u) /\ PayloadOf(t)' # PayloadOf(u)
  PROVE  EngineInv'
<1>1. \A u \in Task : TaskKept(u)'
  BY TaskStays DEF Undisturbed
<1>2. ASSUME NEW u \in Task, At(u, "copying")', u # t
      PROVE  At(u, "copying") /\ LayoutOf(u)' = LayoutOf(u) /\ PayloadOf(u)' = PayloadOf(u)
  <2>1. tasks'[u] = tasks[u] /\ At(u, "copying")
    BY <1>2 DEF At
  <2> QED
    BY <2>1, TransferStays DEF At, Within
<1>3. Apart'
  <2> SUFFICES ASSUME NEW u \in Task, NEW w \in Task, At(u, "copying")', At(w, "copying")', u # w
               PROVE  LayoutOf(u)' # LayoutOf(w)' /\ PayloadOf(u)' # PayloadOf(w)'
    BY DEF Apart
  <2>1. CASE u = t
    BY <1>2, <2>1
  <2>2. CASE w = t
    BY <1>2, <2>2
  <2>3. CASE u # t /\ w # t
    BY <1>2, <2>3 DEF EngineInv, Apart
  <2> QED
    BY <2>1, <2>2, <2>3
<1> QED
  BY <1>1, <1>3 DEF EngineInv, AdaptersKept

\* The same when it starts none.
LEMMA CallKeeps ==
  ASSUME EngineInv, AdaptersKept, budget' \in 0 .. Budget, NEW t \in Task,
         SessionsKept \/ Undisturbed(t),
         \A u \in Task : u # t => tasks'[u] = tasks[u],
         tasks' \in [Task -> TaskState], TaskKept(t)', ~At(t, "copying")'
  PROVE  EngineInv'
<1>1. Undisturbed(t)
  BY SessionsStay DEF Undisturbed
<1> QED
  BY <1>1, StepKeeps

-----------------------------------------------------------------------------
(* How a call goes on.                                                     *)

LEMMA BudgetKept ==
  ASSUME EngineInv, (\E n \in {0, 1} : Costs(n)) \/ UNCHANGED budget
  PROVE  budget' \in 0 .. Budget
BY EngineAssumption DEF EngineInv, Costs

LEMMA FaultCosts == StorageFault \in {0, 1}
BY DEF StorageFault

LEMMA BecomeIs ==
  ASSUME EngineInv, NEW t \in Task, NEW task \in TaskState, Become(t, task)
  PROVE  /\ tasks' \in [Task -> TaskState] /\ tasks'[t] = task
         /\ \A u \in Task : u # t => tasks'[u] = tasks[u]
BY DEF EngineInv, Become

LEMMA TaskTyped ==
  ASSUME EngineInv, NEW t \in Task
  PROVE  tasks[t] \in TaskState /\ TaskKept(t)
BY DEF EngineInv

\* What a task holds where it goes, if it holds all it needs there.
LEMMA MoveKeeps ==
  ASSUME EngineInv, AdaptersKept, budget' \in 0 .. Budget, NEW t \in Task,
         SessionsKept \/ Undisturbed(t),
         NEW task \in TaskState, Become(t, task), ~At(t, "new"),
         task.expected = tasks[t].expected, task.pc \in LabelsOf(t) \ {"copying"},
         Archiving(t) =>
           /\ task.pc \in {"lookup", "stage", "resume", "copy", "commit", "bind"}
                => HoldsView(t)'
           /\ task.pc \in {"resume", "copy", "commit"} => HoldsAttempt(t)'
           /\ task.pc = "bind" => HoldsReceipt(t)',
         Recalling(t) =>
           /\ task.pc \in {"lookup", "pin", "open", "copy", "commit"} => Anchored(t)'
           /\ task.pc \in {"open", "copy", "commit"} => HoldsTarget(t)',
         task.pc = "done" => HasOutcome(t)'
  PROVE  EngineInv'
<1>1. /\ tasks' \in [Task -> TaskState] /\ tasks'[t] = task
      /\ \A u \in Task : u # t => tasks'[u] = tasks[u]
  BY BecomeIs
<1>2. /\ \A label : At(t, label)' <=> task.pc = label
      /\ \A labels : Within(t, labels)' <=> task.pc \in labels
      /\ LabelsOf(t)' = LabelsOf(t)
      /\ (Archiving(t)' <=> Archiving(t)) /\ (Recalling(t)' <=> Recalling(t))
  BY <1>1 DEF At, Within, LabelsOf, Archiving, Recalling, Releasing
<1>3. Observed(t) /\ Observed(t)'
  <2>1. Observed(t)
    BY DEF EngineInv, TaskKept
  <2> QED
    BY <1>1, <2>1, HoldingStays
<1>4. TaskKept(t)'
  <2>1. (tasks[t].pc \in LabelsOf(t))'
    BY <1>1, <1>2
  <2>2. (Archiving(t) =>
          /\ Within(t, {"lookup", "stage", "resume", "copy", "copying", "commit", "bind"})
               => HoldsView(t)
          /\ Within(t, {"resume", "copy", "copying", "commit"}) => HoldsAttempt(t)
          /\ At(t, "bind") => HoldsReceipt(t))'
    BY <1>2
  <2>3. (Recalling(t) =>
          /\ Within(t, {"lookup", "pin", "open", "copy", "copying", "commit"}) => Anchored(t)
          /\ Within(t, {"copy", "copying", "commit", "open"}) => HoldsTarget(t))'
    BY <1>2
  <2>4. (At(t, "copying") => HoldsLocks(t))' /\ (At(t, "done") => HasOutcome(t))'
    BY <1>2
  <2> QED
    BY <1>3, <2>1, <2>2, <2>3, <2>4 DEF TaskKept
<1>5. ~At(t, "copying")'
  BY <1>2
<1> QED
  BY <1>1, <1>4, <1>5, CallKeeps

LEMMA IdleTyped ==
  ASSUME EngineInv, NEW t \in Task, NEW label \in Labels
  PROVE  LET task == [Idle EXCEPT !.pc = label, !.expected = tasks[t].expected]
         IN /\ task \in TaskState
            /\ task.pc = label /\ task.expected = tasks[t].expected
BY TaskTyped DEF Idle, TaskState

LEMMA FailKeeps ==
  ASSUME EngineInv, AdaptersKept, budget' \in 0 .. Budget, NEW t \in Task,
         SessionsKept \/ Undisturbed(t),
         NEW error, ~At(t, "new"), Become(t, AfterError(t, error))
  PROVE  EngineInv'
<1> DEFINE label == IF error \in GivesUp THEN "failed" ELSE "ready"
           task == [Idle EXCEPT !.pc = label, !.expected = tasks[t].expected]
<1>1. label \in {"failed", "ready"} /\ label \in Labels /\ label \in LabelsOf(t)
  BY DEF Labels, LabelsOf
<1>2. Become(t, task)
  BY DEF AfterError
<1>3. task \in TaskState /\ task.pc = label /\ task.expected = tasks[t].expected
  BY <1>1, IdleTyped
<1> HIDE DEF label, task
<1> QED
  BY <1>1, <1>2, <1>3, MoveKeeps

LEMMA FinishKeeps ==
  ASSUME EngineInv, AdaptersKept, SessionsKept, budget' \in 0 .. Budget, NEW t \in Task,
         ~At(t, "new"), Become(t, [Idle EXCEPT !.pc = "done", !.expected = tasks[t].expected]),
         HasOutcome(t)'
  PROVE  EngineInv'
<1> DEFINE task == [Idle EXCEPT !.pc = "done", !.expected = tasks[t].expected]
<1>1. "done" \in Labels /\ "done" \in LabelsOf(t)
  BY DEF Labels, LabelsOf
<1>2. task \in TaskState /\ task.pc = "done" /\ task.expected = tasks[t].expected
  BY <1>1, IdleTyped
<1>3. Become(t, task)
  OBVIOUS
<1> HIDE DEF task
<1> QED
  BY <1>1, <1>2, <1>3, MoveKeeps

LEMMA GotoTyped ==
  ASSUME EngineInv, NEW t \in Task, NEW label \in Labels, Goto(t, label)
  PROVE  /\ [tasks[t] EXCEPT !.pc = label] \in TaskState
         /\ [tasks[t] EXCEPT !.pc = label].pc = label
         /\ [tasks[t] EXCEPT !.pc = label].expected = tasks[t].expected
         /\ Become(t, [tasks[t] EXCEPT !.pc = label])
         /\ tasks'[t] = [tasks[t] EXCEPT !.pc = label]
         /\ tasks'[t].expected = tasks[t].expected /\ tasks'[t].view = tasks[t].view
         /\ tasks'[t].target = tasks[t].target /\ tasks'[t].receipt = tasks[t].receipt
<1>1. tasks[t] \in TaskState
  BY TaskTyped
<1>2. [tasks[t] EXCEPT !.pc = label] \in TaskState
  BY <1>1 DEF TaskState
<1>3. Become(t, [tasks[t] EXCEPT !.pc = label])
  BY DEF Goto
<1>4. tasks'[t] = [tasks[t] EXCEPT !.pc = label]
  BY <1>2, <1>3, BecomeIs
<1> QED
  BY <1>1, <1>2, <1>3, <1>4 DEF TaskState

\* A task that goes on with what it holds.
LEMMA GotoKeeps ==
  ASSUME EngineInv, AdaptersKept, SessionsKept, budget' \in 0 .. Budget, NEW t \in Task,
         NEW label \in Labels, Goto(t, label), ~At(t, "new"),
         label \in LabelsOf(t) \ {"copying", "done"},
         Archiving(t) =>
           /\ label \in {"lookup", "stage", "resume", "copy", "commit", "bind"} => HoldsView(t)
           /\ label \in {"resume", "copy", "commit"} => HoldsAttempt(t)
           /\ label = "bind" => HoldsReceipt(t),
         Recalling(t) =>
           /\ label \in {"lookup", "pin", "open", "copy", "commit"} => Anchored(t)
           /\ label \in {"open", "copy", "commit"} => HoldsTarget(t)
  PROVE  EngineInv'
<1> DEFINE task == [tasks[t] EXCEPT !.pc = label]
<1>1. /\ task \in TaskState /\ task.pc = label /\ task.expected = tasks[t].expected
      /\ Become(t, task)
      /\ tasks'[t].expected = tasks[t].expected /\ tasks'[t].view = tasks[t].view
      /\ tasks'[t].target = tasks[t].target /\ tasks'[t].receipt = tasks[t].receipt
  BY GotoTyped
<1> HIDE DEF task
<1>2. /\ HoldsView(t) => HoldsView(t)'
      /\ HoldsReceipt(t) => HoldsReceipt(t)'
      /\ HoldsAttempt(t) => HoldsAttempt(t)'
      /\ HoldsTarget(t) => HoldsTarget(t)'
      /\ Anchored(t) => Anchored(t)'
  BY <1>1, HoldingStays
<1> QED
  BY <1>1, <1>2, MoveKeeps

-----------------------------------------------------------------------------
(* The steps of the source.                                                *)

LEMMA TaskKinds ==
  ASSUME EngineInv, NEW t \in Task
  PROVE  /\ Plan[t].op \in Op /\ Plan[t].key \in Key
         /\ Archiving(t) \/ Releasing(t) \/ Recalling(t)
         /\ ~(Archiving(t) /\ Releasing(t)) /\ ~(Archiving(t) /\ Recalling(t))
         /\ ~(Releasing(t) /\ Recalling(t))
BY EngineAssumption DEF Archiving, Releasing, Recalling

LEMMA ObservedParts ==
  ASSUME EngineInv, NEW t \in Task, ~At(t, "new")
  PROVE  /\ Observed(t) /\ tasks[t].expected \in S!EntityState /\ DataOf(t) \in S!DataKey
         /\ \A a \in tasks[t].expected.anchors :
              a \in returned /\ a \in S!ArchiveReceipt /\ a.content = tasks[t].expected.content
<1>1. Observed(t)
  BY DEF EngineInv, TaskKept
<1>2. tasks[t].expected \in S!EntityState
  BY <1>1 DEF Observed
<1> QED
  BY <1>1, <1>2 DEF Observed, S!EntityState, DataOf

\* A refusal changes nothing.
LEMMA RefusesKept ==
  ASSUME EngineInv, NEW t \in Task, NEW name, NEW request, StorageRefuses(t, name, request),
         UNCHANGED archiveVars
  PROVE  AdaptersKept /\ SessionsKept /\ up'
<1>1. UNCHANGED storageVars /\ up
  BY DEF StorageRefuses
<1>2. up'
  BY <1>1 DEF storageVars
<1> QED
  BY <1>1, <1>2, QuietCall

LEMMA ReplayKept ==
  ASSUME EngineInv, NEW t \in Task, NEW name \in StepNames, NEW request,
         Storage!Replay(Plan[t].op, name, request), UNCHANGED archiveVars
  PROVE  AdaptersKept /\ SessionsKept /\ up'
<1>1. S!Replay(Plan[t].op, name, request) /\ name \in S!StepName /\ Plan[t].op \in Op
  BY SameReplay, EngineAssumption DEF StepNames, S!StepName
<1>2. S!CallKept(returned)
  BY <1>1, EngineParts, S!ReplayCalls, LayoutAssumption, SourceAssumed
<1>3. up'
  BY <1>1 DEF S!Replay, S!Healthy
<1> QED
  BY <1>2, <1>3, SourceCall

\* What a caller holds after a step that answered: in every document.
LEMMA Answered ==
  ASSUME AdaptersKept, up', NEW t \in Task, NEW name \in StepNames, NEW request,
         StorageError(t, name, request) = "none"
  PROVE  /\ S!Documents' = {mem'}
         /\ StorageValue(t, name) \in S!ValueOf(name)
         /\ S!Means(mem', Plan[t].op, name, request, StorageValue(t, name))
         /\ name = "prepare_archive" => S!ViewIntact(StorageValue(t, name), layouts', fresh')
<1> DEFINE saved == mem'.steps[<<Plan[t].op, name>>]
<1>1. ~poisoned' /\ saved # NoStep /\ saved.request = request /\ saved.error = "none"
  BY DEF StorageError
<1>2. Plan[t].op \in Op /\ name \in S!StepName
  BY EngineAssumption DEF StepNames, S!StepName
<1>3. mem' = disk' /\ disk' = durable'
  BY <1>1 DEF AdaptersKept, S!StorageInv, S!Coherent, S!Healthy
<1>4. S!Documents' = {mem'}
  BY <1>3 DEF S!Documents
<1>5. S!Succeeded(mem', Plan[t].op, name)
  BY <1>1 DEF S!Succeeded
<1>6. S!Reliable(mem', returned', layouts', fresh') /\ S!StepsTyped(mem')
  BY <1>3 DEF AdaptersKept, S!StorageInv, S!TypeOK, S!Documents
<1>7. StorageValue(t, name) = saved.value
  BY DEF StorageValue
<1>8. saved.value \in S!ValueOf(name)
  BY <1>2, <1>5, <1>6 DEF S!StepsTyped
<1>9. S!Means(mem', Plan[t].op, name, saved.request, saved.value)
  BY <1>2, <1>5, <1>6 DEF S!Reliable, S!Meanings
<1>10. name = "prepare_archive" => S!ViewIntact(saved.value, layouts', fresh')
  BY <1>2, <1>5, <1>6 DEF S!Reliable, S!ViewsIntact
<1> HIDE DEF saved
<1> QED
  BY <1>1, <1>4, <1>7, <1>8, <1>9, <1>10

\* The outcome of a committing step is that of every document.
LEMMA OutcomeOf ==
  ASSUME NEW t \in Task, S!Documents' = {mem'}, tasks'[t].expected = tasks[t].expected,
         S!Outcome(mem', Plan[t].op, DataOf(t), ActionOf(t))
  PROVE  HasOutcome(t)'
BY DEF HasOutcome, DataOf, ActionOf

LEMMA StorageFails ==
  ASSUME EngineInv, AdaptersKept, SessionsKept, NEW t \in Task, NEW name, NEW request,
         NEW proceed, AfterStorage(t, name, request, proceed), ~At(t, "new"),
         StorageError(t, name, request) # "none"
  PROVE  EngineInv'
<1>1. budget' \in 0 .. Budget
  BY FaultCosts, BudgetKept DEF AfterStorage
<1>2. Become(t, AfterError(t, StorageError(t, name, request)))
  BY DEF AfterStorage
<1> QED
  BY <1>1, <1>2, FailKeeps

LEMMA ArchivePinKeeps ==
  ASSUME EngineInv, NEW t \in Task, ArchivePin(t)
  PROVE  EngineInv'
<1> DEFINE op == Plan[t].op
           value == StorageValue(t, "prepare_archive")
           task == [tasks[t] EXCEPT !.pc = "lookup", !.view = value]
<1>1. /\ At(t, "pin") /\ up /\ Archiving(t) /\ UNCHANGED archiveVars
      /\ AfterStorage(t, "prepare_archive", DataOf(t), task)
  BY DEF ArchivePin, Archiving
<1>2. ~At(t, "new") /\ op \in Op /\ DataOf(t) \in S!DataKey
  BY <1>1, ObservedParts, TaskKinds DEF At
<1>3. AdaptersKept /\ SessionsKept /\ up'
  <2>1. CASE Storage!PrepareArchive(op, DataOf(t))
    <3>1. S!PrepareArchive(op, DataOf(t)) /\ up'
      BY <1>1, <2>1, SamePrepareArchive DEF S!PrepareArchive
    <3>2. S!CallKept(returned)
      BY <1>2, <3>1, EngineParts, S!PrepareArchiveCalls, LayoutAssumption, SourceAssumed
    <3> QED
      BY <1>1, <3>1, <3>2, SourceCall
  <2>2. CASE Storage!Replay(op, "prepare_archive", DataOf(t))
    BY <1>1, <2>2, ReplayKept DEF StepNames
  <2>3. CASE StorageRefuses(t, "prepare_archive", DataOf(t))
    BY <1>1, <2>3, RefusesKept
  <2> QED
    BY <2>1, <2>2, <2>3 DEF ArchivePin
<1>4. CASE StorageError(t, "prepare_archive", DataOf(t)) # "none"
  BY <1>1, <1>2, <1>3, <1>4, StorageFails
<1>5. CASE StorageError(t, "prepare_archive", DataOf(t)) = "none"
  <2>1. /\ value \in S!ValueOf("prepare_archive")
        /\ S!Means(mem', op, "prepare_archive", DataOf(t), value)
        /\ S!ViewIntact(value, layouts', fresh')
    BY <1>3, <1>5, Answered DEF StepNames
  <2>2. value \in S!DataView /\ value.data = DataOf(t)
    BY <2>1 DEF S!ValueOf, S!Means
  <2> HIDE DEF value
  <2>3. task \in TaskState /\ task.pc = "lookup" /\ task.expected = tasks[t].expected
    BY <2>2, TaskTyped DEF TaskState, Labels
  <2>4. Become(t, task) /\ budget' \in 0 .. Budget
    BY <1>1, <1>5, FaultCosts, BudgetKept DEF AfterStorage
  <2>5. task.view = value
    BY TaskTyped DEF TaskState
  <2>6. tasks'[t] = task
    BY <2>3, <2>4, BecomeIs
  <2>7. HoldsView(t)'
    BY <2>1, <2>2, <2>3, <2>5, <2>6 DEF HoldsView, DataOf
  <2>8. "lookup" \in LabelsOf(t) /\ ~Recalling(t)
    BY <1>1, TaskKinds DEF LabelsOf
  <2> HIDE DEF task
  <2> QED
    BY <1>2, <1>3, <2>3, <2>4, <2>7, <2>8, MoveKeeps
<1> QED
  BY <1>4, <1>5

LEMMA ArchiveBindKeeps ==
  ASSUME EngineInv, NEW t \in Task, ArchiveBind(t)
  PROVE  EngineInv'
<1> DEFINE op == Plan[t].op
           view == tasks[t].view
           receipt == tasks[t].receipt
           request == [view |-> view, receipt |-> receipt]
           task == [Idle EXCEPT !.pc = "done", !.expected = tasks[t].expected]
<1>1. /\ At(t, "bind") /\ up /\ UNCHANGED archiveVars
      /\ AfterStorage(t, "commit_archive", request, task)
  BY DEF ArchiveBind
<1>2. ~At(t, "new") /\ op \in Op
  BY <1>1, TaskKinds DEF At
<1>3. Archiving(t) /\ HoldsView(t) /\ HoldsReceipt(t)
  <2>1. TaskKept(t)
    BY TaskTyped
  <2>2. Archiving(t)
    BY <1>1, <2>1, TaskKinds DEF TaskKept, LabelsOf, At
  <2> QED
    BY <1>1, <2>1, <2>2 DEF TaskKept, At, Within
<1>4. view \in S!DataView /\ receipt \in returned /\ receipt \in S!ArchiveReceipt
  <2>1. returned \subseteq A!ArchiveReceipt /\ A!ArchiveReceipt = S!ArchiveReceipt
    BY EngineParts DEF A!ArchiveInv, A!TypeOK, A!ArchiveReceipt, S!ArchiveReceipt,
                       Storage!DataKey, S!DataKey
  <2> QED
    BY <1>3, <2>1 DEF HoldsView, HoldsReceipt
<1>5. AdaptersKept /\ SessionsKept /\ up'
  <2>1. CASE Storage!CommitArchive(op, view, receipt)
    <3>1. S!CommitArchive(op, view, receipt) /\ up'
      BY <1>1, <2>1, SameCommitArchive DEF S!CommitArchive
    <3>2. S!CallKept(returned)
      BY <1>2, <1>4, <3>1, EngineParts, S!CommitArchiveCalls, LayoutAssumption, SourceAssumed
    <3> QED
      BY <1>1, <3>1, <3>2, SourceCall
  <2>2. CASE Storage!Replay(op, "commit_archive", request)
    BY <1>1, <2>2, ReplayKept DEF StepNames
  <2>3. CASE StorageRefuses(t, "commit_archive", request)
    BY <1>1, <2>3, RefusesKept
  <2> QED
    BY <2>1, <2>2, <2>3 DEF ArchiveBind
<1>6. CASE StorageError(t, "commit_archive", request) # "none"
  BY <1>1, <1>2, <1>5, <1>6, StorageFails
<1>7. CASE StorageError(t, "commit_archive", request) = "none"
  <2>1. /\ S!Documents' = {mem'}
        /\ S!Means(mem', op, "commit_archive", request, StorageValue(t, "commit_archive"))
    BY <1>5, <1>7, Answered DEF StepNames
  <2>2. request.view.data = DataOf(t) /\ S!ArchiveTo(request.receipt.key) = ActionOf(t)
    BY <1>3 DEF HoldsView, HoldsReceipt, S!ArchiveTo, ActionOf, Archiving
  <2>3. Become(t, task) /\ budget' \in 0 .. Budget
    BY <1>1, <1>7, FaultCosts, BudgetKept DEF AfterStorage
  <2>4. task \in TaskState /\ task.expected = tasks[t].expected
    BY IdleTyped DEF Labels
  <2>5. tasks'[t].expected = tasks[t].expected
    BY <2>3, <2>4, BecomeIs
  <2>6. HasOutcome(t)'
    BY <2>1, <2>2, <2>5, OutcomeOf DEF S!Means
  <2> QED
    BY <1>2, <1>5, <2>3, <2>6, FinishKeeps
<1> QED
  BY <1>6, <1>7

LEMMA ReleaseSourceKeeps ==
  ASSUME EngineInv, NEW t \in Task, ReleaseSource(t)
  PROVE  EngineInv'
<1> DEFINE op == Plan[t].op
           expected == tasks[t].expected
           task == [Idle EXCEPT !.pc = "done", !.expected = tasks[t].expected]
<1>1. /\ At(t, "release") /\ up /\ UNCHANGED archiveVars
      /\ AfterStorage(t, "release", expected, task)
  BY DEF ReleaseSource
<1>2. /\ ~At(t, "new") /\ op \in Op /\ expected \in S!EntityState
  BY <1>1, TaskKinds, ObservedParts DEF At
<1>3. Releasing(t)
  <2>1. tasks[t].pc \in LabelsOf(t)
    BY TaskTyped DEF TaskKept
  <2> QED
    BY <1>1, <2>1, TaskKinds DEF LabelsOf, At
<1>4. AdaptersKept /\ SessionsKept /\ up'
  <2>1. CASE Storage!Release(op, expected)
    <3>1. S!Release(op, expected) /\ up'
      BY <1>1, <2>1, SameRelease DEF S!Release
    <3>2. S!CallKept(returned)
      BY <1>2, <3>1, EngineParts, S!ReleaseCalls, LayoutAssumption, SourceAssumed
    <3> QED
      BY <1>1, <3>1, <3>2, SourceCall
  <2>2. CASE Storage!Replay(op, "release", expected)
    BY <1>1, <2>2, ReplayKept DEF StepNames
  <2>3. CASE StorageRefuses(t, "release", expected)
    BY <1>1, <2>3, RefusesKept
  <2> QED
    BY <2>1, <2>2, <2>3 DEF ReleaseSource
<1>5. CASE StorageError(t, "release", expected) # "none"
  BY <1>1, <1>2, <1>4, <1>5, StorageFails
<1>6. CASE StorageError(t, "release", expected) = "none"
  <2>1. /\ S!Documents' = {mem'}
        /\ S!Means(mem', op, "release", expected, StorageValue(t, "release"))
    BY <1>4, <1>6, Answered DEF StepNames
  <2>2. expected.data = DataOf(t) /\ S!ReleaseIt = ActionOf(t)
    BY <1>3 DEF DataOf, S!ReleaseIt, ActionOf, Releasing
  <2>3. Become(t, task) /\ budget' \in 0 .. Budget
    BY <1>1, <1>6, FaultCosts, BudgetKept DEF AfterStorage
  <2>4. task \in TaskState /\ task.expected = tasks[t].expected
    BY IdleTyped DEF Labels
  <2>5. tasks'[t].expected = tasks[t].expected
    BY <2>3, <2>4, BecomeIs
  <2>6. HasOutcome(t)'
    BY <2>1, <2>2, <2>5, OutcomeOf DEF S!Means
  <2> QED
    BY <1>2, <1>4, <2>3, <2>6, FinishKeeps
<1> QED
  BY <1>5, <1>6

\* The anchor a recall reads is one the observation names.
LEMMA AnchorIs ==
  ASSUME EngineInv, NEW t \in Task, Anchored(t), ~At(t, "new")
  PROVE  /\ Anchor(t) \in tasks[t].expected.anchors /\ Anchor(t).key = Plan[t].key
         /\ Anchor(t) \in returned /\ Anchor(t) \in S!ArchiveReceipt
<1>1. Anchor(t) \in tasks[t].expected.anchors /\ Anchor(t).key = Plan[t].key
  BY DEF Anchored, Anchor
<1> QED
  BY <1>1, ObservedParts

\* A task at one of the labels of recall is one, and holds what it needs.
LEMMA RecallHolds ==
  ASSUME EngineInv, NEW t \in Task, Recalling(t)
  PROVE  /\ Within(t, {"lookup", "pin", "open", "copy", "copying", "commit"}) =>
              /\ Anchored(t) /\ ~At(t, "new")
              /\ Anchor(t) \in tasks[t].expected.anchors /\ Anchor(t).key = Plan[t].key
              /\ Anchor(t) \in returned /\ Anchor(t) \in S!ArchiveReceipt
              /\ tasks[t].expected \in S!EntityState
         /\ Within(t, {"copy", "copying", "commit", "open"}) => HoldsTarget(t)
<1>1. TaskKept(t)
  BY TaskTyped
<1>2. ASSUME Within(t, {"lookup", "pin", "open", "copy", "copying", "commit"})
      PROVE  Anchored(t) /\ ~At(t, "new")
  BY <1>1, <1>2 DEF TaskKept, Within, At
<1>3. Within(t, {"copy", "copying", "commit", "open"}) => HoldsTarget(t)
  BY <1>1 DEF TaskKept
<1> QED
  BY <1>2, <1>3, AnchorIs, ObservedParts

LEMMA RecallPinKeeps ==
  ASSUME EngineInv, NEW t \in Task, RecallPin(t)
  PROVE  EngineInv'
<1> DEFINE op == Plan[t].op
           value == StorageValue(t, "prepare_recall")
           request == [expected |-> tasks[t].expected, anchor |-> Anchor(t)]
           task == [tasks[t] EXCEPT !.pc = "open", !.target = value]
<1>1. /\ At(t, "pin") /\ up /\ Recalling(t) /\ UNCHANGED archiveVars
      /\ AfterStorage(t, "prepare_recall", request, task)
  BY DEF RecallPin, Recalling
<1>2. /\ ~At(t, "new") /\ op \in Op /\ Anchored(t) /\ Anchor(t).key = Plan[t].key
      /\ tasks[t].expected \in S!EntityState /\ Anchor(t) \in S!ArchiveReceipt
  BY <1>1, RecallHolds, TaskKinds DEF At, Within
<1>3. AdaptersKept /\ SessionsKept /\ up'
  <2>1. CASE Storage!PrepareRecall(op, tasks[t].expected, Anchor(t))
    <3>1. S!PrepareRecall(op, tasks[t].expected, Anchor(t)) /\ up'
      BY <1>1, <2>1, SamePrepareRecall DEF S!PrepareRecall
    <3>2. S!CallKept(returned)
      BY <1>2, <3>1, EngineParts, S!PrepareRecallCalls, LayoutAssumption, SourceAssumed
    <3> QED
      BY <1>1, <3>1, <3>2, SourceCall
  <2>2. CASE Storage!Replay(op, "prepare_recall", request)
    BY <1>1, <2>2, ReplayKept DEF StepNames
  <2>3. CASE StorageRefuses(t, "prepare_recall", request)
    BY <1>1, <2>3, RefusesKept
  <2> QED
    BY <2>1, <2>2, <2>3 DEF RecallPin
<1>4. CASE StorageError(t, "prepare_recall", request) # "none"
  BY <1>1, <1>2, <1>3, <1>4, StorageFails
<1>5. CASE StorageError(t, "prepare_recall", request) = "none"
  <2>1. /\ value \in S!ValueOf("prepare_recall")
        /\ S!Means(mem', op, "prepare_recall", request, value)
    BY <1>3, <1>5, Answered DEF StepNames
  <2>2. value \in S!RecallTarget /\ value.data = DataOf(t) /\ value.archive = Plan[t].key
    BY <1>2, <2>1 DEF S!ValueOf, S!Means, DataOf
  <2> HIDE DEF value
  <2>3. task \in TaskState /\ task.pc = "open" /\ task.expected = tasks[t].expected
    BY <2>2, TaskTyped DEF TaskState, Labels
  <2>4. Become(t, task) /\ budget' \in 0 .. Budget
    BY <1>1, <1>5, FaultCosts, BudgetKept DEF AfterStorage
  <2>5. task.target = value
    BY TaskTyped DEF TaskState
  <2>6. tasks'[t] = task
    BY <2>3, <2>4, BecomeIs
  <2>7. HoldsTarget(t)' /\ Anchored(t)'
    BY <1>2, <1>3, <2>2, <2>3, <2>5, <2>6, HoldingStays DEF HoldsTarget, DataOf
  <2>8. "open" \in LabelsOf(t) /\ ~Archiving(t)
    BY <1>1, TaskKinds DEF LabelsOf
  <2> HIDE DEF task
  <2> QED
    BY <1>2, <1>3, <2>3, <2>4, <2>7, <2>8, MoveKeeps
<1> QED
  BY <1>4, <1>5

LEMMA RecallCommitKeeps ==
  ASSUME EngineInv, NEW t \in Task, RecallCommit(t)
  PROVE  EngineInv'
<1> DEFINE op == Plan[t].op
           target == tasks[t].target
           evidence == tasks[t].evidence
           request == [target |-> target, evidence |-> evidence]
           task == [Idle EXCEPT !.pc = "done", !.expected = tasks[t].expected]
<1>1. At(t, "commit") /\ up /\ Recalling(t) /\ UNCHANGED archiveVars
  BY DEF RecallCommit, Recalling
<1>2. /\ ~At(t, "new") /\ op \in Op /\ HoldsTarget(t)
      /\ tasks[t].expected \in S!EntityState /\ target \in S!RecallTarget
  BY <1>1, RecallHolds, TaskKinds DEF At, Within, HoldsTarget
<1>3. CASE evidence # tasks[t].expected.content
  <2>1. Become(t, AfterError(t, "Integrity")) /\ UNCHANGED storageVars /\ UNCHANGED budget
    BY <1>3 DEF RecallCommit, Fail
  <2> QED
    BY <1>1, <1>2, <2>1, BudgetKept, QuietCall, FailKeeps
<1>4. ASSUME evidence = tasks[t].expected.content,
             \/ Storage!CommitRecallRefused(op, target, evidence)
             \/ Storage!CommitRecall(op, target, evidence)
             \/ Storage!Replay(op, "commit_recall", request)
             \/ StorageRefuses(t, "commit_recall", request),
             AfterStorage(t, "commit_recall", request, task)
      PROVE  EngineInv'
  <2>1. evidence \in Content
    BY <1>2, <1>4 DEF S!EntityState
  <2>2. AdaptersKept /\ SessionsKept /\ up'
    <3>1. CASE \/ Storage!CommitRecallRefused(op, target, evidence)
               \/ Storage!CommitRecall(op, target, evidence)
      <4>1. /\ \/ S!CommitRecallRefused(op, target, evidence)
               \/ S!CommitRecall(op, target, evidence)
            /\ up'
        BY <1>1, <3>1, SameCommitRecall DEF S!CommitRecallRefused, S!CommitRecall
      <4>2. S!CallKept(returned)
        BY <1>2, <2>1, <4>1, EngineParts, S!CommitRecallRefusedCalls, S!CommitRecallCalls,
           LayoutAssumption, SourceAssumed
      <4> QED
        BY <1>1, <4>1, <4>2, SourceCall
    <3>2. CASE Storage!Replay(op, "commit_recall", request)
      BY <1>1, <3>2, ReplayKept DEF StepNames
    <3>3. CASE StorageRefuses(t, "commit_recall", request)
      BY <1>1, <3>3, RefusesKept
    <3> QED
      BY <1>4, <3>1, <3>2, <3>3
  <2>3. CASE StorageError(t, "commit_recall", request) # "none"
    BY <1>2, <1>4, <2>2, <2>3, StorageFails
  <2>4. CASE StorageError(t, "commit_recall", request) = "none"
    <3>1. /\ S!Documents' = {mem'}
          /\ S!Means(mem', op, "commit_recall", request, StorageValue(t, "commit_recall"))
      BY <2>2, <2>4, Answered DEF StepNames
    <3>2. request.target.data = DataOf(t) /\ S!RecallFrom(request.target.archive) = ActionOf(t)
      BY <1>1, <1>2 DEF HoldsTarget, S!RecallFrom, ActionOf, Recalling
    <3>3. Become(t, task) /\ budget' \in 0 .. Budget
      BY <1>4, <2>4, FaultCosts, BudgetKept DEF AfterStorage
    <3>4. task \in TaskState /\ task.expected = tasks[t].expected
      BY IdleTyped DEF Labels
    <3>5. tasks'[t].expected = tasks[t].expected
      BY <3>3, <3>4, BecomeIs
    <3>6. HasOutcome(t)'
      BY <3>1, <3>2, <3>5, OutcomeOf DEF S!Means
    <3> QED
      BY <1>2, <2>2, <3>3, <3>6, FinishKeeps
  <2> QED
    BY <2>3, <2>4
<1>5. ASSUME evidence = tasks[t].expected.content,
             Storage!CommitRecallSealUncertain(op, target, evidence),
             Fail(t, "Unknown") /\ Costs(1)
      PROVE  EngineInv'
  <2>1. evidence \in Content
    BY <1>2, <1>5 DEF S!EntityState
  <2>2. S!CommitRecallSealUncertain(op, target, evidence)
    BY <1>5, SameCommitRecall
  <2>3. S!CallKept(returned)
    BY <1>2, <2>1, <2>2, EngineParts, S!CommitRecallSealUncertainCalls, LayoutAssumption,
       SourceAssumed
  <2> QED
    BY <1>1, <1>2, <1>5, <2>3, SourceCall, BudgetKept, FailKeeps DEF Fail
<1>6. ASSUME Fail(t, "Io"), UNCHANGED <<storageVars, budget>>
      PROVE  EngineInv'
  BY <1>1, <1>2, <1>6, BudgetKept, QuietCall, FailKeeps DEF Fail
<1> QED
  BY <1>3, <1>4, <1>5, <1>6 DEF RecallCommit

-----------------------------------------------------------------------------
(* Observation, the saved result, and the check before a release.          *)

\* What a handle that serves reads is what every restart would read.
LEMMA HealthyParts ==
  ASSUME EngineInv, Storage!Healthy
  PROVE  /\ S!Documents = {mem} /\ S!DocTyped(mem)
         /\ S!Reliable(mem, returned, layouts, fresh) /\ S!Sound(mem, layouts, fresh)
<1>1. S!Healthy
  BY SourceTypes
<1> QED
  BY <1>1 DEF EngineInv, S!StorageInv, S!Coherent, S!Documents, S!TypeOK, S!DocTyped

LEMMA ObserveKeeps ==
  ASSUME EngineInv, NEW t \in Task, Observe(t)
  PROVE  EngineInv'
<1> DEFINE public == mem.entities[Plan[t].entity].public
           task == [Idle EXCEPT !.pc = "ready", !.expected = public]
<1>1. /\ Storage!Healthy /\ mem.entities[Plan[t].entity] # NoEntity
      /\ Become(t, task) /\ UNCHANGED storageVars /\ UNCHANGED archiveVars /\ UNCHANGED budget
  BY DEF Observe
<1>2. Plan[t].entity \in Entity
  BY EngineAssumption
<1>3. /\ S!DocTyped(mem) /\ S!Reliable(mem, returned, layouts, fresh)
      /\ S!Sound(mem, layouts, fresh)
  BY <1>1, HealthyParts
<1>4. public \in S!EntityState
  BY <1>1, <1>2, <1>3 DEF S!DocTyped, S!State, S!EntityRecord
<1>5. public.anchors \subseteq returned /\ \A a \in public.anchors : a.content = public.content
  BY <1>1, <1>2, <1>3 DEF S!Reliable, S!AnchorsFrom, S!Sound, S!AnchorsKept, S!Exists
<1> HIDE DEF public
<1>6. task \in TaskState /\ task.pc = "ready" /\ task.expected = public
  BY <1>4 DEF TaskState, Idle, Labels
<1> HIDE DEF task
<1>7. /\ tasks' \in [Task -> TaskState] /\ tasks'[t] = task
      /\ \A u \in Task : u # t => tasks'[u] = tasks[u]
  BY <1>1, <1>6, BecomeIs
<1>8. AdaptersKept /\ SessionsKept /\ budget' \in 0 .. Budget /\ returned' = returned
  BY <1>1, QuietCall, BudgetKept DEF archiveVars
<1>9. Observed(t)' /\ tasks'[t].pc = "ready"
  BY <1>4, <1>5, <1>6, <1>7, <1>8 DEF Observed
<1>10. TaskKept(t)' /\ ~At(t, "copying")'
  BY <1>9 DEF TaskKept, At, Within, LabelsOf
<1> QED
  BY <1>7, <1>8, <1>10, CallKeeps

LEMMA BeginKeeps ==
  ASSUME EngineInv, NEW t \in Task, Begin(t)
  PROVE  EngineInv'
<1> DEFINE done == mem.completed[Plan[t].op]
<1>1. /\ At(t, "ready") /\ up /\ ~At(t, "new")
      /\ UNCHANGED storageVars /\ UNCHANGED archiveVars /\ UNCHANGED budget
  BY DEF Begin, At
<1>2. AdaptersKept /\ SessionsKept /\ budget' \in 0 .. Budget
  BY <1>1, QuietCall, BudgetKept
<1>3. ASSUME NEW error, Fail(t, error) PROVE EngineInv'
  BY <1>1, <1>2, <1>3, FailKeeps DEF Fail
<1>4. ASSUME ~poisoned, done # NoOutcome, done.data = DataOf(t), done.action = ActionOf(t),
             Finish(t)
      PROVE  EngineInv'
  <2>1. S!Documents = {mem}
    BY <1>1, <1>4, HealthyParts DEF Storage!Healthy
  <2>2. HasOutcome(t)
    BY <1>4, <2>1 DEF HasOutcome, S!Outcome
  <2>3. tasks'[t].expected = tasks[t].expected
    <3> DEFINE task == [Idle EXCEPT !.pc = "done", !.expected = tasks[t].expected]
    <3>1. task \in TaskState /\ task.expected = tasks[t].expected
      BY IdleTyped DEF Labels
    <3>2. Become(t, task)
      BY <1>4 DEF Finish
    <3> HIDE DEF task
    <3> QED
      BY <3>1, <3>2, BecomeIs
  <2>4. HasOutcome(t)'
    BY <1>2, <2>2, <2>3, HoldingStays
  <2> QED
    BY <1>1, <1>2, <1>4, <2>4, FinishKeeps DEF Finish
<1>5. CASE Archiving(t) /\ Goto(t, "pin")
  <2>1. "pin" \in LabelsOf(t) /\ "pin" \in Labels /\ ~Recalling(t)
    BY <1>5, TaskKinds DEF LabelsOf, Labels
  <2> QED
    BY <1>1, <1>2, <1>5, <2>1, GotoKeeps
<1>6. CASE Releasing(t) /\ Goto(t, "inspect")
  <2>1. "inspect" \in LabelsOf(t) /\ "inspect" \in Labels /\ ~Recalling(t) /\ ~Archiving(t)
    BY <1>6, TaskKinds DEF LabelsOf, Labels
  <2> QED
    BY <1>1, <1>2, <1>6, <2>1, GotoKeeps
<1>7. CASE Recalling(t) /\ Anchored(t) /\ Goto(t, "lookup")
  <2>1. "lookup" \in LabelsOf(t) /\ "lookup" \in Labels /\ ~Archiving(t)
    BY <1>7, TaskKinds DEF LabelsOf, Labels, Archiving, Releasing, Recalling
  <2> QED
    BY <1>1, <1>2, <1>7, <2>1, GotoKeeps
<1>8. \/ \E error : Fail(t, error)
      \/ /\ ~poisoned /\ done # NoOutcome /\ done.data = DataOf(t)
         /\ done.action = ActionOf(t) /\ Finish(t)
      \/ Archiving(t) /\ Goto(t, "pin")
      \/ Releasing(t) /\ Goto(t, "inspect")
      \/ Recalling(t) /\ Anchored(t) /\ Goto(t, "lookup")
  <2>1. CASE poisoned
    BY <2>1 DEF Begin
  <2>2. CASE ~poisoned /\ done # NoOutcome
    BY <2>2 DEF Begin
  <2>3. CASE ~poisoned /\ done = NoOutcome
    <3>1. CASE Archiving(t)
      BY <2>3, <3>1 DEF Begin, Archiving
    <3>2. CASE Releasing(t)
      BY <2>3, <3>2 DEF Begin, Releasing
    <3>3. CASE Recalling(t)
      BY <2>3, <3>3 DEF Begin, Recalling, Anchored
    <3> QED
      BY <3>1, <3>2, <3>3, TaskKinds
  <2> QED
    BY <2>1, <2>2, <2>3
<1> QED
  BY <1>3, <1>4, <1>5, <1>6, <1>7, <1>8

LEMMA ReleaseInspectKeeps ==
  ASSUME EngineInv, NEW t \in Task, ReleaseInspect(t)
  PROVE  EngineInv'
<1>1. /\ At(t, "inspect") /\ ~At(t, "new")
      /\ UNCHANGED storageVars /\ UNCHANGED archiveVars /\ UNCHANGED budget
  BY DEF ReleaseInspect, At
<1>2. AdaptersKept /\ SessionsKept /\ budget' \in 0 .. Budget
  BY <1>1, QuietCall, BudgetKept
<1>3. tasks[t].pc \in LabelsOf(t)
  BY TaskTyped DEF TaskKept
<1>4. /\ Releasing(t) /\ ~Archiving(t) /\ ~Recalling(t)
      /\ "verify" \in LabelsOf(t) /\ "verify" \in Labels
  BY <1>1, <1>3, TaskKinds DEF LabelsOf, At, Labels
<1>5. Fail(t, "Unknown") \/ Fail(t, "Conflict") \/ Goto(t, "verify")
  BY DEF ReleaseInspect
<1>6. CASE Goto(t, "verify")
  BY <1>1, <1>2, <1>4, <1>6, GotoKeeps
<1>7. CASE Fail(t, "Unknown") \/ Fail(t, "Conflict")
  BY <1>1, <1>2, <1>7, FailKeeps DEF Fail
<1> QED
  BY <1>5, <1>6, <1>7

-----------------------------------------------------------------------------
(* The calls of the archive.                                               *)

\* What an answer of the archive leaves: the receipts it read are durable.
LEMMA AnswerKept ==
  ASSUME EngineInv, UNCHANGED storageVars,
         \/ \E k \in Key : Backend!Inspect(k) \/ Backend!PrepareRefused(k)
         \/ \E receipt \in returned : Backend!Open(receipt)
         \/ \E op, target, view : Backend!CommitAgain(op, target, view)
  PROVE  AdaptersKept /\ SessionsKept
<1>1. \/ \E k \in Key : A!Inspect(k) \/ A!PrepareRefused(k)
      \/ \E receipt \in returned : A!Open(receipt)
      \/ \E op, target, view : A!CommitAgain(op, target, view)
  BY SameAnswers, SameCommits
<1>2. A!ArchiveInv' /\ A!Keeps
  BY <1>1, EngineParts, A!AnswersKeep, LayoutAssumption, ArchiveAssumed
<1>3. dirs' = dirs
  BY <1>1 DEF A!Inspect, A!PrepareRefused, A!Open, A!CommitAgain
<1> QED
  BY <1>2, <1>3, ArchiveCall DEF DirsFrame

\* A task at one of the labels of archive is one, and holds what it needs.
LEMMA ArchiveHolds ==
  ASSUME EngineInv, NEW t \in Task, Archiving(t)
  PROVE  /\ ~Recalling(t)
         /\ Within(t, {"lookup", "stage", "resume", "copy", "copying", "commit", "bind"}) =>
              /\ HoldsView(t) /\ ~At(t, "new") /\ tasks[t].view \in S!DataView
         /\ Within(t, {"resume", "copy", "copying", "commit"}) =>
              HoldsAttempt(t) /\ tasks[t].target \in A!ArchiveTarget
<1>1. TaskKept(t) /\ ~Recalling(t)
  BY TaskTyped, TaskKinds
<1>2. ASSUME Within(t, {"lookup", "stage", "resume", "copy", "copying", "commit", "bind"})
      PROVE  HoldsView(t) /\ ~At(t, "new") /\ tasks[t].view \in S!DataView
  BY <1>1, <1>2 DEF TaskKept, Within, At, HoldsView
<1>3. ASSUME Within(t, {"resume", "copy", "copying", "commit"})
      PROVE  HoldsAttempt(t) /\ tasks[t].target \in A!ArchiveTarget
  BY <1>1, <1>3 DEF TaskKept, HoldsAttempt
<1> QED
  BY <1>1, <1>2, <1>3

LEMMA ReleaseVerifyKeeps ==
  ASSUME EngineInv, NEW t \in Task, ReleaseVerify(t)
  PROVE  EngineInv'
<1>1. At(t, "verify") /\ ~At(t, "new") /\ UNCHANGED storageVars /\ UNCHANGED budget
  BY DEF ReleaseVerify, At
<1>2. /\ budget' \in 0 .. Budget
      /\ \A a \in tasks[t].expected.anchors : a \in returned /\ a.key \in Key
  BY <1>1, BudgetKept, ObservedParts, ReturnedKept
<1>3. tasks[t].pc \in LabelsOf(t)
  BY TaskTyped DEF TaskKept
<1>4. /\ Releasing(t) /\ ~Archiving(t) /\ ~Recalling(t)
      /\ "release" \in LabelsOf(t) /\ "release" \in Labels
  BY <1>1, <1>3, TaskKinds DEF LabelsOf, At, Labels
<1>5. AdaptersKept /\ SessionsKept
  <2>1. CASE \E a \in tasks[t].expected.anchors : Backend!Inspect(a.key)
    BY <1>1, <1>2, <2>1, AnswerKept
  <2>2. CASE \E a \in tasks[t].expected.anchors : Backend!Open(a)
    BY <1>1, <1>2, <2>2, AnswerKept
  <2>3. CASE UNCHANGED archiveVars
    BY <1>1, <2>3, QuietCall
  <2> QED
    BY <2>1, <2>2, <2>3 DEF ReleaseVerify
<1>6. Fail(t, "Integrity") \/ Goto(t, "release")
  BY DEF ReleaseVerify
<1>7. CASE Goto(t, "release")
  BY <1>1, <1>2, <1>4, <1>5, <1>7, GotoKeeps
<1>8. CASE Fail(t, "Integrity")
  BY <1>1, <1>2, <1>5, <1>8, FailKeeps DEF Fail
<1> QED
  BY <1>6, <1>7, <1>8

LEMMA RecallLookupKeeps ==
  ASSUME EngineInv, NEW t \in Task, RecallLookup(t)
  PROVE  EngineInv'
<1>1. At(t, "lookup") /\ Recalling(t) /\ UNCHANGED storageVars /\ UNCHANGED budget
  BY DEF RecallLookup, Recalling
<1>2. /\ budget' \in 0 .. Budget /\ Plan[t].key \in Key /\ ~Archiving(t) /\ ~Releasing(t)
      /\ Anchored(t) /\ ~At(t, "new")
  BY <1>1, BudgetKept, TaskKinds, RecallHolds DEF At, Within
<1>3. "pin" \in LabelsOf(t) /\ "pin" \in Labels
  BY <1>2 DEF LabelsOf, Labels
<1>4. AdaptersKept /\ SessionsKept
  <2>1. CASE Backend!Inspect(Plan[t].key)
    BY <1>1, <1>2, <2>1, AnswerKept
  <2>2. CASE UNCHANGED archiveVars
    BY <1>1, <2>2, QuietCall
  <2> QED
    BY <2>1, <2>2 DEF RecallLookup
<1>5. Fail(t, "Integrity") \/ Goto(t, "pin")
  BY DEF RecallLookup
<1>6. CASE Goto(t, "pin")
  BY <1>2, <1>3, <1>4, <1>6, GotoKeeps
<1>7. CASE Fail(t, "Integrity")
  BY <1>2, <1>4, <1>7, FailKeeps DEF Fail
<1> QED
  BY <1>5, <1>6, <1>7

LEMMA RecallOpenKeeps ==
  ASSUME EngineInv, NEW t \in Task, RecallOpen(t)
  PROVE  EngineInv'
<1>1. At(t, "open") /\ UNCHANGED storageVars /\ UNCHANGED budget
  BY DEF RecallOpen
<1>2. tasks[t].pc \in LabelsOf(t)
  BY TaskTyped DEF TaskKept
<1>3. Recalling(t) /\ ~Archiving(t) /\ ~Releasing(t)
  BY <1>1, <1>2, TaskKinds DEF LabelsOf, At
<1>4. /\ budget' \in 0 .. Budget /\ Anchored(t) /\ HoldsTarget(t) /\ ~At(t, "new")
      /\ Anchor(t) \in returned
  BY <1>1, <1>3, BudgetKept, RecallHolds DEF At, Within
<1>5. "copy" \in LabelsOf(t) /\ "copy" \in Labels
  BY <1>3 DEF LabelsOf, Labels
<1>6. AdaptersKept /\ SessionsKept
  <2>1. CASE Backend!Open(Anchor(t))
    BY <1>1, <1>4, <2>1, AnswerKept
  <2>2. CASE UNCHANGED archiveVars
    BY <1>1, <2>2, QuietCall
  <2> QED
    BY <2>1, <2>2 DEF RecallOpen
<1>7. Fail(t, "Integrity") \/ Fail(t, "NotFound") \/ Goto(t, "copy")
  BY DEF RecallOpen
<1>8. CASE Goto(t, "copy")
  BY <1>3, <1>4, <1>5, <1>6, <1>8, GotoKeeps
<1>9. CASE Fail(t, "Integrity") \/ Fail(t, "NotFound")
  BY <1>4, <1>6, <1>9, FailKeeps DEF Fail
<1> QED
  BY <1>7, <1>8, <1>9

LEMMA ReceiptTyped ==
  ASSUME EngineInv, NEW k \in Key, k \in Backend!Published
  PROVE  objects[k].receipt \in A!ArchiveReceipt
<1>1. A!TypeOK /\ objects[k] # NoObject
  BY EngineParts DEF A!ArchiveInv, Backend!Published
<1> QED
  BY <1>1 DEF A!TypeOK, A!Committed

\* A task that was given the receipt of its key goes on to bind it.
LEMMA BindKeeps ==
  ASSUME EngineInv, AdaptersKept, SessionsKept, budget' \in 0 .. Budget, NEW t \in Task,
         Archiving(t), HoldsView(t), ~At(t, "new"),
         NEW receipt \in A!ArchiveReceipt, receipt \in returned', receipt.key = Plan[t].key,
         Become(t, [tasks[t] EXCEPT !.pc = "bind", !.receipt = receipt])
  PROVE  EngineInv'
<1> DEFINE task == [tasks[t] EXCEPT !.pc = "bind", !.receipt = receipt]
<1>1. /\ task \in TaskState /\ task.pc = "bind" /\ task.expected = tasks[t].expected
      /\ task.receipt = receipt /\ task.view = tasks[t].view
  BY TaskTyped DEF TaskState, Labels
<1>2. Become(t, task)
  OBVIOUS
<1> HIDE DEF task
<1>3. tasks'[t] = task
  BY <1>1, <1>2, BecomeIs
<1>4. HoldsView(t)' /\ HoldsReceipt(t)'
  BY <1>1, <1>3, HoldingStays DEF HoldsReceipt
<1>5. "bind" \in LabelsOf(t) /\ ~Recalling(t)
  BY TaskKinds DEF LabelsOf
<1> QED
  BY <1>1, <1>2, <1>4, <1>5, MoveKeeps

LEMMA ArchiveLookupKeeps ==
  ASSUME EngineInv, NEW t \in Task, ArchiveLookup(t)
  PROVE  EngineInv'
<1> DEFINE k == Plan[t].key
<1>1. At(t, "lookup") /\ Archiving(t) /\ UNCHANGED storageVars /\ UNCHANGED budget
  BY DEF ArchiveLookup, Archiving
<1>2. /\ budget' \in 0 .. Budget /\ k \in Key /\ ~Recalling(t)
      /\ HoldsView(t) /\ ~At(t, "new")
  BY <1>1, BudgetKept, TaskKinds, ArchiveHolds DEF At, Within
<1>3. ASSUME Backend!Inspect(k) PROVE AdaptersKept /\ SessionsKept
  BY <1>1, <1>2, <1>3, AnswerKept
<1>4. ASSUME Backend!Inspect(k), CheckReceipt(objects[k].receipt, DataOf(t), k, tasks[t].view.content),
             Become(t, [tasks[t] EXCEPT !.pc = "bind", !.receipt = objects[k].receipt])
      PROVE  EngineInv'
  <2>1. k \in Backend!Published /\ objects[k].receipt \in returned'
    BY <1>4 DEF Backend!Inspect, Backend!CommittedIs, Backend!Return
  <2>2. objects[k].receipt \in A!ArchiveReceipt /\ objects[k].receipt.key = k
    BY <1>2, <1>4, <2>1, ReceiptTyped DEF CheckReceipt
  <2> QED
    BY <1>1, <1>2, <1>3, <1>4, <2>1, <2>2, BindKeeps
<1>5. ASSUME Backend!Inspect(k), Fail(t, "Integrity") PROVE EngineInv'
  BY <1>2, <1>3, <1>5, FailKeeps DEF Fail
<1>6. ASSUME Goto(t, "stage"), UNCHANGED archiveVars PROVE EngineInv'
  <2>1. "stage" \in LabelsOf(t) /\ "stage" \in Labels
    BY <1>1 DEF LabelsOf, Labels
  <2> QED
    BY <1>1, <1>2, <1>6, <2>1, QuietCall, GotoKeeps
<1> QED
  BY <1>4, <1>5, <1>6 DEF ArchiveLookup

\* The target that was prepared for the operation and key of a task.
LEMMA StagedKeeps ==
  ASSUME EngineInv, AdaptersKept, SessionsKept, budget' \in 0 .. Budget, NEW t \in Task,
         Archiving(t), HoldsView(t), ~At(t, "new"),
         NEW target \in A!ArchiveTarget, target.key = Plan[t].key,
         Become(t, [tasks[t] EXCEPT !.pc = "resume", !.target = target])
  PROVE  EngineInv'
<1> DEFINE task == [tasks[t] EXCEPT !.pc = "resume", !.target = target]
<1>1. /\ task \in TaskState /\ task.pc = "resume" /\ task.expected = tasks[t].expected
      /\ task.target = target /\ task.view = tasks[t].view
  BY TaskTyped DEF TaskState, Labels
<1>2. Become(t, task)
  OBVIOUS
<1> HIDE DEF task
<1>3. tasks'[t] = task
  BY <1>1, <1>2, BecomeIs
<1>4. HoldsView(t)' /\ HoldsAttempt(t)'
  BY <1>1, <1>3, HoldingStays DEF HoldsAttempt
<1>5. "resume" \in LabelsOf(t) /\ ~Recalling(t)
  BY TaskKinds DEF LabelsOf
<1> QED
  BY <1>1, <1>2, <1>4, <1>5, MoveKeeps

LEMMA TargetTyped ==
  ASSUME A!TypeOK, A!AttemptsKept(attempts, objects, dirs, serial),
         NEW op \in Op, NEW k \in Key, attempts[<<op, k>>] # NoAttempt
  PROVE  attempts[<<op, k>>].target \in A!ArchiveTarget /\ attempts[<<op, k>>].target.key = k
<1>1. <<op, k>> \in Op \X Key /\ <<op, k>>[2] = k
  OBVIOUS
<1>2. attempts[<<op, k>>] \in A!Prepared
  BY <1>1 DEF A!TypeOK
<1>3. attempts[<<op, k>>].target.key = <<op, k>>[2]
  BY <1>1 DEF A!AttemptsKept
<1> QED
  BY <1>1, <1>2, <1>3 DEF A!Prepared

LEMMA PrepareNewKept ==
  ASSUME EngineInv, UNCHANGED storageVars, NEW op \in Op, NEW k \in Key,
         NEW view \in S!DataView, Backend!PrepareNew(op, k, view)
  PROVE  AdaptersKept /\ SessionsKept
<1>1. A!PrepareNew(op, k, view) /\ view \in Storage!DataView
  BY SamePrepareNew, SourceTypes
<1>2. A!ArchiveInv' /\ A!Keeps
  BY <1>1, EngineParts, A!PrepareNewKeeps, LayoutAssumption, ArchiveAssumed
<1>3. serial \in Id /\ dirs' = [dirs EXCEPT ![serial] = A!NewLayout]
  BY <1>1, EngineParts DEF A!PrepareNew
<1>4. dirs[serial].session = "free" /\ dirs \in [Id -> Layout]
  BY <1>3, EngineParts DEF A!ArchiveInv, A!DirsKept
<1>5. DirsFrame
  BY <1>3, <1>4 DEF DirsFrame, Locked
<1> QED
  BY <1>2, <1>5, ArchiveCall

LEMMA ArchiveStageKeeps ==
  ASSUME EngineInv, NEW t \in Task, ArchiveStage(t)
  PROVE  EngineInv'
<1> DEFINE op == Plan[t].op
           k == Plan[t].key
           view == tasks[t].view
           Staged(target) == Become(t, [tasks[t] EXCEPT !.pc = "resume", !.target = target])
<1>1. At(t, "stage") /\ UNCHANGED storageVars
  BY DEF ArchiveStage
<1>2. tasks[t].pc \in LabelsOf(t)
  BY TaskTyped DEF TaskKept
<1>3. Archiving(t) /\ op \in Op /\ k \in Key
  BY <1>1, <1>2, TaskKinds DEF LabelsOf, At
<1>4. HoldsView(t) /\ ~At(t, "new") /\ view \in S!DataView
  BY <1>1, <1>3, ArchiveHolds DEF At, Within
<1>5. ASSUME Backend!PrepareRefused(k), Fail(t, "Conflict"), Costs(0) PROVE EngineInv'
  BY <1>1, <1>3, <1>4, <1>5, AnswerKept, BudgetKept, FailKeeps DEF Fail
<1>6. ASSUME Costs(0), UNCHANGED archiveVars, attempts[<<op, k>>] # NoAttempt,
             Staged(Backend!Target(op, k)) \/ Fail(t, "Conflict")
      PROVE  EngineInv'
  <2>1. AdaptersKept /\ SessionsKept /\ budget' \in 0 .. Budget
    BY <1>1, <1>6, QuietCall, BudgetKept
  <2>2. CASE Fail(t, "Conflict")
    BY <1>4, <2>1, <2>2, FailKeeps DEF Fail
  <2>3. CASE Staged(Backend!Target(op, k))
    <3>1. A!TypeOK /\ A!AttemptsKept(attempts, objects, dirs, serial)
      BY EngineParts DEF A!ArchiveInv
    <3>2. /\ Backend!Target(op, k) \in A!ArchiveTarget /\ Backend!Target(op, k).key = k
      BY <1>3, <1>6, <3>1, TargetTyped DEF Backend!Target
    <3> QED
      BY <1>3, <1>4, <2>1, <2>3, <3>2, StagedKeeps
  <2> QED
    BY <1>6, <2>2, <2>3
<1>7. ASSUME Backend!PrepareNew(op, k, view),
             \/ attempts'[<<op, k>>] # NoAttempt /\ Staged(attempts'[<<op, k>>].target) /\ Costs(0)
             \/ Fail(t, "Unknown") /\ Costs(1)
      PROVE  EngineInv'
  <2>1. AdaptersKept /\ SessionsKept /\ budget' \in 0 .. Budget
    BY <1>1, <1>3, <1>4, <1>7, PrepareNewKept, BudgetKept
  <2>2. CASE Fail(t, "Unknown")
    BY <1>4, <2>1, <2>2, FailKeeps DEF Fail
  <2>3. CASE attempts'[<<op, k>>] # NoAttempt /\ Staged(attempts'[<<op, k>>].target)
    <3>1. A!TypeOK' /\ A!AttemptsKept(attempts, objects, dirs, serial)'
      BY <2>1 DEF AdaptersKept, A!ArchiveInv
    <3>2. /\ attempts'[<<op, k>>].target \in A!ArchiveTarget
          /\ attempts'[<<op, k>>].target.key = k
      <4>1. <<op, k>> \in Op \X Key /\ <<op, k>>[2] = k
        BY <1>3
      <4>2. attempts'[<<op, k>>] \in A!Prepared
        BY <2>3, <3>1, <4>1 DEF A!TypeOK
      <4>3. attempts'[<<op, k>>].target.key = <<op, k>>[2]
        BY <2>3, <3>1, <4>1 DEF A!AttemptsKept
      <4> QED
        BY <4>1, <4>2, <4>3 DEF A!Prepared
    <3> QED
      BY <1>3, <1>4, <2>1, <2>3, <3>2, StagedKeeps
  <2> QED
    BY <1>7, <2>2, <2>3
<1> QED
  BY <1>5, <1>6, <1>7 DEF ArchiveStage

\* The commits that write: the directory is sealed, its lock left alone.
LEMMA CommitKept ==
  ASSUME EngineInv, UNCHANGED storageVars, NEW op \in Op, NEW target \in A!ArchiveTarget,
         NEW view \in S!DataView, NEW evidence,
         \/ Backend!Commit(op, target, view, evidence)
         \/ Backend!CommitUnsynced(op, target, view, evidence)
         \/ Backend!CommitStopsSealed(op, target, view, evidence)
         \/ Backend!CommitSealUncertain(op, target, view, evidence)
  PROVE  AdaptersKept /\ SessionsKept
<1>1. /\ \/ A!Commit(op, target, view, evidence)
         \/ A!CommitUnsynced(op, target, view, evidence)
         \/ A!CommitStopsSealed(op, target, view, evidence)
         \/ A!CommitSealUncertain(op, target, view, evidence)
      /\ view \in Storage!DataView
  BY SameCommits, SourceTypes
<1>2. A!OwnsTarget(op, target, view)
  BY <1>1 DEF A!Commit, A!CommitUnsynced, A!CommitStopsSealed, A!CommitSealUncertain, A!CanCommit
<1>3. target \in A!Targets
  <2>1. <<op, target.key>> \in Op \X Key
    BY DEF A!ArchiveTarget
  <2> QED
    BY <1>2, <2>1 DEF A!OwnsTarget, A!Owns, A!Target, A!Targets
<1>4. A!ArchiveInv' /\ A!Keeps
  BY <1>1, <1>3, EngineParts, A!PublishKeeps, A!SealKeeps, LayoutAssumption, ArchiveAssumed
<1>5. dirs' = A!Seal(dirs, target.payload) \/ dirs' = A!SealUnsynced(dirs, target.payload)
  BY <1>1 DEF A!Commit, A!CommitUnsynced, A!CommitStopsSealed, A!CommitSealUncertain
<1>6. dirs \in [Id -> Layout]
  BY EngineParts
<1>7. DirsFrame
  BY <1>5, <1>6 DEF DirsFrame, A!Seal, A!SealUnsynced, Layout
<1> QED
  BY <1>4, <1>7, ArchiveCall

LEMMA BackendCommitKeeps ==
  ASSUME EngineInv, UNCHANGED storageVars, NEW t \in Task, Archiving(t),
         Within(t, {"resume", "commit"}), NEW evidence, BackendCommit(t, evidence)
  PROVE  EngineInv'
<1> DEFINE op == Plan[t].op
           target == tasks[t].target
           view == tasks[t].view
<1>1. /\ HoldsView(t) /\ HoldsAttempt(t) /\ ~At(t, "new") /\ op \in Op
      /\ view \in S!DataView /\ target \in A!ArchiveTarget /\ target.key = Plan[t].key
      /\ target.key \in Key
  BY ArchiveHolds, TaskKinds DEF Within, HoldsAttempt
<1>2. ASSUME Fail(t, CommitError(t, evidence)), Costs(0), UNCHANGED archiveVars
      PROVE  EngineInv'
  BY <1>1, <1>2, QuietCall, BudgetKept, FailKeeps DEF Fail
<1>3. ASSUME Backend!CommitAgain(op, target, view), Costs(0),
             LET receipt == objects[target.key].receipt
             IN IF CheckReceipt(receipt, DataOf(t), target.key, view.content)
                  THEN Become(t, [[tasks[t] EXCEPT !.pc = "bind"] EXCEPT !.receipt = receipt])
                  ELSE Fail(t, "Conflict")
      PROVE  EngineInv'
  <2> DEFINE receipt == objects[target.key].receipt
  <2>1. AdaptersKept /\ SessionsKept /\ budget' \in 0 .. Budget
    BY <1>1, <1>3, AnswerKept, BudgetKept
  <2>2. CASE ~CheckReceipt(receipt, DataOf(t), target.key, view.content)
    BY <1>1, <1>3, <2>1, <2>2, FailKeeps DEF Fail
  <2>3. CASE CheckReceipt(receipt, DataOf(t), target.key, view.content)
    <3>1. /\ receipt.key = target.key /\ receipt.data = view.data
          /\ receipt.content = view.content
      BY <1>1, <2>3 DEF CheckReceipt, HoldsView
    <3>2. receipt \in returned' /\ target.key \in Backend!Published
      BY <1>3, <3>1 DEF Backend!CommitAgain, Backend!Return, Backend!CommittedIs
    <3>3. receipt \in A!ArchiveReceipt
      BY <1>1, <3>2, ReceiptTyped
    <3>4. [[tasks[t] EXCEPT !.pc = "bind"] EXCEPT !.receipt = receipt]
            = [tasks[t] EXCEPT !.pc = "bind", !.receipt = receipt]
      OBVIOUS
    <3>5. Become(t, [tasks[t] EXCEPT !.pc = "bind", !.receipt = receipt])
      BY <1>3, <2>3, <3>4
    <3> HIDE DEF receipt
    <3> QED
      BY <1>1, <2>1, <3>1, <3>2, <3>3, <3>5, BindKeeps
  <2> QED
    BY <2>2, <2>3
<1>4. ASSUME Backend!Commit(op, target, view, evidence), Costs(0),
             Become(t, [[tasks[t] EXCEPT !.pc = "bind"]
                          EXCEPT !.receipt = Backend!NewReceipt(target, view)])
      PROVE  EngineInv'
  <2> DEFINE receipt == Backend!NewReceipt(target, view)
  <2>1. AdaptersKept /\ SessionsKept /\ budget' \in 0 .. Budget
    BY <1>1, <1>4, CommitKept, BudgetKept
  <2>2. receipt \in returned' /\ receipt.key = target.key
    BY <1>4 DEF Backend!Commit, Backend!Return, Backend!NewReceipt
  <2>3. receipt \in A!ArchiveReceipt
    BY <2>1, <2>2 DEF AdaptersKept, A!ArchiveInv, A!TypeOK
  <2>4. [[tasks[t] EXCEPT !.pc = "bind"] EXCEPT !.receipt = receipt]
          = [tasks[t] EXCEPT !.pc = "bind", !.receipt = receipt]
    OBVIOUS
  <2>5. Become(t, [tasks[t] EXCEPT !.pc = "bind", !.receipt = receipt])
    BY <1>4, <2>4
  <2> HIDE DEF receipt
  <2> QED
    BY <1>1, <2>1, <2>2, <2>3, <2>5, BindKeeps
<1>5. ASSUME \/ Backend!CommitUnsynced(op, target, view, evidence)
             \/ Backend!CommitStopsSealed(op, target, view, evidence)
             \/ Backend!CommitSealUncertain(op, target, view, evidence),
             Fail(t, "Unknown"), Costs(1)
      PROVE  EngineInv'
  BY <1>1, <1>5, CommitKept, BudgetKept, FailKeeps DEF Fail
<1> QED
  BY <1>2, <1>3, <1>4, <1>5 DEF BackendCommit

LEMMA ArchiveResumeKeeps ==
  ASSUME EngineInv, NEW t \in Task, ArchiveResume(t)
  PROVE  EngineInv'
<1>1. At(t, "resume") /\ UNCHANGED storageVars
  BY DEF ArchiveResume
<1>2. tasks[t].pc \in LabelsOf(t)
  BY TaskTyped DEF TaskKept
<1>3. Archiving(t)
  BY <1>1, <1>2, TaskKinds DEF LabelsOf, At
<1>4. /\ Within(t, {"resume", "commit"}) /\ HoldsView(t) /\ HoldsAttempt(t) /\ ~At(t, "new")
      /\ ~Recalling(t)
  BY <1>1, <1>3, ArchiveHolds DEF At, Within
<1>5. CASE Fenced(dirs, tasks[t].target.payload)
  BY <1>1, <1>3, <1>4, <1>5, BackendCommitKeeps DEF ArchiveResume
<1>6. CASE ~Fenced(dirs, tasks[t].target.payload)
  <2>1. Goto(t, "copy") /\ UNCHANGED archiveVars /\ UNCHANGED budget
    BY <1>6 DEF ArchiveResume
  <2>2. "copy" \in LabelsOf(t) /\ "copy" \in Labels
    BY <1>3 DEF LabelsOf, Labels
  <2> QED
    BY <1>1, <1>3, <1>4, <2>1, <2>2, QuietCall, BudgetKept, GotoKeeps
<1> QED
  BY <1>5, <1>6

LEMMA ArchiveCommitKeeps ==
  ASSUME EngineInv, NEW t \in Task, ArchiveCommit(t)
  PROVE  EngineInv'
<1>1. At(t, "commit") /\ Archiving(t) /\ UNCHANGED storageVars
  BY DEF ArchiveCommit, Archiving
<1>2. ~At(t, "new") /\ Within(t, {"resume", "commit"})
  BY <1>1 DEF At, Within
<1>3. CASE tasks[t].evidence # tasks[t].view.content
  <2>1. Fail(t, "Integrity") /\ UNCHANGED archiveVars /\ UNCHANGED budget
    BY <1>3 DEF ArchiveCommit
  <2> QED
    BY <1>1, <1>2, <2>1, QuietCall, BudgetKept, FailKeeps DEF Fail
<1>4. CASE tasks[t].evidence = tasks[t].view.content
  BY <1>1, <1>2, <1>4, BackendCommitKeeps DEF ArchiveCommit
<1> QED
  BY <1>3, <1>4

-----------------------------------------------------------------------------
(* Transfers.                                                              *)

SourceMoves(l) ==
  \/ S!BeginRead(l) \/ S!BeginWrite(l) \/ S!EndSession(l)
  \/ \E c \in Content : S!WriteBytes(l, c)

PayloadMoves(l) ==
  \/ A!BeginRead(l) \/ A!BeginWrite(l) \/ A!EndSession(l)
  \/ \E c \in Content : A!WriteBytes(l, c)

LEMMA SourceMovesKept ==
  ASSUME EngineInv, NEW l \in Id, SourceMoves(l)
  PROVE  /\ S!StorageInv' /\ S!LayoutsFrame /\ S!OutcomesFrame
         /\ \A s \in S!Documents' : S!Reliable(s, returned, layouts', fresh')
         /\ layouts'[l].there = layouts[l].there
         /\ \A k \in Id : k # l => layouts'[k] = layouts[k]
<1>1. S!StorageInv'
  BY EngineParts, S!SessionSafe, LayoutAssumption, SourceAssumed DEF SourceMoves
<1>2. UNCHANGED <<mem, disk, durable, poisoned, up, fresh>>
  BY DEF SourceMoves, S!BeginRead, S!BeginWrite, S!WriteBytes, S!EndSession, S!docs
<1>3. /\ layouts \in [Id -> Layout] /\ fresh \in Nat /\ S!Id = Id
      /\ layouts[l].session = "writing" => layouts[l].seal = "open"
  BY EngineParts DEF S!StorageInv, S!LayoutsKept
<1>4. /\ \A k \in Id : k # l => layouts'[k] = layouts[k]
      /\ layouts'[l].there = layouts[l].there /\ layouts'[l].seal = layouts[l].seal
      /\ layouts[l].seal = "sealed" => layouts'[l].data = layouts[l].data
  <2>1. CASE S!BeginRead(l) \/ S!BeginWrite(l) \/ S!EndSession(l)
    BY <1>3, <2>1 DEF S!BeginRead, S!BeginWrite, S!EndSession, Layout
  <2>2. ASSUME NEW c \in Content, S!WriteBytes(l, c)
        PROVE  /\ \A k \in Id : k # l => layouts'[k] = layouts[k]
               /\ layouts'[l].there = layouts[l].there /\ layouts'[l].seal = layouts[l].seal
               /\ layouts[l].seal = "sealed" => layouts'[l].data = layouts[l].data
    BY <1>3, <2>2 DEF S!WriteBytes, Layout
  <2> QED
    BY <2>1, <2>2 DEF SourceMoves
<1>5. S!LayoutsFrame
  BY <1>2, <1>3, <1>4 DEF S!LayoutsFrame
<1>6. S!Documents' \subseteq S!Documents
  BY <1>2 DEF S!Documents
<1>7. (\A s \in S!Documents' : S!Reliable(s, returned, layouts', fresh')) /\ S!OutcomesFrame
  BY <1>1, <1>5, <1>6, EngineParts, S!OthersReliable, LayoutAssumption, SourceAssumed
<1> QED
  BY <1>1, <1>4, <1>5, <1>7

LEMMA PayloadMovesKept ==
  ASSUME EngineInv, NEW l \in Id, PayloadMoves(l)
  PROVE  /\ A!ArchiveInv' /\ A!Keeps /\ UNCHANGED <<objects, returned>>
         /\ \A k \in Id : k # l => dirs'[k] = dirs[k]
<1>1. /\ UNCHANGED <<objects, synced, attempts, serial, returned>>
      /\ A!ArchiveInv /\ A!Id = Id /\ A!Layout = Layout
      /\ dirs \in [Id -> Layout]
      /\ dirs[l].session = "writing" => dirs[l].seal = "open"
  BY EngineParts DEF PayloadMoves, A!BeginRead, A!BeginWrite, A!WriteBytes, A!EndSession,
                     A!ArchiveInv, A!DirsKept
<1>2. ASSUME NEW layout \in Layout, dirs' = [dirs EXCEPT ![l] = layout],
             layout.there = dirs[l].there, layout.seal = dirs[l].seal,
             layout.session # "free" => dirs[l].there \/ dirs[l].session # "free",
             layout.session = "writing" => layout.seal = "open",
             dirs[l].seal = "sealed" => layout.data = dirs[l].data
      PROVE  A!ArchiveInv' /\ A!Keeps /\ \A k \in Id : k # l => dirs'[k] = dirs[k]
  <2>1. A!ArchiveInv' /\ A!Keeps
    BY <1>1, <1>2, A!SessionMoves, LayoutAssumption, ArchiveAssumed
  <2> QED
    BY <1>1, <1>2, <2>1
<1>3. CASE A!BeginRead(l)
  <2> DEFINE layout == [dirs[l] EXCEPT !.session = "reading"]
  <2>1. /\ layout \in Layout /\ layout.there = dirs[l].there /\ layout.seal = dirs[l].seal
        /\ layout.data = dirs[l].data /\ layout.session = "reading"
    BY <1>1 DEF Layout
  <2>2. dirs' = [dirs EXCEPT ![l] = layout] /\ dirs[l].there
    BY <1>3 DEF A!BeginRead
  <2> HIDE DEF layout
  <2> QED
    BY <1>1, <1>2, <2>1, <2>2
<1>4. CASE A!BeginWrite(l)
  <2> DEFINE layout == [dirs[l] EXCEPT !.session = "writing"]
  <2>1. /\ layout \in Layout /\ layout.there = dirs[l].there /\ layout.seal = dirs[l].seal
        /\ layout.data = dirs[l].data /\ layout.session = "writing"
    BY <1>1 DEF Layout
  <2>2. dirs' = [dirs EXCEPT ![l] = layout] /\ dirs[l].there /\ dirs[l].seal = "open"
    BY <1>4 DEF A!BeginWrite, A!Fenced
  <2> HIDE DEF layout
  <2> QED
    BY <1>1, <1>2, <2>1, <2>2
<1>5. CASE A!EndSession(l)
  <2> DEFINE layout == [dirs[l] EXCEPT !.session = "free"]
  <2>1. /\ layout \in Layout /\ layout.there = dirs[l].there /\ layout.seal = dirs[l].seal
        /\ layout.data = dirs[l].data /\ layout.session = "free"
    BY <1>1 DEF Layout
  <2>2. dirs' = [dirs EXCEPT ![l] = layout]
    BY <1>5 DEF A!EndSession
  <2> HIDE DEF layout
  <2> QED
    BY <1>1, <1>2, <2>1, <2>2
<1>6. ASSUME NEW c \in Content, A!WriteBytes(l, c)
      PROVE  A!ArchiveInv' /\ A!Keeps /\ \A k \in Id : k # l => dirs'[k] = dirs[k]
  <2> DEFINE layout == [dirs[l] EXCEPT !.data = c]
  <2>1. /\ layout \in Layout /\ layout.there = dirs[l].there /\ layout.seal = dirs[l].seal
        /\ layout.session = dirs[l].session
    BY <1>1 DEF Layout
  <2>2. dirs' = [dirs EXCEPT ![l] = layout] /\ dirs[l].session = "writing"
    BY <1>6 DEF A!WriteBytes
  <2> HIDE DEF layout
  <2> QED
    BY <1>1, <1>2, <2>1, <2>2
<1> QED
  BY <1>1, <1>3, <1>4, <1>5, <1>6 DEF PayloadMoves

\* A step of the mover, at one directory of the source and one of the archive.
LEMMA MovesKept ==
  ASSUME EngineInv, NEW l \in Id, NEW p \in Id,
         SourceMoves(l) \/ UNCHANGED storageVars, PayloadMoves(p) \/ UNCHANGED archiveVars
  PROVE  /\ AdaptersKept /\ layouts'[l].there = layouts[l].there /\ objects' = objects
         /\ \A k \in Id : k # l => layouts'[k] = layouts[k]
         /\ \A k \in Id : k # p => dirs'[k] = dirs[k]
<1>1. /\ A!ArchiveInv' /\ A!Keeps /\ UNCHANGED <<objects, returned>>
      /\ \A k \in Id : k # p => dirs'[k] = dirs[k]
  BY PayloadMovesKept, ArchiveQuiet DEF archiveVars
<1>2. /\ S!StorageInv' /\ S!LayoutsFrame /\ S!OutcomesFrame
      /\ \A s \in S!Documents' : S!Reliable(s, returned, layouts', fresh')
      /\ layouts'[l].there = layouts[l].there
      /\ \A k \in Id : k # l => layouts'[k] = layouts[k]
  <2>1. CASE SourceMoves(l)
    BY <2>1, SourceMovesKept
  <2>2. CASE UNCHANGED storageVars
    <3>1. /\ S!StorageInv' /\ S!LayoutsFrame /\ S!OutcomesFrame /\ S!Documents' = S!Documents
          /\ layouts' = layouts /\ fresh' = fresh
      BY <2>2, SourceQuiet DEF storageVars
    <3> QED
      BY <3>1 DEF EngineInv
  <2> QED
    BY <2>1, <2>2
<1> QED
  BY <1>1, <1>2 DEF AdaptersKept

\* What other transfers hold is another directory.
LEMMA ApartStay ==
  ASSUME EngineInv, NEW t \in Task, NEW l, NEW p,
         \A u \in Task : u # t /\ At(u, "copying") => LayoutOf(u) # l /\ PayloadOf(u) # p,
         \A k \in Id : k # l => layouts'[k] = layouts[k],
         \A k \in Id : k # p => dirs'[k] = dirs[k]
  PROVE  Undisturbed(t)
BY TransferParts DEF Undisturbed, LocksStay, At, Within

\* What a transfer reads: bytes that are pinned, or kept for good.
LEMMA SourceIs ==
  ASSUME EngineInv, NEW t \in Task, At(t, "copying")
  PROVE  /\ SourceData(t) \in Content
         /\ Archiving(t) => SourceData(t) = tasks[t].view.content
         /\ Recalling(t) => SourceData(t) = tasks[t].expected.content
<1>1. /\ TaskKept(t) /\ ~At(t, "new") /\ HoldsLocks(t)
      /\ Within(t, {"copy", "copying", "commit"})
  BY DEF EngineInv, TaskKept, At, Within
<1>2. CASE Archiving(t)
  <2>1. HoldsView(t) /\ ~Recalling(t) /\ tasks[t].view \in S!DataView
    BY <1>1, <1>2, ArchiveHolds DEF At, Within
  <2>2. SourceData(t) = tasks[t].view.content
    BY <1>1, <1>2, <2>1 DEF HoldsLocks, LayoutOf, HoldsView, S!ViewIntact, SourceData, Archiving
  <2> QED
    BY <1>2, <2>1, <2>2 DEF S!DataView
<1>3. CASE Recalling(t)
  <2>1. ~Archiving(t) /\ dirs[PayloadOf(t)].data = tasks[t].expected.content
    BY <1>1, <1>3, TransferParts, TaskKinds
  <2>2. SourceData(t) = tasks[t].expected.content
    BY <2>1 DEF SourceData, PayloadOf, Archiving
  <2> QED
    BY <1>1, <2>1, <2>2, ObservedParts DEF S!EntityState
<1> QED
  BY <1>1, <1>2, <1>3, TransferParts

LEMMA CopyBeginKeeps ==
  ASSUME EngineInv, NEW t \in Task, CopyBegin(t)
  PROVE  EngineInv'
<1> DEFINE l == LayoutOf(t)
           p == PayloadOf(t)
<1>1. At(t, "copy") /\ ~At(t, "new") /\ Within(t, {"copy", "copying", "commit"}) /\ UNCHANGED budget
  BY DEF CopyBegin, At, Within
<1>2. budget' \in 0 .. Budget /\ l \in Id /\ p \in Id /\ (Archiving(t) \/ Recalling(t))
  BY <1>1, BudgetKept, TransferParts
<1>3. CASE CopyError(t) # "none"
  <2>1. Fail(t, CopyError(t)) /\ UNCHANGED storageVars /\ UNCHANGED archiveVars
    BY <1>3 DEF CopyBegin
  <2> QED
    BY <1>1, <1>2, <2>1, QuietCall, FailKeeps DEF Fail
<1>4. CASE CopyError(t) = "none"
  <2>1. /\ Goto(t, "copying")
        /\ Archiving(t) => Storage!BeginRead(l) /\ Backend!BeginWrite(p)
        /\ Recalling(t) => Backend!BeginRead(p) /\ Storage!BeginWrite(l)
    BY <1>2, <1>4, TaskKinds DEF CopyBegin, LayoutOf, PayloadOf, Archiving, Recalling
  <2>2. /\ Archiving(t) => S!BeginRead(l) /\ A!BeginWrite(p)
        /\ Recalling(t) => A!BeginRead(p) /\ S!BeginWrite(l)
    BY <2>1, SameSessions, SameArchiveSessions
  <2>3. layouts \in [Id -> Layout] /\ dirs \in [Id -> Layout]
    BY EngineParts
  <2>4. /\ layouts[l].session = "free" /\ layouts[l].there /\ dirs[p].session = "free"
        /\ layouts'[l].there /\ layouts'[l].session = (IF Archiving(t) THEN "reading" ELSE "writing")
        /\ dirs'[p].session = (IF Archiving(t) THEN "writing" ELSE "reading")
    <3>1. CASE Archiving(t)
      BY <1>2, <2>2, <2>3, <3>1
         DEF S!BeginRead, A!BeginWrite, S!Locked, A!Locked, Layout
    <3>2. CASE Recalling(t)
      BY <1>2, <2>2, <2>3, <3>2, TaskKinds
         DEF S!BeginWrite, A!BeginRead, S!Locked, A!Locked, Layout
    <3> QED
      BY <1>2, <3>1, <3>2
  <2>5. SourceMoves(l) /\ PayloadMoves(p)
    BY <1>2, <2>2 DEF SourceMoves, PayloadMoves
  <2>6. /\ AdaptersKept /\ objects' = objects
        /\ \A k \in Id : k # l => layouts'[k] = layouts[k]
        /\ \A k \in Id : k # p => dirs'[k] = dirs[k]
    BY <1>2, <2>5, MovesKept
  <2>7. \A u \in Task : u # t /\ At(u, "copying") => LayoutOf(u) # l /\ PayloadOf(u) # p
    <3> SUFFICES ASSUME NEW u \in Task, At(u, "copying")
                 PROVE  LayoutOf(u) # l /\ PayloadOf(u) # p
      OBVIOUS
    <3>1. HoldsLocks(u)
      BY DEF EngineInv, TaskKept
    <3> QED
      BY <2>4, <3>1 DEF HoldsLocks
  <2>8. Undisturbed(t)
    BY <2>6, <2>7, ApartStay
  <2>9. /\ "copying" \in LabelsOf(t) /\ "copying" \in Labels
    BY <1>2, TaskKinds DEF LabelsOf, Labels
  <2>10. /\ [tasks[t] EXCEPT !.pc = "copying"] \in TaskState
         /\ Become(t, [tasks[t] EXCEPT !.pc = "copying"])
         /\ tasks'[t].expected = tasks[t].expected /\ tasks'[t].view = tasks[t].view
         /\ tasks'[t].target = tasks[t].target /\ tasks'[t].receipt = tasks[t].receipt
         /\ tasks'[t].pc = "copying"
    BY <2>1, <2>9, GotoTyped
  <2>11. /\ tasks' \in [Task -> TaskState]
         /\ \A u \in Task : u # t => tasks'[u] = tasks[u]
    BY <2>10, BecomeIs
  <2>12. LayoutOf(t)' = l /\ PayloadOf(t)' = p
    BY <2>6, <2>10 DEF LayoutOf, PayloadOf, Archiving
  <2>13. HoldsLocks(t)'
    BY <2>4, <2>12 DEF HoldsLocks, Archiving
  <2>14. TaskKept(t)'
    <3>1. Observed(t) /\ TaskKept(t)
      BY <1>1, ObservedParts DEF EngineInv
    <3>2. /\ Archiving(t) => HoldsView(t) /\ HoldsAttempt(t)
          /\ Recalling(t) => Anchored(t) /\ HoldsTarget(t)
      BY <1>1, <3>1 DEF TaskKept, At, Within
    <3>3. /\ Observed(t)'
          /\ Archiving(t) => HoldsView(t)' /\ HoldsAttempt(t)'
          /\ Recalling(t) => Anchored(t)' /\ HoldsTarget(t)'
      BY <2>6, <2>10, <3>1, <3>2, HoldingStays
    <3>4. (Archiving(t)' <=> Archiving(t)) /\ (Recalling(t)' <=> Recalling(t))
          /\ LabelsOf(t)' = LabelsOf(t)
      BY DEF Archiving, Recalling, LabelsOf, Releasing
    <3> QED
      BY <2>9, <2>10, <2>13, <3>3, <3>4 DEF TaskKept, At
  <2> QED
    BY <1>2, <2>6, <2>7, <2>8, <2>11, <2>12, <2>14, StepKeeps
<1> QED
  BY <1>3, <1>4

\* Steps in which no task moves.
LEMMA AllStay ==
  ASSUME EngineInv, AdaptersKept, budget' \in 0 .. Budget, UNCHANGED tasks,
         \A u \in Task : At(u, "copying") => LocksStay(u)
  PROVE  EngineInv'
<1>1. \A u \in Task : tasks'[u] = tasks[u] /\ (At(u, "copying")' <=> At(u, "copying"))
  BY DEF At
<1>2. \A u \in Task : TaskKept(u)'
  BY <1>1, TaskStays
<1>3. ASSUME NEW u \in Task, At(u, "copying")'
      PROVE  At(u, "copying") /\ LayoutOf(u)' = LayoutOf(u) /\ PayloadOf(u)' = PayloadOf(u)
  BY <1>1, <1>3, TransferStays DEF At, Within
<1>4. Apart'
  BY <1>3 DEF EngineInv, Apart
<1> QED
  BY <1>2, <1>4 DEF EngineInv, AdaptersKept

LEMMA CopyBytesKeeps ==
  ASSUME EngineInv, NEW t \in Task, CopyBytes(t)
  PROVE  EngineInv'
<1> DEFINE l == LayoutOf(t)
           p == PayloadOf(t)
           c == IF DestinationData(t) = Torn THEN SourceData(t) ELSE Torn
<1>1. At(t, "copying") /\ Within(t, {"copy", "copying", "commit"}) /\ UNCHANGED <<tasks, budget>>
  BY DEF CopyBytes, At, Within
<1>2. /\ budget' \in 0 .. Budget /\ l \in Id /\ p \in Id /\ (Archiving(t) \/ Recalling(t))
      /\ c \in Content
  BY <1>1, BudgetKept, TransferParts, SourceIs, EngineAssumption
<1>3. /\ Archiving(t) => Backend!WriteBytes(p, c) /\ UNCHANGED storageVars
      /\ Recalling(t) => Storage!WriteBytes(l, c) /\ UNCHANGED archiveVars
  BY <1>2, TaskKinds DEF CopyBytes, LayoutOf, PayloadOf, Archiving, Recalling
<1> HIDE DEF c
<1>4. /\ Archiving(t) => A!WriteBytes(p, c) /\ UNCHANGED storageVars
      /\ Recalling(t) => S!WriteBytes(l, c) /\ UNCHANGED archiveVars
  BY <1>3, SameSessions, SameArchiveSessions
<1>5. /\ SourceMoves(l) \/ UNCHANGED storageVars
      /\ PayloadMoves(p) \/ UNCHANGED archiveVars
  BY <1>2, <1>4 DEF SourceMoves, PayloadMoves
<1>6. AdaptersKept
  BY <1>2, <1>5, MovesKept
<1>7. layouts \in [Id -> Layout] /\ dirs \in [Id -> Layout]
  BY EngineParts
<1>8. \A k \in Id : /\ layouts'[k].there = layouts[k].there
                    /\ layouts'[k].session = layouts[k].session
                    /\ dirs'[k].session = dirs[k].session
  <2>1. CASE Archiving(t)
    BY <1>4, <1>7, <2>1 DEF A!WriteBytes, storageVars, Layout
  <2>2. CASE Recalling(t)
    BY <1>4, <1>7, <2>2 DEF S!WriteBytes, archiveVars, Layout
  <2> QED
    BY <1>2, <2>1, <2>2
<1>9. \A u \in Task : At(u, "copying") => LocksStay(u)
  BY <1>8, TransferParts DEF LocksStay, At, Within
<1> QED
  BY <1>1, <1>2, <1>6, <1>9, AllStay

\* The end of a transfer, whatever it became: other transfers have other locks.
LEMMA EndKept ==
  ASSUME EngineInv, NEW t \in Task, At(t, "copying"), EndSessions(t)
  PROVE  AdaptersKept /\ Undisturbed(t)
<1> DEFINE l == LayoutOf(t)
           p == PayloadOf(t)
<1>1. l \in Id /\ p \in Id /\ (Archiving(t) \/ Recalling(t))
  BY TransferParts DEF At, Within
<1>2. Storage!EndSession(l) /\ Backend!EndSession(p)
  BY <1>1, TaskKinds DEF EndSessions, LayoutOf, PayloadOf, Archiving, Recalling
<1>3. SourceMoves(l) /\ PayloadMoves(p)
  BY <1>2, SameSessions, SameArchiveSessions DEF SourceMoves, PayloadMoves
<1>4. /\ AdaptersKept
      /\ \A k \in Id : k # l => layouts'[k] = layouts[k]
      /\ \A k \in Id : k # p => dirs'[k] = dirs[k]
  BY <1>1, <1>3, MovesKept
<1>5. \A u \in Task : u # t /\ At(u, "copying") => LayoutOf(u) # l /\ PayloadOf(u) # p
  BY DEF EngineInv, Apart
<1> QED
  BY <1>4, <1>5, ApartStay

LEMMA CopyEndKeeps ==
  ASSUME EngineInv, NEW t \in Task, CopyEnd(t)
  PROVE  EngineInv'
<1> DEFINE task == [tasks[t] EXCEPT !.pc = "commit", !.evidence = DestinationData(t)]
<1>1. /\ At(t, "copying") /\ ~At(t, "new") /\ Within(t, {"copy", "copying", "commit"})
      /\ EndSessions(t) /\ Become(t, task) /\ UNCHANGED budget
      /\ DestinationData(t) = SourceData(t)
  BY DEF CopyEnd, At, Within
<1>2. /\ AdaptersKept /\ Undisturbed(t) /\ budget' \in 0 .. Budget
      /\ (Archiving(t) \/ Recalling(t)) /\ DestinationData(t) \in Content
  BY <1>1, EndKept, BudgetKept, TransferParts, SourceIs
<1>3. /\ task \in TaskState /\ task.pc = "commit" /\ task.expected = tasks[t].expected
      /\ task.view = tasks[t].view /\ task.target = tasks[t].target
  BY <1>2, TaskTyped DEF TaskState, Labels
<1> HIDE DEF task
<1>4. tasks'[t] = task
  BY <1>1, <1>3, BecomeIs
<1>5. /\ Archiving(t) => HoldsView(t) /\ HoldsAttempt(t)
      /\ Recalling(t) => Anchored(t) /\ HoldsTarget(t)
  BY <1>1, TaskTyped DEF TaskKept, At, Within
<1>6. /\ Archiving(t) => HoldsView(t)' /\ HoldsAttempt(t)'
      /\ Recalling(t) => Anchored(t)' /\ HoldsTarget(t)'
  BY <1>2, <1>3, <1>4, <1>5, HoldingStays
<1>7. "commit" \in LabelsOf(t)
  BY <1>2, TaskKinds DEF LabelsOf
<1> QED
  BY <1>1, <1>2, <1>3, <1>6, <1>7, MoveKeeps

LEMMA CopyFailsKeeps ==
  ASSUME EngineInv, NEW t \in Task, CopyFails(t)
  PROVE  EngineInv'
<1>1. /\ At(t, "copying") /\ ~At(t, "new") /\ EndSessions(t)
      /\ Become(t, AfterError(t, "Unknown")) /\ Costs(1)
  BY DEF CopyFails, Fail, At
<1> QED
  BY <1>1, EndKept, BudgetKept, FailKeeps

-----------------------------------------------------------------------------
(* The rest of the system.                                                 *)

LEMMA ImportKeeps ==
  ASSUME EngineInv, NEW e \in Entity, Import(e)
  PROVE  EngineInv'
<1>1. PICK c \in Content : Storage!Import(e, c)
  BY DEF Import
<1>2. UNCHANGED archiveVars /\ UNCHANGED tasks /\ budget' \in 0 .. Budget
  BY FaultCosts, BudgetKept DEF Import
<1>3. S!Import(e, c)
  BY <1>1, SameImport
<1>4. S!CallKept(returned)
  BY <1>3, EngineParts, S!ImportCalls, LayoutAssumption, SourceAssumed
<1> QED
  BY <1>2, <1>4, SourceCall, SessionsStay, AllStay

LEMMA CollectGarbageKeeps ==
  ASSUME EngineInv, CollectGarbage
  PROVE  EngineInv'
<1>1. /\ UNCHANGED archiveVars /\ UNCHANGED tasks /\ budget' \in 0 .. Budget
      /\ S!CollectGarbage \/ S!CollectGarbageStops
  BY FaultCosts, BudgetKept, SameSystem DEF CollectGarbage
<1>2. S!CallKept(returned)
  BY <1>1, EngineParts, S!CollectGarbageCalls, LayoutAssumption, SourceAssumed
<1> QED
  BY <1>1, <1>2, SourceCall, SessionsStay, AllStay

\* A restart of the source, after which no layout is other than before but
\* for its lock and what no sync had made durable.
LEMMA RestartKept ==
  ASSUME EngineInv, S!Crash \/ S!PowerLoss \/ S!Reopen
  PROVE  /\ S!StorageInv' /\ S!LayoutsFrame /\ S!OutcomesFrame
         /\ \A s \in S!Documents' : S!Reliable(s, returned, layouts', fresh')
<1>1. S!StorageInv'
  BY EngineParts, S!EnvironmentSafe, LayoutAssumption, SourceAssumed
<1>2. fresh' = fresh /\ S!Documents' \subseteq S!Documents
  BY DEF S!Crash, S!PowerLoss, S!Reopen, S!docs, S!Documents
<1>3. layouts \in [Id -> Layout] /\ fresh \in Nat /\ S!Id = Id
  BY EngineParts
<1>4. \A l \in Id : /\ layouts'[l].there = layouts[l].there
                    /\ layouts[l].seal = "sealed" =>
                         layouts'[l].seal = "sealed" /\ layouts'[l].data = layouts[l].data
  <2>1. CASE S!Crash
    BY <1>3, <2>1 DEF S!Crash, S!Unlocked, Layout
  <2>2. CASE S!PowerLoss
    <3>1. PICK lost \in SUBSET S!Volatile(layouts) : layouts' = S!AfterPowerLoss(layouts, lost)
      BY <2>2 DEF S!PowerLoss
    <3>2. \A l \in lost : layouts[l].seal # "sealed"
      BY DEF S!Volatile
    <3> QED
      BY <1>3, <3>1, <3>2 DEF S!AfterPowerLoss
  <2>3. CASE S!Reopen
    BY <2>3 DEF S!Reopen
  <2> QED
    BY <2>1, <2>2, <2>3
<1>5. S!LayoutsFrame
  BY <1>2, <1>3, <1>4 DEF S!LayoutsFrame
<1> QED
  BY <1>1, <1>2, <1>5, EngineParts, S!OthersReliable, LayoutAssumption, SourceAssumed

LEMMA ReopenKeeps ==
  ASSUME EngineInv, Reopen
  PROVE  EngineInv'
<1>1. /\ S!Reopen /\ UNCHANGED archiveVars /\ UNCHANGED tasks /\ UNCHANGED budget
      /\ layouts' = layouts
  BY SameSystem DEF Reopen, S!Reopen
<1>2. AdaptersKept
  BY <1>1, RestartKept, ArchiveQuiet DEF AdaptersKept, archiveVars
<1>3. SessionsKept
  BY <1>1 DEF SessionsKept, S!SessionFrame, DirsFrame, archiveVars
<1> QED
  BY <1>1, <1>2, <1>3, BudgetKept, SessionsStay, AllStay

\* Every call that is on its way ends; the caller keeps its observation.
LEMMA InterruptedKeeps ==
  ASSUME EngineInv, AdaptersKept, budget' \in 0 .. Budget, tasks' = Interrupted
  PROVE  EngineInv'
<1>1. ASSUME NEW t \in Task
      PROVE  tasks'[t] \in TaskState /\ TaskKept(t)' /\ ~At(t, "copying")'
  <2>1. CASE tasks[t].pc \in {"new", "done", "failed"}
    <3>1. tasks'[t] = tasks[t] /\ ~At(t, "copying")
      BY <2>1 DEF Interrupted, At
    <3>2. TaskKept(t)'
      BY <3>1, TaskStays
    <3> QED
      BY <3>1, <3>2, TaskTyped DEF At
  <2>2. CASE tasks[t].pc \notin {"new", "done", "failed"}
    <3> DEFINE task == [Idle EXCEPT !.pc = "ready", !.expected = tasks[t].expected]
    <3>1. task \in TaskState /\ task.pc = "ready" /\ task.expected = tasks[t].expected
      BY IdleTyped DEF Labels
    <3>2. tasks'[t] = task
      BY <2>2 DEF Interrupted
    <3> HIDE DEF task
    <3>3. Observed(t)
      BY <2>2, TaskTyped DEF TaskKept, At
    <3>4. Observed(t)'
      BY <3>1, <3>2, <3>3, HoldingStays
    <3>5. tasks'[t].pc = "ready" /\ (tasks[t].pc \in LabelsOf(t))'
      BY <3>1, <3>2 DEF LabelsOf
    <3> QED
      BY <3>1, <3>2, <3>4, <3>5 DEF TaskKept, At, Within
  <2> QED
    BY <2>1, <2>2
<1>2. tasks' \in [Task -> TaskState]
  BY <1>1 DEF Interrupted
<1> QED
  BY <1>1, <1>2 DEF EngineInv, AdaptersKept, Apart

LEMMA CrashKeeps ==
  ASSUME EngineInv, Crash
  PROVE  EngineInv'
<1>1. S!Crash /\ A!Crash /\ tasks' = Interrupted
  BY SameSystem, SameDisasters DEF Crash
<1>2. budget' \in 0 .. Budget
  BY BudgetKept DEF Crash
<1>3. A!ArchiveInv' /\ A!Keeps /\ returned' = returned
  BY <1>1, EngineParts, A!CrashKeeps, LayoutAssumption, ArchiveAssumed DEF A!Crash
<1>4. AdaptersKept
  BY <1>1, <1>3, RestartKept DEF AdaptersKept
<1> QED
  BY <1>1, <1>2, <1>4, InterruptedKeeps

LEMMA PowerLossKeeps ==
  ASSUME EngineInv, PowerLoss
  PROVE  EngineInv'
<1>1. S!PowerLoss /\ A!PowerLoss /\ tasks' = Interrupted
  BY SameSystem, SameDisasters DEF PowerLoss
<1>2. budget' \in 0 .. Budget
  BY BudgetKept DEF PowerLoss
<1>3. A!ArchiveInv' /\ A!Keeps /\ returned' = returned
  BY <1>1, EngineParts, A!PowerLossKeeps, LayoutAssumption, ArchiveAssumed DEF A!PowerLoss
<1>4. AdaptersKept
  BY <1>1, <1>3, RestartKept DEF AdaptersKept
<1> QED
  BY <1>1, <1>2, <1>4, InterruptedKeeps

-----------------------------------------------------------------------------
(* The invariant holds at the start, and every step keeps it.              *)

LEMMA InitKeeps == Init => EngineInv
<1> SUFFICES ASSUME Init PROVE EngineInv
  OBVIOUS
<1>1. S!Init /\ A!Init /\ tasks = [t \in Task |-> Idle] /\ budget = Budget
  BY SameSystem, SameDisasters DEF Init
<1>2. S!StorageInv
  BY <1>1, S!InitSafe, LayoutAssumption, SourceAssumed
<1>3. A!ArchiveInv
  BY <1>1, A!ArchiveStarts, LayoutAssumption, ArchiveAssumed
<1>4. S!Reliable(S!EmptyState, returned, layouts, fresh)
  <2>1. \A op \in Op, name \in S!StepName : ~S!Succeeded(S!EmptyState, op, name)
    BY DEF S!EmptyState, S!Succeeded
  <2>2. \A e \in Entity : ~S!Exists(S!EmptyState, e)
    BY DEF S!EmptyState, S!Exists
  <2>3. "prepare_archive" \in S!StepName
    BY DEF S!StepName
  <2> QED
    BY <2>1, <2>2, <2>3 DEF S!Reliable, S!Meanings, S!ViewsIntact, S!AnchorsFrom
<1>5. \A s \in S!Documents : S!Reliable(s, returned, layouts, fresh)
  BY <1>1, <1>4 DEF S!Init, S!Documents
<1>6. budget \in 0 .. Budget
  BY <1>1, EngineAssumption
<1>7. Idle \in TaskState /\ Idle.pc = "new"
  BY DEF Idle, TaskState, Labels
<1>8. \A t \in Task : tasks[t] = Idle
  BY <1>1
<1>9. \A t \in Task : TaskKept(t)
  BY <1>7, <1>8 DEF TaskKept, At, Within, LabelsOf
<1>10. tasks \in [Task -> TaskState] /\ Apart
  BY <1>1, <1>7, <1>8 DEF Apart, At
<1> QED
  BY <1>2, <1>3, <1>5, <1>6, <1>9, <1>10 DEF EngineInv

LEMMA StutterKeeps ==
  ASSUME EngineInv, UNCHANGED vars
  PROVE  EngineInv'
<1>1. /\ UNCHANGED storageVars /\ UNCHANGED archiveVars
      /\ UNCHANGED tasks /\ UNCHANGED budget
  BY DEF vars, storageVars, archiveVars
<1> QED
  BY <1>1, QuietCall, BudgetKept, SessionsStay, AllStay

LEMMA ProceedKeeps ==
  ASSUME EngineInv, NEW t \in Task, Proceed(t)
  PROVE  EngineInv'
<1>1. CASE Observe(t) \/ Begin(t)
  BY <1>1, ObserveKeeps, BeginKeeps
<1>2. CASE Archive(t)
  BY <1>2, ArchivePinKeeps, ArchiveLookupKeeps, ArchiveStageKeeps, ArchiveResumeKeeps,
     ArchiveCommitKeeps, ArchiveBindKeeps DEF Archive
<1>3. CASE Release(t)
  BY <1>3, ReleaseInspectKeeps, ReleaseVerifyKeeps, ReleaseSourceKeeps DEF Release
<1>4. CASE Recall(t)
  BY <1>4, RecallLookupKeeps, RecallPinKeeps, RecallOpenKeeps, RecallCommitKeeps DEF Recall
<1>5. CASE Copy(t)
  BY <1>5, CopyBeginKeeps, CopyBytesKeeps, CopyEndKeeps, CopyFailsKeeps DEF Copy
<1> QED
  BY <1>1, <1>2, <1>3, <1>4, <1>5 DEF Proceed

LEMMA NextKeeps == EngineInv /\ [Next]_vars => EngineInv'
<1> SUFFICES ASSUME EngineInv, [Next]_vars PROVE EngineInv'
  OBVIOUS
<1>1. ASSUME NEW t \in Task, Proceed(t) PROVE EngineInv'
  BY <1>1, ProceedKeeps
<1>2. ASSUME NEW e \in Entity, Import(e) PROVE EngineInv'
  BY <1>2, ImportKeeps
<1>3. CASE CollectGarbage
  BY <1>3, CollectGarbageKeeps
<1>4. CASE Crash \/ PowerLoss \/ Reopen
  BY <1>4, CrashKeeps, PowerLossKeeps, ReopenKeeps
<1>5. CASE UNCHANGED vars
  BY <1>5, StutterKeeps
<1> QED
  BY <1>1, <1>2, <1>3, <1>4, <1>5 DEF Next

(***************************************************************************)
(* The invariant of the coordinator: whatever is interrupted, repeated or  *)
(* lost, the two adapters keep what they promise each other and each call  *)
(* on its way holds what its next step of hsm-engine/src/lib.rs relies on. *)
(***************************************************************************)
THEOREM EngineSafe == Spec => []EngineInv
BY InitKeeps, NextKeeps, PTL DEF Spec

-----------------------------------------------------------------------------
(* What follows for the properties of module HsmEngine.                    *)

LEMMA DocumentsKept ==
  ASSUME EngineInv, NEW s \in {disk, durable}
  PROVE  /\ S!DocTyped(s) /\ S!Sound(s, layouts, fresh)
         /\ S!Reliable(s, returned, layouts, fresh)
BY DEF EngineInv, S!StorageInv, S!TypeOK, S!DocTyped, S!Documents

\* A receipt the archive has returned names bytes that are there for good.
LEMMA BytesKept ==
  ASSUME EngineInv, NEW a \in returned
  PROVE  Kept(a)
BY ReturnedKept DEF Kept

LEMMA AnchorsKeep ==
  ASSUME EngineInv, NEW s \in {disk, durable}, NEW e \in Entity, s.entities[e] # NoEntity,
         NEW a \in s.entities[e].public.anchors
  PROVE  Kept(a) /\ a.content = s.entities[e].public.content
<1>1. S!Exists(s, e)
  BY DEF S!Exists
<1>2. a \in returned
  BY <1>1, DocumentsKept DEF S!Reliable, S!AnchorsFrom
<1>3. a.content = s.entities[e].public.content
  BY <1>1, DocumentsKept DEF S!Sound, S!AnchorsKept
<1> QED
  BY <1>2, <1>3, BytesKept

LEMMA EngineTyped == EngineInv => TypeOK
<1> SUFFICES ASSUME EngineInv, NEW t \in Task PROVE tasks[t] \in TaskState
  BY SourceTypes, ArchiveTypes DEF EngineInv, TypeOK, TaskState
<1> QED
  BY TaskTyped

(***************************************************************************)
(* Every entity has a copy of its bytes: the layout it publishes, or, once *)
(* release has given that up, the archive payload of an anchor.            *)
(***************************************************************************)
LEMMA CopiesKept == EngineInv => Recoverable
<1> SUFFICES ASSUME EngineInv, NEW s \in {disk, durable}, NEW e \in Entity,
                    s.entities[e] # NoEntity
             PROVE  IF s.entities[e].published # NoLayout
                      THEN /\ layouts[s.entities[e].published].there
                           /\ layouts[s.entities[e].published].data = s.entities[e].public.content
                      ELSE \E a \in s.entities[e].public.anchors :
                             Kept(a) /\ a.content = s.entities[e].public.content
  BY DEF Recoverable
<1>1. S!Exists(s, e) /\ S!Sound(s, layouts, fresh)
  BY DocumentsKept DEF S!Exists
<1>2. CASE s.entities[e].published # NoLayout
  BY <1>1, <1>2 DEF S!Sound, S!PublishedKept, S!Offline
<1>3. CASE s.entities[e].published = NoLayout
  <2>1. s.entities[e].public.residency = "Offline"
    BY <1>1, <1>3 DEF S!Sound, S!AnchorsKept, S!Offline
  <2>2. s.entities[e].public.anchors # {}
    BY <1>1, <2>1 DEF S!Sound, S!AnchorsKept
  <2> QED
    BY <1>3, <2>2, AnchorsKeep
<1> QED
  BY <1>2, <1>3

\* The lock of a destination is held for writing, so no seal is on it, and
\* what is published or committed is sealed.
LEMMA DestinationsApart == EngineInv => TransfersIsolated
<1> SUFFICES ASSUME EngineInv, NEW t \in Task, At(t, "copying")
             PROVE  IF Plan[t].kind = "Archive"
                      THEN /\ SourceData(t) = tasks[t].view.content
                           /\ \A k \in Backend!Published :
                                objects[k].payload # tasks[t].target.payload
                      ELSE /\ SourceData(t) = tasks[t].expected.content
                           /\ \A s \in {disk, durable} : \A e \in Entity :
                                s.entities[e] # NoEntity =>
                                  s.entities[e].published # tasks[t].target.layout_id
  BY DEF TransfersIsolated
<1>1. /\ HoldsLocks(t) /\ LayoutOf(t) \in Id /\ PayloadOf(t) \in Id
      /\ Archiving(t) \/ Recalling(t)
  BY TransferParts DEF EngineInv, TaskKept, At, Within
<1>2. CASE Archiving(t)
  <2>1. dirs[PayloadOf(t)].session = "writing" /\ PayloadOf(t) = tasks[t].target.payload
    BY <1>1, <1>2 DEF HoldsLocks, PayloadOf
  <2>2. dirs[PayloadOf(t)].seal = "open"
    BY <1>1, <2>1, EngineParts DEF A!ArchiveInv, A!DirsKept
  <2>3. \A k \in A!Published : k \in Key /\ objects[k] # NoObject
    BY EngineParts DEF A!ArchiveInv, A!TypeOK, A!Published
  <2>4. \A k \in Backend!Published : dirs[objects[k].payload].seal = "sealed"
    BY <2>3, ArchiveTypes, EngineParts DEF A!ArchiveInv, A!ObjectsKept, A!ObjectKept
  <2> QED
    BY <1>2, <2>1, <2>2, <2>4, SourceIs DEF Archiving
<1>3. CASE Recalling(t)
  <2>1. ~Archiving(t)
    BY <1>3, TaskKinds
  <2>2. layouts[LayoutOf(t)].session = "writing" /\ LayoutOf(t) = tasks[t].target.layout_id
    BY <1>1, <2>1 DEF HoldsLocks, LayoutOf
  <2>3. layouts[LayoutOf(t)].seal = "open"
    BY <1>1, <2>2, EngineParts DEF S!StorageInv, S!LayoutsKept
  <2>4. NoLayout # LayoutOf(t)
    BY <1>1, SourceAssumed, EngineParts
  <2>5. ASSUME NEW s \in {disk, durable}, NEW e \in Entity, s.entities[e] # NoEntity
        PROVE  s.entities[e].published # tasks[t].target.layout_id
    <3>1. S!Exists(s, e) /\ S!PublishedKept(s, layouts, fresh)
      BY <2>5, DocumentsKept DEF S!Exists, S!Sound
    <3> QED
      BY <2>2, <2>3, <2>4, <3>1 DEF S!PublishedKept, S!Offline
  <2> QED
    BY <1>3, <2>1, <2>5, SourceIs DEF Archiving
<1> QED
  BY <1>1, <1>2, <1>3

LEMMA ResultsKept == EngineInv => DoneIsDurable
<1> SUFFICES ASSUME EngineInv, NEW t \in Task, At(t, "done")
             PROVE  S!Outcome(durable, Plan[t].op, DataOf(t), ActionOf(t))
  BY DEF DoneIsDurable, S!Outcome
<1>1. HasOutcome(t)
  BY DEF EngineInv, TaskKept
<1> QED
  BY <1>1 DEF HasOutcome, S!Documents

(***************************************************************************)
(* The callers of the engine hold values of the types the adapters return. *)
(***************************************************************************)
THEOREM EngineTypes == Spec => []TypeOK
BY EngineSafe, EngineTyped, PTL

(***************************************************************************)
(* No crash, lost reply or repeated call brings an anchor into the source  *)
(* metadata whose receipt the archive could lose or replace.               *)
(***************************************************************************)
THEOREM AnchorsAreBacked == Spec => []AnchorsBacked
<1>1. EngineInv => AnchorsBacked
  BY AnchorsKeep DEF AnchorsBacked
<1> QED
  BY <1>1, EngineSafe, PTL

(***************************************************************************)
(* The bytes of every entity exist at every instant, whatever release,     *)
(* recall, garbage collection and power losses do in whatever order.       *)
(***************************************************************************)
THEOREM BytesAreRecoverable == Spec => []Recoverable
BY EngineSafe, CopiesKept, PTL

(***************************************************************************)
(* A transfer reads the bytes it was told of and writes where nobody else  *)
(* reads, also when the same operation was called twice.                   *)
(***************************************************************************)
THEOREM TransfersAreIsolated == Spec => []TransfersIsolated
BY EngineSafe, DestinationsApart, PTL

(***************************************************************************)
(* A result the engine has returned survives every restart: it is in the   *)
(* document a power loss falls back to.                                    *)
(***************************************************************************)
THEOREM ResultsAreDurable == Spec => []DoneIsDurable
BY EngineSafe, ResultsKept, PTL
=============================================================================
