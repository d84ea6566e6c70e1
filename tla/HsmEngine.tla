------------------------------ MODULE HsmEngine ------------------------------
(***************************************************************************)
(* The coordinator of crates/hsm-engine/src/lib.rs running over the local  *)
(* reference adapters: LocalStorage as the source, LocalArchive as the     *)
(* backend and LocalDataMover (crates/hsm-local/src/executor.rs) between   *)
(* them, all in one process on one host.                                   *)
(*                                                                         *)
(* A task is one caller that wants one action done under one operation ID: *)
(* it observes the entity, calls archive, release or recall, and calls     *)
(* again with the same ID and observation after an error that run_intent   *)
(* classes as retryable, after a restart of the process too.  Every await  *)
(* of the engine is a point where other tasks, the garbage collector and   *)
(* faults interleave.                                                      *)
(***************************************************************************)
EXTENDS LocalLayouts

CONSTANTS
  Op, Entity, Key,
  Torn,        \* what a transfer has written before it is complete
  Task,
  Plan,        \* for each task: operation ID, kind, entity and archive key
  GivesUp,     \* the error classes after which a caller does not try again
  Faults, DiskFaults,
  Budget,      \* bound: how many faults an instance suffers
  NoLayout, NoEntity, NoStep, NoOutcome, NoKey, NoValue, NoObject, NoAttempt

VARIABLES
  mem, disk, durable, poisoned, up, layouts, fresh, told,     \* LocalStorage
  objects, synced, attempts, dirs, serial, returned,          \* LocalArchive
  tasks,     \* the callers: where they are and what they hold
  budget     \* faults still to come

storageVars == <<mem, disk, durable, poisoned, up, layouts, fresh, told>>
archiveVars == <<objects, synced, attempts, dirs, serial, returned>>
vars == <<mem, disk, durable, poisoned, up, layouts, fresh, told,
          objects, synced, attempts, dirs, serial, returned, tasks, budget>>

StepNames == {"prepare_archive", "commit_archive", "release",
              "prepare_recall", "commit_recall"}

Storage == INSTANCE LocalStorage WITH
  Receipt <- {}, AskedData <- {}, Uses <- Op \X StepNames

Backend == INSTANCE LocalArchive WITH
  Data <- Storage!DataKey, View <- Storage!DataView

ASSUME EngineAssumption ==
  /\ Torn \in Content
  /\ Plan \in [Task -> [op: Op, kind: {"Archive", "Release", "Recall"},
                        entity: Entity, key: Key]]
  /\ Budget \in Nat

\* What the adapters assume of the constants they are given.
ASSUME AdapterAssumption ==
  /\ NoLayout \notin Id
  /\ Faults \subseteq Storage!FaultKind
  /\ DiskFaults \subseteq Backend!DiskFaultKind
  /\ NoEntity \notin Storage!EntityRecord
  /\ NoStep \notin Storage!SavedStep
  /\ NoOutcome \notin Storage!Completed
  /\ NoObject \notin Backend!Committed
                     \cup [receipt: Backend!ArchiveReceipt, bytes: Content \cup {NoData}]
  /\ NoAttempt \notin Backend!Prepared

\* The classes run_intent reports as Retry; any other class is final there.
Retryable == {"Unknown", "Io", "Busy"}

Idle == [pc |-> "new", expected |-> NoValue, view |-> NoValue,
         receipt |-> NoValue, target |-> NoValue, evidence |-> NoValue]

Init ==
  /\ Storage!Init
  /\ Backend!Init
  /\ tasks = [t \in Task |-> Idle]
  /\ budget = Budget

At(t, label) == tasks[t].pc = label
DataOf(t) == tasks[t].expected.data

-----------------------------------------------------------------------------
(* How a call of the engine goes on.                                       *)

Become(t, task) == tasks' = [tasks EXCEPT ![t] = task]
Goto(t, label) == Become(t, [tasks[t] EXCEPT !.pc = label])

\* The call returns an error: its locals are gone; the caller tries again
\* with the same operation ID and observation, or stops.
AfterError(t, error) ==
  [Idle EXCEPT !.pc = IF error \in GivesUp THEN "failed" ELSE "ready",
               !.expected = tasks[t].expected]
Fail(t, error) == Become(t, AfterError(t, error))

Finish(t) == Become(t, [Idle EXCEPT !.pc = "done", !.expected = tasks[t].expected])

\* A fault costs one unit of the budget, wherever it strikes.
Costs(n) == budget' = budget - n /\ budget' >= 0
StorageFault == IF poisoned' /\ ~poisoned THEN 1 ELSE 0

(***************************************************************************)
(* A storage step answers with what is saved for it, if the request is the *)
(* saved one; it is refused when the handle is poisoned; an outcome that   *)
(* stored nothing is Unknown or Io.                                        *)
(***************************************************************************)
StorageRefuses(t, name, request) ==
  /\ up
  /\ \/ poisoned
     \/ /\ mem.steps[<<Plan[t].op, name>>] # NoStep
        /\ mem.steps[<<Plan[t].op, name>>].request # request
  /\ UNCHANGED storageVars

StorageError(t, name, request) ==
  LET saved == mem'.steps[<<Plan[t].op, name>>]
  IN IF poisoned' \/ saved = NoStep THEN "Unknown"
     ELSE IF saved.request # request THEN "Conflict"
     ELSE saved.error

StorageValue(t, name) == mem'.steps[<<Plan[t].op, name>>].value

AfterStorage(t, name, request, proceed) ==
  /\ Costs(StorageFault)
  /\ Become(t, IF StorageError(t, name, request) = "none" THEN proceed
               ELSE AfterError(t, StorageError(t, name, request)))

-----------------------------------------------------------------------------
(* Common to the three actions.                                            *)

\* The caller observes an entity its action is meant for.
Observe(t) ==
  /\ At(t, "new")
  /\ Storage!Healthy
  /\ mem.entities[Plan[t].entity] # NoEntity
  /\ LET public == mem.entities[Plan[t].entity].public
     IN /\ CASE Plan[t].kind = "Archive" -> public.residency # "Offline"
            [] Plan[t].kind = "Release" -> public.residency = "Dual"
            [] Plan[t].kind = "Recall" -> public.residency = "Offline"
        /\ Become(t, [Idle EXCEPT !.pc = "ready", !.expected = public])
  /\ UNCHANGED <<storageVars, archiveVars, budget>>

ActionOf(t) ==
  [kind |-> Plan[t].kind, key |-> IF Plan[t].kind = "Release" THEN NoKey ELSE Plan[t].key]

\* storage.completed answers first: the original result, or a conflict.
\* recall then looks for its anchor in the observation it was given.
Begin(t) ==
  /\ At(t, "ready") /\ up
  /\ LET done == mem.completed[Plan[t].op]
         expected == tasks[t].expected
     IN IF poisoned THEN Fail(t, "Unknown")
        ELSE IF done # NoOutcome
          THEN IF done.data = DataOf(t) /\ done.action = ActionOf(t)
                 THEN Finish(t) ELSE Fail(t, "Conflict")
        ELSE CASE Plan[t].kind = "Archive" -> Goto(t, "pin")
               [] Plan[t].kind = "Release" -> Goto(t, "inspect")
               [] Plan[t].kind = "Recall" ->
                    IF \E a \in expected.anchors : a.key = Plan[t].key
                      THEN Goto(t, "lookup") ELSE Fail(t, "NotFound")
  /\ UNCHANGED <<storageVars, archiveVars, budget>>

\* check_receipt: the receipt is bound to this key, data and content.
CheckReceipt(receipt, data, k, content) ==
  /\ receipt.key = k /\ receipt.data = data
  /\ receipt.content = content /\ receipt.wellformed

Anchor(t) == CHOOSE a \in tasks[t].expected.anchors : a.key = Plan[t].key

\* Where the bytes come from and where they go.
SourceData(t) ==
  IF Plan[t].kind = "Archive" THEN layouts[tasks[t].view.source].data
  ELSE dirs[objects[Plan[t].key].payload].data
DestinationData(t) ==
  IF Plan[t].kind = "Archive" THEN dirs[tasks[t].target.payload].data
  ELSE layouts[tasks[t].target.layout_id].data

-----------------------------------------------------------------------------
(* archive.                                                                *)

ArchivePin(t) ==
  /\ At(t, "pin") /\ up /\ Plan[t].kind = "Archive"
  /\ \/ Storage!PrepareArchive(Plan[t].op, DataOf(t))
     \/ Storage!Replay(Plan[t].op, "prepare_archive", DataOf(t))
     \/ StorageRefuses(t, "prepare_archive", DataOf(t))
  /\ AfterStorage(t, "prepare_archive", DataOf(t),
       [tasks[t] EXCEPT !.pc = "lookup", !.view = StorageValue(t, "prepare_archive")])
  /\ UNCHANGED archiveVars

\* backend.inspect: a committed key skips the transfer.
ArchiveLookup(t) ==
  /\ At(t, "lookup") /\ Plan[t].kind = "Archive"
  /\ LET k == Plan[t].key
         found == objects[k]
     IN \/ /\ Backend!Inspect(k)
           /\ IF CheckReceipt(found.receipt, DataOf(t), k, tasks[t].view.content)
                THEN Become(t, [tasks[t] EXCEPT !.pc = "bind", !.receipt = found.receipt])
                ELSE Fail(t, "Integrity")
        \/ /\ k \notin Backend!Published
           /\ Goto(t, "stage")
           /\ UNCHANGED archiveVars
  /\ UNCHANGED <<storageVars, budget>>

\* backend.prepare.
ArchiveStage(t) ==
  /\ At(t, "stage")
  /\ LET op == Plan[t].op
         k == Plan[t].key
         view == tasks[t].view
         Staged(target) == Become(t, [tasks[t] EXCEPT !.pc = "resume", !.target = target])
     IN \/ /\ Backend!PrepareRefused(k)
           /\ Fail(t, "Conflict") /\ Costs(0)
        \/ /\ k \notin Backend!Published /\ attempts[<<op, k>>] # NoAttempt
           /\ IF Backend!Owns(op, k, view) THEN Staged(Backend!Target(op, k)) ELSE Fail(t, "Conflict")
           /\ Costs(0)
           /\ UNCHANGED archiveVars
        \/ /\ Backend!PrepareNew(op, k, view)
           /\ IF attempts'[<<op, k>>] # NoAttempt /\ attempts'[<<op, k>>].synced
                THEN Staged(attempts'[<<op, k>>].target) /\ Costs(0)
                ELSE Fail(t, "Unknown") /\ Costs(1)
  /\ UNCHANGED storageVars

\* Lock or read errors and mismatches of a backend commit, nothing written.
CommitError(t, evidence) ==
  LET op == Plan[t].op
      target == tasks[t].target
      view == tasks[t].view
  IN IF attempts[<<op, target.key>>] = NoAttempt THEN "Io"
     ELSE IF ~Backend!OwnsTarget(op, target, view) THEN "Conflict"
     ELSE IF target.key \in Backend!Published THEN "none"
     ELSE IF Locked(dirs, target.payload) THEN "Busy"
     ELSE IF dirs[target.payload].data = NoData THEN "Io"
     ELSE IF ~Backend!Verified(target, view, evidence) THEN "Integrity"
     ELSE "none"

BackendCommit(t, evidence) ==
  LET op == Plan[t].op
      target == tasks[t].target
      view == tasks[t].view
      bind == [tasks[t] EXCEPT !.pc = "bind"]
  IN \/ /\ CommitError(t, evidence) # "none"
        /\ Fail(t, CommitError(t, evidence)) /\ Costs(0)
        /\ UNCHANGED archiveVars
     \/ /\ Backend!CommitAgain(op, target, view) /\ Costs(0)
        /\ LET receipt == objects[target.key].receipt
           IN IF CheckReceipt(receipt, DataOf(t), target.key, view.content)
                THEN Become(t, [bind EXCEPT !.receipt = receipt])
                ELSE Fail(t, "Conflict")
     \/ /\ Backend!Commit(op, target, view, evidence) /\ Costs(0)
        /\ Become(t, [bind EXCEPT !.receipt = Backend!NewReceipt(target, view)])
     \/ /\ \/ Backend!CommitUnsynced(op, target, view, evidence)
           \/ Backend!CommitStopsSealed(op, target, view, evidence)
           \/ Backend!CommitSealUncertain(op, target, view, evidence)
        /\ Fail(t, "Unknown") /\ Costs(1)


\* backend.resume_commit: a payload already sealed is committed, not copied.
ArchiveResume(t) ==
  /\ At(t, "resume")
  /\ IF Fenced(dirs, tasks[t].target.payload)
       THEN BackendCommit(t, tasks[t].view.content)
       ELSE Goto(t, "copy") /\ UNCHANGED <<archiveVars, budget>>
  /\ UNCHANGED storageVars

\* backend.commit with the evidence of the transfer.
ArchiveCommit(t) ==
  /\ At(t, "commit") /\ Plan[t].kind = "Archive"
  /\ IF tasks[t].evidence # tasks[t].view.content
       THEN Fail(t, "Integrity") /\ UNCHANGED <<archiveVars, budget>>
       ELSE BackendCommit(t, tasks[t].evidence)
  /\ UNCHANGED storageVars

\* storage.commit_archive.
ArchiveBind(t) ==
  LET view == tasks[t].view
      receipt == tasks[t].receipt
      request == [view |-> view, receipt |-> receipt]
  IN /\ At(t, "bind") /\ up
     /\ \/ Storage!CommitArchive(Plan[t].op, view, receipt)
        \/ Storage!Replay(Plan[t].op, "commit_archive", request)
        \/ StorageRefuses(t, "commit_archive", request)
     /\ AfterStorage(t, "commit_archive", request,
          [Idle EXCEPT !.pc = "done", !.expected = tasks[t].expected])
     /\ UNCHANGED archiveVars

-----------------------------------------------------------------------------
(* release.                                                                *)

\* The observation must be the present state, and name an anchor.
ReleaseInspect(t) ==
  /\ At(t, "inspect") /\ up
  /\ IF poisoned THEN Fail(t, "Unknown")
     ELSE IF /\ mem.entities[Plan[t].entity].public = tasks[t].expected
             /\ tasks[t].expected.anchors # {}
       THEN Goto(t, "verify") ELSE Fail(t, "Conflict")
  /\ UNCHANGED <<storageVars, archiveVars, budget>>

\* Some anchor is inspected and found committed.  The engine tries them in
\* order; which one it stops at is not told apart here.
ReleaseVerify(t) ==
  /\ At(t, "verify")
  /\ LET expected == tasks[t].expected
     IN \/ \E a \in expected.anchors :
             /\ CheckReceipt(a, expected.data, a.key, expected.content)
             /\ Backend!Inspect(a.key)
             /\ objects[a.key].receipt = a
             /\ Goto(t, "release")
        \/ /\ \A a \in expected.anchors :
                a.key \notin Backend!Published \/ objects[a.key].receipt # a
           /\ Fail(t, "Integrity")
           /\ IF \E a \in expected.anchors : Backend!CommittedIs(a.key)
                THEN \E a \in expected.anchors : Backend!Open(a)
                ELSE UNCHANGED archiveVars
  /\ UNCHANGED <<storageVars, budget>>

ReleaseSource(t) ==
  LET expected == tasks[t].expected
  IN /\ At(t, "release") /\ up
     /\ \/ Storage!Release(Plan[t].op, expected)
        \/ Storage!Replay(Plan[t].op, "release", expected)
        \/ StorageRefuses(t, "release", expected)
     /\ AfterStorage(t, "release", expected,
          [Idle EXCEPT !.pc = "done", !.expected = expected])
     /\ UNCHANGED archiveVars

-----------------------------------------------------------------------------
(* recall.                                                                 *)

RecallLookup(t) ==
  /\ At(t, "lookup") /\ Plan[t].kind = "Recall"
  /\ LET k == Plan[t].key
     IN \/ /\ Backend!Inspect(k)
           /\ IF objects[k].receipt = Anchor(t)
                THEN Goto(t, "pin") ELSE Fail(t, "Integrity")
        \/ /\ k \notin Backend!Published
           /\ Fail(t, "Integrity")
           /\ UNCHANGED archiveVars
  /\ UNCHANGED <<storageVars, budget>>

RecallPin(t) ==
  LET request == [expected |-> tasks[t].expected, anchor |-> Anchor(t)]
  IN /\ At(t, "pin") /\ up /\ Plan[t].kind = "Recall"
     /\ \/ Storage!PrepareRecall(Plan[t].op, tasks[t].expected, Anchor(t))
        \/ Storage!Replay(Plan[t].op, "prepare_recall", request)
        \/ StorageRefuses(t, "prepare_recall", request)
     /\ AfterStorage(t, "prepare_recall", request,
          [tasks[t] EXCEPT !.pc = "open", !.target = StorageValue(t, "prepare_recall")])
     /\ UNCHANGED archiveVars

RecallOpen(t) ==
  /\ At(t, "open")
  /\ \/ /\ Backend!Open(Anchor(t))
        /\ IF Backend!OpenMatches(Anchor(t)) THEN Goto(t, "copy") ELSE Fail(t, "Integrity")
     \/ /\ Plan[t].key \notin Backend!Published
        /\ Fail(t, "NotFound")
        /\ UNCHANGED archiveVars
  /\ UNCHANGED <<storageVars, budget>>

\* storage.commit_recall.
RecallCommit(t) ==
  LET target == tasks[t].target
      evidence == tasks[t].evidence
      request == [target |-> target, evidence |-> evidence]
      call == Storage!VerifyRecallError(mem, Plan[t].op, target, evidence)
  IN /\ At(t, "commit") /\ up /\ Plan[t].kind = "Recall"
     /\ IF evidence # tasks[t].expected.content
          THEN Fail(t, "Integrity") /\ UNCHANGED <<storageVars, budget>>
          ELSE \/ /\ \/ Storage!CommitRecallRefused(Plan[t].op, target, evidence)
                     \/ Storage!CommitRecall(Plan[t].op, target, evidence)
                     \/ Storage!Replay(Plan[t].op, "commit_recall", request)
                     \/ StorageRefuses(t, "commit_recall", request)
                  /\ AfterStorage(t, "commit_recall", request,
                       [Idle EXCEPT !.pc = "done", !.expected = tasks[t].expected])
               \/ /\ Storage!CommitRecallSealUncertain(Plan[t].op, target, evidence)
                  /\ Fail(t, "Unknown") /\ Costs(1)
               \/ /\ Storage!Healthy /\ mem.steps[<<Plan[t].op, "commit_recall">>] = NoStep
                  /\ call = "Io"
                  /\ Fail(t, "Io")
                  /\ UNCHANGED <<storageVars, budget>>
     /\ UNCHANGED archiveVars

-----------------------------------------------------------------------------
(* LocalDataMover::copy.                                                   *)

SourceLocked(t) ==
  IF Plan[t].kind = "Archive" THEN Locked(layouts, tasks[t].view.source)
  ELSE Locked(dirs, objects[Plan[t].key].payload)
DestinationLocked(t) ==
  IF Plan[t].kind = "Archive" THEN Locked(dirs, tasks[t].target.payload)
  ELSE Locked(layouts, tasks[t].target.layout_id)
DestinationFenced(t) ==
  IF Plan[t].kind = "Archive" THEN Fenced(dirs, tasks[t].target.payload)
  ELSE Fenced(layouts, tasks[t].target.layout_id)
DirectoryGone(t) ==
  IF Plan[t].kind = "Archive" THEN ~layouts[tasks[t].view.source].there
  ELSE ~layouts[tasks[t].target.layout_id].there

\* Wrong variant: a destination is created, what a transfer left is an error.
CopyErrorLeftover(t) ==
  IF DirectoryGone(t) \/ DestinationData(t) # NoData THEN "Io"
  ELSE IF SourceLocked(t) \/ DestinationLocked(t) THEN "Busy"
  ELSE IF DestinationFenced(t) THEN "Fenced"
  ELSE "none"

\* Both locks, in order, then the seal of the destination.
CopyError(t) ==
  IF DirectoryGone(t) THEN "Io"
  ELSE IF SourceLocked(t) \/ DestinationLocked(t) THEN "Busy"
  ELSE IF DestinationFenced(t) THEN "Fenced"
  ELSE "none"

CopyBegin(t) ==
  /\ At(t, "copy")
  /\ IF CopyError(t) # "none"
       THEN Fail(t, CopyError(t)) /\ UNCHANGED <<storageVars, archiveVars>>
       ELSE /\ Goto(t, "copying")
            /\ IF Plan[t].kind = "Archive"
                 THEN /\ Storage!BeginRead(tasks[t].view.source)
                      /\ Backend!BeginWrite(tasks[t].target.payload)
                 ELSE /\ Backend!BeginRead(objects[Plan[t].key].payload)
                      /\ Storage!BeginWrite(tasks[t].target.layout_id)
  /\ UNCHANGED budget

\* The destination holds a part of the bytes, then all of them.
CopyBytes(t) ==
  /\ At(t, "copying")
  /\ DestinationData(t) # SourceData(t)
  /\ LET c == IF DestinationData(t) = Torn THEN SourceData(t) ELSE Torn
     IN IF Plan[t].kind = "Archive"
          THEN Backend!WriteBytes(tasks[t].target.payload, c) /\ UNCHANGED storageVars
          ELSE Storage!WriteBytes(tasks[t].target.layout_id, c) /\ UNCHANGED archiveVars
  /\ UNCHANGED <<tasks, budget>>

EndSessions(t) ==
  IF Plan[t].kind = "Archive"
    THEN Storage!EndSession(tasks[t].view.source) /\ Backend!EndSession(tasks[t].target.payload)
    ELSE /\ Backend!EndSession(objects[Plan[t].key].payload)
         /\ Storage!EndSession(tasks[t].target.layout_id)

\* Wrong variant: the read-back does not wait for the transfer.
CopyEndEarly(t) ==
  /\ At(t, "copying")
  /\ EndSessions(t)
  /\ Become(t, [tasks[t] EXCEPT !.pc = "commit", !.evidence = DestinationData(t)])
  /\ UNCHANGED budget

\* The evidence is an independent read-back of the destination.
CopyEnd(t) ==
  /\ At(t, "copying")
  /\ DestinationData(t) = SourceData(t)
  /\ EndSessions(t)
  /\ Become(t, [tasks[t] EXCEPT !.pc = "commit", !.evidence = DestinationData(t)])
  /\ UNCHANGED budget

\* The transfer fails, its outcome Unknown; the locks are released.
CopyFails(t) ==
  /\ At(t, "copying")
  /\ EndSessions(t)
  /\ Fail(t, "Unknown")
  /\ Costs(1)

-----------------------------------------------------------------------------
(* The rest of the system.                                                 *)

Import(e) ==
  /\ \E c \in Content \ {Torn} : Storage!Import(e, c)
  /\ Costs(StorageFault)
  /\ UNCHANGED <<archiveVars, tasks>>

CollectGarbage ==
  /\ Storage!CollectGarbage \/ Storage!CollectGarbageStops
  /\ mem.gc # {}
  /\ Costs(StorageFault)
  /\ UNCHANGED <<archiveVars, tasks>>

\* Calls in flight are lost with the process; their callers call again.
Interrupted ==
  [t \in Task |->
     IF tasks[t].pc \in {"new", "done", "failed"} THEN tasks[t]
     ELSE [Idle EXCEPT !.pc = "ready", !.expected = tasks[t].expected]]

\* The process dies; with a poisoned handle its owner restarts it.
Crash ==
  /\ up
  /\ Storage!Crash
  /\ Backend!Crash
  /\ tasks' = Interrupted
  /\ Costs(IF poisoned THEN 0 ELSE 1)

PowerLoss ==
  /\ Storage!PowerLoss
  /\ Backend!PowerLoss
  /\ tasks' = Interrupted
  /\ Costs(1)

Reopen ==
  /\ Storage!Reopen
  /\ UNCHANGED <<archiveVars, tasks, budget>>

Archive(t) ==
  \/ ArchivePin(t) \/ ArchiveLookup(t) \/ ArchiveStage(t)
  \/ ArchiveResume(t) \/ ArchiveCommit(t) \/ ArchiveBind(t)
Release(t) == ReleaseInspect(t) \/ ReleaseVerify(t) \/ ReleaseSource(t)
Recall(t) == RecallLookup(t) \/ RecallPin(t) \/ RecallOpen(t) \/ RecallCommit(t)
Copy(t) == CopyBegin(t) \/ CopyBytes(t) \/ CopyEnd(t) \/ CopyFails(t)

Proceed(t) == Observe(t) \/ Begin(t) \/ Archive(t) \/ Release(t) \/ Recall(t) \/ Copy(t)

Next ==
  \/ \E t \in Task : Proceed(t)
  \/ \E e \in Entity : Import(e)
  \/ CollectGarbage
  \/ Crash
  \/ PowerLoss
  \/ Reopen

Spec == Init /\ [][Next]_vars

(***************************************************************************)
(* The runtime polls every call to its end, callers call again, and the    *)
(* owner of a handle that was closed or poisoned opens it again.           *)
(***************************************************************************)
Fairness ==
  /\ \A t \in Task : WF_vars(Proceed(t))
  /\ WF_vars(Reopen)
  /\ WF_vars(poisoned /\ Crash)

FairSpec == Spec /\ Fairness

-----------------------------------------------------------------------------
(* Properties.                                                             *)

Labels == {"new", "ready", "pin", "lookup", "stage", "resume", "copy", "copying",
           "commit", "bind", "inspect", "verify", "release", "open", "done", "failed"}

\* The callers hold values of the types the adapters returned.
TypeOK ==
  /\ budget \in 0 .. Budget
  /\ \A t \in Task :
       /\ tasks[t].pc \in Labels
       /\ tasks[t].expected \in Storage!EntityState \cup {NoValue}
       /\ tasks[t].view \in Storage!DataView \cup {NoValue}
       /\ tasks[t].receipt \in Backend!ArchiveReceipt \cup {NoValue}
       /\ tasks[t].target \in Backend!ArchiveTarget \cup Storage!RecallTarget \cup {NoValue}
       /\ tasks[t].evidence \in Content \cup {NoValue}

\* The archive holds the bytes of receipt a for good.
Kept(a) ==
  /\ a.key \in synced
  /\ objects[a.key].receipt = a
  /\ dirs[objects[a.key].payload].seal = "sealed"
  /\ dirs[objects[a.key].payload].data = a.content

(***************************************************************************)
(* An anchor in the source metadata is a receipt whose publication is      *)
(* durable in the archive, with the bytes it states: commit_archive is     *)
(* reached only with a receipt the backend has settled, whatever was lost, *)
(* repeated or interrupted between the two adapters.                       *)
(***************************************************************************)
AnchorsBacked ==
  \A s \in {disk, durable} : \A e \in Entity :
    s.entities[e] # NoEntity => \A a \in s.entities[e].public.anchors : Kept(a)

(***************************************************************************)
(* At every instant, through crashes, power losses and garbage collection, *)
(* the bytes of every entity exist: in the sealed layout it publishes, or  *)
(* in an archive payload its metadata has an anchor for.                   *)
(***************************************************************************)
Recoverable ==
  \A s \in {disk, durable} : \A e \in Entity :
    s.entities[e] # NoEntity =>
      LET entity == s.entities[e]
      IN IF entity.published # NoLayout
           THEN /\ layouts[entity.published].there
                /\ layouts[entity.published].data = entity.public.content
           ELSE \E a \in entity.public.anchors : Kept(a) /\ a.content = entity.public.content

(***************************************************************************)
(* A transfer under way reads a source that still holds the pinned bytes   *)
(* and writes a directory no document publishes and no receipt names, also *)
(* when a repeated call of the same operation has already finished.        *)
(***************************************************************************)
TransfersIsolated ==
  \A t \in Task : At(t, "copying") =>
    IF Plan[t].kind = "Archive"
      THEN /\ SourceData(t) = tasks[t].view.content
           /\ \A k \in Backend!Published : objects[k].payload # tasks[t].target.payload
      ELSE /\ SourceData(t) = tasks[t].expected.content
           /\ \A s \in {disk, durable} : \A e \in Entity :
                s.entities[e] # NoEntity => s.entities[e].published # tasks[t].target.layout_id

(***************************************************************************)
(* A caller that was told its action is done can rely on it after any      *)
(* restart: the original result of its operation ID is durable, for the    *)
(* content it named and the action it asked for.                           *)
(***************************************************************************)
DoneIsDurable ==
  \A t \in Task : At(t, "done") =>
    /\ durable.completed[Plan[t].op] # NoOutcome
    /\ durable.completed[Plan[t].op].data = DataOf(t)
    /\ durable.completed[Plan[t].op].action = ActionOf(t)

\* No other call of t's operation is on its way.
Alone(t) ==
  \A u \in Task \ {t} : Plan[u].op = Plan[t].op => tasks[u].pc \in {"new", "done", "failed"}

\* The operation of t has taken effect for good, and t has an answer: the
\* result, or Conflict if another call of the operation was faster.
Settled(t) ==
  /\ durable.completed[Plan[t].op] # NoOutcome
  /\ At(t, "done") \/ (At(t, "failed") /\ \E u \in Task \ {t} : Plan[u].op = Plan[t].op)


\* The layout of t's recall is sealed, yet the recall is still active.
Stranded(t) ==
  \E r \in durable.recalls : r.op = Plan[t].op /\ Storage!Fenced(layouts, r.target.layout_id)

(***************************************************************************)
(* A recall call repeated after any faults brings the entity back, unless  *)
(* the fault fell between the seal of the recall layout and the metadata   *)
(* that publishes it: no other point of the recall is one of no return.    *)
(***************************************************************************)
RecallResumes ==
  \A t \in Task : Plan[t].kind = "Recall" => (At(t, "ready") ~> At(t, "done") \/ Stranded(t))

\* The promise of the documentation: the repeated call brings the entity back.
RecallCompletes ==
  \A t \in Task : Plan[t].kind = "Recall" => (At(t, "ready") ~> At(t, "done"))
=============================================================================
