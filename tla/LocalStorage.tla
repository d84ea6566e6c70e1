---------------------------- MODULE LocalStorage ----------------------------
(***************************************************************************)
(* The local reference source, crates/hsm-local/src/storage.rs: a logical  *)
(* namespace of entities whose metadata is one document, state.json, and   *)
(* whose payloads are the layout directories of module LocalLayouts.       *)
(*                                                                         *)
(* Every operation runs under the state mutex, edits a copy of the         *)
(* document and replaces the file by a rename followed by a directory      *)
(* sync; a replacement of uncertain outcome poisons the handle until it is *)
(* reopened.  Every step of an operation is stored with its request, so a  *)
(* repeated call is answered from the document, after a restart too.       *)
(* Byte sessions run outside the mutex, under the transfer lock only.      *)
(*                                                                         *)
(* A context is its operation ID: qualify admits only epoch 1, and a call  *)
(* it rejects, like every call refused before an effect, changes nothing.  *)
(***************************************************************************)
EXTENDS LocalLayouts

CONSTANTS
  Op, Entity, Key,
  Receipt,       \* the archive receipts callers may present
  AskedData,     \* the (entity, generation) pairs callers may ask for
  Uses,          \* which steps callers try under which operation ID
  Faults,        \* which failures happen, of FaultKind
  NoLayout, NoEntity, NoStep, NoOutcome, NoKey, NoValue

\* Generation 1 is the only one import creates; callers may name another.
DataKey == [entity: Entity, generation: Nat]

(***************************************************************************)
(* wellformed: receipt_id is not empty and durability_profile is           *)
(* "local-fsync-v1".                                                       *)
(***************************************************************************)
ArchiveReceipt == [key: Key, data: DataKey, content: Content,
                   receipt_id: Nat, wellformed: BOOLEAN]

FaultKind == {"persist", "seal", "gc", "close", "crash", "power"}

ASSUME StorageAssumption ==
  /\ NoLayout \notin Id
  /\ Receipt \subseteq ArchiveReceipt
  /\ AskedData \subseteq DataKey
  /\ Faults \subseteq FaultKind

\* anchors is a Vec without duplicates (commit_archive), here the set of it.
EntityState == [data: DataKey, revision: Nat,
                residency: {"Online", "Dual", "Offline"},
                content: Content, anchors: SUBSET ArchiveReceipt]
EntityRecord == [public: EntityState, published: Id \cup {NoLayout}]
DataView == [data: DataKey, view_id: Id, content: Content, source: Id]
ViewOwner == [op: Op, view: DataView]
RecallTarget == [data: DataKey, archive: Key, layout_id: Id]
RecallOwner == [op: Op, target: RecallTarget, anchor: ArchiveReceipt]

ManagedAction == [kind: {"Archive", "Release", "Recall"}, key: Key \cup {NoKey}]
ArchiveTo(k) == [kind |-> "Archive", key |-> k]
ReleaseIt == [kind |-> "Release", key |-> NoKey]
RecallFrom(k) == [kind |-> "Recall", key |-> k]

Completed == [data: DataKey, action: ManagedAction, state: EntityState]

\* SavedFailure: every class but Unknown and Io is stored, Busy included.
SavedFailure == {"Invalid", "Conflict", "Busy", "NotFound", "Fenced", "Integrity"}

StepName == {"prepare_archive", "commit_archive", "release",
             "prepare_recall", "commit_recall"}
Request == DataKey \cup EntityState
             \cup [view: DataView, receipt: ArchiveReceipt]
             \cup [expected: EntityState, anchor: ArchiveReceipt]
             \cup [target: RecallTarget, evidence: Content]
StepValue == DataView \cup EntityState \cup RecallTarget \cup {NoValue}
SavedStep == [request: Request, error: SavedFailure \cup {"none"}, value: StepValue]
Answer == [op: Op, name: StepName, saved: SavedStep]

\* An empty place of the document is told from a filled one.
ASSUME MarkerAssumption ==
  NoEntity \notin EntityRecord /\ NoStep \notin SavedStep /\ NoOutcome \notin Completed

\* The document state.json.
State == [entities: [Entity -> EntityRecord \cup {NoEntity}],
          views: SUBSET ViewOwner,
          recalls: SUBSET RecallOwner,
          steps: [Op \X StepName -> SavedStep \cup {NoStep}],
          completed: [Op -> Completed \cup {NoOutcome}],
          gc: SUBSET Id]

VARIABLES
  mem,       \* the State behind the mutex of the open handle
  disk,      \* the state.json a reader finds now
  durable,   \* the state.json that is certain to survive a power loss
  poisoned,  \* the handle refuses to serve until it is reopened
  up,        \* a handle owns the root
  layouts,   \* the directories under layouts/
  fresh,     \* the next UUID
  told       \* history: the step answers callers have received

docs == <<mem, disk, durable>>
vars == <<mem, disk, durable, poisoned, up, layouts, fresh, told>>

EmptyState == [entities |-> [e \in Entity |-> NoEntity],
               views |-> {}, recalls |-> {},
               steps |-> [x \in Op \X StepName |-> NoStep],
               completed |-> [o \in Op |-> NoOutcome],
               gc |-> {}]

\* A root that has just been created and opened for the first time.
Init ==
  /\ mem = EmptyState
  /\ disk = EmptyState
  /\ durable = EmptyState
  /\ poisoned = FALSE
  /\ up = TRUE
  /\ layouts = [l \in Id |-> Removed]
  /\ fresh = 1
  /\ told = {}

-----------------------------------------------------------------------------
(* Metadata: persist, step and replay.                                     *)

Healthy == up /\ ~poisoned

\* Write and rename fail before anything is visible: poisoned all the same.
PersistFailed ==
  /\ "persist" \in Faults
  /\ poisoned' = TRUE
  /\ UNCHANGED <<mem, disk, durable, told>>

\* Wrong variant: a failed directory sync is taken for a success.
PersistSyncIgnored(next) ==
  /\ "persist" \in Faults
  /\ mem' = next
  /\ disk' = next
  /\ UNCHANGED <<durable, told, poisoned>>

\* The new file is visible but its name is not synced.
PersistUnsynced(next) ==
  /\ "persist" \in Faults
  /\ poisoned' = TRUE
  /\ disk' = next
  /\ UNCHANGED <<mem, durable, told>>

\* write_json returns Ok: only now the cache moves and the caller is answered.
PersistOk(next, answers) ==
  /\ mem' = next
  /\ disk' = next
  /\ durable' = next
  /\ told' = told \cup answers
  /\ UNCHANGED poisoned

Persist(next, answers) ==
  \/ PersistOk(next, answers)
  \/ PersistUnsynced(next)
  \/ PersistFailed

\* What step stores: an effect with its value, or the untouched document
\* with the failure of an effect.
AfterStep(s, op, name, request, error, value, next) ==
  LET saved == [request |-> request, error |-> error,
                value |-> IF error = "none" THEN value ELSE NoValue]
  IN [(IF error = "none" THEN next ELSE s) EXCEPT !.steps[<<op, name>>] = saved]

\* The first execution of a step; error is the class its effect returns.
Step(op, name, request, error, value, next) ==
  /\ Healthy
  /\ <<op, name>> \in Uses
  /\ mem.steps[<<op, name>>] = NoStep
  /\ LET after == AfterStep(mem, op, name, request, error, value, next)
     IN Persist(after, {[op |-> op, name |-> name, saved |-> after.steps[<<op, name>>]]})

\* A repeated call with the stored fingerprint receives the stored result;
\* one with another fingerprint receives Conflict and learns nothing.
FingerprintMatches(op, name, request) == mem.steps[<<op, name>>].request = request

Replay(op, name, request) ==
  /\ Healthy
  /\ mem.steps[<<op, name>>] # NoStep
  /\ FingerprintMatches(op, name, request)
  /\ told' = told \cup {[op |-> op, name |-> name,
                         saved |-> [mem.steps[<<op, name>>] EXCEPT !.request = request]]}
  /\ UNCHANGED <<mem, disk, durable, poisoned, up, layouts, fresh>>

\* State::entity.
EntityError(s, data) ==
  IF s.entities[data.entity] = NoEntity THEN "NotFound"
  ELSE IF s.entities[data.entity].public.data # data THEN "Conflict"
  ELSE "none"

\* Wrong variant: completed is overwritten without a look at it.
FinishAlways(s, op, data, action) == "none"

\* State::finish: an operation ID stands for one action on one content.
FinishError(s, op, data, action) ==
  IF /\ s.completed[op] # NoOutcome
     /\ s.completed[op].data # data \/ s.completed[op].action # action
  THEN "Conflict" ELSE "none"

Finished(s, op, data, action, state) ==
  [s EXCEPT !.completed[op] = [data |-> data, action |-> action, state |-> state]]

\* Wrong variant: the revision stays.
MovedQuietly(public, residency, anchors) ==
  [data |-> public.data, revision |-> public.revision, residency |-> residency,
   content |-> public.content, anchors |-> anchors]

\* The update every committing step makes to its entity.
Moved(public, residency, anchors) ==
  [data |-> public.data, revision |-> public.revision + 1, residency |-> residency,
   content |-> public.content, anchors |-> anchors]

-----------------------------------------------------------------------------
(* import and collect_garbage.                                             *)

Imported(e, c) ==
  [data |-> [entity |-> e, generation |-> 1], revision |-> 1,
   residency |-> "Online", content |-> c, anchors |-> {}]

\* The payload is sealed before the entity exists; a failed persist leaves
\* the directory behind, referenced by nothing.
Import(e, c) ==
  /\ Healthy
  /\ mem.entities[e] = NoEntity
  /\ fresh \in Id
  /\ layouts' = [layouts EXCEPT ![fresh] = SealedLayout(c)]
  /\ fresh' = fresh + 1
  /\ Persist([mem EXCEPT !.entities[e] = [public |-> Imported(e, c), published |-> fresh]], {})
  /\ UNCHANGED up

CollectGarbage ==
  /\ Healthy
  /\ \A l \in mem.gc : ~Locked(layouts, l)
  /\ layouts' = Remove(layouts, mem.gc)
  /\ Persist([mem EXCEPT !.gc = {}], {})
  /\ UNCHANGED <<up, fresh>>

\* A busy layout or an I/O error ends the loop after some removals; the list
\* is kept and the next call removes the rest.
CollectGarbageStops ==
  /\ "gc" \in Faults \/ \E l \in mem.gc : Locked(layouts, l)
  /\ Healthy
  /\ \E D \in SUBSET {l \in mem.gc : layouts[l].there /\ ~Locked(layouts, l)} :
       /\ D # {}
       /\ layouts' = Remove(layouts, D)
  /\ UNCHANGED <<docs, poisoned, up, fresh, told>>

-----------------------------------------------------------------------------
(* Archive: pin the published layout, then bind a receipt to the entity.   *)

\* A view of this content is open: one at a time, and no release under it.
Pinned(s, data) == \E v \in s.views : v.view.data = data

PrepareArchiveError(s, data) ==
  IF EntityError(s, data) # "none" THEN EntityError(s, data)
  ELSE IF s.entities[data.entity].published = NoLayout THEN "Conflict"
  ELSE IF Pinned(s, data) THEN "Busy"
  ELSE "none"

NewView(s, data, id) ==
  [data |-> data, view_id |-> id,
   content |-> s.entities[data.entity].public.content,
   source |-> s.entities[data.entity].published]

PrepareArchive(op, data) ==
  LET error == PrepareArchiveError(mem, data)
      view == NewView(mem, data, fresh)
  IN /\ fresh \in Id
     /\ Step(op, "prepare_archive", data, error, view,
             [mem EXCEPT !.views = @ \cup {[op |-> op, view |-> view]}])
     /\ fresh' = IF error = "none" THEN fresh + 1 ELSE fresh
     /\ UNCHANGED <<up, layouts>>

\* The receipt is one for the pinned content.
Binds(receipt, view) ==
  receipt.data = view.data /\ receipt.content = view.content /\ receipt.wellformed

CommitArchiveError(s, op, view, receipt) ==
  IF \A v \in s.views : v.view.view_id # view.view_id THEN "NotFound"
  ELSE IF [op |-> op, view |-> view] \notin s.views THEN "Fenced"
  ELSE IF Locked(layouts, view.source) THEN "Busy"
  ELSE IF EntityError(s, view.data) # "none" THEN EntityError(s, view.data)
  ELSE IF ~Binds(receipt, view) THEN "Integrity"
  ELSE IF \E a \in s.entities[view.data.entity].public.anchors :
            a.key = receipt.key /\ a # receipt THEN "Conflict"
  ELSE FinishError(s, op, view.data, ArchiveTo(receipt.key))

Archived(s, view, receipt) ==
  LET public == s.entities[view.data.entity].public
  IN Moved(public, "Dual", public.anchors \cup {receipt})

CommittedArchive(s, op, view, receipt) ==
  LET state == Archived(s, view, receipt)
  IN Finished([s EXCEPT !.entities[view.data.entity].public = state,
                        !.views = {v \in @ : v.view.view_id # view.view_id}],
              op, view.data, ArchiveTo(receipt.key), state)

CommitArchive(op, view, receipt) ==
  LET error == CommitArchiveError(mem, op, view, receipt)
  IN /\ Step(op, "commit_archive", [view |-> view, receipt |-> receipt], error,
             IF error = "none" THEN Archived(mem, view, receipt) ELSE NoValue,
             IF error = "none" THEN CommittedArchive(mem, op, view, receipt) ELSE mem)
     /\ UNCHANGED <<up, layouts, fresh>>

-----------------------------------------------------------------------------
(* Release: give the published layout up to garbage collection.            *)

ReleaseError(s, op, expected) ==
  IF EntityError(s, expected.data) # "none" THEN EntityError(s, expected.data)
  ELSE IF \/ s.entities[expected.data.entity].public # expected
          \/ expected.anchors = {} THEN "Conflict"
  ELSE IF \/ Pinned(s, expected.data)
          \/ \E r \in s.recalls : r.target.data = expected.data THEN "Busy"
  ELSE IF s.entities[expected.data.entity].published = NoLayout THEN "Conflict"
  ELSE IF Locked(layouts, s.entities[expected.data.entity].published) THEN "Busy"
  ELSE FinishError(s, op, expected.data, ReleaseIt)

Released(expected) == Moved(expected, "Offline", expected.anchors)

\* Wrong variant: the entity goes on publishing the retired layout.
CommittedReleaseKeepsLayout(s, op, expected) ==
  LET e == expected.data.entity
  IN Finished([s EXCEPT !.entities[e].public = Released(expected),
                        !.gc = @ \cup {s.entities[e].published}],
              op, expected.data, ReleaseIt, Released(expected))

CommittedRelease(s, op, expected) ==
  LET e == expected.data.entity
  IN Finished([s EXCEPT !.entities[e] = [public |-> Released(expected), published |-> NoLayout],
                        !.gc = @ \cup {s.entities[e].published}],
              op, expected.data, ReleaseIt, Released(expected))

Release(op, expected) ==
  LET error == ReleaseError(mem, op, expected)
  IN /\ Step(op, "release", expected, error, Released(expected),
             IF error = "none" THEN CommittedRelease(mem, op, expected) ELSE mem)
     /\ UNCHANGED <<up, layouts, fresh>>

-----------------------------------------------------------------------------
(* Recall: fill a private layout, verify and seal it, then publish it.     *)

PrepareRecallError(s, expected, anchor) ==
  IF EntityError(s, expected.data) # "none" THEN EntityError(s, expected.data)
  ELSE IF \/ s.entities[expected.data.entity].public # expected
          \/ s.entities[expected.data.entity].published # NoLayout
          \/ anchor \notin expected.anchors THEN "Conflict"
  ELSE IF \E r \in s.recalls : r.target.data = expected.data THEN "Busy"
  ELSE "none"

NewTarget(expected, anchor, id) ==
  [data |-> expected.data, archive |-> anchor.key, layout_id |-> id]

PrepareRecall(op, expected, anchor) ==
  LET error == PrepareRecallError(mem, expected, anchor)
      target == NewTarget(expected, anchor, fresh)
  IN /\ fresh \in Id
     /\ Step(op, "prepare_recall", [expected |-> expected, anchor |-> anchor], error, target,
             [mem EXCEPT !.recalls = @ \cup {[op |-> op, target |-> target, anchor |-> anchor]}])
     /\ IF error = "none"
          THEN /\ layouts' = [layouts EXCEPT ![fresh] = NewLayout]
               /\ fresh' = fresh + 1
          ELSE UNCHANGED <<layouts, fresh>>
     /\ UNCHANGED up

\* Wrong variant: the transfer is verified, but not against the entity.
ReadBackIsEvidence(found, evidence, content) == evidence = found

\* The bytes read back are the transferred ones and those of the entity.
ReadBackMatches(found, evidence, content) == evidence = found /\ found = content

\* The checks before anything is written.  "Io", a missing data file, is not
\* a SavedFailure: the call fails and leaves nothing behind.
VerifyRecallError(s, op, target, evidence) ==
  IF \A r \in s.recalls : r.target.layout_id # target.layout_id THEN "NotFound"
  ELSE IF \A r \in s.recalls : r.op # op \/ r.target # target THEN "Fenced"
  ELSE IF Locked(layouts, target.layout_id) THEN "Busy"
  ELSE IF layouts[target.layout_id].data = NoData THEN "Io"
  ELSE IF EntityError(s, target.data) # "none" THEN EntityError(s, target.data)
  ELSE LET entity == s.entities[target.data.entity]
           found == layouts[target.layout_id].data
       IN IF \/ entity.published # NoLayout
             \/ \E r \in s.recalls : /\ r.target = target
                                     /\ r.anchor \notin entity.public.anchors THEN "Conflict"
          ELSE IF ~ReadBackMatches(found, evidence, entity.public.content) THEN "Integrity"
          ELSE "none"

Recalled(s, target) ==
  LET public == s.entities[target.data.entity].public
  IN Moved(public, "Dual", public.anchors)

\* Wrong variant: the recall stays active.
CommittedRecallStaysActive(s, op, target) ==
  LET state == Recalled(s, target)
  IN Finished([s EXCEPT !.entities[target.data.entity] =
                          [public |-> state, published |-> target.layout_id]],
              op, target.data, RecallFrom(target.archive), state)

CommittedRecall(s, op, target) ==
  LET state == Recalled(s, target)
  IN Finished([s EXCEPT !.entities[target.data.entity] =
                          [public |-> state, published |-> target.layout_id],
                        !.recalls = {r \in @ : r.target.layout_id # target.layout_id}],
              op, target.data, RecallFrom(target.archive), state)

RecallRequest(target, evidence) == [target |-> target, evidence |-> evidence]

CommitRecallRefused(op, target, evidence) ==
  LET error == VerifyRecallError(mem, op, target, evidence)
  IN /\ error \in SavedFailure
     /\ Step(op, "commit_recall", RecallRequest(target, evidence), error, NoValue, mem)
     /\ UNCHANGED <<up, layouts, fresh>>

\* sealed.json is durable before finish and before the new state.json.
CommitRecall(op, target, evidence) ==
  /\ VerifyRecallError(mem, op, target, evidence) = "none"
  /\ layouts' = Seal(layouts, target.layout_id)
  /\ Step(op, "commit_recall", RecallRequest(target, evidence),
          FinishError(mem, op, target.data, RecallFrom(target.archive)),
          Recalled(mem, target), CommittedRecall(mem, op, target))
  /\ UNCHANGED <<up, fresh>>

\* The sync after renaming sealed.json fails: Unknown, nothing stored, the
\* handle stays healthy and the layout fenced.
CommitRecallSealUncertain(op, target, evidence) ==
  /\ "seal" \in Faults
  /\ Healthy
  /\ <<op, "commit_recall">> \in Uses
  /\ mem.steps[<<op, "commit_recall">>] = NoStep
  /\ VerifyRecallError(mem, op, target, evidence) = "none"
  /\ layouts' = SealUnsynced(layouts, target.layout_id)
  /\ UNCHANGED <<docs, poisoned, up, fresh, told>>

-----------------------------------------------------------------------------
(* Byte sessions of the mover, restarts and power losses.                  *)

Succeeded(s, op, name) == s.steps[<<op, name>>] # NoStep /\ s.steps[<<op, name>>].error = "none"

\* The answers callers can hold, and every EntityState inspect has shown.
Issued(s, name) == {s.steps[<<op, name>>].value : op \in {o \in Op : Succeeded(s, o, name)}}

Observed(s) ==
  {Imported(e, s.entities[e].public.content) : e \in {f \in Entity : s.entities[f] # NoEntity}}
    \cup Issued(s, "commit_archive") \cup Issued(s, "release") \cup Issued(s, "commit_recall")

\* LocalDataMover::copy from a pinned view: lock, read, unlock.
BeginRead(l) ==
  /\ layouts[l].there /\ ~Locked(layouts, l)
  /\ layouts' = [layouts EXCEPT ![l].session = "reading"]
  /\ UNCHANGED <<docs, poisoned, up, fresh, told>>

\* Wrong variant: the mover does not look at sealed.json.
BeginWriteAnywhere(l) ==
  /\ layouts[l].there /\ ~Locked(layouts, l)
  /\ layouts' = [layouts EXCEPT ![l].session = "writing"]
  /\ UNCHANGED <<docs, poisoned, up, fresh, told>>

\* LocalDataMover::copy into a recall target: lock, then the seal check.
BeginWrite(l) ==
  /\ layouts[l].there /\ ~Locked(layouts, l)
  /\ ~Fenced(layouts, l)
  /\ layouts' = [layouts EXCEPT ![l].session = "writing"]
  /\ UNCHANGED <<docs, poisoned, up, fresh, told>>

\* The destination of a transfer under way: any prefix, any bytes.
WriteBytes(l, c) ==
  /\ layouts[l].session = "writing"
  /\ layouts[l].data # c
  /\ layouts' = [layouts EXCEPT ![l].data = c]
  /\ UNCHANGED <<docs, poisoned, up, fresh, told>>

EndSession(l) ==
  /\ Locked(layouts, l)
  /\ layouts' = [layouts EXCEPT ![l].session = "free"]
  /\ UNCHANGED <<docs, poisoned, up, fresh, told>>

\* The handle is dropped; a mover in the same process goes on.
Close ==
  /\ "close" \in Faults
  /\ up
  /\ up' = FALSE
  /\ UNCHANGED <<docs, poisoned, layouts, fresh, told>>

\* The process dies: the files stay as they are, locks are released.
Crash ==
  /\ "crash" \in Faults
  /\ up' = FALSE
  /\ layouts' = Unlocked(layouts)
  /\ UNCHANGED <<docs, poisoned, fresh, told>>

\* The host loses power: names that were not synced may be lost.
PowerLoss ==
  /\ "power" \in Faults
  /\ up' = FALSE
  /\ \E kept \in {disk, durable} : disk' = kept /\ durable' = kept
  /\ \E lost \in SUBSET Volatile(layouts) : layouts' = AfterPowerLoss(layouts, lost)
  /\ UNCHANGED <<mem, poisoned, fresh, told>>

\* Wrong variant: open reads what it finds without syncing the root.
ReopenUnsynced ==
  /\ ~up
  /\ up' = TRUE
  /\ poisoned' = FALSE
  /\ mem' = disk
  /\ UNCHANGED <<disk, durable, layouts, fresh, told>>

\* LocalStorage::open: sync the root, then read state.json.
Reopen ==
  /\ ~up
  /\ up' = TRUE
  /\ poisoned' = FALSE
  /\ mem' = disk
  /\ durable' = disk
  /\ UNCHANGED <<disk, layouts, fresh, told>>

Call ==
  \/ \E e \in Entity, c \in Content : Import(e, c)
  \/ \E op \in Op :
       \/ \E data \in AskedData : PrepareArchive(op, data)
       \/ \E view \in Issued(mem, "prepare_archive"), receipt \in Receipt :
            CommitArchive(op, view, receipt)
       \/ \E expected \in Observed(mem) : Release(op, expected)
       \/ \E expected \in Observed(mem), anchor \in Receipt : PrepareRecall(op, expected, anchor)
       \/ \E target \in Issued(mem, "prepare_recall"), evidence \in Content :
            \/ CommitRecallRefused(op, target, evidence)
            \/ CommitRecall(op, target, evidence)
            \/ CommitRecallSealUncertain(op, target, evidence)
       \/ \E name \in StepName, o \in Op :
            /\ mem.steps[<<o, name>>] # NoStep
            /\ Replay(op, name, mem.steps[<<o, name>>].request)
  \/ CollectGarbage
  \/ CollectGarbageStops

Mover ==
  \/ \E view \in Issued(mem, "prepare_archive") : BeginRead(view.source)
  \/ \E target \in Issued(mem, "prepare_recall") :
       \/ BeginWrite(target.layout_id)
       \/ \E c \in Content : WriteBytes(target.layout_id, c)
  \/ \E l \in Id : EndSession(l)

Next == Call \/ Mover \/ Close \/ Crash \/ PowerLoss \/ Reopen

Spec == Init /\ [][Next]_vars

-----------------------------------------------------------------------------
(* Properties.                                                             *)

\* What a step that succeeded returned.
ValueOf(name) ==
  IF name = "prepare_archive" THEN DataView
  ELSE IF name = "prepare_recall" THEN RecallTarget
  ELSE EntityState

StepsTyped(s) ==
  \A op \in Op, name \in StepName :
    Succeeded(s, op, name) => s.steps[<<op, name>>].value \in ValueOf(name)

\* Every variable has its type, and a stored value that of its step.
TypeOK ==
  /\ mem \in State /\ disk \in State /\ durable \in State
  /\ StepsTyped(mem) /\ StepsTyped(disk) /\ StepsTyped(durable)
  /\ poisoned \in BOOLEAN /\ up \in BOOLEAN
  /\ layouts \in [Id -> Layout]
  /\ fresh \in 1 .. MaxId + 1
  /\ told \in SUBSET Answer

Exists(s, e) == s.entities[e] # NoEntity
Offline(s, e) == s.entities[e].published = NoLayout

\* The documents the next handle may read: the visible one, or the one a
\* power loss falls back to.
Documents == {disk, durable}

(***************************************************************************)
(* Whatever document a restart reads, each layout it publishes exists, is  *)
(* durably sealed and holds the bytes of its entity: import, commit_recall *)
(* and collect_garbage order their file operations around persist so that  *)
(* neither a crash nor a failed persist serves missing or foreign bytes.   *)
(***************************************************************************)
PublishedIntact ==
  \A s \in Documents : \A e \in Entity :
    Exists(s, e) /\ ~Offline(s, e) =>
      LET layout == layouts[s.entities[e].published]
      IN /\ layout.there
         /\ layout.seal = "sealed"
         /\ layout.data = s.entities[e].public.content

(***************************************************************************)
(* An entity is Offline exactly when it publishes no layout, and once it   *)
(* has left Online it keeps an anchor for its own content: release never   *)
(* retires the last copy and no later step forgets where the bytes went.   *)
(***************************************************************************)
ReleasedIsAnchored ==
  \A s \in Documents : \A e \in Entity :
    Exists(s, e) =>
      LET public == s.entities[e].public
      IN /\ Offline(s, e) <=> public.residency = "Offline"
         /\ public.residency = "Online" <=> public.anchors = {}
         /\ \A a \in public.anchors :
              a.data = public.data /\ a.content = public.content /\ a.wellformed
         /\ \A a, b \in public.anchors : a.key = b.key => a = b

(***************************************************************************)
(* A pinned view names the layout its entity still publishes, and an       *)
(* active recall fills a private layout of an entity that is still Offline *)
(* and still holds the anchor being read; no entity has two of either.     *)
(***************************************************************************)
PinsHold ==
  \A s \in Documents :
    /\ \A v \in s.views :
         /\ Exists(s, v.view.data.entity)
         /\ LET entity == s.entities[v.view.data.entity]
            IN /\ entity.public.data = v.view.data
               /\ entity.published = v.view.source
               /\ entity.public.content = v.view.content
         /\ \A w \in s.views : w.view.data = v.view.data => w = v
    /\ \A r \in s.recalls :
         /\ Exists(s, r.target.data.entity)
         /\ Offline(s, r.target.data.entity)
         /\ r.anchor \in s.entities[r.target.data.entity].public.anchors
         /\ layouts[r.target.layout_id].there
         /\ \A q \in s.recalls :
              (q.target.data = r.target.data \/ q.target.layout_id = r.target.layout_id) => q = r

\* The layouts a document still needs.
Referenced(s) ==
  {s.entities[e].published : e \in {f \in Entity : Exists(s, f) /\ ~Offline(s, f)}}
    \cup {v.view.source : v \in s.views}
    \cup {r.target.layout_id : r \in s.recalls}

(***************************************************************************)
(* The garbage list names no layout that is published, pinned or being     *)
(* filled, and no two entities share a published layout: collect_garbage   *)
(* may delete everything on the list without looking at anything else.     *)
(***************************************************************************)
RetiredUnreferenced ==
  \A s \in Documents :
    /\ s.gc \cap Referenced(s) = {}
    /\ \A e, f \in Entity :
         /\ Exists(s, e) /\ ~Offline(s, e) /\ Exists(s, f)
         /\ s.entities[e].published = s.entities[f].published
         => e = f

(***************************************************************************)
(* A handle that serves has the same document in memory, on disk and       *)
(* durably: persist moves the cache only after the directory sync, a       *)
(* failure poisons the handle, and open syncs the root before reading.     *)
(***************************************************************************)
Coherent == Healthy => mem = disk /\ disk = durable

(***************************************************************************)
(* Any answer a caller has received, value or failure, is durable with the *)
(* request that earned it: no crash, power loss or reopen forgets it, and  *)
(* a replay with another request never receives it.                        *)
(***************************************************************************)
AnswersDurable == \A a \in told : durable.steps[<<a.op, a.name>>] = a.saved

CommitSteps == {"commit_archive", "release", "commit_recall"}

KindOf(name) == CASE name = "commit_archive" -> "Archive"
                  [] name = "release" -> "Release"
                  [] name = "commit_recall" -> "Recall"

(***************************************************************************)
(* An operation ID takes effect at most once: completed answers for it     *)
(* exactly when one of its three committing steps succeeded, with that     *)
(* step's action and state, although the steps have separate keys and one  *)
(* ID may be tried for Archive, Release and Recall alike.                  *)
(***************************************************************************)
OneEffectPerOperation ==
  \A s \in Documents : \A op \in Op :
    /\ s.completed[op] = NoOutcome => \A n \in CommitSteps : ~Succeeded(s, op, n)
    /\ s.completed[op] # NoOutcome =>
         /\ \E n \in CommitSteps : Succeeded(s, op, n)
         /\ \A n \in CommitSteps : Succeeded(s, op, n) =>
              /\ s.completed[op].action.kind = KindOf(n)
              /\ s.completed[op].state = s.steps[<<op, n>>].value

(***************************************************************************)
(* A revision identifies one observation of an entity for ever, so the     *)
(* comparison of `expected' in release and prepare_recall cannot mistake   *)
(* an older state for the current one, however the entity moved between.   *)
(***************************************************************************)
RevisionIdentifies ==
  \A s \in Documents :
    LET current == {s.entities[e].public : e \in {f \in Entity : Exists(s, f)}}
    IN \A x \in Observed(s), y \in current :
         x.data.entity = y.data.entity =>
           /\ x.revision <= y.revision
           /\ x.revision = y.revision => x = y

(***************************************************************************)
(* A sealed layout keeps its bytes and its seal until it is removed as a   *)
(* whole: the seal check of the mover and the transfer lock of             *)
(* commit_recall leave no session that could still write it.               *)
(***************************************************************************)
SealedImmutable ==
  [][\A l \in Id : layouts[l].seal = "sealed" /\ layouts'[l].there =>
       layouts'[l].seal = "sealed" /\ layouts'[l].data = layouts[l].data]_vars

\* The bytes `read' serves of an entity, from the document s.
Served(s, e) ==
  IF Exists(s, e) /\ ~Offline(s, e) THEN layouts[s.entities[e].published].data ELSE NoData

Contract == INSTANCE ManagedContract WITH
  NoContent <- NoData,
  Unused <- NoOutcome,
  identity <- [e \in Entity |-> IF Exists(durable, e)
                                  THEN durable.entities[e].public.content ELSE NoData],
  bytes <- [e \in Entity |-> Served(durable, e)],
  anchored <- [e \in Entity |-> IF Exists(durable, e)
                                  THEN {a.key : a \in durable.entities[e].public.anchors}
                                  ELSE {}],
  effect <- [op \in Op |-> IF durable.completed[op] = NoOutcome THEN NoOutcome
                           ELSE [kind |-> durable.completed[op].action.kind,
                                 entity |-> durable.completed[op].data.entity]]

\* The durable document with its layouts implements the contract of the
\* trait, through failed persists, crashes and power losses.
ImplementsContract == Contract!Spec
=============================================================================
