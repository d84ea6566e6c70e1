------------------------- MODULE LocalStorage_proofs -------------------------
(***************************************************************************)
(* Theorems about LocalStorage for every value of its constants: types,    *)
(* the safety invariants, that answers stay, what the operations leave in  *)
(* a document, the contract of the trait, and what a caller of several     *)
(* operations may rely on.                                                 *)
(***************************************************************************)
EXTENDS LocalStorage, TLAPS

-----------------------------------------------------------------------------
(* Type correctness.                                                       *)

\* The part of TypeOK that is about one document.
DocTyped(s) == s \in State /\ StepsTyped(s)

\* Storing a step in a typed document gives a typed document.
LEMMA AfterStepTyped ==
  ASSUME NEW s, DocTyped(s), NEW op \in Op, NEW name \in StepName,
         NEW request \in Request, NEW error \in SavedFailure \cup {"none"},
         NEW value, NEW next,
         error = "none" => value \in ValueOf(name) /\ DocTyped(next)
  PROVE  /\ DocTyped(AfterStep(s, op, name, request, error, value, next))
         /\ AfterStep(s, op, name, request, error, value, next).steps[<<op, name>>] \in SavedStep
<1> DEFINE base == IF error = "none" THEN next ELSE s
           saved == [request |-> request, error |-> error,
                     value |-> IF error = "none" THEN value ELSE NoValue]
           after == AfterStep(s, op, name, request, error, value, next)
<1>1. DocTyped(base)
  OBVIOUS
<1>2. saved \in SavedStep
  <2>1. error = "none" => value \in StepValue
    BY DEF ValueOf, StepValue
  <2> QED
    BY <2>1 DEF SavedStep, StepValue
<1>3. after = [base EXCEPT !.steps = [base.steps EXCEPT ![<<op, name>>] = saved]]
  BY DEF AfterStep
<1>4. base.steps \in [Op \X StepName -> SavedStep \cup {NoStep}]
  BY <1>1 DEF DocTyped, State
<1>5. after.steps = [base.steps EXCEPT ![<<op, name>>] = saved]
  BY <1>1, <1>3 DEF DocTyped, State
<1>6. after.steps \in [Op \X StepName -> SavedStep \cup {NoStep}]
  BY <1>2, <1>4, <1>5
<1>7. after \in State
  BY <1>1, <1>3, <1>5, <1>6 DEF DocTyped, State
<1>8. after.steps[<<op, name>>] = saved
  BY <1>4, <1>5
<1>9. StepsTyped(after)
  <2> SUFFICES ASSUME NEW o \in Op, NEW n \in StepName, Succeeded(after, o, n)
               PROVE  after.steps[<<o, n>>].value \in ValueOf(n)
    BY DEF StepsTyped
  <2>1. CASE <<o, n>> = <<op, name>>
    BY <1>8, <2>1 DEF Succeeded
  <2>2. CASE <<o, n>> # <<op, name>>
    <3>1. after.steps[<<o, n>>] = base.steps[<<o, n>>]
      BY <1>4, <1>5, <2>2
    <3> QED
      BY <1>1, <3>1 DEF DocTyped, StepsTyped, Succeeded
  <2> QED
    BY <2>1, <2>2
<1> QED
  BY <1>2, <1>7, <1>8, <1>9 DEF DocTyped

\* Whatever its outcome, replacing the document by a typed one keeps every
\* document typed and only adds typed answers.
LEMMA PersistTyped ==
  ASSUME TypeOK, NEW next, DocTyped(next), NEW answers \in SUBSET Answer,
         Persist(next, answers)
  PROVE  /\ DocTyped(mem') /\ DocTyped(disk') /\ DocTyped(durable')
         /\ poisoned' \in BOOLEAN
         /\ told' \in SUBSET Answer
<1>1. DocTyped(mem) /\ DocTyped(disk) /\ DocTyped(durable)
  BY DEF TypeOK, DocTyped
<1>2. CASE PersistOk(next, answers)
  BY <1>2 DEF PersistOk, TypeOK
<1>3. CASE PersistUnsynced(next)
  BY <1>1, <1>3 DEF PersistUnsynced, TypeOK
<1>4. CASE PersistFailed
  BY <1>1, <1>4 DEF PersistFailed, TypeOK
<1> QED
  BY <1>2, <1>3, <1>4 DEF Persist

\* The first execution of a step.
LEMMA StepTyped ==
  ASSUME TypeOK, NEW op \in Op, NEW name \in StepName,
         NEW request \in Request, NEW error \in SavedFailure \cup {"none"},
         NEW value, NEW next,
         error = "none" => value \in ValueOf(name) /\ DocTyped(next),
         Step(op, name, request, error, value, next)
  PROVE  /\ DocTyped(mem') /\ DocTyped(disk') /\ DocTyped(durable')
         /\ poisoned' \in BOOLEAN
         /\ told' \in SUBSET Answer
<1> DEFINE after == AfterStep(mem, op, name, request, error, value, next)
           answer == [op |-> op, name |-> name, saved |-> after.steps[<<op, name>>]]
<1>1. DocTyped(mem)
  BY DEF TypeOK, DocTyped
<1>2. DocTyped(after) /\ after.steps[<<op, name>>] \in SavedStep
  BY <1>1, AfterStepTyped
<1>3. {answer} \in SUBSET Answer
  BY <1>2 DEF Answer
<1>4. Persist(after, {answer})
  BY DEF Step
<1> QED
  BY <1>2, <1>3, <1>4, PersistTyped

-----------------------------------------------------------------------------
(* The effects of the operations on a typed document.                      *)

LEMMA EntityTyped ==
  ASSUME NEW s, DocTyped(s), NEW e \in Entity, s.entities[e] # NoEntity
  PROVE  /\ s.entities[e] \in EntityRecord
         /\ s.entities[e].public \in EntityState
         /\ s.entities[e].published \in Id \cup {NoLayout}
BY DEF DocTyped, State, EntityRecord

LEMMA MovedTyped ==
  ASSUME NEW public \in EntityState, NEW residency \in {"Online", "Dual", "Offline"},
         NEW anchors \in SUBSET ArchiveReceipt
  PROVE  Moved(public, residency, anchors) \in EntityState
BY DEF Moved, EntityState

LEMMA ImportedTyped ==
  ASSUME NEW e \in Entity, NEW c \in Content
  PROVE  Imported(e, c) \in EntityState
BY DEF Imported, EntityState, DataKey

LEMMA ObservedTyped ==
  ASSUME NEW s, DocTyped(s)
  PROVE  /\ Observed(s) \subseteq EntityState
         /\ Issued(s, "prepare_archive") \subseteq DataView
         /\ Issued(s, "prepare_recall") \subseteq RecallTarget
<1>1. \A e \in Entity : s.entities[e] # NoEntity =>
        Imported(e, s.entities[e].public.content) \in EntityState
  BY EntityTyped, ImportedTyped DEF EntityState
<1>2. \A name \in StepName : Issued(s, name) \subseteq ValueOf(name)
  BY DEF DocTyped, StepsTyped, Issued
<1> QED
  BY <1>1, <1>2 DEF Observed, ValueOf, StepName

\* Recording the result of an operation.
LEMMA FinishedTyped ==
  ASSUME NEW s, DocTyped(s), NEW op \in Op, NEW data \in DataKey,
         NEW action \in ManagedAction, NEW state \in EntityState
  PROVE  /\ DocTyped(Finished(s, op, data, action, state))
         /\ Finished(s, op, data, action, state).steps = s.steps
<1> DEFINE record == [data |-> data, action |-> action, state |-> state]
<1>1. record \in Completed
  BY DEF Completed
<1>2. [s.completed EXCEPT ![op] = record] \in [Op -> Completed \cup {NoOutcome}]
  BY <1>1 DEF DocTyped, State
<1>3. Finished(s, op, data, action, state) =
        [s EXCEPT !.completed = [s.completed EXCEPT ![op] = record]]
  BY DEF Finished
<1>4. Finished(s, op, data, action, state) \in State
  BY <1>2, <1>3 DEF DocTyped, State
<1>5. Finished(s, op, data, action, state).steps = s.steps
  BY <1>3 DEF DocTyped, State
<1> QED
  BY <1>4, <1>5 DEF DocTyped, StepsTyped, Succeeded

-----------------------------------------------------------------------------
(* One lemma per operation: its variables keep their types.                *)

\* What every operation on the metadata has to show.
DocsTyped ==
  /\ DocTyped(mem) /\ DocTyped(disk) /\ DocTyped(durable)
  /\ poisoned \in BOOLEAN
  /\ told \in SUBSET Answer

LEMMA TypeOKParts == TypeOK <=> /\ DocsTyped
                                /\ up \in BOOLEAN
                                /\ layouts \in [Id -> Layout]
                                /\ fresh \in 1 .. MaxId + 1
BY DEF TypeOK, DocsTyped, DocTyped

LEMMA EntityWrittenTyped ==
  ASSUME NEW s, DocTyped(s), NEW e \in Entity, NEW record \in EntityRecord
  PROVE  /\ DocTyped([s EXCEPT !.entities[e] = record])
         /\ [s EXCEPT !.entities[e] = record].steps = s.steps
<1> DEFINE next == [s EXCEPT !.entities[e] = record]
<1>1. [s.entities EXCEPT ![e] = record] \in [Entity -> EntityRecord \cup {NoEntity}]
  BY DEF DocTyped, State
<1>2. next = [s EXCEPT !.entities = [s.entities EXCEPT ![e] = record]]
  OBVIOUS
<1>3. next \in State /\ next.steps = s.steps
  BY <1>1, <1>2 DEF DocTyped, State
<1> QED
  BY <1>3 DEF DocTyped, StepsTyped, Succeeded

LEMMA SealedLayoutTyped ==
  ASSUME NEW c \in Content PROVE SealedLayout(c) \in Layout
BY DEF SealedLayout, Layout

LEMMA ImportTyped ==
  ASSUME TypeOK, NEW e \in Entity, NEW c \in Content, Import(e, c)
  PROVE  TypeOK'
<1> DEFINE record == [public |-> Imported(e, c), published |-> fresh]
           next == [mem EXCEPT !.entities[e] = record]
<1>1. record \in EntityRecord
  BY ImportedTyped DEF EntityRecord, Import
<1>2. DocTyped(next)
  BY <1>1, EntityWrittenTyped, TypeOKParts DEF DocsTyped
<1>3. Persist(next, {})
  BY DEF Import
<1>4. DocsTyped'
  BY <1>2, <1>3, PersistTyped DEF DocsTyped, DocTyped
<1>5. layouts' \in [Id -> Layout]
  BY SealedLayoutTyped DEF Import, TypeOK
<1>6. up' \in BOOLEAN /\ fresh' \in 1 .. MaxId + 1
  BY LayoutAssumption DEF Import, TypeOK, Id
<1> QED
  BY <1>4, <1>5, <1>6, TypeOKParts DEF TypeOK, DocsTyped, DocTyped

LEMMA CollectGarbageTyped ==
  ASSUME TypeOK, CollectGarbage
  PROVE  TypeOK'
<1> DEFINE next == [mem EXCEPT !.gc = {}]
<1>1. next \in State /\ next.steps = mem.steps
  BY DEF TypeOK, State
<1>2. DocTyped(next)
  BY <1>1 DEF DocTyped, StepsTyped, Succeeded, TypeOK
<1>3. DocsTyped'
  BY <1>2, PersistTyped DEF CollectGarbage, DocsTyped, DocTyped
<1>4. layouts' \in [Id -> Layout]
  BY DEF CollectGarbage, Remove, Removed, Layout, TypeOK
<1> QED
  BY <1>3, <1>4 DEF CollectGarbage, TypeOK, DocsTyped, DocTyped

LEMMA CollectGarbageStopsTyped ==
  ASSUME TypeOK, CollectGarbageStops
  PROVE  TypeOK'
<1>1. layouts' \in [Id -> Layout]
  BY DEF CollectGarbageStops, Remove, Removed, Layout, TypeOK
<1> QED
  BY <1>1 DEF CollectGarbageStops, docs, TypeOK

LEMMA StepKeepsTypes ==
  ASSUME TypeOK, NEW op \in Op, NEW name \in StepName,
         NEW request \in Request, NEW error \in SavedFailure \cup {"none"},
         NEW value, NEW next,
         error = "none" => value \in ValueOf(name) /\ DocTyped(next),
         Step(op, name, request, error, value, next)
  PROVE  DocsTyped'
BY StepTyped DEF DocsTyped, DocTyped

\* The view prepare_archive adds.
LEMMA PinnedTyped ==
  ASSUME NEW s, DocTyped(s), NEW op \in Op, NEW data \in DataKey, NEW id \in Id,
         PrepareArchiveError(s, data) = "none"
  PROVE  /\ NewView(s, data, id) \in DataView
         /\ DocTyped([s EXCEPT !.views = @ \cup {[op |-> op, view |-> NewView(s, data, id)]}])
<1> DEFINE view == NewView(s, data, id)
           next == [s EXCEPT !.views = @ \cup {[op |-> op, view |-> view]}]
<1>1. /\ s.entities[data.entity] # NoEntity
      /\ s.entities[data.entity].published # NoLayout
  BY DEF PrepareArchiveError, EntityError
<1>2. /\ s.entities[data.entity].public.content \in Content
      /\ s.entities[data.entity].published \in Id
  BY <1>1, EntityTyped DEF EntityState, DataKey
<1>3. view \in DataView
  BY <1>2 DEF NewView, DataView
<1>4. s.views \cup {[op |-> op, view |-> view]} \in SUBSET ViewOwner
  BY <1>3 DEF DocTyped, State, ViewOwner
<1>5. next \in State /\ next.steps = s.steps
  BY <1>4 DEF DocTyped, State
<1> QED
  BY <1>3, <1>5 DEF DocTyped, StepsTyped, Succeeded

LEMMA PrepareArchiveTyped ==
  ASSUME TypeOK, NEW op \in Op, NEW data \in DataKey, PrepareArchive(op, data)
  PROVE  TypeOK'
<1> DEFINE error == PrepareArchiveError(mem, data)
           view == NewView(mem, data, fresh)
           next == [mem EXCEPT !.views = @ \cup {[op |-> op, view |-> view]}]
<1>1. error \in SavedFailure \cup {"none"}
  BY DEF PrepareArchiveError, EntityError, SavedFailure
<1>2. ASSUME error = "none" PROVE view \in DataView /\ DocTyped(next)
  BY <1>2, PinnedTyped DEF PrepareArchive, TypeOK, DocTyped
<1>3. view \in ValueOf("prepare_archive") <=> view \in DataView
  BY DEF ValueOf
<1>4. DocsTyped'
  BY <1>1, <1>2, <1>3, StepKeepsTypes DEF PrepareArchive, StepName, Request
<1>5. fresh' \in 1 .. MaxId + 1
  BY LayoutAssumption DEF PrepareArchive, TypeOK, Id
<1> QED
  BY <1>4, <1>5 DEF PrepareArchive, TypeOK, DocsTyped, DocTyped

\* The state commit_archive gives its entity.
LEMMA ArchivedTyped ==
  ASSUME NEW s, DocTyped(s), NEW view \in DataView, NEW receipt \in ArchiveReceipt,
         s.entities[view.data.entity] # NoEntity
  PROVE  Archived(s, view, receipt) \in EntityState
<1>1. view.data.entity \in Entity
  BY DEF DataView, DataKey
<1>2. s.entities[view.data.entity].public \in EntityState
  BY <1>1, EntityTyped
<1>3. s.entities[view.data.entity].public.anchors \cup {receipt} \in SUBSET ArchiveReceipt
  BY <1>2 DEF EntityState
<1> QED
  BY <1>2, <1>3, MovedTyped DEF Archived

LEMMA CommittedArchiveTyped ==
  ASSUME NEW s, DocTyped(s), NEW op \in Op, NEW view \in DataView,
         NEW receipt \in ArchiveReceipt, s.entities[view.data.entity] # NoEntity
  PROVE  /\ DocTyped(CommittedArchive(s, op, view, receipt))
         /\ CommittedArchive(s, op, view, receipt).steps = s.steps
<1> DEFINE e == view.data.entity
           state == Archived(s, view, receipt)
           record == [s.entities[e] EXCEPT !.public = state]
           left == {v \in s.views : v.view.view_id # view.view_id}
           next == [[s EXCEPT !.entities[e] = record] EXCEPT !.views = left]
<1>1. e \in Entity /\ state \in EntityState
  BY ArchivedTyped DEF DataView, DataKey
<1>2. record \in EntityRecord
  BY <1>1, EntityTyped DEF EntityRecord
<1>3. DocTyped([s EXCEPT !.entities[e] = record])
  BY <1>1, <1>2, EntityWrittenTyped
<1>4. next \in State /\ next.steps = s.steps
  <2>1. left \in SUBSET ViewOwner
    BY DEF DocTyped, State
  <2> QED
    BY <1>1, <1>2, <1>3, <2>1, EntityWrittenTyped DEF DocTyped, State
<1>5. DocTyped(next)
  BY <1>4 DEF DocTyped, StepsTyped, Succeeded
<1>6. CommittedArchive(s, op, view, receipt) =
        Finished(next, op, view.data, ArchiveTo(receipt.key), state)
  BY DEF CommittedArchive
<1>7. ArchiveTo(receipt.key) \in ManagedAction /\ view.data \in DataKey
  BY DEF ArchiveTo, ManagedAction, ArchiveReceipt, DataView
<1> HIDE DEF next, state
<1> QED
  BY <1>1, <1>4, <1>5, <1>6, <1>7, FinishedTyped

LEMMA CommitArchiveTyped ==
  ASSUME TypeOK, NEW op \in Op, NEW view \in DataView, NEW receipt \in ArchiveReceipt,
         CommitArchive(op, view, receipt)
  PROVE  TypeOK'
<1> DEFINE error == CommitArchiveError(mem, op, view, receipt)
<1>1. error \in SavedFailure \cup {"none"}
  BY DEF CommitArchiveError, EntityError, FinishError, SavedFailure
<1>2. [view |-> view, receipt |-> receipt] \in Request
  BY DEF Request
<1>3. ASSUME error = "none"
      PROVE  /\ Archived(mem, view, receipt) \in ValueOf("commit_archive")
             /\ DocTyped(CommittedArchive(mem, op, view, receipt))
  <2>1. mem.entities[view.data.entity] # NoEntity
    BY <1>3 DEF CommitArchiveError, EntityError
  <2> QED
    BY <2>1, ArchivedTyped, CommittedArchiveTyped DEF TypeOK, DocTyped, ValueOf
<1>4. DocsTyped'
  BY <1>1, <1>2, <1>3, StepKeepsTypes DEF CommitArchive, StepName
<1> QED
  BY <1>4 DEF CommitArchive, TypeOK, DocsTyped, DocTyped

LEMMA ReleasedTyped ==
  ASSUME NEW expected \in EntityState
  PROVE  Released(expected) \in EntityState
<1>1. expected.anchors \in SUBSET ArchiveReceipt
  BY DEF EntityState
<1> QED
  BY <1>1, MovedTyped DEF Released

LEMMA CommittedReleaseTyped ==
  ASSUME NEW s, DocTyped(s), NEW op \in Op, NEW expected \in EntityState,
         s.entities[expected.data.entity] # NoEntity,
         s.entities[expected.data.entity].published # NoLayout
  PROVE  /\ DocTyped(CommittedRelease(s, op, expected))
         /\ CommittedRelease(s, op, expected).steps = s.steps
<1> DEFINE e == expected.data.entity
           state == Released(expected)
           record == [public |-> state, published |-> NoLayout]
           retired == s.gc \cup {s.entities[e].published}
           next == [[s EXCEPT !.entities[e] = record] EXCEPT !.gc = retired]
<1>1. e \in Entity /\ state \in EntityState
  BY ReleasedTyped DEF EntityState, DataKey
<1>2. record \in EntityRecord
  BY <1>1 DEF EntityRecord
<1>3. DocTyped([s EXCEPT !.entities[e] = record])
  BY <1>1, <1>2, EntityWrittenTyped
<1>4. next \in State /\ next.steps = s.steps
  <2>1. retired \in SUBSET Id
    BY <1>1, EntityTyped DEF DocTyped, State
  <2> QED
    BY <1>1, <1>2, <1>3, <2>1, EntityWrittenTyped DEF DocTyped, State
<1>5. DocTyped(next)
  BY <1>4 DEF DocTyped, StepsTyped, Succeeded
<1>6. CommittedRelease(s, op, expected) = Finished(next, op, expected.data, ReleaseIt, state)
  BY DEF CommittedRelease
<1>7. ReleaseIt \in ManagedAction /\ expected.data \in DataKey
  BY DEF ReleaseIt, ManagedAction, EntityState
<1> HIDE DEF next, state
<1> QED
  BY <1>1, <1>4, <1>5, <1>6, <1>7, FinishedTyped

LEMMA ReleaseTyped ==
  ASSUME TypeOK, NEW op \in Op, NEW expected \in EntityState, Release(op, expected)
  PROVE  TypeOK'
<1> DEFINE error == ReleaseError(mem, op, expected)
<1>1. error \in SavedFailure \cup {"none"}
  BY DEF ReleaseError, EntityError, FinishError, SavedFailure
<1>2. expected \in Request
  BY DEF Request
<1>3. ASSUME error = "none"
      PROVE  /\ Released(expected) \in ValueOf("release")
             /\ DocTyped(CommittedRelease(mem, op, expected))
  <2>1. /\ mem.entities[expected.data.entity] # NoEntity
        /\ mem.entities[expected.data.entity].published # NoLayout
    BY <1>3 DEF ReleaseError, EntityError
  <2> QED
    BY <2>1, ReleasedTyped, CommittedReleaseTyped DEF TypeOK, DocTyped, ValueOf
<1>4. DocsTyped'
  BY <1>1, <1>2, <1>3, StepKeepsTypes DEF Release, StepName
<1> QED
  BY <1>4 DEF Release, TypeOK, DocsTyped, DocTyped

\* The recall prepare_recall adds.
LEMMA RequestedTyped ==
  ASSUME NEW s, DocTyped(s), NEW op \in Op, NEW expected \in EntityState,
         NEW anchor \in ArchiveReceipt, NEW id \in Id
  PROVE  LET target == NewTarget(expected, anchor, id)
         IN /\ target \in RecallTarget
            /\ DocTyped([s EXCEPT !.recalls =
                           @ \cup {[op |-> op, target |-> target, anchor |-> anchor]}])
<1> DEFINE target == NewTarget(expected, anchor, id)
           owner == [op |-> op, target |-> target, anchor |-> anchor]
           next == [s EXCEPT !.recalls = @ \cup {owner}]
<1>1. target \in RecallTarget
  BY DEF NewTarget, RecallTarget, EntityState, ArchiveReceipt
<1>2. s.recalls \cup {owner} \in SUBSET RecallOwner
  BY <1>1 DEF DocTyped, State, RecallOwner
<1>3. next \in State /\ next.steps = s.steps
  BY <1>2 DEF DocTyped, State
<1> QED
  BY <1>1, <1>3 DEF DocTyped, StepsTyped, Succeeded

LEMMA PrepareRecallTyped ==
  ASSUME TypeOK, NEW op \in Op, NEW expected \in EntityState, NEW anchor \in ArchiveReceipt,
         PrepareRecall(op, expected, anchor)
  PROVE  TypeOK'
<1> DEFINE error == PrepareRecallError(mem, expected, anchor)
           target == NewTarget(expected, anchor, fresh)
           owner == [op |-> op, target |-> target, anchor |-> anchor]
           next == [mem EXCEPT !.recalls = @ \cup {owner}]
<1>1. error \in SavedFailure \cup {"none"}
  BY DEF PrepareRecallError, EntityError, SavedFailure
<1>2. [expected |-> expected, anchor |-> anchor] \in Request
  BY DEF Request
<1>3. fresh \in Id /\ DocTyped(mem)
  BY DEF PrepareRecall, TypeOK, DocTyped
<1>4. target \in RecallTarget /\ DocTyped(next)
  BY <1>3, RequestedTyped
<1>5. target \in ValueOf("prepare_recall")
  BY <1>4 DEF ValueOf
<1>6. DocsTyped'
  BY <1>1, <1>2, <1>4, <1>5, StepKeepsTypes DEF PrepareRecall, StepName
<1>7. layouts' \in [Id -> Layout]
  <2>1. layouts' = layouts \/ layouts' = [layouts EXCEPT ![fresh] = NewLayout]
    BY DEF PrepareRecall
  <2>2. NewLayout \in Layout
    BY DEF NewLayout, Layout
  <2> QED
    BY <2>1, <2>2 DEF TypeOK
<1>8. fresh' \in 1 .. MaxId + 1
  BY LayoutAssumption DEF PrepareRecall, TypeOK, Id
<1> QED
  BY <1>6, <1>7, <1>8 DEF PrepareRecall, TypeOK, DocsTyped, DocTyped

LEMMA RecalledTyped ==
  ASSUME NEW s, DocTyped(s), NEW target \in RecallTarget,
         s.entities[target.data.entity] # NoEntity
  PROVE  Recalled(s, target) \in EntityState
<1>1. s.entities[target.data.entity].public \in EntityState
  BY EntityTyped DEF RecallTarget, DataKey
<1>2. s.entities[target.data.entity].public.anchors \in SUBSET ArchiveReceipt
  BY <1>1 DEF EntityState
<1> QED
  BY <1>1, <1>2, MovedTyped DEF Recalled

LEMMA CommittedRecallTyped ==
  ASSUME NEW s, DocTyped(s), NEW op \in Op, NEW target \in RecallTarget,
         s.entities[target.data.entity] # NoEntity
  PROVE  /\ DocTyped(CommittedRecall(s, op, target))
         /\ CommittedRecall(s, op, target).steps = s.steps
<1> DEFINE e == target.data.entity
           state == Recalled(s, target)
           record == [public |-> state, published |-> target.layout_id]
           left == {r \in s.recalls : r.target.layout_id # target.layout_id}
           next == [[s EXCEPT !.entities[e] = record] EXCEPT !.recalls = left]
<1>1. e \in Entity /\ state \in EntityState
  BY RecalledTyped DEF RecallTarget, DataKey
<1>2. record \in EntityRecord
  BY <1>1 DEF EntityRecord, RecallTarget
<1>3. DocTyped([s EXCEPT !.entities[e] = record])
  BY <1>1, <1>2, EntityWrittenTyped
<1>4. next \in State /\ next.steps = s.steps
  <2>1. left \in SUBSET RecallOwner
    BY DEF DocTyped, State
  <2> QED
    BY <1>1, <1>2, <1>3, <2>1, EntityWrittenTyped DEF DocTyped, State
<1>5. DocTyped(next)
  BY <1>4 DEF DocTyped, StepsTyped, Succeeded
<1>6. CommittedRecall(s, op, target) =
        Finished(next, op, target.data, RecallFrom(target.archive), state)
  BY DEF CommittedRecall
<1>7. RecallFrom(target.archive) \in ManagedAction /\ target.data \in DataKey
  BY DEF RecallFrom, ManagedAction, RecallTarget
<1> HIDE DEF next, state
<1> QED
  BY <1>1, <1>4, <1>5, <1>6, <1>7, FinishedTyped

LEMMA CommitRecallRefusedTyped ==
  ASSUME TypeOK, NEW op \in Op, NEW target \in RecallTarget, NEW evidence \in Content,
         CommitRecallRefused(op, target, evidence)
  PROVE  TypeOK'
<1>1. RecallRequest(target, evidence) \in Request
  BY DEF RecallRequest, Request
<1>2. "none" \notin SavedFailure
  BY DEF SavedFailure
<1>3. DocsTyped'
  BY <1>1, <1>2, StepKeepsTypes DEF CommitRecallRefused, StepName
<1> QED
  BY <1>3 DEF CommitRecallRefused, TypeOK, DocsTyped, DocTyped

LEMMA SealTyped ==
  ASSUME NEW dirs \in [Id -> Layout], NEW l \in Id
  PROVE  Seal(dirs, l) \in [Id -> Layout] /\ SealUnsynced(dirs, l) \in [Id -> Layout]
BY DEF Seal, SealUnsynced, Layout

\* What the checks of commit_recall establish.
LEMMA VerifiedRecall ==
  ASSUME NEW s, NEW op, NEW target, NEW evidence,
         VerifyRecallError(s, op, target, evidence) = "none"
  PROVE  /\ \E r \in s.recalls : r.op = op /\ r.target = target
         /\ ~Locked(layouts, target.layout_id)
         /\ layouts[target.layout_id].data # NoData
         /\ s.entities[target.data.entity] # NoEntity
         /\ s.entities[target.data.entity].public.data = target.data
         /\ s.entities[target.data.entity].published = NoLayout
         /\ evidence = layouts[target.layout_id].data
         /\ evidence = s.entities[target.data.entity].public.content
BY DEF VerifyRecallError, EntityError, ReadBackMatches

LEMMA CommitRecallTyped ==
  ASSUME TypeOK, NEW op \in Op, NEW target \in RecallTarget, NEW evidence \in Content,
         CommitRecall(op, target, evidence)
  PROVE  TypeOK'
<1>1. RecallRequest(target, evidence) \in Request
  BY DEF RecallRequest, Request
<1>2. mem.entities[target.data.entity] # NoEntity
  BY VerifiedRecall DEF CommitRecall
<1>3. /\ Recalled(mem, target) \in ValueOf("commit_recall")
      /\ DocTyped(CommittedRecall(mem, op, target))
  BY <1>2, RecalledTyped, CommittedRecallTyped DEF TypeOK, DocTyped, ValueOf
<1>4. FinishError(mem, op, target.data, RecallFrom(target.archive)) \in SavedFailure \cup {"none"}
  BY DEF FinishError, SavedFailure
<1>5. DocsTyped'
  BY <1>1, <1>3, <1>4, StepKeepsTypes DEF CommitRecall, StepName
<1>6. layouts' \in [Id -> Layout]
  BY SealTyped DEF CommitRecall, TypeOK, RecallTarget
<1> QED
  BY <1>5, <1>6 DEF CommitRecall, TypeOK, DocsTyped, DocTyped

LEMMA ReplayTyped ==
  ASSUME TypeOK, NEW op \in Op, NEW name \in StepName, NEW request,
         Replay(op, name, request)
  PROVE  TypeOK'
<1> DEFINE saved == mem.steps[<<op, name>>]
<1>1. saved \in SavedStep
  BY DEF TypeOK, State, Replay
<1>2. [saved EXCEPT !.request = request] = saved
  BY <1>1 DEF Replay, FingerprintMatches, SavedStep
<1>3. told' \in SUBSET Answer
  BY <1>1, <1>2 DEF Replay, Answer, TypeOK
<1> QED
  BY <1>3 DEF Replay, TypeOK

\* The mover, restarts and power losses only touch the directories, and the
\* documents as a whole.
LEMMA SessionTyped ==
  ASSUME TypeOK, NEW l \in Id,
         \/ BeginRead(l) \/ BeginWrite(l) \/ EndSession(l)
         \/ \E c \in Content : WriteBytes(l, c)
  PROVE  TypeOK'
<1>1. CASE BeginRead(l) \/ BeginWrite(l) \/ EndSession(l)
  <2>1. layouts' \in [Id -> Layout]
    BY <1>1 DEF BeginRead, BeginWrite, EndSession, TypeOK, Layout
  <2> QED
    BY <1>1, <2>1 DEF BeginRead, BeginWrite, EndSession, TypeOK, docs
<1>2. ASSUME NEW c \in Content, WriteBytes(l, c) PROVE TypeOK'
  <2>1. layouts' \in [Id -> Layout]
    BY <1>2 DEF WriteBytes, TypeOK, Layout
  <2> QED
    BY <1>2, <2>1 DEF WriteBytes, TypeOK, docs
<1> QED
  BY <1>1, <1>2

\* The mover works in the directories of views and targets.
LEMMA MoverSessions ==
  ASSUME TypeOK, Mover
  PROVE  \E l \in Id : \/ BeginRead(l) \/ BeginWrite(l) \/ EndSession(l)
                      \/ \E c \in Content : WriteBytes(l, c)
<1>1. DocTyped(mem)
  BY DEF TypeOK, DocTyped
<1>2. /\ \A view \in Issued(mem, "prepare_archive") : view.source \in Id
      /\ \A target \in Issued(mem, "prepare_recall") : target.layout_id \in Id
  BY <1>1, ObservedTyped DEF DataView, RecallTarget
<1> QED
  BY <1>2 DEF Mover

LEMMA MoverTyped ==
  ASSUME TypeOK, Mover
  PROVE  TypeOK'
BY MoverSessions, SessionTyped

LEMMA EnvironmentTyped ==
  ASSUME TypeOK, Close \/ Crash \/ PowerLoss \/ Reopen
  PROVE  TypeOK'
<1>1. CASE Close
  BY <1>1 DEF Close, TypeOK, docs
<1>2. CASE Crash
  <2>1. layouts' \in [Id -> Layout]
    BY <1>2 DEF Crash, Unlocked, TypeOK, Layout
  <2> QED
    BY <1>2, <2>1 DEF Crash, TypeOK, docs
<1>3. CASE PowerLoss
  <2>1. PICK lost \in SUBSET Volatile(layouts) : layouts' = AfterPowerLoss(layouts, lost)
    BY <1>3 DEF PowerLoss
  <2>2. layouts' \in [Id -> Layout]
    BY <2>1 DEF AfterPowerLoss, TypeOK, Layout
  <2> QED
    BY <1>3, <2>2 DEF PowerLoss, TypeOK
<1>4. CASE Reopen
  BY <1>4 DEF Reopen, TypeOK
<1> QED
  BY <1>1, <1>2, <1>3, <1>4

LEMMA InitTyped == Init => TypeOK
<1> SUFFICES ASSUME Init PROVE TypeOK
  OBVIOUS
<1>1. EmptyState \in State
  BY DEF EmptyState, State
<1>2. StepsTyped(EmptyState)
  BY DEF EmptyState, StepsTyped, Succeeded
<1>3. layouts \in [Id -> Layout]
  BY DEF Init, Removed, Layout
<1>4. fresh \in 1 .. MaxId + 1
  BY LayoutAssumption DEF Init
<1>5. told \in SUBSET Answer
  BY DEF Init
<1>6. mem = EmptyState /\ disk = EmptyState /\ durable = EmptyState
  BY DEF Init
<1>7. poisoned \in BOOLEAN /\ up \in BOOLEAN
  BY DEF Init
<1> QED
  BY <1>1, <1>2, <1>3, <1>4, <1>5, <1>6, <1>7 DEF TypeOK

\* Every step of the system has one of these forms.
LEMMA CallTyped ==
  ASSUME TypeOK, Call
  PROVE  TypeOK'
<1>1. DocTyped(mem)
  BY DEF TypeOK, DocTyped
<1>2. /\ Issued(mem, "prepare_archive") \subseteq DataView
      /\ Issued(mem, "prepare_recall") \subseteq RecallTarget
      /\ Observed(mem) \subseteq EntityState
  BY <1>1, ObservedTyped
<1>3. Receipt \subseteq ArchiveReceipt /\ AskedData \subseteq DataKey
  BY StorageAssumption
<1>4. ASSUME NEW op \in Op, NEW target \in RecallTarget, NEW evidence \in Content,
             CommitRecallSealUncertain(op, target, evidence)
      PROVE  TypeOK'
  <2>1. layouts' \in [Id -> Layout]
    BY <1>4, SealTyped DEF CommitRecallSealUncertain, TypeOK, RecallTarget
  <2> QED
    BY <1>4, <2>1 DEF CommitRecallSealUncertain, TypeOK, docs
<1>5. CASE \E e \in Entity, c \in Content : Import(e, c)
  BY <1>5, ImportTyped
<1>6. CASE \E op \in Op, data \in AskedData : PrepareArchive(op, data)
  BY <1>3, <1>6, PrepareArchiveTyped
<1>7. CASE \E op \in Op, view \in Issued(mem, "prepare_archive"), receipt \in Receipt :
             CommitArchive(op, view, receipt)
  BY <1>2, <1>3, <1>7, CommitArchiveTyped
<1>8. CASE \E op \in Op, expected \in Observed(mem) : Release(op, expected)
  BY <1>2, <1>8, ReleaseTyped
<1>9. CASE \E op \in Op, expected \in Observed(mem), anchor \in Receipt :
             PrepareRecall(op, expected, anchor)
  BY <1>2, <1>3, <1>9, PrepareRecallTyped
<1>10. CASE \E op \in Op, target \in Issued(mem, "prepare_recall"), evidence \in Content :
              \/ CommitRecallRefused(op, target, evidence)
              \/ CommitRecall(op, target, evidence)
              \/ CommitRecallSealUncertain(op, target, evidence)
  BY <1>2, <1>4, <1>10, CommitRecallRefusedTyped, CommitRecallTyped
<1>11. CASE \E op \in Op, name \in StepName, o \in Op :
              Replay(op, name, mem.steps[<<o, name>>].request)
  BY <1>11, ReplayTyped
<1>12. CASE CollectGarbage \/ CollectGarbageStops
  BY <1>12, CollectGarbageTyped, CollectGarbageStopsTyped
<1> QED
  BY <1>5, <1>6, <1>7, <1>8, <1>9, <1>10, <1>11, <1>12 DEF Call

(***************************************************************************)
(* Every document, directory and answer of the storage has its type in     *)
(* every reachable state; in particular each stored result has the type of *)
(* the step that stored it, so a replay can be decoded by its caller.      *)
(***************************************************************************)
THEOREM TypeCorrect == Spec => []TypeOK
<1>1. ASSUME TypeOK, [Next]_vars PROVE TypeOK'
  <2>1. CASE Next
    BY <1>1, <2>1, CallTyped, MoverTyped, EnvironmentTyped DEF Next
  <2>2. CASE UNCHANGED vars
    BY <1>1, <2>2 DEF vars, TypeOK
  <2> QED
    BY <1>1, <2>1, <2>2
<1> QED
  BY <1>1, InitTyped, PTL DEF Spec

-----------------------------------------------------------------------------
(***************************************************************************)
(* The safety invariants of LocalStorage, for every value of its           *)
(* constants.                                                              *)
(*                                                                         *)
(* The documents the next handle may read, not the one in memory, carry    *)
(* the invariant: a poisoned handle keeps a document nobody will read.     *)
(* Coherent ties the two together whenever an operation runs.  What makes  *)
(* the invariant inductive is that every layout number a document names    *)
(* has been drawn, so that a new directory is in no document, and that a   *)
(* session that writes holds an unsealed layout, so that it is published   *)
(* in none.                                                                *)
(***************************************************************************)

\* What a published layout owes to its entity, and to everybody else.
PublishedKept(s, dirs, n) ==
  \A e \in Entity : Exists(s, e) /\ ~Offline(s, e) =>
    LET l == s.entities[e].published
    IN /\ dirs[l].there /\ dirs[l].seal = "sealed"
       /\ dirs[l].data = s.entities[e].public.content
       /\ l < n /\ l \notin s.gc
       /\ \A f \in Entity : Exists(s, f) /\ s.entities[f].published = l => f = e

ViewsKept(s) ==
  \A v \in s.views :
    LET e == v.view.data.entity
    IN /\ Exists(s, e)
       /\ s.entities[e].published = v.view.source
       /\ s.entities[e].public.data = v.view.data
       /\ s.entities[e].public.content = v.view.content
       /\ \A w \in s.views : w.view.data = v.view.data => w = v

RecallsKept(s, dirs, n) ==
  \A r \in s.recalls :
    LET e == r.target.data.entity
        l == r.target.layout_id
    IN /\ Exists(s, e) /\ Offline(s, e)
       /\ s.entities[e].public.data = r.target.data
       /\ r.anchor \in s.entities[e].public.anchors
       /\ dirs[l].there /\ l < n /\ l \notin s.gc
       /\ \A f \in Entity : Exists(s, f) => s.entities[f].published # l
       /\ \A q \in s.recalls :
            (q.target.data = r.target.data \/ q.target.layout_id = l) => q = r

GarbageKept(s, n) == \A l \in s.gc : l < n

AnchorsKept(s) ==
  \A e \in Entity : Exists(s, e) =>
    LET public == s.entities[e].public
    IN /\ Offline(s, e) <=> public.residency = "Offline"
       /\ public.residency = "Online" <=> public.anchors = {}
       /\ \A a \in public.anchors :
            a.data = public.data /\ a.content = public.content /\ a.wellformed
       /\ \A a, b \in public.anchors : a.key = b.key => a = b

Sound(s, dirs, n) ==
  /\ PublishedKept(s, dirs, n)
  /\ ViewsKept(s)
  /\ RecallsKept(s, dirs, n)
  /\ GarbageKept(s, n)
  /\ AnchorsKept(s)

\* Directories that were never created, and those being written.
LayoutsKept ==
  /\ \A l \in Id : l >= fresh =>
       ~layouts[l].there /\ layouts[l].seal = "open" /\ layouts[l].session = "free"
  /\ \A l \in Id : layouts[l].session = "writing" => layouts[l].seal = "open"

(***************************************************************************)
(* The inductive invariant: a serving handle has the durable document in   *)
(* memory, and every document the next handle may read is the only owner   *)
(* of what it publishes, fills or has retired, so that each operation may  *)
(* rely on its own checks alone.                                           *)
(***************************************************************************)
StorageInv ==
  /\ TypeOK
  /\ Coherent
  /\ LayoutsKept
  /\ \A s \in Documents : Sound(s, layouts, fresh)

-----------------------------------------------------------------------------
(* Frames: what a document that did not change may be shown.               *)

LEMMA SoundFrame ==
  ASSUME NEW s, DocTyped(s), NEW dirs, NEW others, NEW n \in Nat, NEW m \in Nat, n <= m,
         Sound(s, dirs, n),
         \A e \in Entity : Exists(s, e) /\ ~Offline(s, e) =>
           LET l == s.entities[e].published
           IN others[l].there /\ others[l].seal = "sealed" /\ others[l].data = dirs[l].data,
         \A r \in s.recalls : others[r.target.layout_id].there
  PROVE  Sound(s, others, m)
<1>1. \A e \in Entity : Exists(s, e) /\ ~Offline(s, e) => s.entities[e].published \in Nat
  BY EntityTyped DEF Exists, Offline, Id
<1>2. PublishedKept(s, others, m)
  BY <1>1 DEF Sound, PublishedKept
<1>3. \A r \in s.recalls : r.target.layout_id \in Nat
  BY DEF DocTyped, State, RecallOwner, RecallTarget, Id
<1>4. RecallsKept(s, others, m)
  BY <1>3 DEF Sound, RecallsKept
<1>5. s.gc \subseteq Nat
  BY DEF DocTyped, State, Id
<1>6. GarbageKept(s, m)
  BY <1>5 DEF Sound, GarbageKept
<1> QED
  BY <1>2, <1>4, <1>6 DEF Sound

LEMMA SoundLater ==
  ASSUME NEW s, DocTyped(s), NEW dirs, NEW n \in Nat, NEW m \in Nat, n <= m, Sound(s, dirs, n)
  PROVE  Sound(s, dirs, m)
<1>1. \A e \in Entity : Exists(s, e) /\ ~Offline(s, e) =>
        LET l == s.entities[e].published
        IN dirs[l].there /\ dirs[l].seal = "sealed" /\ dirs[l].data = dirs[l].data
  BY DEF Sound, PublishedKept
<1>2. \A r \in s.recalls : dirs[r.target.layout_id].there
  BY DEF Sound, RecallsKept
<1> QED
  BY <1>1, <1>2, SoundFrame

\* Recalls of entities that did not change, whose layouts nobody has taken.
LEMMA RecallsFrame ==
  ASSUME NEW s, NEW dirs, NEW n, RecallsKept(s, dirs, n), NEW next, NEW others,
         \A r \in next.recalls :
           /\ r \in s.recalls
           /\ next.entities[r.target.data.entity] = s.entities[r.target.data.entity]
           /\ others[r.target.layout_id].there
           /\ r.target.layout_id \notin next.gc,
         \A r \in next.recalls, f \in Entity :
           Exists(next, f) => next.entities[f].published # r.target.layout_id
  PROVE  RecallsKept(next, others, n)
<1>1. \A r \in next.recalls :
        /\ Exists(s, r.target.data.entity) /\ Offline(s, r.target.data.entity)
        /\ s.entities[r.target.data.entity].public.data = r.target.data
        /\ r.anchor \in s.entities[r.target.data.entity].public.anchors
        /\ r.target.layout_id < n
  BY DEF RecallsKept
<1>2. \A r, q \in next.recalls :
        q.target.data = r.target.data \/ q.target.layout_id = r.target.layout_id => q = r
  BY DEF RecallsKept
<1>3. \A r \in next.recalls :
        Exists(next, r.target.data.entity) /\ Offline(next, r.target.data.entity)
  BY <1>1 DEF Exists, Offline
<1> QED
  BY <1>1, <1>2, <1>3 DEF RecallsKept

\* Steps and results are no part of it.
LEMMA SoundSame ==
  ASSUME NEW s, NEW t, NEW dirs, NEW n, Sound(s, dirs, n),
         t.entities = s.entities, t.views = s.views, t.recalls = s.recalls, t.gc = s.gc
  PROVE  Sound(t, dirs, n)
<1>1. PublishedKept(t, dirs, n)
  BY DEF Sound, PublishedKept, Exists, Offline
<1>2. ViewsKept(t) /\ GarbageKept(t, n)
  BY DEF Sound, ViewsKept, GarbageKept, Exists
<1>3. RecallsKept(t, dirs, n)
  BY DEF Sound, RecallsKept, Exists, Offline
<1>4. AnchorsKept(t)
  BY DEF Sound, AnchorsKept, Exists, Offline
<1> QED
  BY <1>1, <1>2, <1>3, <1>4 DEF Sound

LEMMA AfterStepSame ==
  ASSUME NEW s, DocTyped(s), NEW op \in Op, NEW name \in StepName, NEW request, NEW error,
         NEW value, NEW next, error = "none" => DocTyped(next)
  PROVE  LET base == IF error = "none" THEN next ELSE s
             after == AfterStep(s, op, name, request, error, value, next)
         IN /\ after.entities = base.entities /\ after.views = base.views
            /\ after.recalls = base.recalls /\ after.gc = base.gc
<1> DEFINE base == IF error = "none" THEN next ELSE s
           saved == [request |-> request, error |-> error,
                     value |-> IF error = "none" THEN value ELSE NoValue]
<1>1. base \in State
  BY DEF DocTyped
<1>2. AfterStep(s, op, name, request, error, value, next) =
        [base EXCEPT !.steps = [base.steps EXCEPT ![<<op, name>>] = saved]]
  BY DEF AfterStep
<1> QED
  BY <1>1, <1>2 DEF State

LEMMA FinishedSame ==
  ASSUME NEW s, DocTyped(s), NEW op \in Op, NEW data, NEW action, NEW state
  PROVE  LET after == Finished(s, op, data, action, state)
         IN /\ after.entities = s.entities /\ after.views = s.views
            /\ after.recalls = s.recalls /\ after.gc = s.gc
<1> DEFINE record == [data |-> data, action |-> action, state |-> state]
<1>1. Finished(s, op, data, action, state) =
        [s EXCEPT !.completed = [s.completed EXCEPT ![op] = record]]
  BY DEF Finished
<1> QED
  BY <1>1 DEF DocTyped, State

\* Whatever its outcome, persist leaves sound documents behind.
LEMMA PersistSound ==
  ASSUME Coherent, Healthy, NEW next, NEW answers, Persist(next, answers), up' = up,
         Sound(mem, layouts', fresh'), Sound(next, layouts', fresh')
  PROVE  Coherent' /\ \A s \in Documents' : Sound(s, layouts', fresh')
<1>1. disk = mem /\ durable = mem
  BY DEF Coherent
<1>2. CASE PersistOk(next, answers)
  BY <1>2 DEF PersistOk, Coherent, Documents
<1>3. CASE PersistUnsynced(next)
  BY <1>1, <1>3 DEF PersistUnsynced, Coherent, Healthy, Documents
<1>4. CASE PersistFailed
  BY <1>1, <1>4 DEF PersistFailed, Coherent, Healthy, Documents
<1> QED
  BY <1>2, <1>3, <1>4 DEF Persist

LEMMA StepSound ==
  ASSUME StorageInv, NEW op \in Op, NEW name \in StepName, NEW request, NEW error,
         NEW value, NEW next, Step(op, name, request, error, value, next), up' = up,
         Sound(mem, layouts', fresh'),
         error = "none" => DocTyped(next) /\ Sound(next, layouts', fresh')
  PROVE  Coherent' /\ \A s \in Documents' : Sound(s, layouts', fresh')
<1> DEFINE after == AfterStep(mem, op, name, request, error, value, next)
           answers == {[op |-> op, name |-> name, saved |-> after.steps[<<op, name>>]]}
<1>1. DocTyped(mem)
  BY DEF StorageInv, TypeOK, DocTyped
<1>2. Sound(after, layouts', fresh')
  BY <1>1, AfterStepSame, SoundSame
<1>3. Persist(after, answers) /\ Healthy
  BY DEF Step
<1> QED
  BY <1>2, <1>3, PersistSound DEF StorageInv

\* The document in memory, whenever an operation runs.
LEMMA MemSound ==
  ASSUME StorageInv, Healthy
  PROVE  /\ Sound(mem, layouts, fresh) /\ DocTyped(mem)
         /\ layouts \in [Id -> Layout] /\ fresh \in Nat
BY LayoutAssumption DEF StorageInv, Coherent, Documents, TypeOK, DocTyped

-----------------------------------------------------------------------------
(* The documents the operations write are sound.                           *)

LEMMA ImportedSound ==
  ASSUME NEW s, DocTyped(s), NEW e \in Entity, NEW c \in Content,
         NEW dirs \in [Id -> Layout], NEW n \in Id, Sound(s, dirs, n), ~Exists(s, e),
         NEW next, next.views = s.views, next.recalls = s.recalls, next.gc = s.gc,
         next.entities = [s.entities EXCEPT ![e] = [public |-> Imported(e, c), published |-> n]]
  PROVE  Sound(next, [dirs EXCEPT ![n] = SealedLayout(c)], n + 1)
<1> DEFINE record == [public |-> Imported(e, c), published |-> n]
           others == [dirs EXCEPT ![n] = SealedLayout(c)]
<1>1. /\ next.entities[e] = record
      /\ \A f \in Entity : f # e => next.entities[f] = s.entities[f]
  BY DEF DocTyped, State
<1>2. /\ record.published = n /\ record.public.content = c
      /\ record.public.residency = "Online" /\ record.public.anchors = {}
  BY DEF Imported
<1>3. /\ n # NoLayout /\ n \in Nat
      /\ \A l \in Id : l < n => l # n /\ l < n + 1 /\ others[l] = dirs[l]
  BY StorageAssumption DEF Id
<1>4. others[n].there /\ others[n].seal = "sealed" /\ others[n].data = c
  BY DEF SealedLayout
<1>5. /\ \A f \in Entity : Exists(s, f) /\ ~Offline(s, f) =>
           s.entities[f].published \in Id /\ s.entities[f].published < n
      /\ \A r \in s.recalls : r.target.layout_id \in Id /\ r.target.layout_id < n
      /\ \A l \in s.gc : l \in Id /\ l < n
      /\ \A v \in s.views : v.view.data.entity \in Entity
      /\ \A r \in s.recalls : r.target.data.entity \in Entity
  <2>1. \A f \in Entity : Exists(s, f) /\ ~Offline(s, f) => s.entities[f].published \in Id
    BY EntityTyped DEF Exists, Offline
  <2>2. \A r \in s.recalls : r.target.layout_id \in Id /\ r.target.data.entity \in Entity
    BY DEF DocTyped, State, RecallOwner, RecallTarget, DataKey
  <2>3. \A v \in s.views : v.view.data.entity \in Entity
    BY DEF DocTyped, State, ViewOwner, DataView, DataKey
  <2>4. s.gc \subseteq Id
    BY DEF DocTyped, State
  <2> QED
    BY <2>1, <2>2, <2>3, <2>4 DEF Sound, PublishedKept, RecallsKept, GarbageKept
<1>6. PublishedKept(next, others, n + 1)
  <2> SUFFICES ASSUME NEW f \in Entity, Exists(next, f), ~Offline(next, f)
               PROVE  LET l == next.entities[f].published
                      IN /\ others[l].there /\ others[l].seal = "sealed"
                         /\ others[l].data = next.entities[f].public.content
                         /\ l < n + 1 /\ l \notin next.gc
                         /\ \A g \in Entity : Exists(next, g) /\ next.entities[g].published = l
                              => g = f
    BY DEF PublishedKept
  <2> HIDE DEF record, others
  <2>1. CASE f = e
    <3>1. \A g \in Entity : Exists(next, g) /\ next.entities[g].published = n => g = e
      BY <1>1, <1>3, <1>5 DEF Exists, Offline
    <3> QED
      BY <1>1, <1>2, <1>3, <1>4, <1>5, <2>1, <3>1
  <2>2. CASE f # e
    <3>1. Exists(s, f) /\ ~Offline(s, f) /\ next.entities[f] = s.entities[f]
      BY <1>1, <2>2 DEF Exists, Offline
    <3>2. s.entities[f].published \in Id /\ s.entities[f].published < n
      BY <1>5, <3>1
    <3>3. \A g \in Entity : Exists(next, g) /\ next.entities[g].published = s.entities[f].published
            => g = f
      BY <1>1, <1>2, <1>3, <3>1, <3>2 DEF Sound, PublishedKept, Exists
    <3>4. others[s.entities[f].published] = dirs[s.entities[f].published]
      BY <1>3, <3>2
    <3>5. /\ dirs[s.entities[f].published].there
          /\ dirs[s.entities[f].published].seal = "sealed"
          /\ dirs[s.entities[f].published].data = s.entities[f].public.content
          /\ s.entities[f].published \notin s.gc
      BY <3>1 DEF Sound, PublishedKept
    <3> QED
      BY <1>3, <3>1, <3>2, <3>3, <3>4, <3>5
  <2> QED
    BY <2>1, <2>2
<1>7. ViewsKept(next)
  BY <1>1, <1>5 DEF Sound, ViewsKept, Exists
<1>8. RecallsKept(next, others, n + 1)
  <2> SUFFICES ASSUME NEW r \in s.recalls
               PROVE  LET f == r.target.data.entity
                          l == r.target.layout_id
                      IN /\ Exists(next, f) /\ Offline(next, f)
                         /\ next.entities[f].public.data = r.target.data
                         /\ r.anchor \in next.entities[f].public.anchors
                         /\ others[l].there /\ l < n + 1 /\ l \notin s.gc
                         /\ \A g \in Entity : Exists(next, g) => next.entities[g].published # l
                         /\ \A q \in s.recalls :
                              (q.target.data = r.target.data \/ q.target.layout_id = l) => q = r
    BY DEF RecallsKept
  <2> DEFINE f == r.target.data.entity
             l == r.target.layout_id
  <2> HIDE DEF record, others
  <2>1. /\ Exists(s, f) /\ Offline(s, f)
        /\ s.entities[f].public.data = r.target.data
        /\ r.anchor \in s.entities[f].public.anchors
        /\ dirs[l].there /\ l \notin s.gc
        /\ \A g \in Entity : Exists(s, g) => s.entities[g].published # l
        /\ \A q \in s.recalls :
             (q.target.data = r.target.data \/ q.target.layout_id = l) => q = r
    BY DEF Sound, RecallsKept
  <2>2. f \in Entity /\ l \in Id /\ l < n
    BY <1>5
  <2>3. f # e
    BY <2>1
  <2>4. next.entities[f] = s.entities[f] /\ others[l] = dirs[l] /\ l # n /\ l < n + 1
    BY <1>1, <1>3, <2>2, <2>3
  <2>5. \A g \in Entity : Exists(next, g) => next.entities[g].published # l
    BY <1>1, <1>2, <2>1, <2>4 DEF Exists
  <2> QED
    BY <2>1, <2>3, <2>4, <2>5 DEF Exists, Offline
<1>9. GarbageKept(next, n + 1)
  BY <1>3, <1>5 DEF GarbageKept
<1>10. AnchorsKept(next)
  <2> HIDE DEF record, others
  <2> QED
    BY <1>1, <1>2, <1>3 DEF Sound, AnchorsKept, Exists, Offline
<1> HIDE DEF others
<1>11. Sound(next, others, n + 1)
  BY <1>6, <1>7, <1>8, <1>9, <1>10 DEF Sound
<1> QED
  BY <1>11 DEF others

\* collect_garbage empties a list that names nothing in use.
LEMMA CollectedSound ==
  ASSUME NEW s, DocTyped(s), NEW dirs \in [Id -> Layout], NEW n \in Nat, Sound(s, dirs, n),
         NEW D \in SUBSET s.gc
  PROVE  Sound(s, Remove(dirs, D), n)
<1>1. \A e \in Entity : Exists(s, e) /\ ~Offline(s, e) =>
        s.entities[e].published \in Id /\ s.entities[e].published \notin D
  BY EntityTyped DEF Exists, Offline, Sound, PublishedKept
<1>2. \A r \in s.recalls : r.target.layout_id \in Id /\ r.target.layout_id \notin D
  BY DEF DocTyped, State, RecallOwner, RecallTarget, Sound, RecallsKept
<1>3. \A l \in Id : l \notin D => Remove(dirs, D)[l] = dirs[l]
  BY DEF Remove
<1>4. \A e \in Entity : Exists(s, e) /\ ~Offline(s, e) =>
        LET l == s.entities[e].published
        IN /\ Remove(dirs, D)[l].there /\ Remove(dirs, D)[l].seal = "sealed"
           /\ Remove(dirs, D)[l].data = dirs[l].data
  BY <1>1, <1>3 DEF Sound, PublishedKept
<1>5. \A r \in s.recalls : Remove(dirs, D)[r.target.layout_id].there
  BY <1>2, <1>3 DEF Sound, RecallsKept
<1> QED
  BY <1>4, <1>5, SoundFrame

LEMMA EmptiedSound ==
  ASSUME NEW s, NEW dirs, NEW n, Sound(s, dirs, n), NEW next,
         next.entities = s.entities, next.views = s.views, next.recalls = s.recalls,
         next.gc = {}
  PROVE  Sound(next, dirs, n)
<1>1. PublishedKept(next, dirs, n)
  BY DEF Sound, PublishedKept, Exists, Offline
<1>2. ViewsKept(next) /\ GarbageKept(next, n)
  BY DEF Sound, ViewsKept, GarbageKept, Exists
<1>3. RecallsKept(next, dirs, n)
  BY DEF Sound, RecallsKept, Exists, Offline
<1>4. AnchorsKept(next)
  BY DEF Sound, AnchorsKept, Exists, Offline
<1> QED
  BY <1>1, <1>2, <1>3, <1>4 DEF Sound

LEMMA PinnedSound ==
  ASSUME NEW s, DocTyped(s), NEW op \in Op, NEW data \in DataKey, NEW id \in Id,
         NEW dirs, NEW n, Sound(s, dirs, n), PrepareArchiveError(s, data) = "none",
         NEW next, next.entities = s.entities, next.recalls = s.recalls, next.gc = s.gc,
         next.views = s.views \cup {[op |-> op, view |-> NewView(s, data, id)]}
  PROVE  Sound(next, dirs, n)
<1>1. /\ Exists(s, data.entity) /\ s.entities[data.entity].public.data = data
      /\ ~\E v \in s.views : v.view.data = data
  BY DEF PrepareArchiveError, EntityError, Exists, Pinned
<1>2. ViewsKept(s)
  BY DEF Sound
<1>3. ViewsKept(next)
  <2> DEFINE opened == NewView(s, data, id)
  <2>1. /\ opened.data = data
        /\ opened.content = s.entities[data.entity].public.content
        /\ opened.source = s.entities[data.entity].published
    BY DEF NewView
  <2>2. next.views = s.views \cup {[op |-> op, view |-> opened]}
    OBVIOUS
  <2> HIDE DEF opened
  <2>3. \A v \in s.views : v.view # opened /\ v.view.data # data
    BY <1>1, <2>1
  <2> SUFFICES ASSUME NEW v \in next.views
               PROVE  LET e == v.view.data.entity
                      IN /\ Exists(s, e)
                         /\ s.entities[e].published = v.view.source
                         /\ s.entities[e].public.data = v.view.data
                         /\ s.entities[e].public.content = v.view.content
                         /\ \A w \in next.views : w.view.data = v.view.data => w = v
    BY DEF ViewsKept, Exists
  <2>4. CASE v \in s.views
    BY <1>2, <2>1, <2>2, <2>3, <2>4 DEF ViewsKept
  <2>5. CASE v = [op |-> op, view |-> opened]
    BY <1>1, <2>1, <2>2, <2>3, <2>5
  <2> QED
    BY <2>2, <2>4, <2>5
<1>4. PublishedKept(next, dirs, n)
  BY DEF Sound, PublishedKept, Exists, Offline
<1>5. RecallsKept(next, dirs, n) /\ GarbageKept(next, n)
  BY DEF Sound, RecallsKept, GarbageKept, Exists, Offline
<1>6. AnchorsKept(next)
  BY DEF Sound, AnchorsKept, Exists, Offline
<1> QED
  BY <1>3, <1>4, <1>5, <1>6 DEF Sound

\* What commit_archive leaves of the document.
LEMMA CommittedArchiveParts ==
  ASSUME NEW s, DocTyped(s), NEW op \in Op, NEW view \in DataView,
         NEW receipt \in ArchiveReceipt, Exists(s, view.data.entity)
  PROVE  LET e == view.data.entity
             old == s.entities[e]
             next == CommittedArchive(s, op, view, receipt)
         IN /\ next.entities[e].published = old.published
            /\ next.entities[e].public = Archived(s, view, receipt)
            /\ next.entities[e] \in EntityRecord
            /\ \A f \in Entity : f # e => next.entities[f] = s.entities[f]
            /\ \A v : v \in next.views <=> v \in s.views /\ v.view.view_id # view.view_id
            /\ next.recalls = s.recalls /\ next.gc = s.gc
<1> DEFINE e == view.data.entity
           state == Archived(s, view, receipt)
           record == [s.entities[e] EXCEPT !.public = state]
           left == {v \in s.views : v.view.view_id # view.view_id}
           written == [s EXCEPT !.entities[e] = record]
           base == [written EXCEPT !.views = left]
<1>1. e \in Entity /\ s.entities[e] \in EntityRecord
  BY EntityTyped DEF DataView, DataKey, Exists
<1>2. state \in EntityState
  BY ArchivedTyped DEF Exists
<1>3. record \in EntityRecord /\ record.public = state /\ record.published = s.entities[e].published
  BY <1>1, <1>2 DEF EntityRecord
<1>4. DocTyped(written)
  BY <1>1, <1>3, EntityWrittenTyped
<1>5. /\ written.entities = [s.entities EXCEPT ![e] = record]
      /\ written.recalls = s.recalls /\ written.gc = s.gc
  BY DEF DocTyped, State
<1>6. left \in SUBSET ViewOwner
  BY DEF DocTyped, State
<1>7. /\ base.entities = written.entities /\ base.views = left
      /\ base.recalls = written.recalls /\ base.gc = written.gc
      /\ base \in State /\ base.steps = written.steps
  BY <1>4, <1>6 DEF DocTyped, State
<1>8. DocTyped(base)
  BY <1>4, <1>7 DEF DocTyped, StepsTyped, Succeeded
<1>9. CommittedArchive(s, op, view, receipt) =
        Finished(base, op, view.data, ArchiveTo(receipt.key), state)
  BY DEF CommittedArchive
<1> HIDE DEF base, written, record, left
<1>10. LET next == CommittedArchive(s, op, view, receipt)
       IN /\ next.entities = [s.entities EXCEPT ![e] = record] /\ next.views = left
          /\ next.recalls = s.recalls /\ next.gc = s.gc
  BY <1>5, <1>7, <1>8, <1>9, FinishedSame
<1> QED
  BY <1>1, <1>3, <1>10 DEF DocTyped, State, left

\* The view and the receipt of a commit that succeeds fit the entity.
LEMMA ArchiveAccepted ==
  ASSUME NEW s, NEW op, NEW view \in DataView, NEW receipt,
         CommitArchiveError(s, op, view, receipt) = "none", ViewsKept(s)
  PROVE  LET e == view.data.entity
         IN /\ [op |-> op, view |-> view] \in s.views
            /\ Exists(s, e) /\ ~Offline(s, e)
            /\ s.entities[e].published = view.source
            /\ s.entities[e].public.data = view.data
            /\ receipt.data = s.entities[e].public.data
            /\ receipt.content = s.entities[e].public.content
            /\ receipt.wellformed
            /\ \A a \in s.entities[e].public.anchors : a.key = receipt.key => a = receipt
<1> DEFINE owner == [op |-> op, view |-> view]
           e == view.data.entity
<1>1. /\ owner \in s.views /\ Binds(receipt, view)
      /\ \A a \in s.entities[e].public.anchors : a.key = receipt.key => a = receipt
  BY DEF CommitArchiveError, EntityError, FinishError
<1>2. owner.view = view
  OBVIOUS
<1>3. /\ Exists(s, e) /\ s.entities[e].published = view.source
      /\ s.entities[e].public.data = view.data /\ s.entities[e].public.content = view.content
  BY <1>1, <1>2 DEF ViewsKept
<1>4. ~Offline(s, e)
  BY <1>3, StorageAssumption DEF Offline, DataView
<1> QED
  BY <1>1, <1>3, <1>4 DEF Binds

LEMMA ArchivedSound ==
  ASSUME NEW s, DocTyped(s), NEW op \in Op, NEW view \in DataView,
         NEW receipt \in ArchiveReceipt, NEW dirs, NEW n, Sound(s, dirs, n),
         CommitArchiveError(s, op, view, receipt) = "none"
  PROVE  Sound(CommittedArchive(s, op, view, receipt), dirs, n)
<1> DEFINE e == view.data.entity
           old == s.entities[e]
           next == CommittedArchive(s, op, view, receipt)
           anchors == old.public.anchors \cup {receipt}
<1>1. ViewsKept(s)
  BY DEF Sound
<1>2. /\ [op |-> op, view |-> view] \in s.views
      /\ Exists(s, e) /\ ~Offline(s, e)
      /\ old.published = view.source /\ old.public.data = view.data
      /\ receipt.data = old.public.data /\ receipt.content = old.public.content
      /\ receipt.wellformed
      /\ \A a \in old.public.anchors : a.key = receipt.key => a = receipt
  BY <1>1, ArchiveAccepted
<1>3. /\ next.entities[e].published = old.published
      /\ next.entities[e].public = Archived(s, view, receipt)
      /\ \A f \in Entity : f # e => next.entities[f] = s.entities[f]
      /\ \A v : v \in next.views <=> v \in s.views /\ v.view.view_id # view.view_id
      /\ next.recalls = s.recalls /\ next.gc = s.gc
  <2>1. Exists(s, view.data.entity)
    BY <1>2
  <2> QED
    BY <2>1, CommittedArchiveParts
<1>4. /\ next.entities[e].public.data = old.public.data
      /\ next.entities[e].public.content = old.public.content
      /\ next.entities[e].public.residency = "Dual"
      /\ next.entities[e].public.anchors = anchors
  BY SMTT(20), <1>3 DEF Archived, Moved
<1>5. e \in Entity
  BY DEF DataView, DataKey
<1>6. \A v \in s.views : v.view.data.entity \in Entity
  BY DEF DocTyped, State, ViewOwner, DataView, DataKey
<1>7. \A r \in s.recalls : r.target.data.entity \in Entity
  BY DEF DocTyped, State, RecallOwner, RecallTarget, DataKey
<1> HIDE DEF next, anchors, old
<1>8. PublishedKept(next, dirs, n)
  <2>1. \A f \in Entity : Exists(next, f) =>
          /\ Exists(s, f) /\ next.entities[f].published = s.entities[f].published
          /\ next.entities[f].public.content = s.entities[f].public.content
    BY <1>2, <1>3, <1>4 DEF Exists, old
  <2> QED
    BY <1>3, <2>1 DEF Sound, PublishedKept, Offline
<1>9. ViewsKept(next)
  <2> SUFFICES ASSUME NEW v \in next.views
               PROVE  /\ v \in s.views /\ v.view.data.entity # e
    BY SMTT(20), <1>1, <1>3, <1>6 DEF ViewsKept, Exists
  <2>1. v \in s.views /\ v # [op |-> op, view |-> view]
    BY <1>3
  <2>2. v.view.data # view.data
    BY <1>1, <1>2, <2>1 DEF ViewsKept
  <2>3. v.view.data.entity = e => v.view.data = view.data
    BY <1>1, <1>2, <2>1 DEF ViewsKept, old
  <2> QED
    BY <2>1, <2>2, <2>3
<1>10. RecallsKept(next, dirs, n)
  <2>1. \A r \in s.recalls : r.target.data.entity # e
    BY <1>2 DEF Sound, RecallsKept
  <2>2. \A f \in Entity : Exists(next, f) =>
          Exists(s, f) /\ next.entities[f].published = s.entities[f].published
    BY <1>2, <1>3 DEF Exists, old
  <2>3. \A r \in s.recalls : next.entities[r.target.data.entity] = s.entities[r.target.data.entity]
    BY <1>3, <1>7, <2>1
  <2>4. \A r \in s.recalls : dirs[r.target.layout_id].there /\ r.target.layout_id \notin s.gc
    BY DEF Sound, RecallsKept
  <2>5. \A r \in s.recalls, f \in Entity : Exists(next, f) =>
          next.entities[f].published # r.target.layout_id
    BY <2>2 DEF Sound, RecallsKept
  <2>6. RecallsKept(s, dirs, n)
    BY DEF Sound
  <2> QED
    BY <1>3, <2>3, <2>4, <2>5, <2>6, RecallsFrame
<1>11. AnchorsKept(next)
  <2> SUFFICES ASSUME NEW f \in Entity, Exists(next, f)
               PROVE  LET public == next.entities[f].public
                      IN /\ Offline(next, f) <=> public.residency = "Offline"
                         /\ public.residency = "Online" <=> public.anchors = {}
                         /\ \A a \in public.anchors :
                              a.data = public.data /\ a.content = public.content /\ a.wellformed
                         /\ \A a, b \in public.anchors : a.key = b.key => a = b
    BY DEF AnchorsKept
  <2>1. CASE f = e
    <3>1. ~Offline(next, f)
      BY <1>2, <1>3, <2>1 DEF Offline, old
    <3>2. /\ \A a \in anchors :
               a.data = old.public.data /\ a.content = old.public.content /\ a.wellformed
          /\ \A a, b \in anchors : a.key = b.key => a = b
          /\ anchors # {}
      <4>1. /\ \A a \in old.public.anchors :
                 a.data = old.public.data /\ a.content = old.public.content /\ a.wellformed
            /\ \A a, b \in old.public.anchors : a.key = b.key => a = b
        BY <1>2, <1>5 DEF Sound, AnchorsKept, old
      <4>2. \A a \in anchors : a \in old.public.anchors \/ a = receipt
        BY DEF anchors
      <4>3. receipt \in anchors
        BY DEF anchors
      <4> QED
        BY <1>2, <4>1, <4>2, <4>3
    <3> QED
      BY <1>4, <2>1, <3>1, <3>2
  <2>2. CASE f # e
    BY <1>3, <2>2 DEF Sound, AnchorsKept, Exists, Offline
  <2> QED
    BY <2>1, <2>2
<1>12. GarbageKept(next, n)
  BY <1>3 DEF Sound, GarbageKept
<1> QED
  BY <1>8, <1>9, <1>10, <1>11, <1>12 DEF Sound, next

\* What release leaves of the document.
LEMMA CommittedReleaseParts ==
  ASSUME NEW s, DocTyped(s), NEW op \in Op, NEW expected \in EntityState,
         Exists(s, expected.data.entity), ~Offline(s, expected.data.entity)
  PROVE  LET e == expected.data.entity
             next == CommittedRelease(s, op, expected)
         IN /\ next.entities[e] = [public |-> Released(expected), published |-> NoLayout]
            /\ \A f \in Entity : f # e => next.entities[f] = s.entities[f]
            /\ next.gc = s.gc \cup {s.entities[e].published}
            /\ next.views = s.views /\ next.recalls = s.recalls
<1> DEFINE e == expected.data.entity
           record == [public |-> Released(expected), published |-> NoLayout]
           retired == s.gc \cup {s.entities[e].published}
           written == [s EXCEPT !.entities[e] = record]
           base == [written EXCEPT !.gc = retired]
<1>1. e \in Entity /\ s.entities[e].published \in Id
  BY EntityTyped DEF EntityState, DataKey, Exists, Offline
<1>2. record \in EntityRecord
  BY ReleasedTyped DEF EntityRecord
<1>3. DocTyped(written)
  BY <1>1, <1>2, EntityWrittenTyped
<1>4. /\ written.entities = [s.entities EXCEPT ![e] = record]
      /\ written.views = s.views /\ written.recalls = s.recalls
  BY DEF DocTyped, State
<1>5. retired \in SUBSET Id
  BY <1>1 DEF DocTyped, State
<1>6. /\ base.entities = written.entities /\ base.views = written.views
      /\ base.recalls = written.recalls /\ base.gc = retired
      /\ base \in State /\ base.steps = written.steps
  BY <1>3, <1>5 DEF DocTyped, State
<1>7. DocTyped(base)
  BY <1>3, <1>6 DEF DocTyped, StepsTyped, Succeeded
<1>8. CommittedRelease(s, op, expected) =
        Finished(base, op, expected.data, ReleaseIt, Released(expected))
  BY DEF CommittedRelease
<1> HIDE DEF base, written, record, retired
<1>9. LET next == CommittedRelease(s, op, expected)
      IN /\ next.entities = [s.entities EXCEPT ![e] = record] /\ next.gc = retired
         /\ next.views = s.views /\ next.recalls = s.recalls
  BY <1>4, <1>6, <1>7, <1>8, FinishedSame
<1> QED
  BY <1>1, <1>9 DEF DocTyped, State, record, retired

LEMMA ReleasedSound ==
  ASSUME NEW s, DocTyped(s), NEW op \in Op, NEW expected \in EntityState,
         NEW dirs, NEW n, Sound(s, dirs, n), ReleaseError(s, op, expected) = "none"
  PROVE  Sound(CommittedRelease(s, op, expected), dirs, n)
<1> DEFINE e == expected.data.entity
           retired == s.entities[e].published
           next == CommittedRelease(s, op, expected)
<1>1. /\ Exists(s, e) /\ ~Offline(s, e)
      /\ s.entities[e].public = expected /\ expected.anchors # {}
      /\ \A v \in s.views : v.view.data # expected.data
  BY DEF ReleaseError, EntityError, FinishError, Exists, Offline, Pinned
<1>2. /\ next.entities[e] = [public |-> Released(expected), published |-> NoLayout]
      /\ \A f \in Entity : f # e => next.entities[f] = s.entities[f]
      /\ next.gc = s.gc \cup {retired}
      /\ next.views = s.views /\ next.recalls = s.recalls
  BY <1>1, CommittedReleaseParts, Zenon
<1>3. /\ Offline(next, e)
      /\ next.entities[e].public.data = expected.data
      /\ next.entities[e].public.content = expected.content
      /\ next.entities[e].public.residency = "Offline"
      /\ next.entities[e].public.anchors = expected.anchors
  BY <1>2 DEF Offline, Released, Moved
<1>4. e \in Entity
  BY DEF EntityState, DataKey
<1>5. \A v \in s.views : v.view.data.entity \in Entity
  BY DEF DocTyped, State, ViewOwner, DataView, DataKey
<1>6. \A r \in s.recalls : r.target.data.entity \in Entity /\ r.target.layout_id # NoLayout
  BY StorageAssumption DEF DocTyped, State, RecallOwner, RecallTarget, DataKey
<1> HIDE DEF next
<1>7. PublishedKept(next, dirs, n)
  <2> SUFFICES ASSUME NEW f \in Entity, Exists(next, f), ~Offline(next, f)
               PROVE  LET l == next.entities[f].published
                      IN /\ dirs[l].there /\ dirs[l].seal = "sealed"
                         /\ dirs[l].data = next.entities[f].public.content
                         /\ l < n /\ l \notin next.gc
                         /\ \A g \in Entity : Exists(next, g) /\ next.entities[g].published = l
                              => g = f
    BY DEF PublishedKept
  <2>1. f # e
    BY <1>3
  <2>2. next.entities[f] = s.entities[f] /\ Exists(s, f) /\ ~Offline(s, f)
    BY <1>2, <2>1 DEF Exists, Offline
  <2>3. s.entities[f].published # retired
    BY <1>1, <1>4, <2>1, <2>2 DEF Sound, PublishedKept
  <2>4. s.entities[f].published # next.entities[e].published
    BY <1>3, <2>2 DEF Offline
  <2> QED
    BY <1>2, <2>2, <2>3, <2>4 DEF Sound, PublishedKept, Exists
<1>8. ViewsKept(next)
  <2>1. \A v \in s.views : v.view.data.entity # e
    BY <1>1 DEF Sound, ViewsKept
  <2>2. ViewsKept(s)
    BY DEF Sound
  <2> QED
    BY SMTT(20), <1>2, <1>5, <2>1, <2>2 DEF ViewsKept, Exists
<1>9. RecallsKept(next, dirs, n)
  <2>1. \A r \in s.recalls : r.target.data.entity # e /\ r.target.layout_id # retired
    BY <1>1, <1>4 DEF Sound, RecallsKept
  <2>2. \A f \in Entity : Exists(next, f) =>
          f = e \/ (Exists(s, f) /\ next.entities[f] = s.entities[f])
    BY <1>2 DEF Exists
  <2>3. next.entities[e].published = NoLayout
    BY <1>3 DEF Offline
  <2>4. \A r \in s.recalls :
          next.entities[r.target.data.entity] = s.entities[r.target.data.entity]
    BY <1>2, <1>6, <2>1
  <2>5. \A r \in s.recalls : dirs[r.target.layout_id].there /\ r.target.layout_id \notin next.gc
    BY <1>2, <2>1 DEF Sound, RecallsKept
  <2>6. \A r \in s.recalls, f \in Entity : Exists(next, f) =>
          next.entities[f].published # r.target.layout_id
    BY <1>6, <2>2, <2>3 DEF Sound, RecallsKept
  <2>7. RecallsKept(s, dirs, n)
    BY DEF Sound
  <2> QED
    BY <1>2, <2>4, <2>5, <2>6, <2>7, RecallsFrame
<1>10. AnchorsKept(next)
  <2> SUFFICES ASSUME NEW f \in Entity, Exists(next, f)
               PROVE  LET public == next.entities[f].public
                      IN /\ Offline(next, f) <=> public.residency = "Offline"
                         /\ public.residency = "Online" <=> public.anchors = {}
                         /\ \A a \in public.anchors :
                              a.data = public.data /\ a.content = public.content /\ a.wellformed
                         /\ \A a, b \in public.anchors : a.key = b.key => a = b
    BY DEF AnchorsKept
  <2>1. CASE f = e
    <3>1. /\ expected.anchors # {}
          /\ \A a \in expected.anchors :
               a.data = expected.data /\ a.content = expected.content /\ a.wellformed
          /\ \A a, b \in expected.anchors : a.key = b.key => a = b
      BY <1>1, <1>4 DEF Sound, AnchorsKept
    <3> QED
      BY <1>3, <2>1, <3>1
  <2>2. CASE f # e
    BY <1>2, <2>2 DEF Sound, AnchorsKept, Exists, Offline
  <2> QED
    BY <2>1, <2>2
<1>11. GarbageKept(next, n)
  BY <1>1, <1>2, <1>4 DEF Sound, GarbageKept, PublishedKept
<1> QED
  BY <1>7, <1>8, <1>9, <1>10, <1>11 DEF Sound, next

\* A directory that has just been created is in no document.
LEMMA DrawnSound ==
  ASSUME NEW s, DocTyped(s), NEW dirs \in [Id -> Layout], NEW n \in Id, Sound(s, dirs, n),
         NEW layout
  PROVE  Sound(s, [dirs EXCEPT ![n] = layout], n + 1)
<1> DEFINE others == [dirs EXCEPT ![n] = layout]
<1>1. /\ \A f \in Entity : Exists(s, f) /\ ~Offline(s, f) => s.entities[f].published \in Id
      /\ \A r \in s.recalls : r.target.layout_id \in Id
  BY EntityTyped DEF Exists, Offline, DocTyped, State, RecallOwner, RecallTarget
<1>2. n \in Nat /\ n + 1 \in Nat /\ n <= n + 1
  BY DEF Id
<1>3. \A l \in Id : l < n => others[l] = dirs[l]
  BY DEF Id
<1> HIDE DEF others
<1>4. \A f \in Entity : Exists(s, f) /\ ~Offline(s, f) =>
        LET l == s.entities[f].published
        IN others[l].there /\ others[l].seal = "sealed" /\ others[l].data = dirs[l].data
  BY <1>1, <1>3 DEF Sound, PublishedKept
<1>5. \A r \in s.recalls : others[r.target.layout_id].there
  BY <1>1, <1>3 DEF Sound, RecallsKept
<1>6. Sound(s, others, n + 1)
  BY <1>2, <1>4, <1>5, SoundFrame
<1> QED
  BY <1>6 DEF others

\* A recall that prepare_recall has accepted fills the next directory.
LEMMA RequestedSound ==
  ASSUME NEW s, DocTyped(s), NEW op \in Op, NEW expected \in EntityState, NEW anchor,
         NEW dirs \in [Id -> Layout], NEW n \in Id, Sound(s, dirs, n),
         PrepareRecallError(s, expected, anchor) = "none",
         NEW next, next.entities = s.entities, next.views = s.views, next.gc = s.gc,
         next.recalls = s.recalls \cup
           {[op |-> op, target |-> NewTarget(expected, anchor, n), anchor |-> anchor]}
  PROVE  Sound(next, [dirs EXCEPT ![n] = NewLayout], n + 1)
<1> DEFINE e == expected.data.entity
           owner == [op |-> op, target |-> NewTarget(expected, anchor, n), anchor |-> anchor]
           others == [dirs EXCEPT ![n] = NewLayout]
<1>1. /\ Exists(s, e) /\ Offline(s, e)
      /\ s.entities[e].public = expected /\ anchor \in expected.anchors
      /\ \A r \in s.recalls : r.target.data # expected.data
  BY DEF PrepareRecallError, EntityError, Exists, Offline
<1>2. /\ owner.target.data = expected.data /\ owner.target.layout_id = n
      /\ owner.anchor = anchor
  BY DEF NewTarget
<1>3. others[n].there /\ n \in Nat
  BY DEF NewLayout, Id
<1>4. /\ \A f \in Entity : Exists(s, f) /\ ~Offline(s, f) =>
           s.entities[f].published \in Id /\ s.entities[f].published < n
      /\ \A r \in s.recalls : r.target.layout_id \in Id /\ r.target.layout_id < n
      /\ \A l \in s.gc : l \in Nat /\ l < n
  <2>1. \A f \in Entity : Exists(s, f) /\ ~Offline(s, f) => s.entities[f].published \in Id
    BY EntityTyped DEF Exists, Offline
  <2>2. \A r \in s.recalls : r.target.layout_id \in Id
    BY DEF DocTyped, State, RecallOwner, RecallTarget
  <2>3. \A l \in s.gc : l \in Nat
    BY DEF DocTyped, State, Id
  <2> QED
    BY <2>1, <2>2, <2>3 DEF Sound, PublishedKept, RecallsKept, GarbageKept
<1>5. Sound(s, others, n + 1)
  BY DrawnSound
<1>6. \A f \in Entity : Exists(s, f) => s.entities[f].published # n
  BY <1>3, <1>4, StorageAssumption DEF Offline
<1>7. n \notin s.gc /\ \A r \in s.recalls : r.target.layout_id # n
  BY <1>3, <1>4 DEF Id
<1>8. next.recalls = s.recalls \cup {owner}
  OBVIOUS
<1> HIDE DEF owner, others
<1>9. RecallsKept(next, others, n + 1)
  <2> SUFFICES ASSUME NEW r \in next.recalls
               PROVE  LET f == r.target.data.entity
                          l == r.target.layout_id
                      IN /\ Exists(s, f) /\ Offline(s, f)
                         /\ s.entities[f].public.data = r.target.data
                         /\ r.anchor \in s.entities[f].public.anchors
                         /\ others[l].there /\ l < n + 1 /\ l \notin s.gc
                         /\ \A g \in Entity : Exists(s, g) => s.entities[g].published # l
                         /\ \A q \in next.recalls :
                              (q.target.data = r.target.data \/ q.target.layout_id = l) => q = r
    BY DEF RecallsKept, Exists, Offline
  <2>0. RecallsKept(s, others, n + 1)
    BY <1>5 DEF Sound
  <2>1. CASE r = owner
    BY <1>1, <1>2, <1>3, <1>6, <1>7, <1>8, <2>1
  <2>2. CASE r # owner
    <3>1. r \in s.recalls
      BY <1>8, <2>2
    <3>2. \A q \in next.recalls :
            (q.target.data = r.target.data \/ q.target.layout_id = r.target.layout_id) => q = r
      BY <1>1, <1>2, <1>7, <1>8, <2>0, <3>1 DEF RecallsKept
    <3> QED
      BY <2>0, <3>1, <3>2 DEF RecallsKept
  <2> QED
    BY <2>1, <2>2
<1>10. PublishedKept(next, others, n + 1)
  BY <1>5 DEF Sound, PublishedKept, Exists, Offline
<1>11. ViewsKept(next) /\ GarbageKept(next, n + 1)
  BY <1>5 DEF Sound, ViewsKept, GarbageKept, Exists
<1>12. AnchorsKept(next)
  BY <1>5 DEF Sound, AnchorsKept, Exists, Offline
<1>13. Sound(next, others, n + 1)
  BY <1>9, <1>10, <1>11, <1>12 DEF Sound
<1> QED
  BY <1>13 DEF others

\* Sealing a layout that some recall fills disturbs no document.
LEMMA SealedSound ==
  ASSUME NEW s, DocTyped(s), NEW dirs \in [Id -> Layout], NEW l \in Id, NEW n \in Nat,
         Sound(s, dirs, n),
         NEW others \in {Seal(dirs, l), SealUnsynced(dirs, l)}
  PROVE  Sound(s, others, n)
<1>1. \A k \in Id : /\ others[k].there = dirs[k].there /\ others[k].data = dirs[k].data
                    /\ dirs[k].seal = "sealed" => others[k].seal = "sealed"
  BY DEF Seal, SealUnsynced, Layout
<1>2. \A e \in Entity : Exists(s, e) /\ ~Offline(s, e) => s.entities[e].published \in Id
  BY EntityTyped DEF Exists, Offline
<1>3. \A r \in s.recalls : r.target.layout_id \in Id
  BY DEF DocTyped, State, RecallOwner, RecallTarget
<1>4. \A e \in Entity : Exists(s, e) /\ ~Offline(s, e) =>
        LET k == s.entities[e].published
        IN others[k].there /\ others[k].seal = "sealed" /\ others[k].data = dirs[k].data
  BY <1>1, <1>2 DEF Sound, PublishedKept
<1>5. \A r \in s.recalls : others[r.target.layout_id].there
  BY <1>1, <1>3 DEF Sound, RecallsKept
<1> QED
  BY SMTT(20), <1>4, <1>5, SoundFrame

\* What commit_recall leaves of the document.
LEMMA CommittedRecallParts ==
  ASSUME NEW s, DocTyped(s), NEW op \in Op, NEW target \in RecallTarget,
         Exists(s, target.data.entity)
  PROVE  LET e == target.data.entity
             next == CommittedRecall(s, op, target)
         IN /\ next.entities[e] = [public |-> Recalled(s, target), published |-> target.layout_id]
            /\ \A f \in Entity : f # e => next.entities[f] = s.entities[f]
            /\ \A r : r \in next.recalls <=>
                 r \in s.recalls /\ r.target.layout_id # target.layout_id
            /\ next.views = s.views /\ next.gc = s.gc
<1> DEFINE e == target.data.entity
           record == [public |-> Recalled(s, target), published |-> target.layout_id]
           left == {r \in s.recalls : r.target.layout_id # target.layout_id}
           written == [s EXCEPT !.entities[e] = record]
           base == [written EXCEPT !.recalls = left]
<1>1. e \in Entity
  BY DEF RecallTarget, DataKey
<1>2. Recalled(s, target) \in EntityState
  BY RecalledTyped DEF Exists
<1>3. record \in EntityRecord
  BY <1>2 DEF EntityRecord, RecallTarget
<1>4. DocTyped(written)
  BY <1>1, <1>3, EntityWrittenTyped
<1>5. /\ written.entities = [s.entities EXCEPT ![e] = record]
      /\ written.views = s.views /\ written.gc = s.gc
  BY DEF DocTyped, State
<1>6. left \in SUBSET RecallOwner
  BY DEF DocTyped, State
<1>7. /\ base.entities = written.entities /\ base.views = written.views
      /\ base.recalls = left /\ base.gc = written.gc
      /\ base \in State /\ base.steps = written.steps
  BY <1>4, <1>6 DEF DocTyped, State
<1>8. DocTyped(base)
  BY <1>4, <1>7 DEF DocTyped, StepsTyped, Succeeded
<1>9. CommittedRecall(s, op, target) =
        Finished(base, op, target.data, RecallFrom(target.archive), Recalled(s, target))
  BY DEF CommittedRecall
<1> HIDE DEF base, written, record, left
<1>10. LET next == CommittedRecall(s, op, target)
       IN /\ next.entities = [s.entities EXCEPT ![e] = record] /\ next.recalls = left
          /\ next.views = s.views /\ next.gc = s.gc
  BY <1>5, <1>7, <1>8, <1>9, FinishedSame
<1> QED
  BY <1>1, <1>10 DEF DocTyped, State, record, left

LEMMA RecalledSound ==
  ASSUME NEW s, DocTyped(s), NEW op \in Op, NEW target \in RecallTarget, NEW evidence,
         layouts \in [Id -> Layout], NEW n \in Nat, Sound(s, layouts, n),
         VerifyRecallError(s, op, target, evidence) = "none"
  PROVE  Sound(CommittedRecall(s, op, target), Seal(layouts, target.layout_id), n)
<1> DEFINE e == target.data.entity
           l == target.layout_id
           public == s.entities[e].public
           next == CommittedRecall(s, op, target)
           others == Seal(layouts, l)
<1>1. PICK owner \in s.recalls : owner.op = op /\ owner.target = target
  BY VerifiedRecall
<1>2. /\ Exists(s, e) /\ Offline(s, e) /\ public.data = target.data
      /\ layouts[l].data = public.content
  BY VerifiedRecall DEF Exists, Offline
<1>3. e \in Entity /\ l \in Id /\ l # NoLayout
  BY StorageAssumption DEF RecallTarget, DataKey
<1>4. /\ owner.anchor \in public.anchors /\ layouts[l].there /\ l < n /\ l \notin s.gc
      /\ \A f \in Entity : Exists(s, f) => s.entities[f].published # l
      /\ \A q \in s.recalls : (q.target.data = target.data \/ q.target.layout_id = l) => q = owner
  BY <1>1 DEF Sound, RecallsKept
<1>5. Sound(s, others, n) /\ others[l].there /\ others[l].seal = "sealed"
        /\ others[l].data = public.content
  <2>1. Sound(s, others, n)
    BY <1>3, SealedSound
  <2> QED
    BY <1>2, <1>3, <1>4, <2>1 DEF Seal, Layout
<1>6. /\ next.entities[e] = [public |-> Recalled(s, target), published |-> l]
      /\ \A f \in Entity : f # e => next.entities[f] = s.entities[f]
      /\ \A r : r \in next.recalls <=> r \in s.recalls /\ r.target.layout_id # l
      /\ next.views = s.views /\ next.gc = s.gc
  BY <1>2, CommittedRecallParts
<1>7. /\ next.entities[e].published = l
      /\ next.entities[e].public.data = public.data
      /\ next.entities[e].public.content = public.content
      /\ next.entities[e].public.residency = "Dual"
      /\ next.entities[e].public.anchors = public.anchors
  <2>1. next.entities[e].published = l /\ next.entities[e].public = Recalled(s, target)
    BY <1>6
  <2> HIDE DEF next
  <2> QED
    BY <2>1 DEF Recalled, Moved
<1>8. \A v \in s.views : v.view.data.entity \in Entity /\ v.view.source # NoLayout
  BY StorageAssumption DEF DocTyped, State, ViewOwner, DataView, DataKey
<1>9. \A r \in s.recalls : r.target.data.entity \in Entity
  BY DEF DocTyped, State, RecallOwner, RecallTarget, DataKey
<1> HIDE DEF next, others, public
<1>10. PublishedKept(next, others, n)
  <2> SUFFICES ASSUME NEW f \in Entity, Exists(next, f), ~Offline(next, f)
               PROVE  LET k == next.entities[f].published
                      IN /\ others[k].there /\ others[k].seal = "sealed"
                         /\ others[k].data = next.entities[f].public.content
                         /\ k < n /\ k \notin next.gc
                         /\ \A g \in Entity : Exists(next, g) /\ next.entities[g].published = k
                              => g = f
    BY DEF PublishedKept
  <2>1. \A g \in Entity : Exists(next, g) /\ g # e =>
          Exists(s, g) /\ next.entities[g] = s.entities[g] /\ next.entities[g].published # l
    BY <1>4, <1>6 DEF Exists
  <2>2. CASE f = e
    <3>1. \A g \in Entity : Exists(next, g) /\ next.entities[g].published = l => g = e
      BY <2>1
    <3>2. others[l].there /\ others[l].seal = "sealed" /\ others[l].data = public.content
      BY <1>5
    <3>3. l < n /\ l \notin next.gc
      BY <1>4, <1>6
    <3> QED
      BY <1>7, <2>2, <3>1, <3>2, <3>3
  <2>3. CASE f # e
    BY <1>5, <1>6, <1>7, <2>1, <2>3 DEF Sound, PublishedKept, Offline
  <2> QED
    BY <2>2, <2>3
<1>11. ViewsKept(next)
  <2>1. \A v \in s.views : v.view.data.entity # e
    BY <1>2, <1>8 DEF Sound, ViewsKept, Offline
  <2>2. ViewsKept(s)
    BY <1>5 DEF Sound
  <2>3. \A v \in next.views :
          next.entities[v.view.data.entity] = s.entities[v.view.data.entity]
    BY <1>6, <1>8, <2>1
  <2> QED
    BY <1>6, <2>2, <2>3 DEF ViewsKept, Exists
<1>12. RecallsKept(next, others, n)
  <2>1. \A r \in next.recalls : r \in s.recalls /\ r.target.layout_id # l /\ r # owner
    BY <1>1, <1>6
  <2>2. \A r \in next.recalls : r.target.data.entity # e
    <3>1. \A r \in s.recalls : r.target.data = s.entities[r.target.data.entity].public.data
      BY DEF Sound, RecallsKept
    <3>2. \A r \in s.recalls : r.target.data.entity = e => r.target.data = target.data
      BY <1>2, <3>1 DEF public
    <3> QED
      BY <1>4, <2>1, <3>2
  <2>3. \A r \in next.recalls :
          next.entities[r.target.data.entity] = s.entities[r.target.data.entity]
    BY <1>6, <1>9, <2>1, <2>2
  <2>4. \A r \in next.recalls, f \in Entity : Exists(next, f) =>
          next.entities[f].published # r.target.layout_id
    <3>1. RecallsKept(s, others, n)
      BY <1>5 DEF Sound
    <3>2. \A r \in next.recalls, f \in Entity : Exists(s, f) =>
            s.entities[f].published # r.target.layout_id
      BY <2>1, <3>1 DEF RecallsKept
    <3> SUFFICES ASSUME NEW r \in next.recalls, NEW f \in Entity, Exists(next, f)
                 PROVE  next.entities[f].published # r.target.layout_id
      OBVIOUS
    <3>3. CASE f = e
      BY <1>7, <2>1, <3>3
    <3>4. CASE f # e
      BY <1>6, <3>2, <3>4 DEF Exists
    <3> QED
      BY <3>3, <3>4
  <2>5. \A r \in next.recalls :
          others[r.target.layout_id].there /\ r.target.layout_id \notin next.gc
    BY <1>5, <1>6, <2>1 DEF Sound, RecallsKept
  <2>6. RecallsKept(s, others, n)
    BY <1>5 DEF Sound
  <2> QED
    BY <2>1, <2>3, <2>4, <2>5, <2>6, RecallsFrame
<1>13. AnchorsKept(next)
  <2> SUFFICES ASSUME NEW f \in Entity, Exists(next, f)
               PROVE  LET state == next.entities[f].public
                      IN /\ Offline(next, f) <=> state.residency = "Offline"
                         /\ state.residency = "Online" <=> state.anchors = {}
                         /\ \A a \in state.anchors :
                              a.data = state.data /\ a.content = state.content /\ a.wellformed
                         /\ \A a, b \in state.anchors : a.key = b.key => a = b
    BY DEF AnchorsKept
  <2>1. CASE f = e
    <3>1. /\ public.anchors # {}
          /\ \A a \in public.anchors :
               a.data = public.data /\ a.content = public.content /\ a.wellformed
          /\ \A a, b \in public.anchors : a.key = b.key => a = b
      BY <1>2, <1>3, <1>4 DEF Sound, AnchorsKept, public
    <3>2. ~Offline(next, f)
      BY <1>3, <1>7, <2>1 DEF Offline
    <3> QED
      BY <1>7, <2>1, <3>1, <3>2
  <2>2. CASE f # e
    BY <1>5, <1>6, <2>2 DEF Sound, AnchorsKept, Exists, Offline
  <2> QED
    BY <2>1, <2>2
<1>14. GarbageKept(next, n)
  BY <1>5, <1>6 DEF Sound, GarbageKept
<1>15. Sound(next, others, n)
  BY <1>10, <1>11, <1>12, <1>13, <1>14 DEF Sound
<1> QED
  BY <1>15 DEF next, others

-----------------------------------------------------------------------------
(* One lemma per operation: it keeps the invariant.                        *)

LEMMA ImportSafe ==
  ASSUME StorageInv, NEW e \in Entity, NEW c \in Content, Import(e, c)
  PROVE  StorageInv'
<1> DEFINE next == [mem EXCEPT !.entities[e] = [public |-> Imported(e, c), published |-> fresh]]
<1>1. TypeOK'
  BY ImportTyped DEF StorageInv
<1>2. /\ Healthy /\ fresh \in Id /\ fresh' = fresh + 1 /\ up' = up
      /\ layouts' = [layouts EXCEPT ![fresh] = SealedLayout(c)] /\ Persist(next, {})
  BY DEF Import
<1>3. Sound(mem, layouts, fresh) /\ DocTyped(mem) /\ layouts \in [Id -> Layout]
  BY <1>2, MemSound
<1>4. Sound(mem, layouts', fresh')
  BY <1>2, <1>3, DrawnSound
<1>5. /\ next.views = mem.views /\ next.recalls = mem.recalls /\ next.gc = mem.gc
      /\ next.entities =
           [mem.entities EXCEPT ![e] = [public |-> Imported(e, c), published |-> fresh]]
  BY <1>3 DEF DocTyped, State
<1>6. ~Exists(mem, e)
  BY DEF Import, Exists
<1> HIDE DEF next
<1>7. Sound(next, layouts', fresh')
  BY <1>2, <1>3, <1>5, <1>6, ImportedSound
<1>8. Coherent' /\ \A s \in Documents' : Sound(s, layouts', fresh')
  BY <1>2, <1>4, <1>7, PersistSound DEF StorageInv
<1>9. LayoutsKept'
  BY <1>2, <1>3 DEF StorageInv, LayoutsKept, SealedLayout, Id
<1> QED
  BY <1>1, <1>8, <1>9 DEF StorageInv

LEMMA CollectGarbageSafe ==
  ASSUME StorageInv, CollectGarbage
  PROVE  StorageInv'
<1> DEFINE next == [mem EXCEPT !.gc = {}]
<1>1. TypeOK'
  BY CollectGarbageTyped DEF StorageInv
<1>2. /\ Healthy /\ fresh' = fresh /\ up' = up
      /\ layouts' = Remove(layouts, mem.gc) /\ Persist(next, {})
  BY DEF CollectGarbage
<1>3. /\ Sound(mem, layouts, fresh) /\ DocTyped(mem) /\ layouts \in [Id -> Layout]
      /\ fresh \in Nat
  BY <1>2, MemSound
<1>4. mem.gc \in SUBSET mem.gc
  OBVIOUS
<1>5. Sound(mem, layouts', fresh')
  BY <1>2, <1>3, <1>4, CollectedSound
<1>6. /\ next.views = mem.views /\ next.recalls = mem.recalls
      /\ next.entities = mem.entities /\ next.gc = {}
  BY <1>3 DEF DocTyped, State
<1> HIDE DEF next
<1>7. Sound(next, layouts', fresh')
  BY <1>5, <1>6, EmptiedSound
<1>8. Coherent' /\ \A s \in Documents' : Sound(s, layouts', fresh')
  BY <1>2, <1>5, <1>7, PersistSound DEF StorageInv
<1>9. LayoutsKept'
  BY <1>2, <1>3 DEF StorageInv, LayoutsKept, Remove, Removed
<1> QED
  BY <1>1, <1>8, <1>9 DEF StorageInv

LEMMA CollectGarbageStopsSafe ==
  ASSUME StorageInv, CollectGarbageStops
  PROVE  StorageInv'
<1>1. TypeOK'
  BY CollectGarbageStopsTyped DEF StorageInv
<1>2. PICK D \in SUBSET mem.gc : layouts' = Remove(layouts, D)
  BY DEF CollectGarbageStops
<1>3. Healthy /\ UNCHANGED <<mem, disk, durable, poisoned, up, fresh>>
  BY DEF CollectGarbageStops, docs
<1>4. /\ Sound(mem, layouts, fresh) /\ DocTyped(mem) /\ layouts \in [Id -> Layout]
      /\ fresh \in Nat
  BY <1>3, MemSound
<1>5. Sound(mem, layouts', fresh)
  BY <1>2, <1>4, CollectedSound
<1>6. Coherent' /\ \A s \in Documents' : Sound(s, layouts', fresh')
  BY <1>3, <1>5 DEF StorageInv, Coherent, Documents, Healthy
<1>7. LayoutsKept'
  BY <1>2, <1>3, <1>4 DEF StorageInv, LayoutsKept, Remove, Removed
<1> QED
  BY <1>1, <1>6, <1>7 DEF StorageInv

LEMMA PrepareArchiveSafe ==
  ASSUME StorageInv, NEW op \in Op, NEW data \in DataKey, PrepareArchive(op, data)
  PROVE  StorageInv'
<1> DEFINE error == PrepareArchiveError(mem, data)
           view == NewView(mem, data, fresh)
           next == [mem EXCEPT !.views = @ \cup {[op |-> op, view |-> view]}]
<1>1. TypeOK'
  BY PrepareArchiveTyped DEF StorageInv
<1>2. /\ Healthy /\ fresh \in Id /\ up' = up /\ layouts' = layouts
      /\ fresh' = IF error = "none" THEN fresh + 1 ELSE fresh
      /\ Step(op, "prepare_archive", data, error, view, next)
  BY DEF PrepareArchive, Step
<1>3. /\ Sound(mem, layouts, fresh) /\ DocTyped(mem) /\ layouts \in [Id -> Layout]
      /\ fresh \in Nat
  BY <1>2, MemSound
<1>4. fresh' \in Nat /\ fresh <= fresh'
  BY <1>2, <1>3
<1>5. \A s : DocTyped(s) /\ Sound(s, layouts, fresh) => Sound(s, layouts', fresh')
  BY <1>2, <1>3, <1>4, SoundLater
<1>6. ASSUME error = "none" PROVE DocTyped(next) /\ Sound(next, layouts', fresh')
  <2>1. /\ next.entities = mem.entities /\ next.recalls = mem.recalls /\ next.gc = mem.gc
        /\ next.views = mem.views \cup {[op |-> op, view |-> view]}
    BY <1>3 DEF DocTyped, State
  <2>2. Sound(next, layouts, fresh)
    BY <1>2, <1>3, <1>6, <2>1, PinnedSound
  <2>3. DocTyped(next)
    BY <1>2, <1>3, <1>6, PinnedTyped
  <2> QED
    BY <1>5, <2>2, <2>3
<1> HIDE DEF next, view, error
<1>7. Coherent' /\ \A s \in Documents' : Sound(s, layouts', fresh')
  BY <1>2, <1>3, <1>5, <1>6, StepSound DEF StepName
<1>8. LayoutsKept'
  BY <1>2, <1>4 DEF StorageInv, LayoutsKept, Id
<1> QED
  BY <1>1, <1>7, <1>8 DEF StorageInv

\* A step that moves neither a directory nor the number of the next one.
LEMMA QuietStepSafe ==
  ASSUME StorageInv, TypeOK', NEW op \in Op, NEW name \in StepName, NEW request, NEW error,
         NEW value, NEW next, Step(op, name, request, error, value, next),
         UNCHANGED <<up, layouts, fresh>>,
         error = "none" => DocTyped(next) /\ Sound(next, layouts, fresh)
  PROVE  StorageInv'
<1>1. Sound(mem, layouts', fresh')
  BY MemSound DEF Step
<1>2. Coherent' /\ \A s \in Documents' : Sound(s, layouts', fresh')
  BY <1>1, StepSound
<1>3. LayoutsKept'
  BY DEF StorageInv, LayoutsKept
<1> QED
  BY <1>2, <1>3 DEF StorageInv

LEMMA CommitArchiveSafe ==
  ASSUME StorageInv, NEW op \in Op, NEW view \in DataView, NEW receipt \in ArchiveReceipt,
         CommitArchive(op, view, receipt)
  PROVE  StorageInv'
<1> DEFINE error == CommitArchiveError(mem, op, view, receipt)
           next == IF error = "none" THEN CommittedArchive(mem, op, view, receipt) ELSE mem
           value == IF error = "none" THEN Archived(mem, view, receipt) ELSE NoValue
           request == [view |-> view, receipt |-> receipt]
<1>1. TypeOK'
  BY CommitArchiveTyped DEF StorageInv
<1>2. /\ UNCHANGED <<up, layouts, fresh>>
      /\ Step(op, "commit_archive", request, error, value, next)
  BY DEF CommitArchive
<1>3. Sound(mem, layouts, fresh) /\ DocTyped(mem)
  BY <1>2, MemSound DEF Step
<1>4. ASSUME error = "none" PROVE DocTyped(next) /\ Sound(next, layouts, fresh)
  <2>1. mem.entities[view.data.entity] # NoEntity
    BY <1>4 DEF CommitArchiveError, EntityError
  <2> QED
    BY <1>3, <1>4, <2>1, CommittedArchiveTyped, ArchivedSound
<1> HIDE DEF error, next, value, request
<1> QED
  BY <1>1, <1>2, <1>4, QuietStepSafe DEF StepName

LEMMA ReleaseSafe ==
  ASSUME StorageInv, NEW op \in Op, NEW expected \in EntityState, Release(op, expected)
  PROVE  StorageInv'
<1> DEFINE error == ReleaseError(mem, op, expected)
           next == IF error = "none" THEN CommittedRelease(mem, op, expected) ELSE mem
           value == Released(expected)
<1>1. TypeOK'
  BY ReleaseTyped DEF StorageInv
<1>2. /\ UNCHANGED <<up, layouts, fresh>>
      /\ Step(op, "release", expected, error, value, next)
  BY DEF Release
<1>3. Sound(mem, layouts, fresh) /\ DocTyped(mem)
  BY <1>2, MemSound DEF Step
<1>4. ASSUME error = "none" PROVE DocTyped(next) /\ Sound(next, layouts, fresh)
  <2>1. /\ mem.entities[expected.data.entity] # NoEntity
        /\ mem.entities[expected.data.entity].published # NoLayout
    BY <1>4 DEF ReleaseError, EntityError
  <2> QED
    BY <1>3, <1>4, <2>1, CommittedReleaseTyped, ReleasedSound
<1> HIDE DEF error, next, value
<1> QED
  BY <1>1, <1>2, <1>4, QuietStepSafe DEF StepName

LEMMA PrepareRecallSafe ==
  ASSUME StorageInv, NEW op \in Op, NEW expected \in EntityState, NEW anchor \in ArchiveReceipt,
         PrepareRecall(op, expected, anchor)
  PROVE  StorageInv'
<1> DEFINE error == PrepareRecallError(mem, expected, anchor)
           target == NewTarget(expected, anchor, fresh)
           owner == [op |-> op, target |-> target, anchor |-> anchor]
           next == [mem EXCEPT !.recalls = @ \cup {owner}]
           request == [expected |-> expected, anchor |-> anchor]
<1>1. TypeOK'
  BY PrepareRecallTyped DEF StorageInv
<1>2. /\ Healthy /\ fresh \in Id /\ up' = up
      /\ Step(op, "prepare_recall", request, error, target, next)
  BY DEF PrepareRecall, Step
<1>3. /\ Sound(mem, layouts, fresh) /\ DocTyped(mem) /\ layouts \in [Id -> Layout]
      /\ fresh \in Nat
  BY <1>2, MemSound
<1>4. DocTyped(next)
  BY <1>2, <1>3, RequestedTyped
<1>5. CASE error = "none"
  <2>1. layouts' = [layouts EXCEPT ![fresh] = NewLayout] /\ fresh' = fresh + 1
    BY <1>5 DEF PrepareRecall
  <2>2. Sound(mem, layouts', fresh')
    BY <1>2, <1>3, <2>1, DrawnSound
  <2>3. /\ next.entities = mem.entities /\ next.views = mem.views /\ next.gc = mem.gc
        /\ next.recalls = mem.recalls \cup {owner}
    BY <1>3 DEF DocTyped, State
  <2>4. Sound(next, layouts', fresh')
    BY <1>2, <1>3, <1>5, <2>1, <2>3, RequestedSound
  <2>5. LayoutsKept'
    BY <1>2, <1>3, <2>1 DEF StorageInv, LayoutsKept, NewLayout, Id
  <2> HIDE DEF error, next, request, target
  <2>6. Coherent' /\ \A s \in Documents' : Sound(s, layouts', fresh')
    BY <1>2, <1>4, <2>2, <2>4, StepSound DEF StepName
  <2> QED
    BY <1>1, <2>5, <2>6 DEF StorageInv
<1>6. CASE error # "none"
  <2>1. UNCHANGED <<up, layouts, fresh>>
    BY <1>6 DEF PrepareRecall
  <2> HIDE DEF error, next, request, target
  <2> QED
    BY <1>1, <1>2, <1>6, <2>1, QuietStepSafe DEF StepName
<1> QED
  BY <1>5, <1>6

LEMMA CommitRecallRefusedSafe ==
  ASSUME StorageInv, NEW op \in Op, NEW target \in RecallTarget, NEW evidence \in Content,
         CommitRecallRefused(op, target, evidence)
  PROVE  StorageInv'
<1>1. TypeOK'
  BY CommitRecallRefusedTyped DEF StorageInv
<1>2. VerifyRecallError(mem, op, target, evidence) # "none"
  BY DEF CommitRecallRefused, SavedFailure
<1> QED
  BY <1>1, <1>2, QuietStepSafe DEF CommitRecallRefused, StepName

\* A layout that is sealed while nobody holds it.
LEMMA SealKeepsLayouts ==
  ASSUME StorageInv, Healthy, NEW op, NEW target \in RecallTarget, NEW evidence,
         VerifyRecallError(mem, op, target, evidence) = "none",
         layouts' \in {Seal(layouts, target.layout_id), SealUnsynced(layouts, target.layout_id)},
         fresh' = fresh
  PROVE  LayoutsKept' /\ Sound(mem, layouts', fresh')
<1> DEFINE l == target.layout_id
<1>1. /\ Sound(mem, layouts, fresh) /\ DocTyped(mem) /\ layouts \in [Id -> Layout]
      /\ fresh \in Nat /\ l \in Id
  BY MemSound DEF RecallTarget
<1>2. l < fresh /\ layouts[l].session = "free"
  BY <1>1, VerifiedRecall DEF Sound, RecallsKept, Locked
<1>3. LayoutsKept'
  <2>1. /\ \A k \in Id : k # l => layouts'[k] = layouts[k]
        /\ layouts'[l].session = layouts[l].session
    BY <1>1 DEF Seal, SealUnsynced, Layout
  <2>2. \A k \in Id : k >= fresh => k # l
    BY <1>1, <1>2 DEF Id
  <2> QED
    BY <1>2, <2>1, <2>2 DEF StorageInv, LayoutsKept
<1>4. Sound(mem, layouts', fresh')
  BY <1>1, SealedSound
<1> QED
  BY <1>3, <1>4

LEMMA CommitRecallSafe ==
  ASSUME StorageInv, NEW op \in Op, NEW target \in RecallTarget, NEW evidence \in Content,
         CommitRecall(op, target, evidence)
  PROVE  StorageInv'
<1> DEFINE error == FinishError(mem, op, target.data, RecallFrom(target.archive))
           next == CommittedRecall(mem, op, target)
           value == Recalled(mem, target)
           request == RecallRequest(target, evidence)
<1>1. TypeOK'
  BY CommitRecallTyped DEF StorageInv
<1>2. /\ Healthy /\ UNCHANGED <<up, fresh>>
      /\ VerifyRecallError(mem, op, target, evidence) = "none"
      /\ layouts' = Seal(layouts, target.layout_id)
      /\ Step(op, "commit_recall", request, error, value, next)
  BY DEF CommitRecall, Step
<1>3. LayoutsKept' /\ Sound(mem, layouts', fresh')
  BY <1>2, SealKeepsLayouts
<1>4. DocTyped(next) /\ Sound(next, layouts', fresh')
  <2>1. /\ Sound(mem, layouts, fresh) /\ DocTyped(mem) /\ layouts \in [Id -> Layout]
        /\ fresh \in Nat
    BY <1>2, MemSound
  <2>2. mem.entities[target.data.entity] # NoEntity
    BY <1>2, VerifiedRecall
  <2> QED
    BY <1>2, <2>1, <2>2, CommittedRecallTyped, RecalledSound
<1> HIDE DEF error, next, value, request
<1>5. Coherent' /\ \A s \in Documents' : Sound(s, layouts', fresh')
  BY <1>2, <1>3, <1>4, StepSound DEF StepName
<1> QED
  BY <1>1, <1>3, <1>5 DEF StorageInv

LEMMA CommitRecallSealUncertainSafe ==
  ASSUME StorageInv, TypeOK', NEW op \in Op, NEW target \in RecallTarget,
         NEW evidence \in Content, CommitRecallSealUncertain(op, target, evidence)
  PROVE  StorageInv'
<1>1. /\ Healthy /\ UNCHANGED <<mem, disk, durable, poisoned, up, fresh>>
      /\ VerifyRecallError(mem, op, target, evidence) = "none"
      /\ layouts' = SealUnsynced(layouts, target.layout_id)
  BY DEF CommitRecallSealUncertain, docs
<1>2. LayoutsKept' /\ Sound(mem, layouts', fresh')
  BY <1>1, SealKeepsLayouts
<1> QED
  BY <1>1, <1>2 DEF StorageInv, Coherent, Documents, Healthy

\* Steps that write no new document and keep what is sealed.
LEMMA DirectoriesSafe ==
  ASSUME StorageInv, TypeOK', Coherent', fresh' = fresh, Documents' \subseteq Documents,
         \A l \in Id : /\ layouts'[l].there = layouts[l].there
                       /\ layouts[l].seal = "sealed" =>
                            layouts'[l].seal = "sealed" /\ layouts'[l].data = layouts[l].data
  PROVE  \A s \in Documents' : Sound(s, layouts', fresh')
<1> SUFFICES ASSUME NEW s \in Documents PROVE Sound(s, layouts', fresh)
  OBVIOUS
<1>1. Sound(s, layouts, fresh) /\ DocTyped(s) /\ fresh \in Nat
  BY LayoutAssumption DEF StorageInv, Documents, TypeOK, DocTyped
<1>2. /\ \A e \in Entity : Exists(s, e) /\ ~Offline(s, e) => s.entities[e].published \in Id
      /\ \A r \in s.recalls : r.target.layout_id \in Id
  BY <1>1, EntityTyped DEF Exists, Offline, DocTyped, State, RecallOwner, RecallTarget
<1>3. \A e \in Entity : Exists(s, e) /\ ~Offline(s, e) =>
        LET l == s.entities[e].published
        IN layouts'[l].there /\ layouts'[l].seal = "sealed" /\ layouts'[l].data = layouts[l].data
  BY <1>1, <1>2 DEF Sound, PublishedKept
<1>4. \A r \in s.recalls : layouts'[r.target.layout_id].there
  BY <1>1, <1>2 DEF Sound, RecallsKept
<1> QED
  BY <1>1, <1>3, <1>4, SoundFrame

LEMMA SessionSafe ==
  ASSUME StorageInv, NEW l \in Id,
         \/ BeginRead(l) \/ BeginWrite(l) \/ EndSession(l)
         \/ \E c \in Content : WriteBytes(l, c)
  PROVE  StorageInv'
<1>1. TypeOK' /\ layouts \in [Id -> Layout] /\ fresh \in Nat
  BY SessionTyped, LayoutAssumption DEF StorageInv, TypeOK
<1>2. UNCHANGED <<mem, disk, durable, poisoned, up, fresh>>
  BY DEF BeginRead, BeginWrite, EndSession, WriteBytes, docs
<1>3. Coherent' /\ Documents' \subseteq Documents
  BY <1>2 DEF StorageInv, Coherent, Documents, Healthy
<1>4. layouts[l].session = "writing" => layouts[l].seal = "open"
  BY DEF StorageInv, LayoutsKept
<1>5. l < fresh
  <2>1. l >= fresh => ~layouts[l].there /\ layouts[l].session = "free"
    BY DEF StorageInv, LayoutsKept
  <2>2. layouts[l].there \/ layouts[l].session # "free"
    BY DEF BeginRead, BeginWrite, EndSession, WriteBytes, Locked
  <2> QED
    BY <1>1, <2>1, <2>2 DEF Id
<1>6. /\ \A k \in Id : k # l => layouts'[k] = layouts[k]
      /\ layouts'[l].there = layouts[l].there
      /\ layouts'[l].seal = layouts[l].seal
      /\ layouts[l].seal = "sealed" => layouts'[l].data = layouts[l].data
      /\ layouts'[l].session = "writing" => layouts[l].seal = "open"
  <2>1. CASE BeginRead(l)
    BY <1>1, <2>1 DEF BeginRead, Layout
  <2>2. CASE BeginWrite(l)
    BY <1>1, <2>2 DEF BeginWrite, Fenced, Layout
  <2>3. CASE EndSession(l)
    BY <1>1, <2>3 DEF EndSession, Layout
  <2>4. CASE \E c \in Content : WriteBytes(l, c)
    BY <1>1, <1>4, <2>4 DEF WriteBytes, Layout
  <2> QED
    BY <2>1, <2>2, <2>3, <2>4
<1>7. LayoutsKept'
  BY <1>1, <1>2, <1>5, <1>6 DEF StorageInv, LayoutsKept, Id
<1>8. \A s \in Documents' : Sound(s, layouts', fresh')
  BY <1>1, <1>2, <1>3, <1>6, DirectoriesSafe
<1> QED
  BY <1>1, <1>3, <1>7, <1>8 DEF StorageInv

LEMMA MoverSafe ==
  ASSUME StorageInv, Mover
  PROVE  StorageInv'
<1>1. TypeOK
  BY DEF StorageInv
<1> QED
  BY <1>1, MoverSessions, SessionSafe

LEMMA EnvironmentSafe ==
  ASSUME StorageInv, Close \/ Crash \/ PowerLoss \/ Reopen
  PROVE  StorageInv'
<1>1. TypeOK' /\ layouts \in [Id -> Layout] /\ fresh' = fresh
  BY EnvironmentTyped DEF StorageInv, TypeOK, Close, Crash, PowerLoss, Reopen
<1>2. Coherent' /\ Documents' \subseteq Documents
  BY DEF Close, Crash, PowerLoss, Reopen, StorageInv, Coherent, Documents, Healthy, docs
<1>3. CASE UNCHANGED layouts
  BY <1>1, <1>2, <1>3, DirectoriesSafe DEF StorageInv, LayoutsKept
<1>4. CASE Crash
  <2>1. layouts' = Unlocked(layouts)
    BY <1>4 DEF Crash
  <2>2. \A l \in Id : layouts'[l] = [layouts[l] EXCEPT !.session = "free"]
    BY <2>1 DEF Unlocked
  <2>3. LayoutsKept'
    <3>1. \A l \in Id : /\ layouts'[l].session = "free"
                        /\ layouts'[l].there = layouts[l].there
                        /\ layouts'[l].seal = layouts[l].seal
      BY ZenonT(40), <1>1, <2>2 DEF Layout
    <3> QED
      BY <1>1, <3>1 DEF StorageInv, LayoutsKept
  <2>4. \A l \in Id : /\ layouts'[l].there = layouts[l].there
                      /\ layouts'[l].seal = layouts[l].seal
                      /\ layouts'[l].data = layouts[l].data
    BY ZenonT(40), <1>1, <2>2 DEF Layout
  <2>5. \A s \in Documents' : Sound(s, layouts', fresh')
    BY <1>1, <1>2, <2>4, DirectoriesSafe
  <2> QED
    BY <1>1, <1>2, <2>3, <2>5 DEF StorageInv
<1>5. CASE PowerLoss
  <2>1. PICK lost \in SUBSET Volatile(layouts) : layouts' = AfterPowerLoss(layouts, lost)
    BY <1>5 DEF PowerLoss
  <2>2. \A l \in Id : l \in lost => layouts[l].there /\ layouts[l].seal # "sealed"
    BY DEF Volatile
  <2>3. LayoutsKept'
    <3>1. \A l \in Id : layouts'[l].session = "free"
      BY <2>1 DEF AfterPowerLoss
    <3>2. \A l \in Id : /\ layouts'[l].there = layouts[l].there
                        /\ layouts[l].seal = "open" => layouts'[l].seal = "open"
      BY <2>1 DEF AfterPowerLoss
    <3> QED
      BY <1>1, <3>1, <3>2 DEF StorageInv, LayoutsKept
  <2>4. \A l \in Id : /\ layouts'[l].there = layouts[l].there
                      /\ layouts[l].seal = "sealed" =>
                           layouts'[l].seal = "sealed" /\ layouts'[l].data = layouts[l].data
    BY <1>1, <2>1, <2>2 DEF AfterPowerLoss
  <2>5. \A s \in Documents' : Sound(s, layouts', fresh')
    BY <1>1, <1>2, <2>4, DirectoriesSafe
  <2> QED
    BY <1>1, <1>2, <2>3, <2>5 DEF StorageInv
<1> QED
  BY <1>3, <1>4, <1>5 DEF Close, Reopen

LEMMA CallSafe ==
  ASSUME StorageInv, Call
  PROVE  StorageInv'
<1>1. TypeOK' /\ DocTyped(mem)
  BY CallTyped DEF StorageInv, TypeOK, DocTyped
<1>2. /\ Issued(mem, "prepare_archive") \subseteq DataView
      /\ Issued(mem, "prepare_recall") \subseteq RecallTarget
      /\ Observed(mem) \subseteq EntityState
  BY <1>1, ObservedTyped
<1>3. Receipt \subseteq ArchiveReceipt /\ AskedData \subseteq DataKey
  BY StorageAssumption
<1>4. CASE \E e \in Entity, c \in Content : Import(e, c)
  BY <1>4, ImportSafe
<1>5. CASE \E op \in Op, data \in AskedData : PrepareArchive(op, data)
  BY <1>3, <1>5, PrepareArchiveSafe
<1>6. CASE \E op \in Op, view \in Issued(mem, "prepare_archive"), receipt \in Receipt :
             CommitArchive(op, view, receipt)
  BY <1>2, <1>3, <1>6, CommitArchiveSafe
<1>7. CASE \E op \in Op, expected \in Observed(mem) : Release(op, expected)
  BY <1>2, <1>7, ReleaseSafe
<1>8. CASE \E op \in Op, expected \in Observed(mem), anchor \in Receipt :
             PrepareRecall(op, expected, anchor)
  BY <1>2, <1>3, <1>8, PrepareRecallSafe
<1>9. CASE \E op \in Op, target \in Issued(mem, "prepare_recall"), evidence \in Content :
             \/ CommitRecallRefused(op, target, evidence)
             \/ CommitRecall(op, target, evidence)
             \/ CommitRecallSealUncertain(op, target, evidence)
  BY <1>1, <1>2, <1>9, CommitRecallRefusedSafe, CommitRecallSafe, CommitRecallSealUncertainSafe
<1>10. CASE \E op \in Op, name \in StepName, o \in Op :
              Replay(op, name, mem.steps[<<o, name>>].request)
  BY <1>1, <1>10 DEF Replay, StorageInv, Coherent, Documents, Healthy, LayoutsKept
<1>11. CASE CollectGarbage \/ CollectGarbageStops
  BY <1>11, CollectGarbageSafe, CollectGarbageStopsSafe
<1> QED
  BY <1>4, <1>5, <1>6, <1>7, <1>8, <1>9, <1>10, <1>11 DEF Call

LEMMA InitSafe == Init => StorageInv
<1> SUFFICES ASSUME Init PROVE StorageInv
  OBVIOUS
<1>1. TypeOK
  BY InitTyped
<1>2. Coherent /\ LayoutsKept
  BY DEF Init, Coherent, LayoutsKept, Removed
<1>3. Sound(EmptyState, layouts, fresh)
  BY DEF EmptyState, Sound, PublishedKept, ViewsKept, RecallsKept, GarbageKept, AnchorsKept,
         Exists
<1>4. Documents = {EmptyState}
  BY DEF Init, Documents
<1> QED
  BY <1>1, <1>2, <1>3, <1>4 DEF StorageInv

LEMMA NextSafe == StorageInv /\ [Next]_vars => StorageInv'
<1> SUFFICES ASSUME StorageInv, [Next]_vars PROVE StorageInv'
  OBVIOUS
<1>1. CASE Next
  BY <1>1, CallSafe, MoverSafe, EnvironmentSafe DEF Next
<1>2. CASE UNCHANGED vars
  BY <1>2 DEF vars, StorageInv, TypeOK, StepsTyped, Succeeded, Coherent, Healthy, LayoutsKept,
              Documents
<1> QED
  BY <1>1, <1>2

-----------------------------------------------------------------------------
(* The properties of the source.                                           *)

(***************************************************************************)
(* The inductive invariant holds in every reachable state.                 *)
(***************************************************************************)
THEOREM StorageSafe == Spec => []StorageInv
BY InitSafe, NextSafe, PTL DEF Spec

(***************************************************************************)
(* Whichever document the next handle reads, each layout it publishes is   *)
(* there, durably sealed, and holds the bytes of its entity: the order of  *)
(* file operations around persist in import, commit_recall and             *)
(* collect_garbage survives every crash, power loss and failed persist.    *)
(***************************************************************************)
THEOREM PublishedIsIntact == Spec => []PublishedIntact
<1>1. StorageInv => PublishedIntact
  BY DEF StorageInv, Sound, PublishedKept, PublishedIntact
<1> QED
  BY <1>1, StorageSafe, PTL

(***************************************************************************)
(* What release puts on the garbage list nobody publishes, pins or fills,  *)
(* then or later, and no two entities share a layout: collect_garbage may  *)
(* remove the whole list.                                                  *)
(***************************************************************************)
THEOREM GarbageIsUnreferenced == Spec => []RetiredUnreferenced
<1>1. ASSUME StorageInv, NEW s \in Documents
      PROVE  /\ s.gc \cap Referenced(s) = {}
             /\ \A e, f \in Entity :
                  /\ Exists(s, e) /\ ~Offline(s, e) /\ Exists(s, f)
                  /\ s.entities[e].published = s.entities[f].published
                  => e = f
  <2>1. Sound(s, layouts, fresh) /\ DocTyped(s)
    BY <1>1 DEF StorageInv, Documents, TypeOK, DocTyped
  <2>2. \A v \in s.views : v.view.data.entity \in Entity /\ v.view.source # NoLayout
    BY <2>1, StorageAssumption DEF DocTyped, State, ViewOwner, DataView, DataKey
  <2>3. \A v \in s.views : v.view.source \notin s.gc
    BY <2>1, <2>2 DEF Sound, ViewsKept, PublishedKept, Offline
  <2>4. \A l \in Referenced(s) : l \notin s.gc
    BY <2>1, <2>3 DEF Referenced, Sound, PublishedKept, RecallsKept
  <2> QED
    BY <2>1, <2>4 DEF Sound, PublishedKept
<1>2. StorageInv => RetiredUnreferenced
  BY <1>1 DEF RetiredUnreferenced
<1> QED
  BY <1>2, StorageSafe, PTL

(***************************************************************************)
(* A view always names the layout its entity publishes, an active recall   *)
(* an entity that is still Offline and still holds the anchor, and each is *)
(* the only one of its entity: Busy in prepare_archive, release and        *)
(* prepare_recall is enough to keep the three operations apart.            *)
(***************************************************************************)
THEOREM PinsAreKept == Spec => []PinsHold
<1>1. StorageInv => PinsHold
  BY DEF StorageInv, Sound, ViewsKept, RecallsKept, PinsHold
<1> QED
  BY <1>1, StorageSafe, PTL

(***************************************************************************)
(* An entity that has left Online keeps an anchor for its own content, and *)
(* it is Offline exactly when it publishes nothing: no order of archives,  *)
(* releases and recalls loses track of the only copy.                      *)
(***************************************************************************)
THEOREM AnchorsAreKept == Spec => []ReleasedIsAnchored
<1>1. StorageInv => ReleasedIsAnchored
  BY DEF StorageInv, Sound, AnchorsKept, ReleasedIsAnchored
<1> QED
  BY <1>1, StorageSafe, PTL

(***************************************************************************)
(* A handle that serves holds the document that is on disk and durable:    *)
(* poisoning and the directory sync of open leave no other way to answer.  *)
(***************************************************************************)
THEOREM ServedIsDurable == Spec => []Coherent
<1>1. StorageInv => Coherent
  BY DEF StorageInv
<1> QED
  BY <1>1, StorageSafe, PTL

-----------------------------------------------------------------------------
(* What no step does to a sealed layout.                                   *)

SealKept ==
  \A l \in Id : layouts[l].seal = "sealed" /\ layouts'[l].there =>
    layouts'[l].seal = "sealed" /\ layouts'[l].data = layouts[l].data

LEMMA CallKeepsSeals ==
  ASSUME StorageInv, Call
  PROVE  SealKept
<1>1. layouts \in [Id -> Layout] /\ Issued(mem, "prepare_recall") \subseteq RecallTarget
  BY ObservedTyped DEF StorageInv, TypeOK, DocTyped
<1>2. CASE UNCHANGED layouts
  BY <1>2 DEF SealKept
<1>3. ASSUME fresh \in Id, NEW layout, layouts' = [layouts EXCEPT ![fresh] = layout]
      PROVE  SealKept
  <2>1. layouts[fresh].seal = "open"
    BY <1>3 DEF StorageInv, LayoutsKept, Id
  <2> QED
    BY <1>1, <1>3, <2>1 DEF SealKept
<1>4. ASSUME NEW D, layouts' = Remove(layouts, D) PROVE SealKept
  BY <1>4 DEF Remove, Removed, SealKept
<1>5. ASSUME NEW target \in RecallTarget,
             layouts' \in {Seal(layouts, target.layout_id), SealUnsynced(layouts, target.layout_id)}
      PROVE  SealKept
  BY <1>1, <1>5 DEF Seal, SealUnsynced, Layout, SealKept, RecallTarget
<1>6. CASE \E e \in Entity, c \in Content : Import(e, c)
  BY <1>3, <1>6 DEF Import
<1>7. CASE \E op \in Op, expected \in Observed(mem), anchor \in Receipt :
             PrepareRecall(op, expected, anchor)
  BY <1>2, <1>3, <1>7 DEF PrepareRecall
<1>8. CASE \E op \in Op, target \in Issued(mem, "prepare_recall"), evidence \in Content :
             \/ CommitRecallRefused(op, target, evidence)
             \/ CommitRecall(op, target, evidence)
             \/ CommitRecallSealUncertain(op, target, evidence)
  <2>1. PICK op \in Op, target \in RecallTarget, evidence \in Content :
             \/ CommitRecallRefused(op, target, evidence)
             \/ CommitRecall(op, target, evidence)
             \/ CommitRecallSealUncertain(op, target, evidence)
    BY <1>1, <1>8
  <2> QED
    BY <1>2, <1>5, <2>1 DEF CommitRecallRefused, CommitRecall, CommitRecallSealUncertain
<1>9. CASE CollectGarbage \/ CollectGarbageStops
  BY <1>4, <1>9 DEF CollectGarbage, CollectGarbageStops
<1> QED
  BY <1>2, <1>6, <1>7, <1>8, <1>9 DEF Call, PrepareArchive, CommitArchive, Release, Replay

LEMMA OthersKeepSeals ==
  ASSUME StorageInv, Mover \/ Close \/ Crash \/ PowerLoss \/ Reopen
  PROVE  SealKept
<1>1. /\ layouts \in [Id -> Layout]
      /\ \A l \in Id : layouts[l].session = "writing" => layouts[l].seal = "open"
      /\ \A view \in Issued(mem, "prepare_archive") : view.source \in Id
      /\ \A target \in Issued(mem, "prepare_recall") : target.layout_id \in Id
  BY ObservedTyped DEF StorageInv, TypeOK, DocTyped, LayoutsKept, DataView, RecallTarget
<1>2. CASE Mover
  <2>1. PICK l \in Id : \/ BeginRead(l) \/ BeginWrite(l) \/ EndSession(l)
                       \/ \E c \in Content : WriteBytes(l, c)
    BY <1>1, <1>2 DEF Mover
  <2>2. CASE BeginRead(l) \/ BeginWrite(l) \/ EndSession(l)
    BY <1>1, <2>2 DEF BeginRead, BeginWrite, EndSession, Layout, SealKept
  <2>3. CASE \E c \in Content : WriteBytes(l, c)
    BY <1>1, <2>3 DEF WriteBytes, Layout, SealKept
  <2> QED
    BY <2>1, <2>2, <2>3
<1>3. CASE Close \/ Reopen
  BY <1>3 DEF Close, Reopen, SealKept
<1>4. CASE Crash
  BY <1>1, <1>4 DEF Crash, Unlocked, Layout, SealKept
<1>5. CASE PowerLoss
  <2>1. PICK lost \in SUBSET Volatile(layouts) : layouts' = AfterPowerLoss(layouts, lost)
    BY <1>5 DEF PowerLoss
  <2>2. \A l \in Id : l \in lost => layouts[l].seal # "sealed"
    BY DEF Volatile
  <2> QED
    BY <1>1, <2>1, <2>2 DEF AfterPowerLoss, SealKept
<1> QED
  BY <1>2, <1>3, <1>4, <1>5

(***************************************************************************)
(* Sealed bytes never change: the mover refuses a destination that has     *)
(* sealed.json, and commit_recall seals only while no session holds the    *)
(* transfer lock, so no writer that started earlier is left.               *)
(***************************************************************************)
THEOREM SealsAreFinal == Spec => SealedImmutable
<1>1. StorageInv /\ [Next]_vars =>
        [\A l \in Id : layouts[l].seal = "sealed" /\ layouts'[l].there =>
           layouts'[l].seal = "sealed" /\ layouts'[l].data = layouts[l].data]_vars
  BY CallKeepsSeals, OthersKeepSeals DEF SealKept, Next
<1> QED
  BY <1>1, StorageSafe, PTL DEF Spec, SealedImmutable

-----------------------------------------------------------------------------
(***************************************************************************)
(* What callers of LocalStorage have been told stays stored, for every     *)
(* value of its constants.  The argument needs the document that is        *)
(* visible as well as the durable one: a power loss or a reopen may make   *)
(* either of them the next document.                                       *)
(***************************************************************************)

Remembers(s, answers) == \A a \in answers : s.steps[<<a.op, a.name>>] = a.saved

AnswersInv == StorageInv /\ \A s \in Documents : Remembers(s, told)

LEMMA MemRemembers ==
  ASSUME AnswersInv, Healthy
  PROVE  Remembers(mem, told) /\ DocTyped(mem)
BY DEF AnswersInv, StorageInv, Coherent, Documents, TypeOK, DocTyped

\* Only a persist that is durable tells anybody anything.
LEMMA PersistRemembers ==
  ASSUME AnswersInv, Healthy, NEW next, NEW answers, Persist(next, answers),
         Remembers(next, told \cup answers)
  PROVE  \A s \in Documents' : Remembers(s, told')
<1>1. \A s \in Documents : Remembers(s, told)
  BY DEF AnswersInv
<1>2. Remembers(next, told)
  BY DEF Remembers
<1>3. CASE PersistOk(next, answers)
  BY <1>3 DEF PersistOk, Documents
<1>4. CASE PersistUnsynced(next)
  BY <1>1, <1>2, <1>4 DEF PersistUnsynced, Documents
<1>5. CASE PersistFailed
  BY <1>1, <1>5 DEF PersistFailed, Documents
<1> QED
  BY <1>3, <1>4, <1>5 DEF Persist

\* A first execution finds its place in the document empty, so nobody has
\* been told of it, and fills no other.
LEMMA StepRemembers ==
  ASSUME AnswersInv, NEW op \in Op, NEW name \in StepName, NEW request, NEW error,
         NEW value, NEW next, Step(op, name, request, error, value, next),
         error = "none" => DocTyped(next) /\ next.steps = mem.steps
  PROVE  \A s \in Documents' : Remembers(s, told')
<1> DEFINE after == AfterStep(mem, op, name, request, error, value, next)
           base == IF error = "none" THEN next ELSE mem
           saved == [request |-> request, error |-> error,
                     value |-> IF error = "none" THEN value ELSE NoValue]
           answer == [op |-> op, name |-> name, saved |-> after.steps[<<op, name>>]]
<1>1. /\ Healthy /\ Persist(after, {answer}) /\ mem.steps[<<op, name>>] = NoStep
  BY DEF Step
<1>2. Remembers(mem, told) /\ DocTyped(mem)
  BY <1>1, MemRemembers
<1>3. base \in State /\ base.steps = mem.steps
  BY <1>2 DEF DocTyped
<1>4. after = [base EXCEPT !.steps = [base.steps EXCEPT ![<<op, name>>] = saved]]
  BY DEF AfterStep
<1>5. after.steps = [mem.steps EXCEPT ![<<op, name>>] = saved]
  BY <1>3, <1>4 DEF State
<1>6. mem.steps \in [Op \X StepName -> SavedStep \cup {NoStep}]
  BY <1>2 DEF DocTyped, State
<1>7. \A a \in told : a.op \in Op /\ a.name \in StepName /\ a.saved \in SavedStep
  BY DEF AnswersInv, StorageInv, TypeOK, Answer
<1> HIDE DEF after, saved
<1>8. \A a \in told : after.steps[<<a.op, a.name>>] = a.saved
  <2> SUFFICES ASSUME NEW a \in told PROVE after.steps[<<a.op, a.name>>] = a.saved
    OBVIOUS
  <2>1. mem.steps[<<a.op, a.name>>] = a.saved
    BY <1>2 DEF Remembers
  <2>2. <<a.op, a.name>> # <<op, name>>
    BY <1>1, <1>7, <2>1, MarkerAssumption
  <2> QED
    BY <1>5, <1>6, <1>7, <2>1, <2>2
<1>9. answer.op = op /\ answer.name = name /\ answer.saved = after.steps[<<op, name>>]
  OBVIOUS
<1> HIDE DEF answer
<1>10. Remembers(after, told \cup {answer})
  BY <1>8, <1>9 DEF Remembers
<1> QED
  BY <1>1, <1>10, PersistRemembers DEF answer

-----------------------------------------------------------------------------

LEMMA CommitRemembers ==
  ASSUME AnswersInv,
         \/ \E op \in Op, view \in DataView, receipt \in ArchiveReceipt :
              CommitArchive(op, view, receipt)
         \/ \E op \in Op, expected \in EntityState : Release(op, expected)
         \/ \E op \in Op, target \in RecallTarget, evidence \in Content :
              CommitRecallRefused(op, target, evidence) \/ CommitRecall(op, target, evidence)
  PROVE  \A s \in Documents' : Remembers(s, told')
<1>1. ASSUME NEW op \in Op, NEW view \in DataView, NEW receipt \in ArchiveReceipt,
             CommitArchive(op, view, receipt)
      PROVE  \A s \in Documents' : Remembers(s, told')
  <2> DEFINE error == CommitArchiveError(mem, op, view, receipt)
             next == IF error = "none" THEN CommittedArchive(mem, op, view, receipt) ELSE mem
             value == IF error = "none" THEN Archived(mem, view, receipt) ELSE NoValue
             request == [view |-> view, receipt |-> receipt]
  <2>1. Step(op, "commit_archive", request, error, value, next)
    BY <1>1 DEF CommitArchive
  <2>2. DocTyped(mem)
    BY <2>1, MemRemembers DEF Step
  <2>3. ASSUME error = "none" PROVE DocTyped(next) /\ next.steps = mem.steps
    <3>1. mem.entities[view.data.entity] # NoEntity
      BY <2>3 DEF CommitArchiveError, EntityError
    <3> QED
      BY <2>2, <2>3, <3>1, CommittedArchiveTyped
  <2> HIDE DEF error, next, value, request
  <2> QED
    BY <2>1, <2>3, StepRemembers DEF StepName
<1>2. ASSUME NEW op \in Op, NEW expected \in EntityState, Release(op, expected)
      PROVE  \A s \in Documents' : Remembers(s, told')
  <2> DEFINE error == ReleaseError(mem, op, expected)
             next == IF error = "none" THEN CommittedRelease(mem, op, expected) ELSE mem
             value == Released(expected)
  <2>1. Step(op, "release", expected, error, value, next)
    BY <1>2 DEF Release
  <2>2. DocTyped(mem)
    BY <2>1, MemRemembers DEF Step
  <2>3. ASSUME error = "none" PROVE DocTyped(next) /\ next.steps = mem.steps
    <3>1. /\ mem.entities[expected.data.entity] # NoEntity
          /\ mem.entities[expected.data.entity].published # NoLayout
      BY <2>3 DEF ReleaseError, EntityError
    <3> QED
      BY <2>2, <2>3, <3>1, CommittedReleaseTyped
  <2> HIDE DEF error, next, value
  <2> QED
    BY <2>1, <2>3, StepRemembers DEF StepName
<1>3. ASSUME NEW op \in Op, NEW target \in RecallTarget, NEW evidence \in Content,
             CommitRecallRefused(op, target, evidence)
      PROVE  \A s \in Documents' : Remembers(s, told')
  <2>1. VerifyRecallError(mem, op, target, evidence) # "none"
    BY <1>3 DEF CommitRecallRefused, SavedFailure
  <2> QED
    BY <1>3, <2>1, StepRemembers DEF CommitRecallRefused, StepName
<1>4. ASSUME NEW op \in Op, NEW target \in RecallTarget, NEW evidence \in Content,
             CommitRecall(op, target, evidence)
      PROVE  \A s \in Documents' : Remembers(s, told')
  <2> DEFINE error == FinishError(mem, op, target.data, RecallFrom(target.archive))
             next == CommittedRecall(mem, op, target)
             value == Recalled(mem, target)
             request == RecallRequest(target, evidence)
  <2>1. /\ VerifyRecallError(mem, op, target, evidence) = "none"
        /\ Step(op, "commit_recall", request, error, value, next)
    BY <1>4 DEF CommitRecall
  <2>2. DocTyped(mem) /\ mem.entities[target.data.entity] # NoEntity
    BY <2>1, MemRemembers, VerifiedRecall DEF Step
  <2>3. DocTyped(next) /\ next.steps = mem.steps
    BY <2>2, CommittedRecallTyped
  <2> HIDE DEF error, next, value, request
  <2> QED
    BY <2>1, <2>3, StepRemembers DEF StepName
<1> QED
  BY <1>1, <1>2, <1>3, <1>4

LEMMA PrepareRemembers ==
  ASSUME AnswersInv,
         \/ \E op \in Op, data \in DataKey : PrepareArchive(op, data)
         \/ \E op \in Op, expected \in EntityState, anchor \in ArchiveReceipt :
              PrepareRecall(op, expected, anchor)
  PROVE  \A s \in Documents' : Remembers(s, told')
<1>1. ASSUME NEW op \in Op, NEW data \in DataKey, PrepareArchive(op, data)
      PROVE  \A s \in Documents' : Remembers(s, told')
  <2> DEFINE error == PrepareArchiveError(mem, data)
             view == NewView(mem, data, fresh)
             next == [mem EXCEPT !.views = @ \cup {[op |-> op, view |-> view]}]
  <2>1. fresh \in Id /\ Step(op, "prepare_archive", data, error, view, next)
    BY <1>1 DEF PrepareArchive
  <2>2. DocTyped(mem)
    BY <2>1, MemRemembers DEF Step
  <2>3. ASSUME error = "none" PROVE DocTyped(next) /\ next.steps = mem.steps
    BY <2>1, <2>2, <2>3, PinnedTyped DEF DocTyped, State
  <2> HIDE DEF error, next, view
  <2> QED
    BY <2>1, <2>3, StepRemembers DEF StepName
<1>2. ASSUME NEW op \in Op, NEW expected \in EntityState, NEW anchor \in ArchiveReceipt,
             PrepareRecall(op, expected, anchor)
      PROVE  \A s \in Documents' : Remembers(s, told')
  <2> DEFINE error == PrepareRecallError(mem, expected, anchor)
             target == NewTarget(expected, anchor, fresh)
             owner == [op |-> op, target |-> target, anchor |-> anchor]
             next == [mem EXCEPT !.recalls = @ \cup {owner}]
             request == [expected |-> expected, anchor |-> anchor]
  <2>1. fresh \in Id /\ Step(op, "prepare_recall", request, error, target, next)
    BY <1>2 DEF PrepareRecall
  <2>2. DocTyped(mem)
    BY <2>1, MemRemembers DEF Step
  <2>3. DocTyped(next)
    BY <2>1, <2>2, RequestedTyped
  <2>4. next.steps = mem.steps
    BY <2>2 DEF DocTyped, State
  <2> HIDE DEF error, next, target, request
  <2> QED
    BY <2>1, <2>3, <2>4, StepRemembers DEF StepName
<1> QED
  BY <1>1, <1>2

\* Operations that store no step.
LEMMA OtherCallsRemember ==
  ASSUME AnswersInv,
         \/ \E e \in Entity, c \in Content : Import(e, c)
         \/ CollectGarbage
         \/ \E op \in Op, name \in StepName : \E request : Replay(op, name, request)
  PROVE  \A s \in Documents' : Remembers(s, told')
<1>1. ASSUME NEW e \in Entity, NEW c \in Content, Import(e, c)
      PROVE  \A s \in Documents' : Remembers(s, told')
  <2> DEFINE next == [mem EXCEPT !.entities[e] = [public |-> Imported(e, c), published |-> fresh]]
  <2>1. Healthy /\ Persist(next, {})
    BY <1>1 DEF Import
  <2>2. Remembers(next, told \cup {})
    BY <2>1, MemRemembers DEF Remembers, DocTyped, State
  <2> HIDE DEF next
  <2> QED
    BY <2>1, <2>2, PersistRemembers
<1>2. ASSUME CollectGarbage
      PROVE  \A s \in Documents' : Remembers(s, told')
  <2> DEFINE next == [mem EXCEPT !.gc = {}]
  <2>1. Healthy /\ Persist(next, {})
    BY <1>2 DEF CollectGarbage
  <2>2. Remembers(next, told \cup {})
    BY <2>1, MemRemembers DEF Remembers, DocTyped, State
  <2> HIDE DEF next
  <2> QED
    BY <2>1, <2>2, PersistRemembers
<1>3. ASSUME NEW op \in Op, NEW name \in StepName, NEW request, Replay(op, name, request)
      PROVE  \A s \in Documents' : Remembers(s, told')
  <2> DEFINE saved == mem.steps[<<op, name>>]
             answer == [op |-> op, name |-> name, saved |-> [saved EXCEPT !.request = request]]
  <2>1. /\ Healthy /\ saved # NoStep /\ saved.request = request
        /\ told' = told \cup {answer}
        /\ Documents' = Documents
    BY <1>3 DEF Replay, FingerprintMatches, Documents
  <2>2. saved \in SavedStep
    BY <2>1, MemRemembers DEF DocTyped, State
  <2>3. answer.op = op /\ answer.name = name /\ answer.saved = mem.steps[<<op, name>>]
    BY <2>1, <2>2 DEF SavedStep
  <2>4. \A s \in Documents : s = mem
    BY <2>1 DEF AnswersInv, StorageInv, Coherent, Documents
  <2> HIDE DEF answer
  <2>5. Remembers(mem, told')
    BY <2>1, <2>3, MemRemembers DEF Remembers
  <2> QED
    BY <2>1, <2>4, <2>5
<1> QED
  BY <1>1, <1>2, <1>3

LEMMA AnswersKept == AnswersInv /\ [Next]_vars => AnswersInv'
<1> SUFFICES ASSUME AnswersInv, [Next]_vars PROVE \A s \in Documents' : Remembers(s, told')
  BY NextSafe DEF AnswersInv
<1>1. /\ Issued(mem, "prepare_archive") \subseteq DataView
      /\ Issued(mem, "prepare_recall") \subseteq RecallTarget
      /\ Observed(mem) \subseteq EntityState
  BY ObservedTyped DEF AnswersInv, StorageInv, TypeOK, DocTyped
<1>2. Receipt \subseteq ArchiveReceipt /\ AskedData \subseteq DataKey
  BY StorageAssumption
<1>3. CASE Documents' \subseteq Documents /\ told' = told
  BY <1>3 DEF AnswersInv
<1>4. CASE \E op \in Op : \/ \E data \in AskedData : PrepareArchive(op, data)
                        \/ \E expected \in Observed(mem), anchor \in Receipt :
                             PrepareRecall(op, expected, anchor)
  BY <1>1, <1>2, <1>4, PrepareRemembers
<1>5. CASE \E op \in Op :
             \/ \E view \in Issued(mem, "prepare_archive"), receipt \in Receipt :
                  CommitArchive(op, view, receipt)
             \/ \E expected \in Observed(mem) : Release(op, expected)
             \/ \E target \in Issued(mem, "prepare_recall"), evidence \in Content :
                  CommitRecallRefused(op, target, evidence) \/ CommitRecall(op, target, evidence)
  BY <1>1, <1>2, <1>5, CommitRemembers
<1>6. CASE \/ \E e \in Entity, c \in Content : Import(e, c)
         \/ CollectGarbage
         \/ \E op \in Op, name \in StepName, o \in Op :
              Replay(op, name, mem.steps[<<o, name>>].request)
  BY <1>6, OtherCallsRemember
<1>7. CASE \/ CollectGarbageStops
         \/ \E op \in Op, target \in Issued(mem, "prepare_recall"), evidence \in Content :
              CommitRecallSealUncertain(op, target, evidence)
  BY <1>3, <1>7 DEF CollectGarbageStops, CommitRecallSealUncertain, docs, Documents
<1>8. CASE Mover
  BY <1>3, <1>8 DEF Mover, BeginRead, BeginWrite, EndSession, WriteBytes, docs, Documents
<1>9. CASE Close \/ Crash \/ PowerLoss \/ Reopen
  BY <1>3, <1>9 DEF Close, Crash, PowerLoss, Reopen, docs, Documents
<1>10. CASE UNCHANGED vars
  BY <1>3, <1>10 DEF vars, Documents
<1>11. CASE Call
  BY <1>4, <1>5, <1>6, <1>7, <1>11 DEF Call
<1> QED
  BY <1>8, <1>9, <1>10, <1>11 DEF Next

(***************************************************************************)
(* Whatever a step has answered, a value or a failure, first call or       *)
(* replay, stays in the durable document with the request it answers: the  *)
(* answer is given after the directory sync only, and no crash, power      *)
(* loss, failed persist or reopen brings back a document without it.       *)
(***************************************************************************)
THEOREM AnswersAreDurable == Spec => []AnswersDurable
<1>1. Init => AnswersInv
  BY InitSafe DEF Init, AnswersInv, Remembers
<1>2. AnswersInv => AnswersDurable
  BY DEF AnswersInv, Remembers, Documents, AnswersDurable
<1> QED
  BY <1>1, <1>2, AnswersKept, PTL DEF Spec

-----------------------------------------------------------------------------
(***************************************************************************)
(* What the operations of LocalStorage leave in a document, for every      *)
(* value of the constants: an operation ID has one effect, and a revision  *)
(* of an entity identifies one observation of it.  Both are about one      *)
(* document at a time, so it is enough that every operation keeps them     *)
(* from the document in memory to the document it persists.                *)
(***************************************************************************)

\* OneEffectPerOperation of one operation ID in one document.
OneEffect(s, op) ==
  /\ s.completed[op] = NoOutcome => \A n \in CommitSteps : ~Succeeded(s, op, n)
  /\ s.completed[op] # NoOutcome =>
       /\ \E n \in CommitSteps : Succeeded(s, op, n)
       /\ \A n \in CommitSteps : Succeeded(s, op, n) =>
            /\ s.completed[op].action.kind = KindOf(n)
            /\ s.completed[op].state = s.steps[<<op, n>>].value

Effects(s) == \A op \in Op : OneEffect(s, op)

EffectsInv == StorageInv /\ \A s \in Documents : Effects(s)

LEMMA MemEffects ==
  ASSUME EffectsInv, Healthy
  PROVE  Effects(mem) /\ DocTyped(mem)
BY DEF EffectsInv, StorageInv, Coherent, Documents, TypeOK, DocTyped

LEMMA PersistEffects ==
  ASSUME EffectsInv, NEW next, NEW answers, Persist(next, answers), Effects(next)
  PROVE  \A s \in Documents' : Effects(s)
<1>1. \A s \in Documents : Effects(s)
  BY DEF EffectsInv
<1>2. CASE PersistOk(next, answers)
  BY <1>2 DEF PersistOk, Documents
<1>3. CASE PersistUnsynced(next)
  BY <1>1, <1>3 DEF PersistUnsynced, Documents
<1>4. CASE PersistFailed
  BY <1>1, <1>4 DEF PersistFailed, Documents
<1> QED
  BY <1>2, <1>3, <1>4 DEF Persist

\* What step stores, and where.
LEMMA StepStored ==
  ASSUME NEW s, DocTyped(s), NEW op \in Op, NEW name \in StepName, NEW request, NEW error,
         NEW value, NEW next, error = "none" => DocTyped(next) /\ next.steps = s.steps,
         NEW after, after = AfterStep(s, op, name, request, error, value, next)
  PROVE  /\ after.steps[<<op, name>>].error = error
         /\ after.steps[<<op, name>>].request = request
         /\ error = "none" => after.steps[<<op, name>>].value = value
         /\ \A o \in Op, n \in StepName : <<o, n>> # <<op, name>> =>
              after.steps[<<o, n>>] = s.steps[<<o, n>>]
         /\ after.completed = IF error = "none" THEN next.completed ELSE s.completed
         /\ after.entities = IF error = "none" THEN next.entities ELSE s.entities
<1> DEFINE base == IF error = "none" THEN next ELSE s
           saved == [request |-> request, error |-> error,
                     value |-> IF error = "none" THEN value ELSE NoValue]
<1>1. /\ base \in State /\ base.steps = s.steps
      /\ base.completed = IF error = "none" THEN next.completed ELSE s.completed
      /\ base.entities = IF error = "none" THEN next.entities ELSE s.entities
  BY DEF DocTyped
<1>2. after = [base EXCEPT !.steps = [base.steps EXCEPT ![<<op, name>>] = saved]]
  BY DEF AfterStep
<1>3. /\ saved.error = error /\ saved.request = request
      /\ error = "none" => saved.value = value
  OBVIOUS
<1> HIDE DEF base, saved
<1>4. /\ after.steps = [s.steps EXCEPT ![<<op, name>>] = saved]
      /\ after.completed = base.completed /\ after.entities = base.entities
  BY <1>1, <1>2 DEF State
<1>5. s.steps \in [Op \X StepName -> SavedStep \cup {NoStep}]
  BY DEF DocTyped, State
<1>6. /\ after.steps[<<op, name>>] = saved
      /\ \A o \in Op, n \in StepName : <<o, n>> # <<op, name>> =>
           after.steps[<<o, n>>] = s.steps[<<o, n>>]
  BY <1>4, <1>5
<1> QED
  BY <1>1, <1>3, <1>4, <1>6

\* A step that changes no outcome and is not the success of a committing one.
LEMMA QuietEffects ==
  ASSUME NEW s, Effects(s), NEW after, after.completed = s.completed,
         \A o \in Op, n \in CommitSteps :
           \/ after.steps[<<o, n>>] = s.steps[<<o, n>>]
           \/ ~Succeeded(after, o, n) /\ ~Succeeded(s, o, n)
  PROVE  Effects(after)
<1> SUFFICES ASSUME NEW o \in Op PROVE OneEffect(after, o)
  BY DEF Effects
<1>1. OneEffect(s, o)
  BY DEF Effects
<1>2. \A n \in CommitSteps : Succeeded(after, o, n) <=> Succeeded(s, o, n)
  BY DEF Succeeded
<1>3. \A n \in CommitSteps : Succeeded(s, o, n) => after.steps[<<o, n>>] = s.steps[<<o, n>>]
  OBVIOUS
<1> QED
  BY <1>1, <1>2, <1>3 DEF OneEffect

\* What a step that succeeds does to the outcomes: a committing one records
\* its own, which finish must accept, and the others none.
Records(op, name, value, next, data, action) ==
  /\ DocTyped(next) /\ next.steps = mem.steps /\ value \in ValueOf(name)
  /\ IF name \in CommitSteps
       THEN /\ data \in DataKey /\ action \in ManagedAction
            /\ action.kind = KindOf(name)
            /\ FinishError(mem, op, data, action) = "none"
            /\ next.completed = [mem.completed EXCEPT
                 ![op] = [data |-> data, action |-> action, state |-> value]]
       ELSE next.completed = mem.completed

(***************************************************************************)
(* The first execution of a step, whatever becomes of it.  Where it is the *)
(* success of a committing step and the ID had an effect already, that one *)
(* was of this kind, because finish accepts no other; then this step had   *)
(* succeeded before, and would have been replayed instead.                 *)
(***************************************************************************)
LEMMA StepEffects ==
  ASSUME EffectsInv, NEW op \in Op, NEW name \in StepName, NEW request \in Request, NEW error,
         NEW value, NEW next, Step(op, name, request, error, value, next),
         NEW data, NEW action, error = "none" => Records(op, name, value, next, data, action)
  PROVE  \A s \in Documents' : Effects(s)
<1> DEFINE after == AfterStep(mem, op, name, request, error, value, next)
           answers == {[op |-> op, name |-> name, saved |-> after.steps[<<op, name>>]]}
           record == [data |-> data, action |-> action, state |-> value]
<1>1. /\ Healthy /\ Persist(after, answers)
      /\ mem.steps[<<op, name>>] = NoStep
  BY DEF Step
<1>2. Effects(mem) /\ DocTyped(mem)
  BY <1>1, MemEffects
<1>3. error = "none" => after.steps[<<op, name>>] \in SavedStep
  BY <1>2, AfterStepTyped DEF Records
<1>4. /\ after.steps[<<op, name>>].error = error
      /\ error = "none" => after.steps[<<op, name>>].value = value
      /\ \A o \in Op, n \in StepName : <<o, n>> # <<op, name>> =>
           after.steps[<<o, n>>] = mem.steps[<<o, n>>]
      /\ after.completed = IF error = "none" THEN next.completed ELSE mem.completed
  BY <1>2, StepStored DEF Records
<1>5. name \in CommitSteps /\ error = "none" =>
        record \in Completed /\ record.action = action /\ record.state = value
  BY DEF Completed, ValueOf, CommitSteps, Records
<1> HIDE DEF after, answers, record
<1>6. CommitSteps \subseteq StepName
  BY DEF CommitSteps, StepName
<1>7. CASE error = "none" /\ name \in CommitSteps
  <2>1. mem.completed \in [Op -> Completed \cup {NoOutcome}]
    BY <1>2 DEF DocTyped, State
  <2>2. after.completed = [mem.completed EXCEPT ![op] = record]
    BY <1>4, <1>7 DEF record, Records
  <2>3. after.completed[op] = record
        /\ \A o \in Op : o # op => after.completed[o] = mem.completed[o]
    BY <2>1, <2>2
  <2>4. record # NoOutcome /\ after.steps[<<op, name>>] # NoStep
    BY <1>3, <1>5, <1>7, MarkerAssumption
  <2>5. \A o \in Op, n \in CommitSteps : <<o, n>> # <<op, name>> =>
          after.steps[<<o, n>>] = mem.steps[<<o, n>>]
    BY <1>4, <1>6
  <2>6. action.kind = KindOf(name) /\ FinishError(mem, op, data, action) = "none"
    BY <1>7 DEF Records
  <2>7. /\ after.completed[op] # NoOutcome
        /\ after.completed[op].action = action
        /\ after.completed[op].state = value
    BY <1>5, <1>7, <2>3, <2>4
  <2>8. /\ after.steps[<<op, name>>].error = "none"
        /\ after.steps[<<op, name>>].value = value
    BY <1>4, <1>7
  <2>9. \A o \in Op : o # op => after.completed[o] = mem.completed[o]
    BY <2>3
  <2>10. name \in CommitSteps /\ after.steps[<<op, name>>] # NoStep
    BY <1>7, <2>4
  <2>11. mem.steps[<<op, name>>] = NoStep /\ Effects(mem) /\ DocTyped(mem)
    BY <1>1, <1>2
  <2>12. ASSUME NEW n \in CommitSteps, Succeeded(mem, op, n) PROVE FALSE
    <3>1. /\ mem.completed[op] # NoOutcome
          /\ mem.completed[op].action.kind = KindOf(n)
      BY <2>11, <2>12 DEF Effects, OneEffect
    <3>2. mem.completed[op].action = action
      BY <2>6, <3>1 DEF FinishError
    <3>3. n = name
      BY <2>6, <2>10, <3>1, <3>2 DEF KindOf, CommitSteps
    <3> QED
      BY <2>11, <2>12, <3>3 DEF Succeeded
  <2>13. Succeeded(after, op, name)
    BY <2>8, <2>10 DEF Succeeded
  <2>14. ASSUME NEW n \in CommitSteps, Succeeded(after, op, n) PROVE n = name
    <3>1. SUFFICES ASSUME n # name PROVE FALSE
      OBVIOUS
    <3>2. after.steps[<<op, n>>] = mem.steps[<<op, n>>]
      BY <2>5, <3>1
    <3> QED
      BY <2>12, <2>14, <3>2 DEF Succeeded
  <2>15. OneEffect(after, op)
    BY <2>6, <2>7, <2>8, <2>10, <2>13, <2>14 DEF OneEffect
  <2>16. ASSUME NEW o \in Op, o # op PROVE OneEffect(after, o)
    <3>1. OneEffect(mem, o)
      BY <2>11 DEF Effects
    <3>2. \A n \in CommitSteps : after.steps[<<o, n>>] = mem.steps[<<o, n>>]
      BY <2>5, <2>16
    <3>3. after.completed[o] = mem.completed[o]
      BY <2>9, <2>16
    <3> QED
      BY <3>1, <3>2, <3>3 DEF OneEffect, Succeeded
  <2>17. Effects(after)
    BY <2>15, <2>16 DEF Effects
  <2> QED
    BY <1>1, <2>17, PersistEffects
<1>8. CASE ~(error = "none" /\ name \in CommitSteps)
  <2>1. after.completed = mem.completed
    BY <1>4, <1>8 DEF Records
  <2>2. ASSUME NEW o \in Op, NEW n \in CommitSteps
        PROVE  \/ after.steps[<<o, n>>] = mem.steps[<<o, n>>]
               \/ ~Succeeded(after, o, n) /\ ~Succeeded(mem, o, n)
    <3>1. CASE <<o, n>> = <<op, name>>
      BY <1>1, <1>4, <1>8, <3>1 DEF Succeeded
    <3>2. CASE <<o, n>> # <<op, name>>
      BY <1>4, <1>6, <3>2
    <3> QED
      BY <3>1, <3>2
  <2>3. Effects(after)
    BY <1>2, <2>1, <2>2, QuietEffects
  <2> QED
    BY <1>1, <2>3, PersistEffects
<1> QED
  BY <1>7, <1>8

-----------------------------------------------------------------------------
(* What the committing steps record as completed.                          *)

LEMMA FinishedRecords ==
  ASSUME NEW base, base \in State, NEW op \in Op, NEW data, NEW action, NEW state
  PROVE  Finished(base, op, data, action, state).completed =
           [base.completed EXCEPT ![op] = [data |-> data, action |-> action, state |-> state]]
BY DEF Finished, State

LEMMA ArchiveRecords ==
  ASSUME NEW s, DocTyped(s), NEW op \in Op, NEW view \in DataView,
         NEW receipt \in ArchiveReceipt, s.entities[view.data.entity] # NoEntity
  PROVE  CommittedArchive(s, op, view, receipt).completed =
           [s.completed EXCEPT ![op] = [data |-> view.data, action |-> ArchiveTo(receipt.key),
                                        state |-> Archived(s, view, receipt)]]
<1> DEFINE e == view.data.entity
           state == Archived(s, view, receipt)
           record == [s.entities[e] EXCEPT !.public = state]
           left == {v \in s.views : v.view.view_id # view.view_id}
           written == [s EXCEPT !.entities[e] = record]
           base == [written EXCEPT !.views = left]
<1>1. e \in Entity /\ s.entities[e] \in EntityRecord /\ state \in EntityState
  BY EntityTyped, ArchivedTyped DEF DataView, DataKey
<1>2. record \in EntityRecord
  BY <1>1 DEF EntityRecord
<1>3. DocTyped(written) /\ written.completed = s.completed /\ left \in SUBSET ViewOwner
  BY <1>1, <1>2, EntityWrittenTyped DEF DocTyped, State
<1>4. base \in State /\ base.completed = s.completed
  BY <1>3 DEF DocTyped, State
<1>5. CommittedArchive(s, op, view, receipt) =
        Finished(base, op, view.data, ArchiveTo(receipt.key), state)
  BY DEF CommittedArchive
<1> HIDE DEF base, state
<1> QED
  BY <1>4, <1>5, FinishedRecords DEF state

LEMMA ReleaseRecords ==
  ASSUME NEW s, DocTyped(s), NEW op \in Op, NEW expected \in EntityState,
         s.entities[expected.data.entity] # NoEntity,
         s.entities[expected.data.entity].published # NoLayout
  PROVE  CommittedRelease(s, op, expected).completed =
           [s.completed EXCEPT ![op] = [data |-> expected.data, action |-> ReleaseIt,
                                        state |-> Released(expected)]]
<1> DEFINE e == expected.data.entity
           state == Released(expected)
           record == [public |-> state, published |-> NoLayout]
           retired == s.gc \cup {s.entities[e].published}
           written == [s EXCEPT !.entities[e] = record]
           base == [written EXCEPT !.gc = retired]
<1>1. e \in Entity /\ record \in EntityRecord /\ retired \in SUBSET Id
  BY ReleasedTyped, EntityTyped DEF EntityState, DataKey, EntityRecord, DocTyped, State
<1>2. DocTyped(written) /\ written.completed = s.completed
  BY <1>1, EntityWrittenTyped DEF DocTyped, State
<1>3. base \in State /\ base.completed = s.completed
  BY <1>1, <1>2 DEF DocTyped, State
<1>4. CommittedRelease(s, op, expected) = Finished(base, op, expected.data, ReleaseIt, state)
  BY DEF CommittedRelease
<1> HIDE DEF base, state
<1> QED
  BY <1>3, <1>4, FinishedRecords DEF state

LEMMA RecallRecords ==
  ASSUME NEW s, DocTyped(s), NEW op \in Op, NEW target \in RecallTarget,
         s.entities[target.data.entity] # NoEntity
  PROVE  CommittedRecall(s, op, target).completed =
           [s.completed EXCEPT ![op] = [data |-> target.data,
                                        action |-> RecallFrom(target.archive),
                                        state |-> Recalled(s, target)]]
<1> DEFINE e == target.data.entity
           state == Recalled(s, target)
           record == [public |-> state, published |-> target.layout_id]
           left == {r \in s.recalls : r.target.layout_id # target.layout_id}
           written == [s EXCEPT !.entities[e] = record]
           base == [written EXCEPT !.recalls = left]
<1>1. e \in Entity /\ record \in EntityRecord
  BY RecalledTyped DEF RecallTarget, DataKey, EntityRecord
<1>2. DocTyped(written) /\ written.completed = s.completed /\ left \in SUBSET RecallOwner
  BY <1>1, EntityWrittenTyped DEF DocTyped, State
<1>3. base \in State /\ base.completed = s.completed
  BY <1>2 DEF DocTyped, State
<1>4. CommittedRecall(s, op, target) =
        Finished(base, op, target.data, RecallFrom(target.archive), state)
  BY DEF CommittedRecall
<1> HIDE DEF base, state
<1> QED
  BY <1>3, <1>4, FinishedRecords DEF state

-----------------------------------------------------------------------------

LEMMA CommitArchiveEffects ==
  ASSUME EffectsInv, NEW op \in Op, NEW view \in DataView, NEW receipt \in ArchiveReceipt,
         CommitArchive(op, view, receipt)
  PROVE  \A s \in Documents' : Effects(s)
<1> DEFINE error == CommitArchiveError(mem, op, view, receipt)
           next == IF error = "none" THEN CommittedArchive(mem, op, view, receipt) ELSE mem
           value == IF error = "none" THEN Archived(mem, view, receipt) ELSE NoValue
           request == [view |-> view, receipt |-> receipt]
           action == ArchiveTo(receipt.key)
<1>1. Step(op, "commit_archive", request, error, value, next)
  BY DEF CommitArchive
<1>2. DocTyped(mem)
  BY <1>1, MemEffects DEF Step
<1>3. /\ request \in Request /\ view.data \in DataKey
      /\ action \in ManagedAction /\ action.kind = KindOf("commit_archive")
  BY DEF Request, DataView, ArchiveTo, ManagedAction, ArchiveReceipt, KindOf
<1>4. ASSUME error = "none"
      PROVE  Records(op, "commit_archive", value, next, view.data, action)
  <2>1. /\ mem.entities[view.data.entity] # NoEntity
        /\ FinishError(mem, op, view.data, action) = "none"
    BY <1>4 DEF CommitArchiveError, EntityError
  <2>2. next = CommittedArchive(mem, op, view, receipt) /\ value = Archived(mem, view, receipt)
    BY <1>4
  <2> HIDE DEF error, next, value, action
  <2>3. DocTyped(next) /\ next.steps = mem.steps
    BY <1>2, <2>1, <2>2, CommittedArchiveTyped
  <2>4. value \in ValueOf("commit_archive")
    BY <1>2, <2>1, <2>2, ArchivedTyped DEF ValueOf
  <2>5. next.completed = [mem.completed EXCEPT
          ![op] = [data |-> view.data, action |-> action, state |-> value]]
    BY <1>2, <2>1, <2>2, ArchiveRecords DEF action
  <2> QED
    BY <1>3, <2>1, <2>3, <2>4, <2>5 DEF Records, CommitSteps
<1> HIDE DEF error, next, value, request, action
<1> QED
  BY <1>1, <1>3, <1>4, StepEffects DEF StepName

LEMMA ReleaseEffects ==
  ASSUME EffectsInv, NEW op \in Op, NEW expected \in EntityState, Release(op, expected)
  PROVE  \A s \in Documents' : Effects(s)
<1> DEFINE error == ReleaseError(mem, op, expected)
           next == IF error = "none" THEN CommittedRelease(mem, op, expected) ELSE mem
           value == Released(expected)
<1>1. Step(op, "release", expected, error, value, next)
  BY DEF Release
<1>2. DocTyped(mem)
  BY <1>1, MemEffects DEF Step
<1>3. /\ expected \in Request /\ expected.data \in DataKey /\ value \in ValueOf("release")
      /\ ReleaseIt \in ManagedAction /\ ReleaseIt.kind = KindOf("release")
  BY ReleasedTyped DEF Request, EntityState, ReleaseIt, ManagedAction, KindOf, ValueOf
<1>4. ASSUME error = "none"
      PROVE  Records(op, "release", value, next, expected.data, ReleaseIt)
  <2>1. /\ mem.entities[expected.data.entity] # NoEntity
        /\ mem.entities[expected.data.entity].published # NoLayout
        /\ FinishError(mem, op, expected.data, ReleaseIt) = "none"
    BY <1>4 DEF ReleaseError, EntityError
  <2>2. next = CommittedRelease(mem, op, expected)
    BY <1>4
  <2> HIDE DEF error, next
  <2>3. DocTyped(next) /\ next.steps = mem.steps
    BY <1>2, <2>1, <2>2, CommittedReleaseTyped
  <2>4. next.completed = [mem.completed EXCEPT
          ![op] = [data |-> expected.data, action |-> ReleaseIt, state |-> value]]
    BY <1>2, <2>1, <2>2, ReleaseRecords
  <2> HIDE DEF value
  <2> QED
    BY <1>3, <2>1, <2>3, <2>4 DEF Records, CommitSteps
<1> HIDE DEF error, next, value
<1> QED
  BY <1>1, <1>3, <1>4, StepEffects DEF StepName

LEMMA CommitRecallRefusedEffects ==
  ASSUME EffectsInv, NEW op \in Op, NEW target \in RecallTarget, NEW evidence \in Content,
         CommitRecallRefused(op, target, evidence)
  PROVE  \A s \in Documents' : Effects(s)
<1> DEFINE error == VerifyRecallError(mem, op, target, evidence)
           request == RecallRequest(target, evidence)
<1>1. error # "none" /\ Step(op, "commit_recall", request, error, NoValue, mem)
  BY DEF CommitRecallRefused, SavedFailure
<1>2. request \in Request
  BY DEF RecallRequest, Request
<1> HIDE DEF error, request
<1> QED
  BY <1>1, <1>2, StepEffects DEF StepName

LEMMA CommitRecallEffects ==
  ASSUME EffectsInv, NEW op \in Op, NEW target \in RecallTarget, NEW evidence \in Content,
         CommitRecall(op, target, evidence)
  PROVE  \A s \in Documents' : Effects(s)
<1> DEFINE request == RecallRequest(target, evidence)
           action == RecallFrom(target.archive)
           error == FinishError(mem, op, target.data, action)
           next == CommittedRecall(mem, op, target)
           value == Recalled(mem, target)
<1>1. /\ VerifyRecallError(mem, op, target, evidence) = "none"
      /\ Step(op, "commit_recall", request, error, value, next)
  BY DEF CommitRecall
<1>2. DocTyped(mem) /\ mem.entities[target.data.entity] # NoEntity
  BY <1>1, MemEffects, VerifiedRecall DEF Step
<1>3. /\ request \in Request /\ target.data \in DataKey
      /\ action \in ManagedAction /\ action.kind = KindOf("commit_recall")
  BY DEF RecallRequest, Request, RecallTarget, RecallFrom, ManagedAction, KindOf
<1>4. ASSUME error = "none"
      PROVE  Records(op, "commit_recall", value, next, target.data, action)
  <2>1. FinishError(mem, op, target.data, action) = "none"
    BY <1>4
  <2>2. /\ DocTyped(next) /\ next.steps = mem.steps
        /\ value \in ValueOf("commit_recall")
    BY <1>2, CommittedRecallTyped, RecalledTyped DEF ValueOf
  <2>3. next.completed = [mem.completed EXCEPT
          ![op] = [data |-> target.data, action |-> action, state |-> value]]
    BY <1>2, RecallRecords
  <2> HIDE DEF next, value, action
  <2> QED
    BY <1>3, <2>1, <2>2, <2>3 DEF Records, CommitSteps
<1> HIDE DEF error, next, value, request, action
<1> QED
  BY <1>1, <1>3, <1>4, StepEffects DEF StepName

LEMMA PrepareEffects ==
  ASSUME EffectsInv,
         \/ \E op \in Op, data \in DataKey : PrepareArchive(op, data)
         \/ \E op \in Op, expected \in EntityState, anchor \in ArchiveReceipt :
              PrepareRecall(op, expected, anchor)
  PROVE  \A s \in Documents' : Effects(s)
<1>1. ASSUME NEW op \in Op, NEW data \in DataKey, PrepareArchive(op, data)
      PROVE  \A s \in Documents' : Effects(s)
  <2> DEFINE error == PrepareArchiveError(mem, data)
             view == NewView(mem, data, fresh)
             next == [mem EXCEPT !.views = @ \cup {[op |-> op, view |-> view]}]
  <2>1. fresh \in Id /\ Step(op, "prepare_archive", data, error, view, next)
    BY <1>1 DEF PrepareArchive
  <2>2. DocTyped(mem)
    BY <2>1, MemEffects DEF Step
  <2>3. ASSUME error = "none" PROVE DocTyped(next) /\ view \in ValueOf("prepare_archive")
    BY <2>1, <2>2, <2>3, PinnedTyped DEF ValueOf
  <2>4. next.steps = mem.steps /\ next.completed = mem.completed
    BY <2>2 DEF DocTyped, State
  <2>5. data \in Request
    BY DEF Request
  <2> HIDE DEF error, next, view
  <2>6. error = "none" => Records(op, "prepare_archive", view, next, data, ReleaseIt)
    BY <2>3, <2>4 DEF Records, CommitSteps
  <2> QED
    BY <2>1, <2>5, <2>6, StepEffects DEF StepName
<1>2. ASSUME NEW op \in Op, NEW expected \in EntityState, NEW anchor \in ArchiveReceipt,
             PrepareRecall(op, expected, anchor)
      PROVE  \A s \in Documents' : Effects(s)
  <2> DEFINE error == PrepareRecallError(mem, expected, anchor)
             target == NewTarget(expected, anchor, fresh)
             owner == [op |-> op, target |-> target, anchor |-> anchor]
             next == [mem EXCEPT !.recalls = @ \cup {owner}]
             request == [expected |-> expected, anchor |-> anchor]
  <2>1. fresh \in Id /\ Step(op, "prepare_recall", request, error, target, next)
    BY <1>2 DEF PrepareRecall
  <2>2. DocTyped(mem)
    BY <2>1, MemEffects DEF Step
  <2>3. DocTyped(next) /\ target \in ValueOf("prepare_recall")
    BY <2>1, <2>2, RequestedTyped DEF ValueOf
  <2>4. next.steps = mem.steps /\ next.completed = mem.completed
    BY <2>2 DEF DocTyped, State
  <2>5. request \in Request
    BY DEF Request
  <2> HIDE DEF error, next, target, request
  <2>6. error = "none" => Records(op, "prepare_recall", target, next, expected.data, ReleaseIt)
    BY <2>3, <2>4 DEF Records, CommitSteps
  <2> QED
    BY <2>1, <2>5, <2>6, StepEffects DEF StepName
<1> QED
  BY <1>1, <1>2

\* Operations that store no step.
LEMMA OtherCallsEffects ==
  ASSUME EffectsInv, (\E e \in Entity, c \in Content : Import(e, c)) \/ CollectGarbage
  PROVE  \A s \in Documents' : Effects(s)
<1>1. ASSUME NEW e \in Entity, NEW c \in Content, Import(e, c)
      PROVE  \A s \in Documents' : Effects(s)
  <2> DEFINE next == [mem EXCEPT !.entities[e] = [public |-> Imported(e, c), published |-> fresh]]
  <2>1. Healthy /\ Persist(next, {})
    BY <1>1 DEF Import
  <2>2. Effects(mem) /\ next.steps = mem.steps /\ next.completed = mem.completed
    BY <2>1, MemEffects DEF DocTyped, State
  <2> HIDE DEF next
  <2>3. Effects(next)
    BY <2>2, QuietEffects
  <2> QED
    BY <2>1, <2>3, PersistEffects
<1>2. ASSUME CollectGarbage
      PROVE  \A s \in Documents' : Effects(s)
  <2> DEFINE next == [mem EXCEPT !.gc = {}]
  <2>1. Healthy /\ Persist(next, {})
    BY <1>2 DEF CollectGarbage
  <2>2. Effects(mem) /\ next.steps = mem.steps /\ next.completed = mem.completed
    BY <2>1, MemEffects DEF DocTyped, State
  <2> HIDE DEF next
  <2>3. Effects(next)
    BY <2>2, QuietEffects
  <2> QED
    BY <2>1, <2>3, PersistEffects
<1> QED
  BY <1>1, <1>2

LEMMA EffectsKept == EffectsInv /\ [Next]_vars => EffectsInv'
<1> SUFFICES ASSUME EffectsInv, [Next]_vars PROVE \A s \in Documents' : Effects(s)
  BY NextSafe DEF EffectsInv
<1>1. /\ Issued(mem, "prepare_archive") \subseteq DataView
      /\ Issued(mem, "prepare_recall") \subseteq RecallTarget
      /\ Observed(mem) \subseteq EntityState
  BY ObservedTyped DEF EffectsInv, StorageInv, TypeOK, DocTyped
<1>2. Receipt \subseteq ArchiveReceipt /\ AskedData \subseteq DataKey
  BY StorageAssumption
<1>3. CASE Documents' \subseteq Documents
  BY <1>3 DEF EffectsInv
<1>4. ASSUME NEW op \in Op,
             \/ \E data \in AskedData : PrepareArchive(op, data)
             \/ \E expected \in Observed(mem), anchor \in Receipt :
                  PrepareRecall(op, expected, anchor)
      PROVE  \A s \in Documents' : Effects(s)
  BY <1>1, <1>2, <1>4, PrepareEffects
<1>5. ASSUME NEW op \in Op, NEW view \in Issued(mem, "prepare_archive"),
             NEW receipt \in Receipt, CommitArchive(op, view, receipt)
      PROVE  \A s \in Documents' : Effects(s)
  BY <1>1, <1>2, <1>5, CommitArchiveEffects
<1>6. ASSUME NEW op \in Op, NEW expected \in Observed(mem), Release(op, expected)
      PROVE  \A s \in Documents' : Effects(s)
  BY <1>1, <1>6, ReleaseEffects
<1>7. ASSUME NEW op \in Op, NEW target \in Issued(mem, "prepare_recall"), NEW evidence \in Content,
             \/ CommitRecallRefused(op, target, evidence)
             \/ CommitRecall(op, target, evidence)
             \/ CommitRecallSealUncertain(op, target, evidence)
      PROVE  \A s \in Documents' : Effects(s)
  <2>1. CASE CommitRecallRefused(op, target, evidence)
    BY <1>1, <2>1, CommitRecallRefusedEffects
  <2>2. CASE CommitRecall(op, target, evidence)
    BY <1>1, <2>2, CommitRecallEffects
  <2>3. CASE CommitRecallSealUncertain(op, target, evidence)
    BY <1>3, <2>3 DEF CommitRecallSealUncertain, docs, Documents
  <2> QED
    BY <1>7, <2>1, <2>2, <2>3
<1>8. ASSUME NEW op \in Op, NEW name \in StepName, NEW request, Replay(op, name, request)
      PROVE  \A s \in Documents' : Effects(s)
  BY <1>3, <1>8 DEF Replay, Documents
<1>9. CASE \/ \E e \in Entity, c \in Content : Import(e, c)
         \/ CollectGarbage
  BY <1>9, OtherCallsEffects
<1>10. CASE CollectGarbageStops
  BY <1>3, <1>10 DEF CollectGarbageStops, docs, Documents
<1>11. CASE Mover
  BY <1>3, <1>11 DEF Mover, BeginRead, BeginWrite, EndSession, WriteBytes, docs, Documents
<1>12. CASE Close \/ Crash \/ PowerLoss \/ Reopen
  BY <1>3, <1>12 DEF Close, Crash, PowerLoss, Reopen, docs, Documents
<1>13. CASE UNCHANGED vars
  BY <1>3, <1>13 DEF vars, Documents
<1>14. CASE Call
  BY <1>4, <1>5, <1>6, <1>7, <1>8, <1>9, <1>10, <1>14 DEF Call
<1> QED
  BY <1>11, <1>12, <1>13, <1>14 DEF Next

LEMMA EffectsStart == Init => EffectsInv
BY InitSafe DEF Init, EffectsInv, Effects, OneEffect, Documents, EmptyState, Succeeded,
                CommitSteps, StepName

(***************************************************************************)
(* An operation ID takes effect at most once, in whatever order its three  *)
(* committing steps are tried, repeated and interrupted: completed names   *)
(* the one that succeeded, with its state, in the document any restart     *)
(* reads.                                                                  *)
(***************************************************************************)
THEOREM EffectsAreUnique == Spec => []OneEffectPerOperation
<1>1. Init => EffectsInv
  BY EffectsStart
<1>2. EffectsInv => OneEffectPerOperation
  BY DEF EffectsInv, Effects, OneEffect, OneEffectPerOperation
<1> QED
  BY <1>1, <1>2, EffectsKept, PTL DEF Spec

-----------------------------------------------------------------------------
(* Revisions.  Callers hold what committing steps have returned and what   *)
(* inspect has shown; the invariant ties each of those to the entity as it *)
(* is now.                                                                 *)

\* An entity is observed under its own name, and import made its first state.
Numbered(s, e) ==
  LET public == s.entities[e].public
  IN /\ public.data.entity = e
     /\ public.revision >= 1
     /\ public.revision = 1 => public = Imported(e, public.content)

\* x is the state of its entity, or an earlier one.
Past(s, x) ==
  LET public == s.entities[x.data.entity].public
  IN Exists(s, x.data.entity) /\ (x.revision < public.revision \/ x = public)

Revised(s) ==
  /\ \A e \in Entity : Exists(s, e) => Numbered(s, e)
  /\ \A op \in Op, n \in CommitSteps :
       Succeeded(s, op, n) => Past(s, s.steps[<<op, n>>].value)

RevisionsInv == StorageInv /\ \A s \in Documents : Revised(s)

LEMMA MemRevised ==
  ASSUME RevisionsInv, Healthy
  PROVE  Revised(mem) /\ DocTyped(mem)
BY DEF RevisionsInv, StorageInv, Coherent, Documents, TypeOK, DocTyped

LEMMA PersistRevised ==
  ASSUME RevisionsInv, NEW next, NEW answers, Persist(next, answers), Revised(next)
  PROVE  \A s \in Documents' : Revised(s)
<1>1. \A s \in Documents : Revised(s)
  BY DEF RevisionsInv
<1>2. CASE PersistOk(next, answers)
  BY <1>2 DEF PersistOk, Documents
<1>3. CASE PersistUnsynced(next)
  BY <1>1, <1>3 DEF PersistUnsynced, Documents
<1>4. CASE PersistFailed
  BY <1>1, <1>4 DEF PersistFailed, Documents
<1> QED
  BY <1>2, <1>3, <1>4 DEF Persist

LEMMA CommitStepNames == CommitSteps \subseteq StepName
BY DEF CommitSteps, StepName

LEMMA CommittedTyped ==
  ASSUME NEW s, DocTyped(s), NEW op \in Op, NEW n \in CommitSteps, Succeeded(s, op, n)
  PROVE  s.steps[<<op, n>>].value \in EntityState
<1>1. n \in StepName
  BY CommitStepNames
<1>2. s.steps[<<op, n>>].value \in ValueOf(n)
  BY <1>1 DEF DocTyped, StepsTyped
<1> QED
  BY <1>2 DEF ValueOf, CommitSteps

\* A step that moves no entity and is not the success of a committing one.
LEMMA QuietRevised ==
  ASSUME NEW s, Revised(s), NEW after, after.entities = s.entities,
         \A o \in Op, n \in CommitSteps :
           after.steps[<<o, n>>] = s.steps[<<o, n>>] \/ ~Succeeded(after, o, n)
  PROVE  Revised(after)
<1>1. \A e \in Entity : Exists(after, e) => Numbered(after, e)
  BY DEF Revised, Exists, Numbered
<1>2. ASSUME NEW o \in Op, NEW n \in CommitSteps, Succeeded(after, o, n)
      PROVE  Past(after, after.steps[<<o, n>>].value)
  <2>1. after.steps[<<o, n>>] = s.steps[<<o, n>>]
    BY <1>2
  <2>2. Past(s, s.steps[<<o, n>>].value)
    BY <1>2, <2>1 DEF Revised, Succeeded
  <2> QED
    BY <2>1, <2>2 DEF Past, Exists
<1> QED
  BY <1>1, <1>2 DEF Revised

\* What a step that succeeds does to the entities: a committing one moves its
\* own to the next revision and returns that, the others move none.
Advances(name, value, next) ==
  /\ DocTyped(next) /\ next.steps = mem.steps
  /\ IF name \in CommitSteps
       THEN LET e == value.data.entity
            IN /\ value \in EntityState /\ Exists(mem, e)
               /\ value.revision = mem.entities[e].public.revision + 1
               /\ next.entities[e] # NoEntity /\ next.entities[e].public = value
               /\ \A f \in Entity : f # e => next.entities[f] = mem.entities[f]
       ELSE next.entities = mem.entities

LEMMA CommitRevised ==
  ASSUME DocTyped(mem), Revised(mem), NEW op \in Op, NEW name \in CommitSteps,
         NEW value, NEW next, Advances(name, value, next),
         NEW after, after.entities = next.entities,
         after.steps[<<op, name>>].value = value,
         \A o \in Op, n \in CommitSteps : <<o, n>> # <<op, name>> =>
           after.steps[<<o, n>>] = mem.steps[<<o, n>>]
  PROVE  Revised(after)
<1> DEFINE e == value.data.entity
           old == mem.entities[e].public
<1>1. /\ value \in EntityState /\ Exists(mem, e) /\ value.revision = old.revision + 1
      /\ Exists(after, e) /\ after.entities[e].public = value
      /\ \A f \in Entity : f # e => after.entities[f] = mem.entities[f]
  BY DEF Advances, Exists
<1>2. e \in Entity /\ value.revision \in Nat
  BY <1>1 DEF EntityState, DataKey
<1>3. old.revision \in Nat /\ old.revision >= 1
  BY <1>1, <1>2, EntityTyped DEF Revised, Numbered, Exists, EntityState
<1> HIDE DEF e, old
<1>4. Numbered(after, e)
  BY <1>1, <1>2, <1>3 DEF Numbered, e
<1>5. ASSUME NEW f \in Entity, Exists(after, f) PROVE Numbered(after, f)
  <2>1. CASE f = e
    BY <1>4, <2>1
  <2>2. CASE f # e
    BY <1>1, <1>5, <2>2 DEF Revised, Numbered, Exists
  <2> QED
    BY <2>1, <2>2
<1>6. ASSUME NEW x \in EntityState, Past(mem, x) PROVE Past(after, x)
  <2>1. x.data.entity \in Entity /\ x.revision \in Nat
    BY DEF EntityState, DataKey
  <2>2. CASE x.data.entity = e
    <3>1. x.revision < old.revision \/ x = old
      BY <1>6, <2>2 DEF Past, old
    <3>2. x.revision < value.revision
      BY <1>1, <1>3, <2>1, <3>1
    <3> QED
      BY <1>1, <2>2, <3>2 DEF Past
  <2>3. CASE x.data.entity # e
    BY <1>1, <1>6, <2>1, <2>3 DEF Past, Exists
  <2> QED
    BY <2>2, <2>3
<1>7. Past(after, value)
  BY <1>1 DEF Past, e
<1>8. ASSUME NEW o \in Op, NEW n \in CommitSteps, Succeeded(after, o, n)
      PROVE  Past(after, after.steps[<<o, n>>].value)
  <2>1. CASE <<o, n>> = <<op, name>>
    BY <1>7, <2>1
  <2>2. CASE <<o, n>> # <<op, name>>
    <3>1. after.steps[<<o, n>>] = mem.steps[<<o, n>>]
      BY <2>2
    <3>2. Succeeded(mem, o, n)
      BY <1>8, <3>1 DEF Succeeded
    <3>3. Past(mem, mem.steps[<<o, n>>].value) /\ mem.steps[<<o, n>>].value \in EntityState
      BY <3>2, CommittedTyped DEF Revised
    <3> QED
      BY <1>6, <3>1, <3>3
  <2> QED
    BY <2>1, <2>2
<1> QED
  BY <1>5, <1>8 DEF Revised

LEMMA StepRevised ==
  ASSUME RevisionsInv, NEW op \in Op, NEW name \in StepName, NEW request, NEW error,
         NEW value, NEW next, Step(op, name, request, error, value, next),
         error = "none" => Advances(name, value, next)
  PROVE  \A s \in Documents' : Revised(s)
<1> DEFINE after == AfterStep(mem, op, name, request, error, value, next)
           answers == {[op |-> op, name |-> name, saved |-> after.steps[<<op, name>>]]}
<1>1. Healthy /\ Persist(after, answers)
  BY DEF Step
<1>2. Revised(mem) /\ DocTyped(mem)
  BY <1>1, MemRevised
<1>3. /\ after.steps[<<op, name>>].error = error
      /\ error = "none" => after.steps[<<op, name>>].value = value
      /\ \A o \in Op, n \in StepName : <<o, n>> # <<op, name>> =>
           after.steps[<<o, n>>] = mem.steps[<<o, n>>]
      /\ after.entities = IF error = "none" THEN next.entities ELSE mem.entities
  BY <1>2, StepStored DEF Advances
<1> HIDE DEF after, answers
<1>4. \A o \in Op, n \in CommitSteps : <<o, n>> # <<op, name>> =>
        after.steps[<<o, n>>] = mem.steps[<<o, n>>]
  BY <1>3, CommitStepNames
<1>5. CASE error = "none" /\ name \in CommitSteps
  <2>1. /\ after.entities = next.entities /\ after.steps[<<op, name>>].value = value
        /\ Advances(name, value, next) /\ name \in CommitSteps
    BY <1>3, <1>5
  <2>2. Revised(after)
    BY <1>2, <1>4, <2>1, CommitRevised
  <2> QED
    BY <1>1, <2>2, PersistRevised
<1>6. CASE ~(error = "none" /\ name \in CommitSteps)
  <2>1. after.entities = mem.entities
    BY <1>3, <1>6 DEF Advances
  <2>2. ASSUME NEW o \in Op, NEW n \in CommitSteps
        PROVE  after.steps[<<o, n>>] = mem.steps[<<o, n>>] \/ ~Succeeded(after, o, n)
    <3>1. CASE <<o, n>> = <<op, name>>
      BY <1>3, <1>6, <3>1 DEF Succeeded
    <3>2. CASE <<o, n>> # <<op, name>>
      BY <1>4, <3>2
    <3> QED
      BY <3>1, <3>2
  <2>3. Revised(after)
    BY <1>2, <2>1, <2>2, QuietRevised
  <2> QED
    BY <1>1, <2>3, PersistRevised
<1> QED
  BY <1>5, <1>6

-----------------------------------------------------------------------------

LEMMA CommitArchiveRevised ==
  ASSUME RevisionsInv, NEW op \in Op, NEW view \in DataView, NEW receipt \in ArchiveReceipt,
         CommitArchive(op, view, receipt)
  PROVE  \A s \in Documents' : Revised(s)
<1> DEFINE error == CommitArchiveError(mem, op, view, receipt)
           next == IF error = "none" THEN CommittedArchive(mem, op, view, receipt) ELSE mem
           value == IF error = "none" THEN Archived(mem, view, receipt) ELSE NoValue
           request == [view |-> view, receipt |-> receipt]
           e == view.data.entity
<1>1. Step(op, "commit_archive", request, error, value, next)
  BY DEF CommitArchive
<1>2. DocTyped(mem) /\ Revised(mem) /\ e \in Entity
  BY <1>1, MemRevised DEF Step, DataView, DataKey
<1>3. ASSUME error = "none" PROVE Advances("commit_archive", value, next)
  <2>1. mem.entities[e] # NoEntity
    BY <1>3 DEF CommitArchiveError, EntityError
  <2>2. next = CommittedArchive(mem, op, view, receipt) /\ value = Archived(mem, view, receipt)
    BY <1>3
  <2>3. /\ value.data = mem.entities[e].public.data
        /\ value.revision = mem.entities[e].public.revision + 1
    BY <2>2 DEF Archived, Moved
  <2> HIDE DEF error, next, value
  <2>4. DocTyped(next) /\ next.steps = mem.steps /\ value \in EntityState
    BY <1>2, <2>1, <2>2, CommittedArchiveTyped, ArchivedTyped
  <2>5. /\ next.entities[e].public = value /\ next.entities[e] # NoEntity
        /\ \A f \in Entity : f # e => next.entities[f] = mem.entities[f]
    BY <1>2, <2>1, <2>2, CommittedArchiveParts, MarkerAssumption DEF Exists
  <2>6. value.data.entity = e
    BY <1>2, <2>1, <2>3 DEF Revised, Numbered, Exists
  <2> HIDE DEF e
  <2> QED
    BY <2>1, <2>3, <2>4, <2>5, <2>6 DEF Advances, CommitSteps, Exists
<1> HIDE DEF error, next, value, request
<1> QED
  BY <1>1, <1>3, StepRevised DEF StepName

LEMMA ReleaseRevised ==
  ASSUME RevisionsInv, NEW op \in Op, NEW expected \in EntityState, Release(op, expected)
  PROVE  \A s \in Documents' : Revised(s)
<1> DEFINE error == ReleaseError(mem, op, expected)
           next == IF error = "none" THEN CommittedRelease(mem, op, expected) ELSE mem
           value == Released(expected)
           e == expected.data.entity
<1>1. Step(op, "release", expected, error, value, next)
  BY DEF Release
<1>2. DocTyped(mem) /\ e \in Entity
  BY <1>1, MemRevised DEF Step, EntityState, DataKey
<1>3. ASSUME error = "none" PROVE Advances("release", value, next)
  <2>1. /\ Exists(mem, e) /\ ~Offline(mem, e) /\ mem.entities[e].public = expected
    BY <1>3 DEF ReleaseError, EntityError, Exists, Offline
  <2>2. next = CommittedRelease(mem, op, expected)
    BY <1>3
  <2>3. /\ value.data.entity = e /\ value.revision = mem.entities[e].public.revision + 1
        /\ value \in EntityState
    BY <2>1, ReleasedTyped DEF Released, Moved
  <2> HIDE DEF error, next
  <2>4. DocTyped(next) /\ next.steps = mem.steps
    BY <1>2, <2>1, <2>2, CommittedReleaseTyped DEF Exists, Offline
  <2>5. /\ next.entities[e] = [public |-> value, published |-> NoLayout]
        /\ \A f \in Entity : f # e => next.entities[f] = mem.entities[f]
    BY <1>2, <2>1, <2>2, CommittedReleaseParts
  <2>6. next.entities[e].public = value /\ next.entities[e] # NoEntity
    BY <2>3, <2>5, MarkerAssumption DEF EntityRecord
  <2> HIDE DEF e, value
  <2> QED
    BY <2>1, <2>3, <2>4, <2>5, <2>6 DEF Advances, CommitSteps
<1> HIDE DEF error, next, value
<1> QED
  BY <1>1, <1>3, StepRevised DEF StepName

LEMMA CommitRecallRevised ==
  ASSUME RevisionsInv, NEW op \in Op, NEW target \in RecallTarget, NEW evidence \in Content,
         CommitRecall(op, target, evidence)
  PROVE  \A s \in Documents' : Revised(s)
<1> DEFINE request == RecallRequest(target, evidence)
           error == FinishError(mem, op, target.data, RecallFrom(target.archive))
           next == CommittedRecall(mem, op, target)
           value == Recalled(mem, target)
           e == target.data.entity
<1>1. /\ VerifyRecallError(mem, op, target, evidence) = "none"
      /\ Step(op, "commit_recall", request, error, value, next)
  BY DEF CommitRecall
<1>2. DocTyped(mem) /\ Revised(mem) /\ e \in Entity /\ mem.entities[e] # NoEntity
  BY <1>1, MemRevised, VerifiedRecall DEF Step, RecallTarget, DataKey
<1>3. /\ value.data = mem.entities[e].public.data
      /\ value.revision = mem.entities[e].public.revision + 1
  BY DEF Recalled, Moved
<1>4. DocTyped(next) /\ next.steps = mem.steps /\ value \in EntityState
  BY <1>2, CommittedRecallTyped, RecalledTyped
<1>5. /\ next.entities[e] = [public |-> value, published |-> target.layout_id]
      /\ \A f \in Entity : f # e => next.entities[f] = mem.entities[f]
  BY <1>2, CommittedRecallParts DEF Exists
<1> HIDE DEF request, error, next, value
<1>6. next.entities[e].public = value /\ next.entities[e] # NoEntity
  BY <1>4, <1>5, MarkerAssumption DEF EntityRecord, RecallTarget
<1>7. value.data.entity = e
  BY <1>2, <1>3 DEF Revised, Numbered, Exists
<1> HIDE DEF e
<1>8. Advances("commit_recall", value, next)
  BY <1>2, <1>3, <1>4, <1>5, <1>6, <1>7 DEF Advances, CommitSteps, Exists
<1> QED
  BY <1>1, <1>8, StepRevised DEF StepName

\* Steps that move no entity: a refused recall and the preparations.
LEMMA OtherStepsRevised ==
  ASSUME RevisionsInv,
         \/ \E op \in Op, target \in RecallTarget, evidence \in Content :
              CommitRecallRefused(op, target, evidence)
         \/ \E op \in Op, data \in DataKey : PrepareArchive(op, data)
         \/ \E op \in Op, expected \in EntityState, anchor \in ArchiveReceipt :
              PrepareRecall(op, expected, anchor)
  PROVE  \A s \in Documents' : Revised(s)
<1>1. ASSUME NEW op \in Op, NEW target \in RecallTarget, NEW evidence \in Content,
             CommitRecallRefused(op, target, evidence)
      PROVE  \A s \in Documents' : Revised(s)
  <2> DEFINE error == VerifyRecallError(mem, op, target, evidence)
             request == RecallRequest(target, evidence)
  <2>1. error # "none" /\ Step(op, "commit_recall", request, error, NoValue, mem)
    BY <1>1 DEF CommitRecallRefused, SavedFailure
  <2> HIDE DEF error, request
  <2> QED
    BY <2>1, StepRevised DEF StepName
<1>2. ASSUME NEW op \in Op, NEW data \in DataKey, PrepareArchive(op, data)
      PROVE  \A s \in Documents' : Revised(s)
  <2> DEFINE error == PrepareArchiveError(mem, data)
             view == NewView(mem, data, fresh)
             next == [mem EXCEPT !.views = @ \cup {[op |-> op, view |-> view]}]
  <2>1. fresh \in Id /\ Step(op, "prepare_archive", data, error, view, next)
    BY <1>2 DEF PrepareArchive
  <2>2. DocTyped(mem)
    BY <2>1, MemRevised DEF Step
  <2>3. error = "none" => DocTyped(next)
    BY <2>1, <2>2, PinnedTyped
  <2>4. next.steps = mem.steps /\ next.entities = mem.entities
    BY <2>2 DEF DocTyped, State
  <2> HIDE DEF error, next, view
  <2>5. error = "none" => Advances("prepare_archive", view, next)
    BY <2>3, <2>4 DEF Advances, CommitSteps
  <2> QED
    BY <2>1, <2>5, StepRevised DEF StepName
<1>3. ASSUME NEW op \in Op, NEW expected \in EntityState, NEW anchor \in ArchiveReceipt,
             PrepareRecall(op, expected, anchor)
      PROVE  \A s \in Documents' : Revised(s)
  <2> DEFINE error == PrepareRecallError(mem, expected, anchor)
             target == NewTarget(expected, anchor, fresh)
             owner == [op |-> op, target |-> target, anchor |-> anchor]
             next == [mem EXCEPT !.recalls = @ \cup {owner}]
             request == [expected |-> expected, anchor |-> anchor]
  <2>1. fresh \in Id /\ Step(op, "prepare_recall", request, error, target, next)
    BY <1>3 DEF PrepareRecall
  <2>2. DocTyped(mem)
    BY <2>1, MemRevised DEF Step
  <2>3. DocTyped(next)
    BY <2>1, <2>2, RequestedTyped
  <2>4. next.steps = mem.steps /\ next.entities = mem.entities
    BY <2>2 DEF DocTyped, State
  <2> HIDE DEF error, next, target, request
  <2>5. Advances("prepare_recall", target, next)
    BY <2>3, <2>4 DEF Advances, CommitSteps
  <2> QED
    BY <2>1, <2>5, StepRevised DEF StepName
<1> QED
  BY <1>1, <1>2, <1>3

\* Nobody has been told a state of an entity that does not exist.
LEMMA ImportRevised ==
  ASSUME RevisionsInv, NEW e \in Entity, NEW c \in Content, Import(e, c)
  PROVE  \A s \in Documents' : Revised(s)
<1> DEFINE record == [public |-> Imported(e, c), published |-> fresh]
           next == [mem EXCEPT !.entities[e] = record]
<1>1. Healthy /\ mem.entities[e] = NoEntity /\ Persist(next, {})
  BY DEF Import
<1>2. DocTyped(mem) /\ Revised(mem)
  BY <1>1, MemRevised
<1>3. /\ next.steps = mem.steps /\ next.entities[e] = record
      /\ \A f \in Entity : f # e => next.entities[f] = mem.entities[f]
  BY <1>2 DEF DocTyped, State
<1>4. /\ record.public = Imported(e, c) /\ Imported(e, c).revision = 1
      /\ Imported(e, c).data.entity = e /\ Imported(e, c).content = c
  BY DEF Imported
<1> HIDE DEF next, record
<1>5. Numbered(next, e)
  BY <1>3, <1>4 DEF Numbered
<1>6. ASSUME NEW f \in Entity, Exists(next, f) PROVE Numbered(next, f)
  <2>1. CASE f = e
    BY <1>5, <2>1
  <2>2. CASE f # e
    BY <1>2, <1>3, <1>6, <2>2 DEF Revised, Numbered, Exists
  <2> QED
    BY <2>1, <2>2
<1>7. ASSUME NEW o \in Op, NEW n \in CommitSteps, Succeeded(next, o, n)
      PROVE  Past(next, next.steps[<<o, n>>].value)
  <2> DEFINE x == mem.steps[<<o, n>>].value
  <2>1. Succeeded(mem, o, n)
    BY <1>3, <1>7 DEF Succeeded
  <2>2. Past(mem, x) /\ x.data.entity \in Entity
    BY <1>2, <2>1, CommittedTyped DEF Revised, EntityState, DataKey
  <2>3. x.data.entity # e
    BY <1>1, <2>2 DEF Past, Exists
  <2> QED
    BY <1>3, <2>2, <2>3 DEF Past, Exists
<1>8. Revised(next)
  BY <1>6, <1>7 DEF Revised
<1> QED
  BY <1>1, <1>8, PersistRevised

LEMMA CollectGarbageRevised ==
  ASSUME RevisionsInv, CollectGarbage
  PROVE  \A s \in Documents' : Revised(s)
<1> DEFINE next == [mem EXCEPT !.gc = {}]
<1>1. Healthy /\ Persist(next, {})
  BY DEF CollectGarbage
<1>2. Revised(mem) /\ next.steps = mem.steps /\ next.entities = mem.entities
  BY <1>1, MemRevised DEF DocTyped, State
<1> HIDE DEF next
<1>3. Revised(next)
  BY <1>2, QuietRevised
<1> QED
  BY <1>1, <1>3, PersistRevised

LEMMA RevisionsKept == RevisionsInv /\ [Next]_vars => RevisionsInv'
<1> SUFFICES ASSUME RevisionsInv, [Next]_vars PROVE \A s \in Documents' : Revised(s)
  BY NextSafe DEF RevisionsInv
<1>1. /\ Issued(mem, "prepare_archive") \subseteq DataView
      /\ Issued(mem, "prepare_recall") \subseteq RecallTarget
      /\ Observed(mem) \subseteq EntityState
  BY ObservedTyped DEF RevisionsInv, StorageInv, TypeOK, DocTyped
<1>2. Receipt \subseteq ArchiveReceipt /\ AskedData \subseteq DataKey
  BY StorageAssumption
<1>3. CASE Documents' \subseteq Documents
  BY <1>3 DEF RevisionsInv
<1>4. ASSUME NEW op \in Op,
             \/ \E data \in AskedData : PrepareArchive(op, data)
             \/ \E expected \in Observed(mem), anchor \in Receipt :
                  PrepareRecall(op, expected, anchor)
      PROVE  \A s \in Documents' : Revised(s)
  BY <1>1, <1>2, <1>4, OtherStepsRevised
<1>5. ASSUME NEW op \in Op, NEW view \in Issued(mem, "prepare_archive"),
             NEW receipt \in Receipt, CommitArchive(op, view, receipt)
      PROVE  \A s \in Documents' : Revised(s)
  BY <1>1, <1>2, <1>5, CommitArchiveRevised
<1>6. ASSUME NEW op \in Op, NEW expected \in Observed(mem), Release(op, expected)
      PROVE  \A s \in Documents' : Revised(s)
  BY <1>1, <1>6, ReleaseRevised
<1>7. ASSUME NEW op \in Op, NEW target \in Issued(mem, "prepare_recall"), NEW evidence \in Content,
             \/ CommitRecallRefused(op, target, evidence)
             \/ CommitRecall(op, target, evidence)
             \/ CommitRecallSealUncertain(op, target, evidence)
      PROVE  \A s \in Documents' : Revised(s)
  <2>1. CASE CommitRecallRefused(op, target, evidence)
    BY <1>1, <2>1, OtherStepsRevised
  <2>2. CASE CommitRecall(op, target, evidence)
    BY <1>1, <2>2, CommitRecallRevised
  <2>3. CASE CommitRecallSealUncertain(op, target, evidence)
    BY <1>3, <2>3 DEF CommitRecallSealUncertain, docs, Documents
  <2> QED
    BY <1>7, <2>1, <2>2, <2>3
<1>8. ASSUME NEW op \in Op, NEW name \in StepName, NEW request, Replay(op, name, request)
      PROVE  \A s \in Documents' : Revised(s)
  BY <1>3, <1>8 DEF Replay, Documents
<1>9. CASE \E e \in Entity, c \in Content : Import(e, c)
  BY <1>9, ImportRevised
<1>10. CASE CollectGarbage
  BY <1>10, CollectGarbageRevised
<1>11. CASE CollectGarbageStops
  BY <1>3, <1>11 DEF CollectGarbageStops, docs, Documents
<1>12. CASE Mover
  BY <1>3, <1>12 DEF Mover, BeginRead, BeginWrite, EndSession, WriteBytes, docs, Documents
<1>13. CASE Close \/ Crash \/ PowerLoss \/ Reopen
  BY <1>3, <1>13 DEF Close, Crash, PowerLoss, Reopen, docs, Documents
<1>14. CASE UNCHANGED vars
  BY <1>3, <1>14 DEF vars, Documents
<1>15. CASE Call
  BY <1>4, <1>5, <1>6, <1>7, <1>8, <1>9, <1>10, <1>11, <1>15 DEF Call
<1> QED
  BY <1>12, <1>13, <1>14, <1>15 DEF Next

LEMMA RevisedIdentifies ==
  ASSUME NEW s, DocTyped(s), Revised(s), NEW x \in Observed(s),
         NEW f \in Entity, Exists(s, f), x.data.entity = s.entities[f].public.data.entity
  PROVE  LET y == s.entities[f].public
         IN x.revision <= y.revision /\ (x.revision = y.revision => x = y)
<1> DEFINE y == s.entities[f].public
<1>1. Numbered(s, f) /\ y.revision \in Nat
  BY EntityTyped DEF Revised, Exists, EntityState
<1>2. x.data.entity = f
  BY <1>1 DEF Numbered
<1>3. ASSUME NEW e \in Entity, x = Imported(e, s.entities[e].public.content)
      PROVE  x.revision <= y.revision /\ (x.revision = y.revision => x = y)
  <2>1. x.revision = 1 /\ e = f
    BY <1>2, <1>3 DEF Imported
  <2> QED
    BY <1>1, <1>3, <2>1 DEF Numbered
<1>4. ASSUME NEW n \in CommitSteps, x \in Issued(s, n)
      PROVE  x.revision <= y.revision /\ (x.revision = y.revision => x = y)
  <2>1. PICK op \in Op : Succeeded(s, op, n) /\ x = s.steps[<<op, n>>].value
    BY <1>4 DEF Issued
  <2>2. Past(s, x) /\ x.revision \in Nat
    BY <2>1, CommittedTyped DEF Revised, EntityState
  <2>3. x.revision < y.revision \/ x = y
    BY <1>2, <2>2 DEF Past
  <2> QED
    BY <1>1, <2>2, <2>3
<1>5. \/ \E e \in Entity : x = Imported(e, s.entities[e].public.content)
      \/ \E n \in CommitSteps : x \in Issued(s, n)
  BY DEF Observed, CommitSteps
<1> QED
  BY <1>3, <1>4, <1>5

LEMMA RevisionsStart == Init => RevisionsInv
<1>1. Init => Documents = {EmptyState}
  BY DEF Init, Documents
<1>2. Revised(EmptyState)
  BY CommitStepNames DEF EmptyState, Revised, Succeeded, Exists
<1> QED
  BY <1>1, <1>2, InitSafe DEF RevisionsInv

(***************************************************************************)
(* Every state a caller can name is the present one or has a smaller       *)
(* revision, whatever happened in between, so the comparison of expected   *)
(* in release and prepare_recall never takes an older state for it.        *)
(***************************************************************************)
THEOREM RevisionsIdentify == Spec => []RevisionIdentifies
<1>1. Init => RevisionsInv
  BY RevisionsStart
<1>2. RevisionsInv => RevisionIdentifies
  <2> SUFFICES ASSUME RevisionsInv, NEW s \in Documents, NEW x \in Observed(s),
                      NEW f \in Entity, Exists(s, f),
                      x.data.entity = s.entities[f].public.data.entity
               PROVE  LET y == s.entities[f].public
                      IN x.revision <= y.revision /\ (x.revision = y.revision => x = y)
    BY DEF RevisionIdentifies
  <2>1. DocTyped(s) /\ Revised(s)
    BY DEF RevisionsInv, StorageInv, Documents, TypeOK, DocTyped
  <2> QED
    BY <2>1, RevisedIdentifies
<1> QED
  BY <1>1, <1>2, RevisionsKept, PTL DEF Spec

-----------------------------------------------------------------------------
(***************************************************************************)
(* LocalStorage implements the contract of the trait, for every value of   *)
(* the constants.  What callers see of a document is a function of the     *)
(* document alone, because the bytes of a layout it publishes are those of *)
(* the entity; each operation takes that view from the document in memory  *)
(* to the document it persists by one step of the contract.  A document    *)
(* that is visible but not yet durable is such a step ahead of the durable *)
(* one, and the step is made when a reopen or a power loss settles it.     *)
(***************************************************************************)

Identity(s) ==
  [e \in Entity |-> IF Exists(s, e) THEN s.entities[e].public.content ELSE NoData]
Bytes(s) ==
  [e \in Entity |-> IF Exists(s, e) /\ ~Offline(s, e)
                      THEN s.entities[e].public.content ELSE NoData]
Anchored(s) ==
  [e \in Entity |-> IF Exists(s, e) THEN {a.key : a \in s.entities[e].public.anchors} ELSE {}]
EffectOf(s) ==
  [op \in Op |-> IF s.completed[op] = NoOutcome THEN NoOutcome
                 ELSE [kind |-> s.completed[op].action.kind,
                       entity |-> s.completed[op].data.entity]]

\* The actions of the contract, between two documents.
Stays(s, t) ==
  /\ Identity(t) = Identity(s) /\ Bytes(t) = Bytes(s)
  /\ Anchored(t) = Anchored(s) /\ EffectOf(t) = EffectOf(s)

Creates(s, t, e, c) ==
  /\ Identity(s)[e] = NoData
  /\ Identity(t) = [Identity(s) EXCEPT ![e] = c]
  /\ Bytes(t) = [Bytes(s) EXCEPT ![e] = c]
  /\ Anchored(t) = Anchored(s) /\ EffectOf(t) = EffectOf(s)

Effected(s, t, op, kind, e) ==
  /\ EffectOf(s)[op] = NoOutcome
  /\ EffectOf(t) = [EffectOf(s) EXCEPT ![op] = [kind |-> kind, entity |-> e]]
  /\ Identity(t) = Identity(s)

Archives(s, t, op, e, k) ==
  /\ Effected(s, t, op, "Archive", e)
  /\ Bytes(s)[e] # NoData
  /\ Anchored(t) = [Anchored(s) EXCEPT ![e] = @ \cup {k}]
  /\ Bytes(t) = Bytes(s)

Releases(s, t, op, e) ==
  /\ Effected(s, t, op, "Release", e)
  /\ Bytes(s)[e] # NoData /\ Anchored(s)[e] # {}
  /\ Bytes(t) = [Bytes(s) EXCEPT ![e] = NoData]
  /\ Anchored(t) = Anchored(s)

Recalls(s, t, op, e) ==
  /\ Effected(s, t, op, "Recall", e)
  /\ Identity(s)[e] # NoData /\ Bytes(s)[e] = NoData /\ Anchored(s)[e] # {}
  /\ Bytes(t) = [Bytes(s) EXCEPT ![e] = Identity(s)[e]]
  /\ Anchored(t) = Anchored(s)

Moves(s, t) ==
  \/ Stays(s, t)
  \/ \E e \in Entity, c \in Content : Creates(s, t, e, c)
  \/ \E op \in Op, e \in Entity :
       \/ \E k \in Key : Archives(s, t, op, e, k)
       \/ Releases(s, t, op, e)
       \/ Recalls(s, t, op, e)

RefineInv == EffectsInv /\ RevisionsInv /\ Moves(durable, disk)

-----------------------------------------------------------------------------
(* The contract's variables are those views of the durable document.       *)

LEMMA ServedBytes ==
  ASSUME NEW s, NEW dirs, NEW n, PublishedKept(s, dirs, n)
  PROVE  [e \in Entity |-> IF Exists(s, e) /\ ~Offline(s, e)
                             THEN dirs[s.entities[e].published].data ELSE NoData] = Bytes(s)
BY DEF PublishedKept, Bytes

LEMMA ContractStep ==
  ASSUME StorageInv, StorageInv', Moves(durable, durable')
  PROVE  [Contract!Next]_(Contract!contract)
<1>1. [e \in Entity |-> Served(durable, e)] = Bytes(durable)
  <2>1. PublishedKept(durable, layouts, fresh)
    BY DEF StorageInv, Sound, Documents
  <2> QED
    BY <2>1, ServedBytes DEF Served
<1>2. [e \in Entity |-> Served(durable, e)]' = Bytes(durable')
  <2>1. PublishedKept(durable', layouts', fresh')
    BY DEF StorageInv, Sound, Documents
  <2>2. [e \in Entity |-> IF Exists(durable', e) /\ ~Offline(durable', e)
                            THEN layouts'[durable'.entities[e].published].data ELSE NoData]
          = Bytes(durable')
    BY <2>1, ServedBytes
  <2> QED
    BY <2>2 DEF Served, Exists, Offline
<1>3. CASE Stays(durable, durable')
  BY <1>1, <1>2, <1>3 DEF Stays, Identity, Anchored, EffectOf, Contract!contract, Exists
<1>4. ASSUME NEW e \in Entity, NEW c \in Content, Creates(durable, durable', e, c)
      PROVE  Contract!Create(e, c)
  BY <1>1, <1>2, <1>4 DEF Creates, Identity, Anchored, EffectOf, Contract!Create, Exists
<1>5. ASSUME NEW op \in Op, NEW e \in Entity, NEW k \in Key,
             Archives(durable, durable', op, e, k)
      PROVE  Contract!Archive(op, e, k)
  BY <1>1, <1>2, <1>5
     DEF Archives, Effected, Identity, Anchored, EffectOf, Contract!Archive, Contract!Effect, Exists
<1>6. ASSUME NEW op \in Op, NEW e \in Entity, Releases(durable, durable', op, e)
      PROVE  Contract!Release(op, e)
  BY <1>1, <1>2, <1>6
     DEF Releases, Effected, Identity, Anchored, EffectOf, Contract!Release, Contract!Effect, Exists
<1>7. ASSUME NEW op \in Op, NEW e \in Entity, Recalls(durable, durable', op, e)
      PROVE  Contract!Recall(op, e)
  BY <1>1, <1>2, <1>7
     DEF Recalls, Effected, Identity, Anchored, EffectOf, Contract!Recall, Contract!Effect, Exists
<1> QED
  BY <1>3, <1>4, <1>5, <1>6, <1>7 DEF Moves, Contract!Next

-----------------------------------------------------------------------------
(* Persisting, and what the operations do to the views of the document.    *)

LEMMA StaysIfSame ==
  ASSUME NEW s, NEW t, t.entities = s.entities, t.completed = s.completed
  PROVE  Stays(s, t)
BY DEF Stays, Identity, Bytes, Anchored, EffectOf, Exists, Offline

\* next may be replaced by a document with the same entities and outcomes.
LEMMA MovesTo ==
  ASSUME NEW s, NEW next, NEW after, Moves(s, next),
         after.entities = next.entities, after.completed = next.completed
  PROVE  Moves(s, after)
<1>1. Stays(next, after)
  BY StaysIfSame
<1> QED
  BY <1>1 DEF Moves, Stays, Creates, Effected, Archives, Releases, Recalls

LEMMA PersistMoves ==
  ASSUME Coherent, Healthy, NEW next, NEW answers, Persist(next, answers), Moves(mem, next)
  PROVE  Moves(durable, durable') /\ Moves(durable', disk')
<1>1. mem = durable /\ disk = durable
  BY DEF Coherent
<1>2. \A s : Moves(s, s)
  BY DEF Moves, Stays
<1>3. CASE PersistOk(next, answers)
  BY <1>1, <1>2, <1>3 DEF PersistOk
<1>4. CASE PersistUnsynced(next)
  BY <1>1, <1>2, <1>4 DEF PersistUnsynced
<1>5. CASE PersistFailed
  BY <1>1, <1>2, <1>5 DEF PersistFailed
<1> QED
  BY <1>3, <1>4, <1>5 DEF Persist

LEMMA StepMoves ==
  ASSUME RefineInv, NEW op \in Op, NEW name \in StepName, NEW request, NEW error,
         NEW value, NEW next, Step(op, name, request, error, value, next),
         error = "none" => DocTyped(next) /\ next.steps = mem.steps /\ Moves(mem, next)
  PROVE  Moves(durable, durable') /\ Moves(durable', disk')
<1> DEFINE after == AfterStep(mem, op, name, request, error, value, next)
           answers == {[op |-> op, name |-> name, saved |-> after.steps[<<op, name>>]]}
<1>1. Healthy /\ Persist(after, answers) /\ Coherent
  BY DEF Step, RefineInv, EffectsInv, StorageInv
<1>2. DocTyped(mem)
  BY <1>1, MemEffects DEF RefineInv
<1>3. error = "none" => DocTyped(next) /\ next.steps = mem.steps
  OBVIOUS
<1>4. /\ after.steps[<<op, name>>].error = error
      /\ after.completed = IF error = "none" THEN next.completed ELSE mem.completed
      /\ after.entities = IF error = "none" THEN next.entities ELSE mem.entities
  BY <1>2, <1>3, StepStored
<1> HIDE DEF after, answers
<1>5. Moves(mem, after)
  <2>1. CASE error = "none"
    BY <1>4, <2>1, MovesTo
  <2>2. CASE error # "none"
    BY <1>4, <2>2, StaysIfSame DEF Moves
  <2> QED
    BY <2>1, <2>2
<1> QED
  BY <1>1, <1>5, PersistMoves

\* A committing step that finish accepts is the first effect of its ID: an
\* earlier one would have been this very step.
LEMMA FirstEffect ==
  ASSUME NEW s, Effects(s), NEW op \in Op, NEW name \in CommitSteps,
         s.steps[<<op, name>>] = NoStep, NEW data, NEW action, action.kind = KindOf(name),
         FinishError(s, op, data, action) = "none"
  PROVE  s.completed[op] = NoOutcome
<1> SUFFICES ASSUME s.completed[op] # NoOutcome PROVE FALSE
  OBVIOUS
<1>1. PICK n \in CommitSteps : Succeeded(s, op, n)
  BY DEF Effects, OneEffect
<1>2. s.completed[op].action.kind = KindOf(n)
  BY <1>1 DEF Effects, OneEffect
<1>3. s.completed[op].action = action
  BY DEF FinishError
<1>4. n = name
  BY <1>2, <1>3 DEF KindOf, CommitSteps
<1> QED
  BY <1>1, <1>4 DEF Succeeded

\* Recording the first effect of an ID.
LEMMA RecordsEffect ==
  ASSUME NEW s, DocTyped(s), NEW t, NEW op \in Op, s.completed[op] = NoOutcome,
         NEW data \in DataKey, NEW action \in ManagedAction, NEW state \in EntityState,
         t.completed = [s.completed EXCEPT
           ![op] = [data |-> data, action |-> action, state |-> state]]
  PROVE  /\ EffectOf(s)[op] = NoOutcome
         /\ EffectOf(t) = [EffectOf(s) EXCEPT
              ![op] = [kind |-> action.kind, entity |-> data.entity]]
<1> DEFINE record == [data |-> data, action |-> action, state |-> state]
<1>1. record \in Completed /\ record.action = action /\ record.data = data
  BY DEF Completed
<1>2. record # NoOutcome
  BY <1>1, MarkerAssumption
<1> HIDE DEF record
<1>3. s.completed \in [Op -> Completed \cup {NoOutcome}]
      /\ t.completed = [s.completed EXCEPT ![op] = record]
  BY DEF DocTyped, State, record
<1>4. \A o \in Op : t.completed[o] = IF o = op THEN record ELSE s.completed[o]
  BY <1>3
<1> QED
  BY <1>1, <1>2, <1>4 DEF EffectOf

-----------------------------------------------------------------------------
(* Each committing operation is its action of the contract.                *)

LEMMA ArchivedMoves ==
  ASSUME NEW s, DocTyped(s), ViewsKept(s), NEW op \in Op, s.completed[op] = NoOutcome,
         NEW view \in DataView, NEW receipt \in ArchiveReceipt,
         CommitArchiveError(s, op, view, receipt) = "none"
  PROVE  Archives(s, CommittedArchive(s, op, view, receipt), op, view.data.entity, receipt.key)
<1> DEFINE e == view.data.entity
           next == CommittedArchive(s, op, view, receipt)
           public == s.entities[e].public
<1>1. Exists(s, e) /\ ~Offline(s, e) /\ e \in Entity
  <2>1. e \in Entity /\ view.source # NoLayout
    BY StorageAssumption DEF DataView, DataKey
  <2>2. [op |-> op, view |-> view] \in s.views
    BY DEF CommitArchiveError
  <2> QED
    BY <2>1, <2>2 DEF ViewsKept, Offline
<1>2. /\ next.entities[e].published = s.entities[e].published
      /\ next.entities[e].public = Archived(s, view, receipt)
      /\ next.entities[e] # NoEntity
      /\ \A f \in Entity : f # e => next.entities[f] = s.entities[f]
  BY <1>1, CommittedArchiveParts, MarkerAssumption
<1>3. /\ next.entities[e].public.content = public.content
      /\ next.entities[e].public.anchors = public.anchors \cup {receipt}
  BY SMTT(20), <1>2 DEF Archived, Moved
<1>4. next.completed = [s.completed EXCEPT ![op] = [data |-> view.data,
        action |-> ArchiveTo(receipt.key), state |-> Archived(s, view, receipt)]]
  BY <1>1, ArchiveRecords DEF Exists
<1>5. public.content \in Content /\ public.content # NoData
  BY <1>1, EntityTyped, LayoutAssumption DEF Exists, EntityState
<1>6. /\ view.data \in DataKey /\ ArchiveTo(receipt.key) \in ManagedAction
      /\ Archived(s, view, receipt) \in EntityState
      /\ ArchiveTo(receipt.key).kind = "Archive"
  BY <1>1, ArchivedTyped DEF DataView, ArchiveTo, ManagedAction, ArchiveReceipt, Exists
<1> HIDE DEF next, public
<1>7. /\ EffectOf(s)[op] = NoOutcome
      /\ EffectOf(next) = [EffectOf(s) EXCEPT ![op] = [kind |-> "Archive", entity |-> e]]
  BY <1>4, <1>6, RecordsEffect
<1>8. Identity(next) = Identity(s)
  BY <1>1, <1>2, <1>3 DEF Identity, Exists, public
<1>9. Bytes(next) = Bytes(s) /\ Bytes(s)[e] # NoData
  BY <1>1, <1>2, <1>3, <1>5 DEF Bytes, Exists, Offline, public
<1>10. Anchored(next) = [Anchored(s) EXCEPT ![e] = @ \cup {receipt.key}]
  <2>1. {a.key : a \in next.entities[e].public.anchors} =
          {a.key : a \in public.anchors} \cup {receipt.key}
    BY <1>3
  <2> QED
    BY <1>1, <1>2, <2>1 DEF Anchored, Exists, public
<1> QED
  BY <1>7, <1>8, <1>9, <1>10 DEF Archives, Effected, next

LEMMA ReleasedMoves ==
  ASSUME NEW s, DocTyped(s), NEW op \in Op, s.completed[op] = NoOutcome,
         NEW expected \in EntityState, ReleaseError(s, op, expected) = "none"
  PROVE  Releases(s, CommittedRelease(s, op, expected), op, expected.data.entity)
<1> DEFINE e == expected.data.entity
           next == CommittedRelease(s, op, expected)
<1>1. /\ Exists(s, e) /\ ~Offline(s, e) /\ e \in Entity
      /\ s.entities[e].public = expected /\ expected.anchors # {}
  BY DEF ReleaseError, EntityError, Exists, Offline, EntityState, DataKey
<1>2. /\ next.entities[e] = [public |-> Released(expected), published |-> NoLayout]
      /\ \A f \in Entity : f # e => next.entities[f] = s.entities[f]
  BY <1>1, CommittedReleaseParts
<1>3. Released(expected) \in EntityState
  BY ReleasedTyped
<1>4. /\ next.entities[e] # NoEntity /\ Offline(next, e)
      /\ next.entities[e].public.content = expected.content
      /\ next.entities[e].public.anchors = expected.anchors
  BY <1>2, <1>3, MarkerAssumption DEF EntityRecord, Offline, Released, Moved
<1>5. next.completed = [s.completed EXCEPT ![op] = [data |-> expected.data,
        action |-> ReleaseIt, state |-> Released(expected)]]
  BY <1>1, ReleaseRecords DEF Exists, Offline
<1>6. /\ expected.data \in DataKey /\ ReleaseIt \in ManagedAction /\ ReleaseIt.kind = "Release"
      /\ expected.content \in Content /\ expected.content # NoData
  BY LayoutAssumption DEF EntityState, ReleaseIt, ManagedAction
<1> HIDE DEF next
<1>7. /\ EffectOf(s)[op] = NoOutcome
      /\ EffectOf(next) = [EffectOf(s) EXCEPT ![op] = [kind |-> "Release", entity |-> e]]
  BY <1>3, <1>5, <1>6, RecordsEffect
<1>8. Identity(next) = Identity(s)
  BY <1>1, <1>2, <1>4 DEF Identity, Exists
<1>9. Bytes(next) = [Bytes(s) EXCEPT ![e] = NoData] /\ Bytes(s)[e] # NoData
  BY <1>1, <1>2, <1>4, <1>6 DEF Bytes, Exists, Offline
<1>10. Anchored(next) = Anchored(s) /\ Anchored(s)[e] # {}
  BY ZenonT(40), <1>1, <1>2, <1>4 DEF Anchored, Exists
<1> QED
  BY <1>7, <1>8, <1>9, <1>10 DEF Releases, Effected, next

LEMMA RecalledMoves ==
  ASSUME NEW s, DocTyped(s), NEW dirs, NEW n, RecallsKept(s, dirs, n),
         NEW op \in Op, s.completed[op] = NoOutcome,
         NEW target \in RecallTarget, NEW evidence,
         VerifyRecallError(s, op, target, evidence) = "none"
  PROVE  Recalls(s, CommittedRecall(s, op, target), op, target.data.entity)
<1> DEFINE e == target.data.entity
           next == CommittedRecall(s, op, target)
           public == s.entities[e].public
<1>1. /\ \E r \in s.recalls : r.op = op /\ r.target = target
      /\ Exists(s, e) /\ Offline(s, e) /\ e \in Entity /\ target.layout_id # NoLayout
  BY VerifiedRecall, StorageAssumption DEF Exists, Offline, RecallTarget, DataKey
<1>2. public.anchors # {}
  BY <1>1 DEF RecallsKept
<1>3. /\ next.entities[e] = [public |-> Recalled(s, target), published |-> target.layout_id]
      /\ \A f \in Entity : f # e => next.entities[f] = s.entities[f]
  BY <1>1, CommittedRecallParts
<1>4. Recalled(s, target) \in EntityState
  BY <1>1, RecalledTyped DEF Exists
<1>5. /\ next.entities[e] # NoEntity /\ ~Offline(next, e)
      /\ next.entities[e].public.content = public.content
      /\ next.entities[e].public.anchors = public.anchors
  <2>1. /\ next.entities[e].public = Recalled(s, target)
        /\ next.entities[e].published = target.layout_id
    BY <1>3
  <2>2. next.entities[e] \in EntityRecord
    BY <1>3, <1>4 DEF EntityRecord, RecallTarget
  <2> HIDE DEF next
  <2>3. next.entities[e] # NoEntity /\ ~Offline(next, e)
    BY <1>1, <2>1, <2>2, MarkerAssumption DEF Offline
  <2> QED
    BY <2>1, <2>3 DEF Recalled, Moved
<1>6. next.completed = [s.completed EXCEPT ![op] = [data |-> target.data,
        action |-> RecallFrom(target.archive), state |-> Recalled(s, target)]]
  BY <1>1, RecallRecords DEF Exists
<1>7. public.content \in Content /\ public.content # NoData
  BY <1>1, EntityTyped, LayoutAssumption DEF Exists, EntityState
<1>8. /\ target.data \in DataKey /\ RecallFrom(target.archive) \in ManagedAction
      /\ RecallFrom(target.archive).kind = "Recall"
  BY DEF RecallTarget, RecallFrom, ManagedAction
<1> HIDE DEF next, public
<1>9. /\ EffectOf(s)[op] = NoOutcome
      /\ EffectOf(next) = [EffectOf(s) EXCEPT ![op] = [kind |-> "Recall", entity |-> e]]
  BY <1>4, <1>6, <1>8, RecordsEffect
<1>10. Identity(next) = Identity(s) /\ Identity(s)[e] = public.content
  BY <1>1, <1>3, <1>5 DEF Identity, Exists, public
<1>11. Bytes(next) = [Bytes(s) EXCEPT ![e] = public.content] /\ Bytes(s)[e] = NoData
  BY <1>1, <1>3, <1>5 DEF Bytes, Exists, Offline
<1>12. Anchored(next) = Anchored(s) /\ Anchored(s)[e] # {}
  BY ZenonT(40), <1>1, <1>2, <1>3, <1>5 DEF Anchored, Exists, public
<1> QED
  BY <1>7, <1>9, <1>10, <1>11, <1>12 DEF Recalls, Effected, next

-----------------------------------------------------------------------------

MovesNext == Moves(durable, durable') /\ Moves(durable', disk')

LEMMA MemParts ==
  ASSUME RefineInv, Healthy
  PROVE  /\ DocTyped(mem) /\ Effects(mem) /\ Coherent
         /\ ViewsKept(mem) /\ RecallsKept(mem, layouts, fresh)
BY MemEffects DEF RefineInv, EffectsInv, StorageInv, Sound, Coherent, Documents

LEMMA CommitArchiveMoves ==
  ASSUME RefineInv, NEW op \in Op, NEW view \in DataView, NEW receipt \in ArchiveReceipt,
         CommitArchive(op, view, receipt)
  PROVE  MovesNext
<1> DEFINE error == CommitArchiveError(mem, op, view, receipt)
           next == IF error = "none" THEN CommittedArchive(mem, op, view, receipt) ELSE mem
           value == IF error = "none" THEN Archived(mem, view, receipt) ELSE NoValue
           request == [view |-> view, receipt |-> receipt]
           action == ArchiveTo(receipt.key)
<1>1. /\ Step(op, "commit_archive", request, error, value, next)
      /\ mem.steps[<<op, "commit_archive">>] = NoStep /\ Healthy
  BY DEF CommitArchive, Step
<1>2. DocTyped(mem) /\ Effects(mem) /\ ViewsKept(mem)
  BY <1>1, MemParts
<1>3. ASSUME error = "none" PROVE DocTyped(next) /\ next.steps = mem.steps /\ Moves(mem, next)
  <2>1. /\ mem.entities[view.data.entity] # NoEntity
        /\ FinishError(mem, op, view.data, action) = "none"
    BY <1>3 DEF CommitArchiveError, EntityError
  <2>2. next = CommittedArchive(mem, op, view, receipt)
    BY <1>3
  <2>3. view.data.entity \in Entity /\ receipt.key \in Key
        /\ action.kind = KindOf("commit_archive") /\ "commit_archive" \in CommitSteps
    BY DEF DataView, DataKey, ArchiveReceipt, ArchiveTo, KindOf, CommitSteps
  <2> HIDE DEF next, action
  <2>4. mem.completed[op] = NoOutcome
    BY <1>1, <1>2, <2>1, <2>3, FirstEffect
  <2>5. Archives(mem, next, op, view.data.entity, receipt.key)
    BY <1>2, <1>3, <2>2, <2>4, ArchivedMoves
  <2>6. DocTyped(next) /\ next.steps = mem.steps
    BY <1>2, <2>1, <2>2, CommittedArchiveTyped
  <2> QED
    BY <2>3, <2>5, <2>6 DEF Moves
<1> HIDE DEF error, next, value, request
<1> QED
  BY <1>1, <1>3, StepMoves DEF StepName, MovesNext

LEMMA ReleaseMoves ==
  ASSUME RefineInv, NEW op \in Op, NEW expected \in EntityState, Release(op, expected)
  PROVE  MovesNext
<1> DEFINE error == ReleaseError(mem, op, expected)
           next == IF error = "none" THEN CommittedRelease(mem, op, expected) ELSE mem
           value == Released(expected)
<1>1. /\ Step(op, "release", expected, error, value, next)
      /\ mem.steps[<<op, "release">>] = NoStep /\ Healthy
  BY DEF Release, Step
<1>2. DocTyped(mem) /\ Effects(mem)
  BY <1>1, MemParts
<1>3. ASSUME error = "none" PROVE DocTyped(next) /\ next.steps = mem.steps /\ Moves(mem, next)
  <2>1. /\ mem.entities[expected.data.entity] # NoEntity
        /\ mem.entities[expected.data.entity].published # NoLayout
        /\ FinishError(mem, op, expected.data, ReleaseIt) = "none"
    BY <1>3 DEF ReleaseError, EntityError
  <2>2. next = CommittedRelease(mem, op, expected)
    BY <1>3
  <2>3. expected.data.entity \in Entity
        /\ ReleaseIt.kind = KindOf("release") /\ "release" \in CommitSteps
    BY DEF EntityState, DataKey, ReleaseIt, KindOf, CommitSteps
  <2> HIDE DEF next
  <2>4. mem.completed[op] = NoOutcome
    BY <1>1, <1>2, <2>1, <2>3, FirstEffect
  <2>5. Releases(mem, next, op, expected.data.entity)
    BY <1>2, <1>3, <2>2, <2>4, ReleasedMoves
  <2>6. DocTyped(next) /\ next.steps = mem.steps
    BY <1>2, <2>1, <2>2, CommittedReleaseTyped
  <2> QED
    BY <2>3, <2>5, <2>6 DEF Moves
<1> HIDE DEF error, next, value
<1> QED
  BY <1>1, <1>3, StepMoves DEF StepName, MovesNext

LEMMA CommitRecallMoves ==
  ASSUME RefineInv, NEW op \in Op, NEW target \in RecallTarget, NEW evidence \in Content,
         CommitRecall(op, target, evidence)
  PROVE  MovesNext
<1> DEFINE request == RecallRequest(target, evidence)
           action == RecallFrom(target.archive)
           error == FinishError(mem, op, target.data, action)
           next == CommittedRecall(mem, op, target)
           value == Recalled(mem, target)
<1>1. /\ VerifyRecallError(mem, op, target, evidence) = "none"
      /\ Step(op, "commit_recall", request, error, value, next)
      /\ mem.steps[<<op, "commit_recall">>] = NoStep /\ Healthy
  BY DEF CommitRecall, Step
<1>2. /\ DocTyped(mem) /\ Effects(mem) /\ RecallsKept(mem, layouts, fresh)
      /\ mem.entities[target.data.entity] # NoEntity
  BY <1>1, MemParts, VerifiedRecall
<1>3. ASSUME error = "none" PROVE DocTyped(next) /\ next.steps = mem.steps /\ Moves(mem, next)
  <2>1. FinishError(mem, op, target.data, action) = "none"
    BY <1>3
  <2>2. target.data.entity \in Entity
        /\ action.kind = KindOf("commit_recall") /\ "commit_recall" \in CommitSteps
    BY DEF RecallTarget, DataKey, RecallFrom, KindOf, CommitSteps
  <2> HIDE DEF action
  <2>3. mem.completed[op] = NoOutcome
    BY <1>1, <1>2, <2>1, <2>2, FirstEffect
  <2>4. Recalls(mem, next, op, target.data.entity)
    BY <1>1, <1>2, <2>3, RecalledMoves
  <2>5. DocTyped(next) /\ next.steps = mem.steps
    BY <1>2, CommittedRecallTyped
  <2> HIDE DEF next
  <2> QED
    BY <2>2, <2>4, <2>5 DEF Moves
<1> HIDE DEF error, next, value, request
<1> QED
  BY <1>1, <1>3, StepMoves DEF StepName, MovesNext

\* Steps without an effect the contract knows of.
LEMMA OtherStepsMove ==
  ASSUME RefineInv,
         \/ \E op \in Op, target \in RecallTarget, evidence \in Content :
              CommitRecallRefused(op, target, evidence)
         \/ \E op \in Op, data \in DataKey : PrepareArchive(op, data)
         \/ \E op \in Op, expected \in EntityState, anchor \in ArchiveReceipt :
              PrepareRecall(op, expected, anchor)
  PROVE  MovesNext
<1>1. ASSUME NEW op \in Op, NEW target \in RecallTarget, NEW evidence \in Content,
             CommitRecallRefused(op, target, evidence)
      PROVE  MovesNext
  <2> DEFINE error == VerifyRecallError(mem, op, target, evidence)
             request == RecallRequest(target, evidence)
  <2>1. error # "none" /\ Step(op, "commit_recall", request, error, NoValue, mem)
    BY <1>1 DEF CommitRecallRefused, SavedFailure
  <2> HIDE DEF error, request
  <2> QED
    BY <2>1, StepMoves DEF StepName, MovesNext
<1>2. ASSUME NEW op \in Op, NEW data \in DataKey, PrepareArchive(op, data)
      PROVE  MovesNext
  <2> DEFINE error == PrepareArchiveError(mem, data)
             view == NewView(mem, data, fresh)
             next == [mem EXCEPT !.views = @ \cup {[op |-> op, view |-> view]}]
  <2>1. fresh \in Id /\ Step(op, "prepare_archive", data, error, view, next)
    BY <1>2 DEF PrepareArchive
  <2>2. DocTyped(mem)
    BY <2>1, MemParts DEF Step
  <2>3. error = "none" => DocTyped(next)
    BY <2>1, <2>2, PinnedTyped
  <2>4. /\ next.steps = mem.steps /\ next.entities = mem.entities
        /\ next.completed = mem.completed
    BY <2>2 DEF DocTyped, State
  <2> HIDE DEF error, next, view
  <2>5. Moves(mem, next)
    BY <2>4, StaysIfSame DEF Moves
  <2> QED
    BY <2>1, <2>3, <2>4, <2>5, StepMoves DEF StepName, MovesNext
<1>3. ASSUME NEW op \in Op, NEW expected \in EntityState, NEW anchor \in ArchiveReceipt,
             PrepareRecall(op, expected, anchor)
      PROVE  MovesNext
  <2> DEFINE error == PrepareRecallError(mem, expected, anchor)
             target == NewTarget(expected, anchor, fresh)
             owner == [op |-> op, target |-> target, anchor |-> anchor]
             next == [mem EXCEPT !.recalls = @ \cup {owner}]
             request == [expected |-> expected, anchor |-> anchor]
  <2>1. fresh \in Id /\ Step(op, "prepare_recall", request, error, target, next)
    BY <1>3 DEF PrepareRecall
  <2>2. DocTyped(mem)
    BY <2>1, MemParts DEF Step
  <2>3. DocTyped(next)
    BY <2>1, <2>2, RequestedTyped
  <2>4. /\ next.steps = mem.steps /\ next.entities = mem.entities
        /\ next.completed = mem.completed
    BY <2>2 DEF DocTyped, State
  <2> HIDE DEF error, next, target, request
  <2>5. Moves(mem, next)
    BY <2>4, StaysIfSame DEF Moves
  <2> QED
    BY <2>1, <2>3, <2>4, <2>5, StepMoves DEF StepName, MovesNext
<1> QED
  BY <1>1, <1>2, <1>3

LEMMA ImportMoves ==
  ASSUME RefineInv, NEW e \in Entity, NEW c \in Content, Import(e, c)
  PROVE  MovesNext
<1> DEFINE record == [public |-> Imported(e, c), published |-> fresh]
           next == [mem EXCEPT !.entities[e] = record]
<1>1. /\ Healthy /\ mem.entities[e] = NoEntity /\ Persist(next, {})
      /\ fresh \in Id /\ fresh # NoLayout
  BY StorageAssumption DEF Import
<1>2. DocTyped(mem) /\ Coherent
  BY <1>1, MemParts
<1>3. /\ next.completed = mem.completed /\ next.entities[e] = record
      /\ \A f \in Entity : f # e => next.entities[f] = mem.entities[f]
  BY <1>2 DEF DocTyped, State
<1>4. /\ record.public.content = c /\ record.public.anchors = {} /\ record.published = fresh
      /\ record # NoEntity
  <2>1. record \in EntityRecord
    BY <1>1, ImportedTyped DEF EntityRecord
  <2> QED
    BY <2>1, MarkerAssumption DEF Imported
<1> HIDE DEF next, record
<1>5. Identity(mem)[e] = NoData /\ Identity(next) = [Identity(mem) EXCEPT ![e] = c]
  BY <1>1, <1>3, <1>4 DEF Identity, Exists
<1>6. Bytes(next) = [Bytes(mem) EXCEPT ![e] = c]
  BY <1>1, <1>3, <1>4 DEF Bytes, Exists, Offline
<1>7. Anchored(next) = Anchored(mem)
  BY <1>1, <1>3, <1>4 DEF Anchored, Exists
<1>8. EffectOf(next) = EffectOf(mem)
  BY <1>3 DEF EffectOf
<1>9. Moves(mem, next)
  BY <1>5, <1>6, <1>7, <1>8 DEF Moves, Creates
<1> QED
  BY <1>1, <1>2, <1>9, PersistMoves DEF MovesNext

LEMMA CollectGarbageMoves ==
  ASSUME RefineInv, CollectGarbage
  PROVE  MovesNext
<1> DEFINE next == [mem EXCEPT !.gc = {}]
<1>1. Healthy /\ Persist(next, {})
  BY DEF CollectGarbage
<1>2. Coherent /\ next.entities = mem.entities /\ next.completed = mem.completed
  BY <1>1, MemParts DEF DocTyped, State
<1> HIDE DEF next
<1>3. Moves(mem, next)
  BY <1>2, StaysIfSame DEF Moves
<1> QED
  BY <1>1, <1>2, <1>3, PersistMoves DEF MovesNext

LEMMA NextMoves ==
  ASSUME RefineInv, [Next]_vars
  PROVE  MovesNext
<1>1. /\ Issued(mem, "prepare_archive") \subseteq DataView
      /\ Issued(mem, "prepare_recall") \subseteq RecallTarget
      /\ Observed(mem) \subseteq EntityState
  BY ObservedTyped DEF RefineInv, RevisionsInv, StorageInv, TypeOK, DocTyped
<1>2. Receipt \subseteq ArchiveReceipt /\ AskedData \subseteq DataKey
  BY StorageAssumption
<1>3. Moves(durable, disk) /\ \A s : Moves(s, s)
  BY DEF RefineInv, Moves, Stays
<1>4. CASE UNCHANGED <<disk, durable>>
  BY <1>3, <1>4 DEF MovesNext
<1>5. ASSUME NEW op \in Op,
             \/ \E data \in AskedData : PrepareArchive(op, data)
             \/ \E expected \in Observed(mem), anchor \in Receipt :
                  PrepareRecall(op, expected, anchor)
      PROVE  MovesNext
  BY <1>1, <1>2, <1>5, OtherStepsMove
<1>6. ASSUME NEW op \in Op, NEW view \in Issued(mem, "prepare_archive"),
             NEW receipt \in Receipt, CommitArchive(op, view, receipt)
      PROVE  MovesNext
  BY <1>1, <1>2, <1>6, CommitArchiveMoves
<1>7. ASSUME NEW op \in Op, NEW expected \in Observed(mem), Release(op, expected)
      PROVE  MovesNext
  BY <1>1, <1>7, ReleaseMoves
<1>8. ASSUME NEW op \in Op, NEW target \in Issued(mem, "prepare_recall"), NEW evidence \in Content,
             \/ CommitRecallRefused(op, target, evidence)
             \/ CommitRecall(op, target, evidence)
             \/ CommitRecallSealUncertain(op, target, evidence)
      PROVE  MovesNext
  <2>1. CASE CommitRecallRefused(op, target, evidence)
    BY <1>1, <2>1, OtherStepsMove
  <2>2. CASE CommitRecall(op, target, evidence)
    BY <1>1, <2>2, CommitRecallMoves
  <2>3. CASE CommitRecallSealUncertain(op, target, evidence)
    BY <1>4, <2>3 DEF CommitRecallSealUncertain, docs
  <2> QED
    BY <1>8, <2>1, <2>2, <2>3
<1>9. ASSUME NEW op \in Op, NEW name \in StepName, NEW request, Replay(op, name, request)
      PROVE  MovesNext
  BY <1>4, <1>9 DEF Replay
<1>10. CASE \E e \in Entity, c \in Content : Import(e, c)
  BY <1>10, ImportMoves
<1>11. CASE CollectGarbage
  BY <1>11, CollectGarbageMoves
<1>12. CASE CollectGarbageStops
  BY <1>4, <1>12 DEF CollectGarbageStops, docs
<1>13. CASE Call
  BY <1>5, <1>6, <1>7, <1>8, <1>9, <1>10, <1>11, <1>12, <1>13 DEF Call
<1>14. CASE Mover
  BY <1>4, <1>14 DEF Mover, BeginRead, BeginWrite, EndSession, WriteBytes, docs
<1>15. CASE Close \/ Crash
  BY <1>4, <1>15 DEF Close, Crash, docs
<1>16. CASE PowerLoss \/ Reopen
  BY <1>3, <1>16 DEF PowerLoss, Reopen, MovesNext
<1>17. CASE UNCHANGED vars
  BY <1>4, <1>17 DEF vars
<1> QED
  BY <1>13, <1>14, <1>15, <1>16, <1>17 DEF Next

LEMMA RefineKept == RefineInv /\ [Next]_vars => RefineInv'
<1> SUFFICES ASSUME RefineInv, [Next]_vars PROVE RefineInv'
  OBVIOUS
<1>1. EffectsInv' /\ RevisionsInv'
  BY EffectsKept, RevisionsKept DEF RefineInv
<1>2. Moves(durable', disk')
  BY NextMoves DEF MovesNext
<1> QED
  BY <1>1, <1>2 DEF RefineInv, Moves, Stays, Creates, Effected, Archives, Releases, Recalls,
                    Identity, Bytes, Anchored, EffectOf, Exists, Offline

LEMMA RefineStarts == Init => RefineInv /\ Contract!Init
<1> SUFFICES ASSUME Init PROVE RefineInv /\ Contract!Init
  OBVIOUS
<1>1. EffectsInv /\ RevisionsInv
  BY EffectsStart, RevisionsStart
<1>2. Moves(durable, disk)
  BY DEF Init, Moves, Stays
<1>3. Contract!Init
  BY DEF Init, EmptyState, Contract!Init, Exists, Served
<1> QED
  BY <1>1, <1>2, <1>3 DEF RefineInv

(***************************************************************************)
(* The source implements the contract of the ManagedStorage trait: what is *)
(* durably visible of entities, bytes, anchors and operations changes by   *)
(* one contract action at a time, each operation ID having one effect,     *)
(* through failed persists, uncertain seals, crashes and power losses.     *)
(***************************************************************************)
THEOREM StorageImplementsContract == Spec => ImplementsContract
<1>1. Init => RefineInv /\ Contract!Init
  BY RefineStarts
<1>2. RefineInv /\ [Next]_vars => RefineInv'
  BY RefineKept
<1>3. RefineInv /\ [Next]_vars /\ RefineInv' => [Contract!Next]_(Contract!contract)
  BY NextMoves, ContractStep DEF RefineInv, EffectsInv, MovesNext
<1> QED
  BY <1>1, <1>2, <1>3, PTL DEF Spec, ImplementsContract, Contract!Spec

-----------------------------------------------------------------------------
(***************************************************************************)
(* What a caller of several operations may rely on, for every value of the *)
(* constants: a step stored as a success answers its own request, and the  *)
(* outcome a committing one records is that of its request; a view that    *)
(* was handed out names bytes nobody changes; and the anchors of the       *)
(* entities are receipts R a caller has presented.                         *)
(***************************************************************************)

\* The result of operation op, whatever state it left.
Outcome(s, op, data, action) ==
  /\ s.completed[op] # NoOutcome
  /\ s.completed[op].data = data /\ s.completed[op].action = action

\* What the success of a step says of its request.
Means(s, op, name, request, value) ==
  /\ name = "prepare_archive" => value.data = request
  /\ name = "prepare_recall" =>
       value.data = request.expected.data /\ value.archive = request.anchor.key
  /\ name = "commit_archive" =>
       Outcome(s, op, request.view.data, ArchiveTo(request.receipt.key))
  /\ name = "release" => Outcome(s, op, request.data, ReleaseIt)
  /\ name = "commit_recall" =>
       Outcome(s, op, request.target.data, RecallFrom(request.target.archive))

Meanings(s) ==
  \A op \in Op, name \in StepName : Succeeded(s, op, name) =>
    Means(s, op, name, s.steps[<<op, name>>].request, s.steps[<<op, name>>].value)

\* The layout of a view is drawn, and holds its bytes as long as it exists.
ViewIntact(view, dirs, n) ==
  /\ view.source < n
  /\ dirs[view.source].there =>
       dirs[view.source].seal = "sealed" /\ dirs[view.source].data = view.content

ViewsIntact(s, dirs, n) ==
  \A op \in Op : Succeeded(s, op, "prepare_archive") =>
    ViewIntact(s.steps[<<op, "prepare_archive">>].value, dirs, n)

AnchorsFrom(s, R) == \A e \in Entity : Exists(s, e) => s.entities[e].public.anchors \subseteq R

Reliable(s, R, dirs, n) == Meanings(s) /\ ViewsIntact(s, dirs, n) /\ AnchorsFrom(s, R)

\* What no step does: draw a number again, create a directory under an old
\* one, or change what is sealed.
LayoutsFrame ==
  /\ fresh <= fresh'
  /\ \A l \in Id : l < fresh /\ layouts'[l].there =>
       /\ layouts[l].there
       /\ layouts[l].seal = "sealed" =>
            layouts'[l].seal = "sealed" /\ layouts'[l].data = layouts[l].data

\* What no call does: touch the lock, or the existence, of a locked layout.
SessionFrame(l) ==
  Locked(layouts, l) =>
    /\ layouts'[l].session = layouts[l].session
    /\ layouts'[l].there = layouts[l].there

\* The outcomes of s are those of t.
Continues(s, t) ==
  \A op \in Op : s.completed[op] # NoOutcome =>
    Outcome(t, op, s.completed[op].data, s.completed[op].action)

OutcomesFrame == \A t \in Documents' : \E s \in Documents : Continues(s, t)

\* The invariant, and what a call owes to it.
CallsInv(R) == StorageInv /\ \A s \in Documents : Reliable(s, R, layouts, fresh)

CallKept(R) ==
  /\ StorageInv' /\ \A s \in Documents' : Reliable(s, R, layouts', fresh')
  /\ LayoutsFrame /\ (\A l \in Id : SessionFrame(l)) /\ OutcomesFrame

LEMMA ContinuesSame ==
  ASSUME NEW s, NEW t, t.completed = s.completed
  PROVE  Continues(s, t)
BY DEF Continues, Outcome

\* A result that finish accepts: the first one of its operation, or the same.
LEMMA FinishContinues ==
  ASSUME NEW s, DocTyped(s), NEW next, NEW op \in Op, NEW data \in DataKey,
         NEW action \in ManagedAction, NEW state \in EntityState,
         FinishError(s, op, data, action) = "none",
         next.completed = [s.completed EXCEPT
           ![op] = [data |-> data, action |-> action, state |-> state]]
  PROVE  Continues(s, next) /\ Outcome(next, op, data, action)
<1> DEFINE record == [data |-> data, action |-> action, state |-> state]
<1>1. record \in Completed /\ record.data = data /\ record.action = action
  BY DEF Completed
<1>2. record # NoOutcome
  BY <1>1, MarkerAssumption
<1>3. s.completed \in [Op -> Completed \cup {NoOutcome}]
  BY DEF DocTyped, State
<1>4. /\ next.completed[op] = record
      /\ \A o \in Op : o # op => next.completed[o] = s.completed[o]
  BY <1>3
<1>5. s.completed[op] # NoOutcome =>
        s.completed[op].data = data /\ s.completed[op].action = action
  BY DEF FinishError
<1> HIDE DEF record
<1> QED
  BY <1>1, <1>2, <1>4, <1>5 DEF Continues, Outcome

\* The views of a document stay intact while the directories move.
LEMMA ReliableFrame ==
  ASSUME StorageInv, fresh' \in Nat, LayoutsFrame, NEW s, DocTyped(s),
         NEW R, Reliable(s, R, layouts, fresh)
  PROVE  Reliable(s, R, layouts', fresh')
<1>1. fresh \in Nat
  BY LayoutAssumption DEF StorageInv, TypeOK
<1>2. ASSUME NEW view \in DataView, ViewIntact(view, layouts, fresh)
      PROVE  ViewIntact(view, layouts', fresh')
  <2>1. view.source \in Id /\ view.source \in Nat
    BY DEF DataView, Id
  <2> QED
    BY <1>1, <1>2, <2>1 DEF ViewIntact, LayoutsFrame
<1>3. \A op \in Op : Succeeded(s, op, "prepare_archive") =>
        s.steps[<<op, "prepare_archive">>].value \in DataView
  BY DEF DocTyped, StepsTyped, StepName, ValueOf
<1> QED
  BY <1>2, <1>3 DEF Reliable, ViewsIntact

\* Whatever becomes of the new document, the old one or it is read next.
LEMMA PersistCalls ==
  ASSUME NEW R, CallsInv(R), Healthy, NEW next, NEW answers, Persist(next, answers),
         StorageInv', LayoutsFrame, \A l \in Id : SessionFrame(l),
         Reliable(next, R, layouts', fresh'), Continues(mem, next)
  PROVE  CallKept(R)
<1>1. disk = mem /\ durable = mem /\ DocTyped(mem) /\ fresh' \in Nat
  BY LayoutAssumption DEF CallsInv, StorageInv, Coherent, TypeOK, DocTyped
<1>2. Reliable(mem, R, layouts', fresh')
  BY <1>1, ReliableFrame DEF CallsInv, Documents
<1>3. \A s \in Documents' : s = mem \/ s = next
  BY <1>1 DEF Documents, Persist, PersistOk, PersistUnsynced, PersistFailed
<1>4. Continues(mem, mem)
  BY ContinuesSame
<1>5. OutcomesFrame
  BY <1>1, <1>3, <1>4 DEF OutcomesFrame, Documents
<1> QED
  BY <1>2, <1>3, <1>5 DEF CallKept

LEMMA StepCalls ==
  ASSUME NEW R, CallsInv(R), NEW op \in Op, NEW name \in StepName, NEW request, NEW error,
         NEW value, NEW next, Step(op, name, request, error, value, next),
         StorageInv', LayoutsFrame, \A l \in Id : SessionFrame(l),
         error = "none" =>
           /\ DocTyped(next) /\ next.steps = mem.steps
           /\ Continues(mem, next) /\ AnchorsFrom(next, R)
           /\ Means(next, op, name, request, value)
           /\ name = "prepare_archive" => ViewIntact(value, layouts', fresh')
  PROVE  CallKept(R)
<1> DEFINE after == AfterStep(mem, op, name, request, error, value, next)
           answers == {[op |-> op, name |-> name, saved |-> after.steps[<<op, name>>]]}
           base == IF error = "none" THEN next ELSE mem
<1>1. Healthy /\ Persist(after, answers)
  BY DEF Step
<1>2. DocTyped(mem) /\ fresh' \in Nat /\ Reliable(mem, R, layouts, fresh)
  BY <1>1, LayoutAssumption DEF CallsInv, StorageInv, Coherent, Documents, TypeOK, DocTyped
<1>3. Reliable(mem, R, layouts', fresh')
  BY <1>2, ReliableFrame DEF CallsInv
<1>4. error = "none" => DocTyped(next) /\ next.steps = mem.steps
  OBVIOUS
<1>5. /\ after.steps[<<op, name>>].error = error
      /\ after.steps[<<op, name>>].request = request
      /\ error = "none" => after.steps[<<op, name>>].value = value
      /\ \A o \in Op, n \in StepName : <<o, n>> # <<op, name>> =>
           after.steps[<<o, n>>] = mem.steps[<<o, n>>]
      /\ after.completed = base.completed
      /\ after.entities = base.entities
  BY <1>2, <1>4, StepStored
<1>6. Continues(mem, base) /\ AnchorsFrom(base, R)
  BY <1>3, ContinuesSame DEF Reliable
<1> HIDE DEF after, answers, base
<1>7. Continues(mem, after)
  BY <1>5, <1>6 DEF Continues, Outcome
<1>8. AnchorsFrom(after, R)
  BY <1>5, <1>6 DEF AnchorsFrom, Exists
<1>9. ASSUME NEW o \in Op, NEW n \in StepName, <<o, n>> # <<op, name>>, Succeeded(after, o, n)
      PROVE  /\ Succeeded(mem, o, n) /\ after.steps[<<o, n>>] = mem.steps[<<o, n>>]
             /\ Means(after, o, n, mem.steps[<<o, n>>].request, mem.steps[<<o, n>>].value)
  <2>1. Succeeded(mem, o, n) /\ after.steps[<<o, n>>] = mem.steps[<<o, n>>]
    BY <1>5, <1>9 DEF Succeeded
  <2>2. Means(mem, o, n, mem.steps[<<o, n>>].request, mem.steps[<<o, n>>].value)
    BY <1>3, <2>1 DEF Reliable, Meanings
  <2>3. \A data, action : Outcome(mem, o, data, action) => Outcome(after, o, data, action)
    BY <1>7 DEF Continues, Outcome
  <2> QED
    BY <2>1, <2>2, <2>3 DEF Means
<1>10. ASSUME Succeeded(after, op, name)
       PROVE  error = "none" /\ Means(after, op, name, request, value)
  <2>1. error = "none"
    BY <1>5, <1>10 DEF Succeeded
  <2>2. Means(next, op, name, request, value) /\ after.completed = next.completed
    BY <1>5, <2>1 DEF base
  <2> QED
    BY <2>1, <2>2 DEF Means, Outcome
<1>11. Meanings(after)
  <2> SUFFICES ASSUME NEW o \in Op, NEW n \in StepName, Succeeded(after, o, n)
               PROVE  Means(after, o, n, after.steps[<<o, n>>].request, after.steps[<<o, n>>].value)
    BY DEF Meanings
  <2>1. CASE <<o, n>> = <<op, name>>
    BY <1>5, <1>10, <2>1
  <2>2. CASE <<o, n>> # <<op, name>>
    BY <1>9, <2>2
  <2> QED
    BY <2>1, <2>2
<1>12. ViewsIntact(after, layouts', fresh')
  <2> SUFFICES ASSUME NEW o \in Op, Succeeded(after, o, "prepare_archive")
               PROVE  ViewIntact(after.steps[<<o, "prepare_archive">>].value, layouts', fresh')
    BY DEF ViewsIntact
  <2>1. "prepare_archive" \in StepName
    BY DEF StepName
  <2>2. CASE <<o, "prepare_archive">> = <<op, name>>
    BY <1>5, <1>10, <2>2
  <2>3. CASE <<o, "prepare_archive">> # <<op, name>>
    BY <1>3, <1>9, <2>1, <2>3 DEF Reliable, ViewsIntact
  <2> QED
    BY <2>2, <2>3
<1> QED
  BY <1>1, <1>7, <1>8, <1>11, <1>12, PersistCalls DEF Reliable

-----------------------------------------------------------------------------
(* What the calls keep.                                                    *)

\* A step that leaves the directories alone.
LEMMA QuietFrame ==
  ASSUME StorageInv, fresh <= fresh', layouts' = layouts
  PROVE  LayoutsFrame /\ \A l \in Id : SessionFrame(l)
BY DEF LayoutsFrame, SessionFrame

LEMMA MemReliable ==
  ASSUME NEW R, CallsInv(R), Healthy
  PROVE  /\ Reliable(mem, R, layouts, fresh) /\ Sound(mem, layouts, fresh) /\ DocTyped(mem)
         /\ StorageInv /\ fresh \in Nat /\ layouts \in [Id -> Layout]
BY MemSound DEF CallsInv, StorageInv, Coherent, Documents

LEMMA PrepareArchiveCalls ==
  ASSUME NEW R, CallsInv(R), NEW op \in Op, NEW data \in DataKey, PrepareArchive(op, data)
  PROVE  CallKept(R)
<1> DEFINE error == PrepareArchiveError(mem, data)
           view == NewView(mem, data, fresh)
           next == [mem EXCEPT !.views = @ \cup {[op |-> op, view |-> view]}]
<1>1. /\ fresh \in Id /\ Step(op, "prepare_archive", data, error, view, next)
      /\ fresh' = (IF error = "none" THEN fresh + 1 ELSE fresh) /\ layouts' = layouts
  BY DEF PrepareArchive
<1>2. /\ Reliable(mem, R, layouts, fresh) /\ Sound(mem, layouts, fresh) /\ DocTyped(mem)
      /\ StorageInv /\ fresh \in Nat
  BY <1>1, MemReliable DEF Step
<1>3. StorageInv' /\ LayoutsFrame /\ \A l \in Id : SessionFrame(l)
  BY <1>1, <1>2, PrepareArchiveSafe, QuietFrame
<1>4. ASSUME error = "none" PROVE DocTyped(next) /\ ViewIntact(view, layouts', fresh')
  <2>1. DocTyped(next) /\ view \in DataView
    BY <1>1, <1>2, <1>4, PinnedTyped
  <2>2. /\ Exists(mem, data.entity) /\ ~Offline(mem, data.entity) /\ data.entity \in Entity
    BY <1>4 DEF PrepareArchiveError, EntityError, Exists, Offline, DataKey
  <2>3. /\ view.source = mem.entities[data.entity].published
        /\ view.content = mem.entities[data.entity].public.content
    BY DEF NewView
  <2>4. /\ layouts[view.source].seal = "sealed" /\ layouts[view.source].data = view.content
        /\ view.source < fresh
    BY <1>2, <2>2, <2>3 DEF Sound, PublishedKept
  <2>5. view.source \in Nat
    BY <2>1 DEF DataView, Id
  <2> HIDE DEF view
  <2> QED
    BY <1>1, <1>2, <2>1, <2>4, <2>5 DEF ViewIntact
<1>5. view.data = data
  BY DEF NewView
<1>6. /\ next.steps = mem.steps /\ next.completed = mem.completed
      /\ next.entities = mem.entities
  BY <1>2 DEF DocTyped, State
<1> HIDE DEF error, next, view
<1>7. /\ Continues(mem, next) /\ AnchorsFrom(next, R)
      /\ Means(next, op, "prepare_archive", data, view)
  BY <1>2, <1>5, <1>6, ContinuesSame DEF Reliable, AnchorsFrom, Exists, Means
<1> QED
  BY <1>1, <1>3, <1>4, <1>6, <1>7, StepCalls DEF StepName

LEMMA CommitArchiveCalls ==
  ASSUME NEW R, CallsInv(R), NEW op \in Op, NEW view \in DataView,
         NEW receipt \in ArchiveReceipt, receipt \in R, CommitArchive(op, view, receipt)
  PROVE  CallKept(R)
<1> DEFINE error == CommitArchiveError(mem, op, view, receipt)
           next == IF error = "none" THEN CommittedArchive(mem, op, view, receipt) ELSE mem
           value == IF error = "none" THEN Archived(mem, view, receipt) ELSE NoValue
           request == [view |-> view, receipt |-> receipt]
           action == ArchiveTo(receipt.key)
<1>1. /\ Step(op, "commit_archive", request, error, value, next)
      /\ UNCHANGED <<layouts, fresh>>
  BY DEF CommitArchive
<1>2. /\ Reliable(mem, R, layouts, fresh) /\ DocTyped(mem) /\ StorageInv /\ fresh \in Nat
  BY <1>1, MemReliable DEF Step
<1>3. StorageInv' /\ LayoutsFrame /\ \A l \in Id : SessionFrame(l)
  BY <1>1, <1>2, CommitArchiveSafe, QuietFrame
<1>4. ASSUME error = "none"
      PROVE  /\ DocTyped(next) /\ next.steps = mem.steps
             /\ Continues(mem, next) /\ AnchorsFrom(next, R)
             /\ Outcome(next, op, view.data, action)
  <2>1. /\ mem.entities[view.data.entity] # NoEntity
        /\ FinishError(mem, op, view.data, action) = "none"
    BY <1>4 DEF CommitArchiveError, EntityError
  <2>2. /\ next = CommittedArchive(mem, op, view, receipt)
        /\ view.data \in DataKey /\ action \in ManagedAction
        /\ Archived(mem, view, receipt) \in EntityState
    BY <1>2, <1>4, <2>1, ArchivedTyped DEF DataView, ArchiveTo, ManagedAction, ArchiveReceipt
  <2> HIDE DEF error, next, value, action
  <2>3. DocTyped(next) /\ next.steps = mem.steps
    BY <1>2, <2>1, <2>2, CommittedArchiveTyped
  <2>4. next.completed = [mem.completed EXCEPT
          ![op] = [data |-> view.data, action |-> action,
                   state |-> Archived(mem, view, receipt)]]
    BY <1>2, <2>1, <2>2, ArchiveRecords DEF action
  <2>5. Continues(mem, next) /\ Outcome(next, op, view.data, action)
    BY <1>2, <2>1, <2>2, <2>4, FinishContinues
  <2>6. /\ next.entities[view.data.entity].public = Archived(mem, view, receipt)
        /\ \A f \in Entity : f # view.data.entity => next.entities[f] = mem.entities[f]
    BY <1>2, <2>1, <2>2, CommittedArchiveParts DEF Exists
  <2>7. Archived(mem, view, receipt).anchors =
          mem.entities[view.data.entity].public.anchors \cup {receipt}
    BY DEF Archived, Moved
  <2>8. mem.entities[view.data.entity].public.anchors \subseteq R
    BY <1>2, <2>1, <2>2 DEF Reliable, AnchorsFrom, Exists, DataKey
  <2>9. AnchorsFrom(next, R)
    <3> SUFFICES ASSUME NEW e \in Entity, Exists(next, e)
                 PROVE  next.entities[e].public.anchors \subseteq R
      BY DEF AnchorsFrom
    <3>1. CASE e = view.data.entity
      BY <2>6, <2>7, <2>8, <3>1
    <3>2. CASE e # view.data.entity
      BY <1>2, <2>6, <3>2 DEF Reliable, AnchorsFrom, Exists
    <3> QED
      BY <3>1, <3>2
  <2> QED
    BY <2>3, <2>5, <2>9
<1>5. request.view = view /\ request.receipt = receipt
  OBVIOUS
<1> HIDE DEF error, next, value, request
<1>6. error = "none" => Means(next, op, "commit_archive", request, value)
  BY <1>4, <1>5 DEF Means
<1> QED
  BY <1>1, <1>3, <1>4, <1>6, StepCalls DEF StepName

LEMMA ReleaseCalls ==
  ASSUME NEW R, CallsInv(R), NEW op \in Op, NEW expected \in EntityState, Release(op, expected)
  PROVE  CallKept(R)
<1> DEFINE error == ReleaseError(mem, op, expected)
           next == IF error = "none" THEN CommittedRelease(mem, op, expected) ELSE mem
           value == Released(expected)
<1>1. /\ Step(op, "release", expected, error, value, next)
      /\ UNCHANGED <<layouts, fresh>>
  BY DEF Release
<1>2. /\ Reliable(mem, R, layouts, fresh) /\ DocTyped(mem) /\ StorageInv /\ fresh \in Nat
  BY <1>1, MemReliable DEF Step
<1>3. StorageInv' /\ LayoutsFrame /\ \A l \in Id : SessionFrame(l)
  BY <1>1, <1>2, ReleaseSafe, QuietFrame
<1>4. ASSUME error = "none"
      PROVE  /\ DocTyped(next) /\ next.steps = mem.steps
             /\ Continues(mem, next) /\ AnchorsFrom(next, R)
             /\ Outcome(next, op, expected.data, ReleaseIt)
  <2>1. /\ mem.entities[expected.data.entity] # NoEntity
        /\ mem.entities[expected.data.entity].published # NoLayout
        /\ mem.entities[expected.data.entity].public = expected
        /\ FinishError(mem, op, expected.data, ReleaseIt) = "none"
    BY <1>4 DEF ReleaseError, EntityError
  <2>2. /\ next = CommittedRelease(mem, op, expected)
        /\ expected.data \in DataKey /\ ReleaseIt \in ManagedAction
        /\ value \in EntityState
    BY <1>4, ReleasedTyped DEF EntityState, ReleaseIt, ManagedAction
  <2> HIDE DEF error, next
  <2>3. DocTyped(next) /\ next.steps = mem.steps
    BY <1>2, <2>1, <2>2, CommittedReleaseTyped
  <2>4. next.completed = [mem.completed EXCEPT
          ![op] = [data |-> expected.data, action |-> ReleaseIt, state |-> value]]
    BY <1>2, <2>1, <2>2, ReleaseRecords
  <2>5. Continues(mem, next) /\ Outcome(next, op, expected.data, ReleaseIt)
    BY <1>2, <2>1, <2>2, <2>4, FinishContinues
  <2>6. /\ next.entities[expected.data.entity] = [public |-> value, published |-> NoLayout]
        /\ \A f \in Entity : f # expected.data.entity => next.entities[f] = mem.entities[f]
    BY <1>2, <2>1, <2>2, CommittedReleaseParts DEF Exists, Offline
  <2>7. value.anchors = expected.anchors
    BY DEF Released, Moved
  <2>8. expected.anchors \subseteq R
    BY <1>2, <2>1, <2>2 DEF Reliable, AnchorsFrom, Exists, DataKey
  <2> HIDE DEF value
  <2>9. AnchorsFrom(next, R)
    BY <1>2, <2>6, <2>7, <2>8 DEF Reliable, AnchorsFrom, Exists
  <2> QED
    BY <2>3, <2>5, <2>9
<1> HIDE DEF error, next, value
<1>5. error = "none" => Means(next, op, "release", expected, value)
  BY <1>4 DEF Means
<1> QED
  BY <1>1, <1>3, <1>4, <1>5, StepCalls DEF StepName

\* A directory that is created under the next number.
LEMMA DrawnFrame ==
  ASSUME StorageInv, fresh \in Id, fresh' = fresh + 1, NEW layout,
         layouts' = [layouts EXCEPT ![fresh] = layout]
  PROVE  LayoutsFrame /\ \A l \in Id : SessionFrame(l)
<1>1. fresh \in Nat /\ layouts \in [Id -> Layout] /\ layouts[fresh].session = "free"
  BY DEF Id, StorageInv, LayoutsKept, TypeOK
<1>2. \A l \in Id : l # fresh => layouts'[l] = layouts[l]
  BY <1>1
<1> QED
  BY <1>1, <1>2 DEF LayoutsFrame, SessionFrame, Locked, Id

LEMMA PrepareRecallCalls ==
  ASSUME NEW R, CallsInv(R), NEW op \in Op, NEW expected \in EntityState,
         NEW anchor \in ArchiveReceipt, PrepareRecall(op, expected, anchor)
  PROVE  CallKept(R)
<1> DEFINE error == PrepareRecallError(mem, expected, anchor)
           target == NewTarget(expected, anchor, fresh)
           owner == [op |-> op, target |-> target, anchor |-> anchor]
           next == [mem EXCEPT !.recalls = @ \cup {owner}]
           request == [expected |-> expected, anchor |-> anchor]
<1>1. /\ fresh \in Id /\ Step(op, "prepare_recall", request, error, target, next)
      /\ IF error = "none"
           THEN layouts' = [layouts EXCEPT ![fresh] = NewLayout] /\ fresh' = fresh + 1
           ELSE layouts' = layouts /\ fresh' = fresh
  BY DEF PrepareRecall
<1>2. /\ Reliable(mem, R, layouts, fresh) /\ DocTyped(mem) /\ StorageInv /\ fresh \in Nat
  BY <1>1, MemReliable DEF Step
<1>3. StorageInv'
  BY <1>2, PrepareRecallSafe
<1>4. LayoutsFrame /\ \A l \in Id : SessionFrame(l)
  <2> HIDE DEF error
  <2>1. CASE error = "none"
    BY <1>1, <1>2, <2>1, DrawnFrame
  <2>2. CASE error # "none"
    BY <1>1, <1>2, <2>2, QuietFrame
  <2> QED
    BY <2>1, <2>2
<1>5. DocTyped(next)
  BY <1>1, <1>2, RequestedTyped
<1>6. /\ next.steps = mem.steps /\ next.completed = mem.completed
      /\ next.entities = mem.entities
  BY <1>2 DEF DocTyped, State
<1>7. /\ target.data = expected.data /\ target.archive = anchor.key
      /\ request.expected = expected /\ request.anchor = anchor
  BY DEF NewTarget
<1> HIDE DEF error, next, target, request
<1>8. /\ Continues(mem, next) /\ AnchorsFrom(next, R)
      /\ Means(next, op, "prepare_recall", request, target)
  BY <1>2, <1>6, <1>7, ContinuesSame DEF Reliable, AnchorsFrom, Exists, Means
<1> QED
  BY <1>1, <1>3, <1>4, <1>5, <1>6, <1>8, StepCalls DEF StepName

LEMMA CommitRecallRefusedCalls ==
  ASSUME NEW R, CallsInv(R), NEW op \in Op, NEW target \in RecallTarget,
         NEW evidence \in Content, CommitRecallRefused(op, target, evidence)
  PROVE  CallKept(R)
<1> DEFINE error == VerifyRecallError(mem, op, target, evidence)
           request == RecallRequest(target, evidence)
<1>1. /\ error # "none" /\ Step(op, "commit_recall", request, error, NoValue, mem)
      /\ UNCHANGED <<layouts, fresh>>
  BY DEF CommitRecallRefused, SavedFailure
<1>2. StorageInv /\ fresh \in Nat
  BY <1>1, MemReliable DEF Step
<1>3. StorageInv' /\ LayoutsFrame /\ \A l \in Id : SessionFrame(l)
  BY <1>1, <1>2, CommitRecallRefusedSafe, QuietFrame
<1> HIDE DEF error, request
<1> QED
  BY <1>1, <1>3, StepCalls DEF StepName

\* Sealing a layout that no session holds.
LEMMA SealFrame ==
  ASSUME StorageInv, NEW l \in Id, ~Locked(layouts, l),
         layouts' \in {Seal(layouts, l), SealUnsynced(layouts, l)}, fresh' = fresh
  PROVE  LayoutsFrame /\ \A k \in Id : SessionFrame(k)
<1>1. layouts \in [Id -> Layout] /\ fresh \in Nat
  BY LayoutAssumption DEF StorageInv, TypeOK
<1>2. \A k \in Id : /\ layouts'[k].there = layouts[k].there
                    /\ layouts'[k].data = layouts[k].data
                    /\ layouts'[k].session = layouts[k].session
                    /\ layouts[k].seal = "sealed" => layouts'[k].seal = "sealed"
  BY <1>1 DEF Seal, SealUnsynced, Layout
<1> QED
  BY <1>1, <1>2 DEF LayoutsFrame, SessionFrame

LEMMA CommitRecallCalls ==
  ASSUME NEW R, CallsInv(R), NEW op \in Op, NEW target \in RecallTarget,
         NEW evidence \in Content, CommitRecall(op, target, evidence)
  PROVE  CallKept(R)
<1> DEFINE request == RecallRequest(target, evidence)
           action == RecallFrom(target.archive)
           error == FinishError(mem, op, target.data, action)
           next == CommittedRecall(mem, op, target)
           value == Recalled(mem, target)
<1>1. /\ VerifyRecallError(mem, op, target, evidence) = "none"
      /\ Step(op, "commit_recall", request, error, value, next)
      /\ layouts' = Seal(layouts, target.layout_id) /\ fresh' = fresh
  BY DEF CommitRecall
<1>2. /\ Reliable(mem, R, layouts, fresh) /\ DocTyped(mem) /\ StorageInv
  BY <1>1, MemReliable DEF Step
<1>3. /\ mem.entities[target.data.entity] # NoEntity
      /\ ~Locked(layouts, target.layout_id) /\ target.layout_id \in Id
      /\ target.data \in DataKey /\ action \in ManagedAction
  BY <1>1, VerifiedRecall DEF RecallTarget, RecallFrom, ManagedAction
<1>4. StorageInv' /\ LayoutsFrame /\ \A l \in Id : SessionFrame(l)
  BY <1>1, <1>2, <1>3, CommitRecallSafe, SealFrame
<1>5. ASSUME error = "none"
      PROVE  /\ DocTyped(next) /\ next.steps = mem.steps
             /\ Continues(mem, next) /\ AnchorsFrom(next, R)
             /\ Outcome(next, op, target.data, action)
  <2>1. FinishError(mem, op, target.data, action) = "none"
    BY <1>5
  <2>2. DocTyped(next) /\ next.steps = mem.steps /\ value \in EntityState
    BY <1>2, <1>3, CommittedRecallTyped, RecalledTyped
  <2>3. next.completed = [mem.completed EXCEPT
          ![op] = [data |-> target.data, action |-> action, state |-> value]]
    BY <1>2, <1>3, RecallRecords
  <2>4. /\ next.entities[target.data.entity] =
             [public |-> value, published |-> target.layout_id]
        /\ \A f \in Entity : f # target.data.entity => next.entities[f] = mem.entities[f]
    BY <1>2, <1>3, CommittedRecallParts DEF Exists
  <2>5. value.anchors = mem.entities[target.data.entity].public.anchors
    BY DEF Recalled, Moved
  <2>6. mem.entities[target.data.entity].public.anchors \subseteq R
    BY <1>2, <1>3 DEF Reliable, AnchorsFrom, Exists, DataKey
  <2> HIDE DEF error, next, value, action
  <2>7. Continues(mem, next) /\ Outcome(next, op, target.data, action)
    BY <1>2, <1>3, <2>1, <2>2, <2>3, FinishContinues
  <2>8. AnchorsFrom(next, R)
    BY <1>2, <2>4, <2>5, <2>6 DEF Reliable, AnchorsFrom, Exists
  <2> QED
    BY <2>2, <2>7, <2>8
<1>6. request.target = target
  BY DEF RecallRequest
<1> HIDE DEF error, next, value, request
<1>7. error = "none" => Means(next, op, "commit_recall", request, value)
  BY <1>5, <1>6 DEF Means
<1> QED
  BY <1>1, <1>4, <1>5, <1>7, StepCalls DEF StepName

\* Calls that change no document.
LEMMA NoDocumentCalls ==
  ASSUME NEW R, CallsInv(R), UNCHANGED <<disk, durable>>, StorageInv', LayoutsFrame,
         \A l \in Id : SessionFrame(l)
  PROVE  CallKept(R)
<1>1. fresh' \in Nat /\ StorageInv /\ DocTyped(disk) /\ DocTyped(durable)
  BY LayoutAssumption DEF CallsInv, StorageInv, TypeOK, DocTyped
<1>2. \A s \in Documents : Reliable(s, R, layouts', fresh')
  BY <1>1, ReliableFrame DEF CallsInv, Documents
<1>3. OutcomesFrame
  BY ContinuesSame DEF OutcomesFrame, Documents
<1> QED
  BY <1>2, <1>3 DEF CallKept, Documents

LEMMA ReplayCalls ==
  ASSUME NEW R, CallsInv(R), NEW op \in Op, NEW name \in StepName, NEW request,
         Replay(op, name, request)
  PROVE  CallKept(R)
<1>1. /\ UNCHANGED <<mem, disk, durable, poisoned, up, layouts, fresh>> /\ StorageInv
  BY DEF Replay, CallsInv
<1>2. TypeOK'
  BY <1>1, ReplayTyped DEF StorageInv
<1>3. StorageInv'
  BY <1>1, <1>2 DEF StorageInv, Coherent, Documents, Healthy, LayoutsKept
<1>4. fresh <= fresh'
  BY <1>1, LayoutAssumption DEF StorageInv, TypeOK
<1> QED
  BY <1>1, <1>3, <1>4, QuietFrame, NoDocumentCalls

LEMMA CommitRecallSealUncertainCalls ==
  ASSUME NEW R, CallsInv(R), NEW op \in Op, NEW target \in RecallTarget,
         NEW evidence \in Content, CommitRecallSealUncertain(op, target, evidence)
  PROVE  CallKept(R)
<1>1. /\ UNCHANGED <<mem, disk, durable, poisoned, up, fresh, told>> /\ StorageInv
      /\ VerifyRecallError(mem, op, target, evidence) = "none"
      /\ layouts' = SealUnsynced(layouts, target.layout_id)
  BY DEF CommitRecallSealUncertain, CallsInv, docs
<1>2. ~Locked(layouts, target.layout_id) /\ target.layout_id \in Id
  BY <1>1, VerifiedRecall DEF RecallTarget
<1>3. TypeOK'
  BY <1>1, <1>2, SealTyped DEF StorageInv, TypeOK
<1>4. StorageInv'
  BY <1>1, <1>3, CommitRecallSealUncertainSafe
<1> QED
  BY <1>1, <1>2, <1>4, SealFrame, NoDocumentCalls

LEMMA ImportCalls ==
  ASSUME NEW R, CallsInv(R), NEW e \in Entity, NEW c \in Content, Import(e, c)
  PROVE  CallKept(R)
<1> DEFINE record == [public |-> Imported(e, c), published |-> fresh]
           next == [mem EXCEPT !.entities[e] = record]
<1>1. /\ Healthy /\ Persist(next, {}) /\ fresh \in Id /\ fresh' = fresh + 1
      /\ layouts' = [layouts EXCEPT ![fresh] = SealedLayout(c)]
  BY DEF Import
<1>2. /\ Reliable(mem, R, layouts, fresh) /\ DocTyped(mem) /\ StorageInv
  BY <1>1, MemReliable
<1>3. StorageInv' /\ LayoutsFrame /\ \A l \in Id : SessionFrame(l)
  BY <1>1, <1>2, ImportSafe, DrawnFrame
<1>4. /\ next.steps = mem.steps /\ next.completed = mem.completed
      /\ next.entities[e] = record
      /\ \A f \in Entity : f # e => next.entities[f] = mem.entities[f]
  BY <1>2 DEF DocTyped, State
<1>5. record.public.anchors = {}
  BY DEF Imported
<1> HIDE DEF next, record
<1>6. fresh' \in Nat /\ Reliable(mem, R, layouts', fresh')
  BY <1>2, <1>3, ReliableFrame, LayoutAssumption DEF StorageInv, TypeOK
<1>7. AnchorsFrom(next, R)
  BY <1>4, <1>5, <1>6 DEF Reliable, AnchorsFrom, Exists
<1>8. Meanings(next) /\ ViewsIntact(next, layouts', fresh')
  BY <1>4, <1>6 DEF Reliable, Meanings, Means, Outcome, Succeeded, ViewsIntact
<1> QED
  BY <1>1, <1>3, <1>4, <1>7, <1>8, ContinuesSame, PersistCalls DEF Reliable

\* Removing layouts that no session holds.
LEMMA RemovedFrame ==
  ASSUME StorageInv, NEW D, \A l \in D : ~Locked(layouts, l), layouts' = Remove(layouts, D),
         fresh' = fresh
  PROVE  LayoutsFrame /\ \A l \in Id : SessionFrame(l)
<1>1. fresh \in Nat
  BY LayoutAssumption DEF StorageInv, TypeOK
<1>2. \A l \in Id : \/ layouts'[l] = layouts[l]
                    \/ ~layouts'[l].there /\ ~Locked(layouts, l)
  BY DEF Remove, Removed
<1> QED
  BY <1>1, <1>2 DEF LayoutsFrame, SessionFrame

LEMMA CollectGarbageCalls ==
  ASSUME NEW R, CallsInv(R), CollectGarbage \/ CollectGarbageStops
  PROVE  CallKept(R)
<1>1. StorageInv /\ fresh' = fresh
  BY DEF CallsInv, CollectGarbage, CollectGarbageStops
<1>2. CASE CollectGarbage
  <2> DEFINE next == [mem EXCEPT !.gc = {}]
  <2>1. Healthy /\ Persist(next, {}) /\ layouts' = Remove(layouts, mem.gc)
        /\ \A l \in mem.gc : ~Locked(layouts, l)
    BY <1>2 DEF CollectGarbage
  <2>2. Reliable(mem, R, layouts, fresh) /\ DocTyped(mem)
    BY <2>1, MemReliable
  <2>3. StorageInv' /\ LayoutsFrame /\ \A l \in Id : SessionFrame(l)
    BY <1>1, <1>2, <2>1, CollectGarbageSafe, RemovedFrame
  <2>4. /\ next.steps = mem.steps /\ next.completed = mem.completed
        /\ next.entities = mem.entities
    BY <2>2 DEF DocTyped, State
  <2> HIDE DEF next
  <2>5. fresh' \in Nat /\ Reliable(mem, R, layouts', fresh')
    BY <1>1, <2>2, <2>3, ReliableFrame, LayoutAssumption DEF StorageInv, TypeOK
  <2>6. Reliable(next, R, layouts', fresh')
    BY <2>4, <2>5 DEF Reliable, Meanings, Means, Outcome, Succeeded, ViewsIntact, AnchorsFrom,
                      Exists
  <2> QED
    BY <2>1, <2>3, <2>4, <2>6, ContinuesSame, PersistCalls
<1>3. CASE CollectGarbageStops
  <2>1. PICK D \in SUBSET {l \in mem.gc : layouts[l].there /\ ~Locked(layouts, l)} :
          layouts' = Remove(layouts, D)
    BY <1>3 DEF CollectGarbageStops
  <2>2. LayoutsFrame /\ \A l \in Id : SessionFrame(l)
    BY <1>1, <2>1, RemovedFrame
  <2>3. UNCHANGED <<disk, durable>>
    BY <1>3 DEF CollectGarbageStops, docs
  <2> QED
    BY <1>1, <1>3, <2>2, <2>3, CollectGarbageStopsSafe, NoDocumentCalls
<1> QED
  BY <1>2, <1>3

\* The mover and the environment touch no document but to lose the newer one.
LEMMA OthersReliable ==
  ASSUME NEW R, CallsInv(R), StorageInv', LayoutsFrame, Documents' \subseteq Documents
  PROVE  (\A s \in Documents' : Reliable(s, R, layouts', fresh')) /\ OutcomesFrame
<1>1. fresh' \in Nat /\ StorageInv /\ DocTyped(disk) /\ DocTyped(durable)
  BY LayoutAssumption DEF CallsInv, StorageInv, TypeOK, DocTyped
<1>2. \A s \in Documents : Reliable(s, R, layouts', fresh')
  BY <1>1, ReliableFrame DEF CallsInv, Documents
<1> QED
  BY <1>2, ContinuesSame DEF OutcomesFrame
=============================================================================
