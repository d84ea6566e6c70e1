------------------------- MODULE LocalArchive_proofs -------------------------
(***************************************************************************)
(* The receipts of LocalArchive, for every value of its constants.  No     *)
(* receipt file is ever replaced, and power takes only those whose name    *)
(* nobody has synced, hence none that a caller has seen.  Their payloads   *)
(* stay because no session writes a sealed directory and no two attempts   *)
(* have one directory: numbers drawn earlier are below `serial'.           *)
(***************************************************************************)
EXTENDS LocalArchive, TLAPS

DirsKept(ds, n) ==
  /\ \A l \in Id : l >= n => ~ds[l].there /\ ds[l].seal = "open" /\ ds[l].session = "free"
  /\ \A l \in Id : ds[l].session = "writing" => ds[l].seal = "open"

\* The receipt file of a key, with its payload.
ObjectKept(object, k, ds, n) ==
  /\ object.receipt.key = k
  /\ object.payload < n
  /\ ds[object.payload].there
  /\ ds[object.payload].seal = "sealed"
  /\ ds[object.payload].data = object.receipt.content

ObjectsKept(objs, ds, n) ==
  \A k \in Key : objs[k] # NoObject => ObjectKept(objs[k], k, ds, n)

AttemptsKept(atts, objs, ds, n) ==
  \A x \in Op \X Key : atts[x] # NoAttempt =>
    LET l == atts[x].target.payload
    IN /\ ds[l].there /\ l < n
       /\ atts[x].target.key = x[2]
       /\ \A y \in Op \X Key : atts[y] # NoAttempt /\ atts[y].target.payload = l => y = x
       /\ \A k \in Key : objs[k] # NoObject /\ objs[k].payload = l => k = x[2]

(***************************************************************************)
(* The inductive invariant: TypeOK, what the files owe each other, and     *)
(* that every receipt a caller has seen is the durable one of its key.     *)
(***************************************************************************)
ArchiveInv ==
  /\ TypeOK
  /\ DirsKept(dirs, serial)
  /\ ObjectsKept(objects, dirs, serial)
  /\ AttemptsKept(attempts, objects, dirs, serial)
  /\ ReceiptsDurable

\* What no step does: withdraw or replace a durable receipt.
Keeps ==
  /\ synced \subseteq synced'
  /\ \A k \in synced : objects'[k] = objects[k]
  /\ returned \subseteq returned'

-----------------------------------------------------------------------------
(* Frames.                                                                 *)

LEMMA PublishedParts ==
  ASSUME TypeOK, NEW k \in Published
  PROVE  k \in Key /\ objects[k] # NoObject /\ objects[k] \in Committed
         /\ objects[k].payload \in Id /\ objects[k].receipt \in ArchiveReceipt
BY DEF Published, TypeOK, Committed

\* Directories may be locked, unlocked, sealed and written as long as those
\* that exist stay, and those that are sealed stay as they are.
LEMMA DirsMove ==
  ASSUME ArchiveInv, NEW others,
         \A l \in Id : dirs[l].there => others[l].there,
         \A l \in Id : dirs[l].seal = "sealed" =>
           others[l].seal = "sealed" /\ others[l].data = dirs[l].data
  PROVE  /\ ObjectsKept(objects, others, serial)
         /\ AttemptsKept(attempts, objects, others, serial)
<1>1. \A k \in Key : objects[k] # NoObject => objects[k].payload \in Id
  BY DEF ArchiveInv, TypeOK, Committed
<1>2. \A x \in Op \X Key : attempts[x] # NoAttempt => attempts[x].target.payload \in Id
  BY DEF ArchiveInv, TypeOK, Prepared, ArchiveTarget
<1>3. ObjectsKept(objects, others, serial)
  BY <1>1 DEF ArchiveInv, ObjectsKept, ObjectKept
<1>4. AttemptsKept(attempts, objects, others, serial)
  BY <1>2 DEF ArchiveInv, AttemptsKept
<1> QED
  BY <1>3, <1>4

\* A step that touches only the directories.
LEMMA MoverFrame ==
  ASSUME ArchiveInv, UNCHANGED <<objects, synced, attempts, serial, returned>>,
         dirs' \in [Id -> Layout], DirsKept(dirs', serial),
         \A l \in Id : dirs[l].there => dirs'[l].there,
         \A l \in Id : dirs[l].seal = "sealed" =>
           dirs'[l].seal = "sealed" /\ dirs'[l].data = dirs[l].data
  PROVE  ArchiveInv' /\ Keeps
<1>1. /\ ObjectsKept(objects, dirs', serial)
      /\ AttemptsKept(attempts, objects, dirs', serial)
  BY DirsMove
<1>2. TypeOK' /\ ReceiptsDurable'
  BY DEF ArchiveInv, TypeOK, ReceiptsDurable, Published
<1>3. (DirsKept(dirs, serial))' /\ (ObjectsKept(objects, dirs, serial))'
      /\ (AttemptsKept(attempts, objects, dirs, serial))'
  BY <1>1 DEF DirsKept, ObjectsKept, ObjectKept, AttemptsKept
<1> QED
  BY <1>2, <1>3 DEF ArchiveInv, Keeps

-----------------------------------------------------------------------------
(* Calls that sync objects/ and answer from it.                            *)

LEMMA SettleKeeps ==
  ASSUME ArchiveInv, SettleObjects, UNCHANGED <<objects, attempts, dirs, serial>>,
         \/ UNCHANGED returned
         \/ \E k \in Published : Return(objects[k].receipt)
  PROVE  ArchiveInv' /\ Keeps
<1>1. TypeOK' /\ returned \subseteq returned'
  BY PublishedParts DEF ArchiveInv, TypeOK, SettleObjects, Return, Published
<1>2. /\ DirsKept(dirs, serial)' /\ ObjectsKept(objects, dirs, serial)'
      /\ AttemptsKept(attempts, objects, dirs, serial)'
  BY DEF ArchiveInv, DirsKept, ObjectsKept, ObjectKept, AttemptsKept
<1>3. synced \subseteq synced'
  BY DEF ArchiveInv, TypeOK, SettleObjects
<1>4. \A k \in Published : objects[k].receipt.key = k
  BY DEF ArchiveInv, ObjectsKept, ObjectKept, Published
<1>5. ReceiptsDurable'
  BY <1>3, <1>4 DEF ArchiveInv, ReceiptsDurable, SettleObjects, Return
<1> QED
  BY <1>1, <1>2, <1>3, <1>5 DEF ArchiveInv, Keeps

LEMMA AnswersKeep ==
  ASSUME ArchiveInv,
         \/ \E k \in Key : Inspect(k) \/ PrepareRefused(k)
         \/ \E receipt \in returned : Open(receipt)
         \/ \E op, target, view : CommitAgain(op, target, view)
  PROVE  ArchiveInv' /\ Keeps
BY SettleKeeps DEF Inspect, PrepareRefused, Open, CommitAgain, CommittedIs

-----------------------------------------------------------------------------
(* prepare.                                                                *)

LEMMA SettledParts ==
  ASSUME TypeOK, NEW x \in Op \X Key
  PROVE  /\ SettledAttempts[x] \in Prepared \cup {NoAttempt}
         /\ SettledAttempts[x] = NoAttempt <=> attempts[x] = NoAttempt
         /\ attempts[x] # NoAttempt => SettledAttempts[x].target = attempts[x].target
<1>1. CASE attempts[x] = NoAttempt
  BY <1>1 DEF SettledAttempts
<1>2. CASE attempts[x] # NoAttempt
  <2>1. attempts[x] \in Prepared
    BY <1>2 DEF TypeOK
  <2>2. SettledAttempts[x] = [attempts[x] EXCEPT !.synced = TRUE]
    BY <1>2 DEF SettledAttempts
  <2>3. SettledAttempts[x] \in Prepared /\ SettledAttempts[x].target = attempts[x].target
    BY <2>1, <2>2 DEF Prepared
  <2> QED
    BY <1>2, <2>3, AbsentAssumption
<1> QED
  BY <1>1, <1>2

\* Attempts may forget, settle and, under a new number, be added.
LEMMA PrepareNewKeeps ==
  ASSUME ArchiveInv, NEW op \in Op, NEW k \in Key, NEW view \in View, PrepareNew(op, k, view)
  PROVE  ArchiveInv' /\ Keeps
<1> DEFINE z == <<op, k>>
<1>1. /\ k \notin Published /\ attempts[z] = NoAttempt /\ serial \in Id
      /\ dirs' = [dirs EXCEPT ![serial] = NewLayout] /\ serial' = serial + 1
      /\ UNCHANGED <<objects, synced, returned>>
  BY DEF PrepareNew
<1>2. z \in Op \X Key /\ NewTarget(k) \in ArchiveTarget
      /\ NewTarget(k).payload = serial /\ NewTarget(k).key = k /\ z[2] = k
  BY <1>1 DEF NewTarget, ArchiveTarget
<1>3. /\ attempts' \in [Op \X Key -> Prepared \cup {NoAttempt}]
      /\ \A x \in Op \X Key : attempts'[x] # NoAttempt =>
           \/ attempts[x] # NoAttempt /\ attempts'[x].target = attempts[x].target
           \/ x = z /\ attempts'[x].target = NewTarget(k)
  <2> DEFINE Added(b) == [view |-> view, target |-> NewTarget(k), synced |-> b]
  <2>1. SettledAttempts \in [Op \X Key -> Prepared \cup {NoAttempt}]
    BY SettledParts DEF ArchiveInv, SettledAttempts
  <2>2. \A b \in BOOLEAN : Added(b) \in Prepared /\ Added(b).target = NewTarget(k)
    BY <1>2 DEF Prepared
  <2>3. \/ \E b \in BOOLEAN : attempts' = [SettledAttempts EXCEPT ![z] = Added(b)]
        \/ attempts' = SettledAttempts
    BY DEF PrepareNew
  <2> HIDE DEF Added
  <2>4. CASE attempts' = SettledAttempts
    BY <2>1, <2>4, SettledParts DEF ArchiveInv
  <2>5. ASSUME NEW b \in BOOLEAN, attempts' = [SettledAttempts EXCEPT ![z] = Added(b)]
        PROVE  /\ attempts' \in [Op \X Key -> Prepared \cup {NoAttempt}]
               /\ \A x \in Op \X Key : attempts'[x] # NoAttempt =>
                    \/ attempts[x] # NoAttempt /\ attempts'[x].target = attempts[x].target
                    \/ x = z /\ attempts'[x].target = NewTarget(k)
    BY <1>2, <2>1, <2>2, <2>5, SettledParts DEF ArchiveInv
  <2> QED
    BY <2>3, <2>4, <2>5
<1> HIDE DEF z
<1>4. dirs \in [Id -> Layout] /\ serial \in Nat /\ ~dirs[serial].there
  BY <1>1 DEF ArchiveInv, TypeOK, DirsKept, Id
<1>5. /\ dirs'[serial] = NewLayout
      /\ \A l \in Id : l # serial => dirs'[l] = dirs[l]
  BY <1>1, <1>4
<1>6. TypeOK' /\ ReceiptsDurable'
  <2>1. dirs' \in [Id -> Layout] /\ serial' \in 1 .. MaxId + 1
    BY <1>1, <1>4, LayoutAssumption DEF NewLayout, Layout, Id
  <2> QED
    BY <1>1, <1>3, <2>1 DEF ArchiveInv, TypeOK, ReceiptsDurable, Published
<1>7. DirsKept(dirs', serial')
  BY <1>1, <1>4, <1>5 DEF ArchiveInv, DirsKept, NewLayout, Id
<1>8. ObjectsKept(objects', dirs', serial')
  <2> SUFFICES ASSUME NEW i \in Key, objects[i] # NoObject
               PROVE  ObjectKept(objects[i], i, dirs', serial')
    BY <1>1 DEF ObjectsKept
  <2>1. ObjectKept(objects[i], i, dirs, serial)
    BY DEF ArchiveInv, ObjectsKept
  <2>2. objects[i].payload \in Id
    BY DEF ArchiveInv, TypeOK, Committed
  <2> QED
    BY <1>1, <1>4, <1>5, <2>1, <2>2 DEF ObjectKept, Id
<1>9. AttemptsKept(attempts', objects', dirs', serial')
  <2>1. \A x \in Op \X Key : attempts[x] # NoAttempt =>
          attempts[x].target.payload \in Id /\ attempts[x].target.payload < serial
    BY DEF ArchiveInv, TypeOK, Prepared, ArchiveTarget, AttemptsKept
  <2>2. \A i \in Key : objects[i] # NoObject => objects[i].payload < serial
    BY DEF ArchiveInv, ObjectsKept, ObjectKept
  <2> SUFFICES ASSUME NEW x \in Op \X Key, attempts'[x] # NoAttempt
               PROVE  LET l == attempts'[x].target.payload
                      IN /\ dirs'[l].there /\ l < serial'
                         /\ attempts'[x].target.key = x[2]
                         /\ \A y \in Op \X Key :
                              attempts'[y] # NoAttempt /\ attempts'[y].target.payload = l => y = x
                         /\ \A i \in Key : objects'[i] # NoObject /\ objects'[i].payload = l => i = x[2]
    BY DEF AttemptsKept
  <2>3. CASE attempts[x] # NoAttempt /\ attempts'[x].target = attempts[x].target
    BY <1>1, <1>2, <1>3, <1>4, <1>5, <2>1, <2>3 DEF ArchiveInv, AttemptsKept, Id
  <2>4. CASE x = z /\ attempts'[x].target = NewTarget(k)
    BY <1>1, <1>2, <1>3, <1>4, <1>5, <2>1, <2>2, <2>4 DEF NewLayout, Id
  <2> QED
    BY <1>3, <2>3, <2>4
<1> QED
  BY <1>1, <1>6, <1>7, <1>8, <1>9
     DEF ArchiveInv, Keeps, DirsKept, ObjectsKept, ObjectKept, AttemptsKept

-----------------------------------------------------------------------------
(* commit and resume_commit.                                               *)

LEMMA CommitParts ==
  ASSUME ArchiveInv, NEW op \in Op, NEW target \in Targets, NEW view \in View, NEW evidence,
         CanCommit(op, target, view, evidence)
  PROVE  /\ <<op, target.key>> \in Op \X Key /\ target.key \in Key /\ target.payload \in Id
         /\ attempts[<<op, target.key>>] # NoAttempt
         /\ attempts[<<op, target.key>>].target = target
         /\ objects[target.key] = NoObject
         /\ dirs[target.payload].there /\ dirs[target.payload].session = "free"
         /\ dirs[target.payload].data = view.content
         /\ view.content \in Content /\ view.data \in Data
<1>1. target \in ArchiveTarget
  BY DEF Targets, ArchiveInv, TypeOK, Prepared
<1>2. /\ target.key \in Key /\ target.payload \in Id
      /\ <<op, target.key>> \in Op \X Key
  BY <1>1 DEF ArchiveTarget
<1>3. /\ attempts[<<op, target.key>>] # NoAttempt
      /\ attempts[<<op, target.key>>].target = target
      /\ target.key \notin Published /\ ~Locked(dirs, target.payload)
      /\ dirs[target.payload].data = view.content
  BY DEF CanCommit, OwnsTarget, Owns, Target, Verified
<1>4. dirs[target.payload].there
  BY <1>2, <1>3 DEF ArchiveInv, AttemptsKept
<1> QED
  BY <1>2, <1>3, <1>4, ArchiveAssumption DEF Published, Locked

\* Sealing an unlocked payload that is still unpublished.
LEMMA SealMoves ==
  ASSUME ArchiveInv, NEW l \in Id, dirs[l].there, dirs[l].session = "free",
         NEW others, others = Seal(dirs, l) \/ others = SealUnsynced(dirs, l)
  PROVE  /\ others \in [Id -> Layout] /\ DirsKept(others, serial)
         /\ \A i \in Id : others[i].there = dirs[i].there /\ others[i].data = dirs[i].data
         /\ \A i \in Id : dirs[i].seal = "sealed" => others[i].seal = "sealed"
         /\ others = Seal(dirs, l) => others[l].seal = "sealed"
<1>1. dirs \in [Id -> Layout]
  BY DEF ArchiveInv, TypeOK
<1>2. \E seal \in {"marked", "sealed"} :
        /\ others = [dirs EXCEPT ![l] = [dirs[l] EXCEPT !.seal = seal]]
        /\ dirs[l].seal = "sealed" => seal = "sealed"
        /\ others = Seal(dirs, l) => seal = "sealed"
  <2>1. CASE others = Seal(dirs, l)
    BY <1>1, <2>1 DEF Seal
  <2>2. CASE others = SealUnsynced(dirs, l) /\ others # Seal(dirs, l)
    BY <1>1, <2>2 DEF SealUnsynced
  <2> QED
    BY <2>1, <2>2
<1>3. PICK seal \in {"marked", "sealed"} :
        /\ others = [dirs EXCEPT ![l] = [dirs[l] EXCEPT !.seal = seal]]
        /\ dirs[l].seal = "sealed" => seal = "sealed"
        /\ others = Seal(dirs, l) => seal = "sealed"
  BY <1>2
<1> DEFINE moved == [dirs[l] EXCEPT !.seal = seal]
<1>4. /\ moved \in Layout /\ moved.there = dirs[l].there /\ moved.data = dirs[l].data
      /\ moved.session = "free" /\ moved.seal = seal
  BY <1>1 DEF Layout
<1> HIDE DEF moved
<1>5. /\ others \in [Id -> Layout] /\ others[l] = moved
      /\ \A i \in Id : i # l => others[i] = dirs[i]
  BY <1>1, <1>3, <1>4 DEF moved
<1>6. DirsKept(others, serial)
  BY <1>4, <1>5 DEF ArchiveInv, DirsKept
<1> QED
  BY <1>3, <1>4, <1>5, <1>6

LEMMA SealKeeps ==
  ASSUME ArchiveInv, NEW op \in Op, NEW target \in Targets, NEW view \in View, NEW evidence,
         \/ CommitStopsSealed(op, target, view, evidence)
         \/ CommitSealUncertain(op, target, view, evidence)
  PROVE  ArchiveInv' /\ Keeps
<1>1. /\ CanCommit(op, target, view, evidence)
      /\ dirs' = Seal(dirs, target.payload) \/ dirs' = SealUnsynced(dirs, target.payload)
      /\ UNCHANGED <<objects, synced, attempts, serial, returned>>
  BY DEF CommitStopsSealed, CommitSealUncertain
<1>2. /\ target.payload \in Id
      /\ dirs[target.payload].there /\ dirs[target.payload].session = "free"
  BY <1>1, CommitParts
<1>3. /\ dirs' \in [Id -> Layout] /\ DirsKept(dirs', serial)
      /\ \A i \in Id : dirs'[i].there = dirs[i].there /\ dirs'[i].data = dirs[i].data
      /\ \A i \in Id : dirs[i].seal = "sealed" => dirs'[i].seal = "sealed"
      /\ dirs' = Seal(dirs, target.payload) => dirs'[target.payload].seal = "sealed"
  BY <1>1, <1>2, SealMoves
<1> QED
  BY <1>1, <1>3, MoverFrame

\* The receipt is linked; its name may or may not be synced yet.
LEMMA PublishKeeps ==
  ASSUME ArchiveInv, NEW op \in Op, NEW target \in Targets, NEW view \in View, NEW evidence,
         \/ Commit(op, target, view, evidence)
         \/ CommitUnsynced(op, target, view, evidence)
  PROVE  ArchiveInv' /\ Keeps
<1> DEFINE k == target.key
           l == target.payload
           z == <<op, k>>
           receipt == NewReceipt(target, view)
           object == [receipt |-> receipt, payload |-> l]
<1>1. /\ CanCommit(op, target, view, evidence) /\ serial \in Id /\ serial' = serial + 1
      /\ dirs' = Seal(dirs, l) /\ objects' = [objects EXCEPT ![k] = object]
      /\ UNCHANGED attempts
      /\ \/ synced' = Published \cup {k} /\ returned' = returned \cup {receipt}
         \/ UNCHANGED <<synced, returned>>
  BY DEF Commit, CommitUnsynced, Publish, Return
<1>2. /\ z \in Op \X Key /\ k \in Key /\ l \in Id /\ z[2] = k
      /\ attempts[z] # NoAttempt /\ attempts[z].target = target
      /\ objects[k] = NoObject
      /\ dirs[l].there /\ dirs[l].session = "free" /\ dirs[l].data = view.content
      /\ view.content \in Content /\ view.data \in Data
  BY <1>1, CommitParts
<1>3. /\ dirs' \in [Id -> Layout] /\ DirsKept(dirs', serial)
      /\ \A i \in Id : dirs'[i].there = dirs[i].there /\ dirs'[i].data = dirs[i].data
      /\ \A i \in Id : dirs[i].seal = "sealed" => dirs'[i].seal = "sealed"
      /\ dirs'[l].seal = "sealed"
  BY <1>1, <1>2, SealMoves
<1>4. /\ receipt \in ArchiveReceipt /\ receipt.key = k /\ receipt.content = dirs[l].data
      /\ object \in Committed /\ object.receipt = receipt /\ object.payload = l
      /\ serial \in Nat
  BY <1>1, <1>2 DEF NewReceipt, ArchiveReceipt, Committed, Id
<1>5. object # NoObject
  BY <1>4, AbsentAssumption
<1>6. l < serial
  BY <1>2 DEF ArchiveInv, AttemptsKept
<1> HIDE DEF k, l, z, receipt, object
<1>7. /\ objects' \in [Key -> Committed \cup {NoObject}] /\ objects'[k] = object
      /\ \A i \in Key : i # k => objects'[i] = objects[i]
  BY <1>1, <1>2, <1>4 DEF ArchiveInv, TypeOK
<1>8. k \notin synced
  BY <1>2 DEF ArchiveInv, TypeOK, Published
<1>9. Published' = Published \cup {k}
  BY <1>2, <1>5, <1>7 DEF Published
<1>10. synced \subseteq synced' /\ returned \subseteq returned' /\ synced' \subseteq Published'
  BY <1>1, <1>9 DEF ArchiveInv, TypeOK
<1>11. \A i \in synced : objects'[i] = objects[i]
  BY <1>7, <1>8 DEF ArchiveInv, TypeOK, Published
<1>12. TypeOK'
  <2>1. serial' \in 1 .. MaxId + 1
    BY <1>1, LayoutAssumption DEF Id
  <2>2. returned' \subseteq ArchiveReceipt
    BY <1>1, <1>4 DEF ArchiveInv, TypeOK
  <2> QED
    BY <1>1, <1>3, <1>7, <1>10, <2>1, <2>2 DEF ArchiveInv, TypeOK
<1>13. ReceiptsDurable'
  BY <1>1, <1>4, <1>7, <1>10, <1>11 DEF ArchiveInv, ReceiptsDurable
<1>14. DirsKept(dirs', serial')
  BY <1>1, <1>3, <1>4 DEF DirsKept, Id
<1>15. /\ ObjectsKept(objects, dirs', serial)
       /\ AttemptsKept(attempts, objects, dirs', serial)
  BY <1>3, DirsMove
<1>16. ObjectsKept(objects', dirs', serial')
  <2>1. ObjectKept(object, k, dirs', serial')
    BY <1>1, <1>2, <1>3, <1>4, <1>6 DEF ObjectKept, Id
  <2>2. ASSUME NEW i \in Key, objects[i] # NoObject PROVE ObjectKept(objects[i], i, dirs', serial')
    <3>1. ObjectKept(objects[i], i, dirs', serial) /\ objects[i].payload \in Id
      BY <1>15, <2>2 DEF ObjectsKept, ArchiveInv, TypeOK, Committed
    <3> QED
      BY <1>1, <1>4, <3>1 DEF ObjectKept, Id
  <2> QED
    BY <1>7, <2>1, <2>2 DEF ObjectsKept
<1>17. AttemptsKept(attempts', objects', dirs', serial')
  <2> SUFFICES ASSUME NEW x \in Op \X Key, attempts[x] # NoAttempt
               PROVE  LET p == attempts[x].target.payload
                      IN /\ dirs'[p].there /\ p < serial'
                         /\ attempts[x].target.key = x[2]
                         /\ \A y \in Op \X Key :
                              attempts[y] # NoAttempt /\ attempts[y].target.payload = p => y = x
                         /\ \A i \in Key : objects'[i] # NoObject /\ objects'[i].payload = p => i = x[2]
    BY <1>1 DEF AttemptsKept
  <2>1. attempts[x].target.payload \in Id
    BY DEF ArchiveInv, TypeOK, Prepared, ArchiveTarget
  <2>2. attempts[x].target.payload = l => x = z
    BY <1>2 DEF l, ArchiveInv, AttemptsKept
  <2> QED
    BY <1>1, <1>2, <1>4, <1>7, <1>15, <2>1, <2>2 DEF AttemptsKept, Id
<1> QED
  BY <1>10, <1>11, <1>12, <1>13, <1>14, <1>16, <1>17
     DEF ArchiveInv, Keeps, DirsKept, ObjectsKept, ObjectKept, AttemptsKept

LEMMA CallKeeps ==
  ASSUME ArchiveInv, Call
  PROVE  ArchiveInv' /\ Keeps
<1>1. ASSUME NEW op \in Op, NEW view \in View, NEW target \in Targets, NEW evidence,
             AnyCommit(op, target, view, evidence)
      PROVE  ArchiveInv' /\ Keeps
  <2>1. CASE CommitAgain(op, target, view)
    BY <2>1, AnswersKeep
  <2>2. CASE Commit(op, target, view, evidence) \/ CommitUnsynced(op, target, view, evidence)
    BY <2>2, PublishKeeps
  <2>3. CASE \/ CommitStopsSealed(op, target, view, evidence)
             \/ CommitSealUncertain(op, target, view, evidence)
    BY <2>3, SealKeeps
  <2> QED
    BY <1>1, <2>1, <2>2, <2>3 DEF AnyCommit
<1>2. ASSUME NEW op \in Op, NEW view \in View, NEW target \in Targets,
             ResumeCommit(op, target, view)
      PROVE  ArchiveInv' /\ Keeps
  BY <1>1, <1>2 DEF ResumeCommit
<1>3. CASE \E k \in Key : Inspect(k) \/ PrepareRefused(k)
  BY <1>3, AnswersKeep
<1>4. CASE \E receipt \in returned : Open(receipt)
  BY <1>4, AnswersKeep
<1>5. ASSUME NEW op \in Op, NEW view \in View, NEW k \in Key, PrepareNew(op, k, view)
      PROVE  ArchiveInv' /\ Keeps
  BY <1>5, PrepareNewKeeps
<1> QED
  BY <1>1, <1>2, <1>3, <1>4, <1>5 DEF Call

-----------------------------------------------------------------------------
(* The mover, crashes and power losses.                                    *)

\* A session begins, ends or, while the directory is unsealed, writes.
LEMMA SessionMoves ==
  ASSUME ArchiveInv, NEW l \in Id, NEW layout \in Layout,
         dirs' = [dirs EXCEPT ![l] = layout],
         UNCHANGED <<objects, synced, attempts, serial, returned>>,
         layout.there = dirs[l].there, layout.seal = dirs[l].seal,
         layout.session # "free" => dirs[l].there \/ dirs[l].session # "free",
         layout.session = "writing" => layout.seal = "open",
         dirs[l].seal = "sealed" => layout.data = dirs[l].data
  PROVE  ArchiveInv' /\ Keeps
<1>1. dirs \in [Id -> Layout]
  BY DEF ArchiveInv, TypeOK
<1>2. /\ dirs' \in [Id -> Layout] /\ dirs'[l] = layout
      /\ \A i \in Id : i # l => dirs'[i] = dirs[i]
  BY <1>1
<1>3. DirsKept(dirs', serial)
  BY <1>2 DEF ArchiveInv, DirsKept
<1> QED
  BY <1>2, <1>3, MoverFrame

LEMMA MoverKeeps ==
  ASSUME ArchiveInv, Mover
  PROVE  ArchiveInv' /\ Keeps
<1>1. dirs \in [Id -> Layout]
  BY DEF ArchiveInv, TypeOK
<1>2. \A target \in Targets : target.payload \in Id
  BY DEF Targets, ArchiveInv, TypeOK, Prepared, ArchiveTarget
<1>3. ASSUME NEW l \in Id, BeginRead(l) PROVE ArchiveInv' /\ Keeps
  <2>1. [dirs[l] EXCEPT !.session = "reading"] \in Layout
    BY <1>1 DEF Layout
  <2> QED
    BY <1>1, <1>3, <2>1, SessionMoves DEF BeginRead, Layout
<1>4. ASSUME NEW l \in Id, BeginWrite(l) PROVE ArchiveInv' /\ Keeps
  <2>1. [dirs[l] EXCEPT !.session = "writing"] \in Layout
    BY <1>1 DEF Layout
  <2> QED
    BY <1>1, <1>4, <2>1, SessionMoves DEF BeginWrite, Fenced, Layout
<1>5. ASSUME NEW l \in Id, NEW c \in Content, WriteBytes(l, c) PROVE ArchiveInv' /\ Keeps
  <2>1. [dirs[l] EXCEPT !.data = c] \in Layout
    BY <1>1 DEF Layout
  <2>2. dirs[l].seal = "open"
    BY <1>5 DEF WriteBytes, ArchiveInv, DirsKept
  <2> QED
    BY <1>1, <1>5, <2>1, <2>2, SessionMoves DEF WriteBytes, Layout
<1>6. ASSUME NEW l \in Id, EndSession(l) PROVE ArchiveInv' /\ Keeps
  <2>1. [dirs[l] EXCEPT !.session = "free"] \in Layout
    BY <1>1 DEF Layout
  <2> QED
    BY <1>1, <1>6, <2>1, SessionMoves DEF EndSession, Layout
<1>7. ASSUME NEW k \in Published PROVE objects[k].payload \in Id
  BY PublishedParts DEF ArchiveInv
<1> QED
  BY <1>2, <1>3, <1>4, <1>5, <1>6, <1>7 DEF Mover

LEMMA CrashKeeps ==
  ASSUME ArchiveInv, Crash
  PROVE  ArchiveInv' /\ Keeps
<1>1. dirs \in [Id -> Layout]
  BY DEF ArchiveInv, TypeOK
<1>2. \A l \in Id :
        /\ dirs'[l] \in Layout /\ dirs'[l].session = "free"
        /\ dirs'[l].there = dirs[l].there /\ dirs'[l].seal = dirs[l].seal
        /\ dirs'[l].data = dirs[l].data
  BY <1>1 DEF Crash, Unlocked, Layout
<1>3. dirs' \in [Id -> Layout]
  BY <1>2 DEF Crash, Unlocked
<1>4. DirsKept(dirs', serial)
  BY <1>2 DEF ArchiveInv, DirsKept
<1> QED
  BY <1>2, <1>3, <1>4, MoverFrame DEF Crash

\* What survives is settled; what goes was known to no caller.
LEMMA PowerLossKeeps ==
  ASSUME ArchiveInv, PowerLoss
  PROVE  ArchiveInv' /\ Keeps
<1>1. PICK gone \in SUBSET (Published \ synced) :
        /\ objects' = [k \in Key |-> IF k \in gone THEN NoObject ELSE objects[k]]
        /\ synced' = Published \ gone
  BY DEF PowerLoss
<1>2. PICK lapsed \in SUBSET (Op \X Key) :
        attempts' = [x \in Op \X Key |-> IF x \in lapsed THEN NoAttempt ELSE SettledAttempts[x]]
  BY DEF PowerLoss
<1>3. PICK lost \in SUBSET Volatile(dirs) : dirs' = AfterPowerLoss(dirs, lost)
  BY DEF PowerLoss
<1>4. UNCHANGED <<serial, returned>>
  BY DEF PowerLoss
<1>5. dirs \in [Id -> Layout] /\ objects \in [Key -> Committed \cup {NoObject}]
      /\ synced \subseteq Published
  BY DEF ArchiveInv, TypeOK
<1>6. /\ objects' \in [Key -> Committed \cup {NoObject}]
      /\ \A k \in Key : objects'[k] # NoObject => objects'[k] = objects[k]
      /\ \A k \in Key \ gone : objects'[k] = objects[k]
  BY <1>1, <1>5
<1>7. \A k \in synced : objects'[k] = objects[k] /\ k \in synced'
  BY <1>1, <1>5, <1>6 DEF Published
<1>8. synced' = Published'
  BY <1>1, <1>5, <1>6 DEF Published
<1>9. /\ attempts' \in [Op \X Key -> Prepared \cup {NoAttempt}]
      /\ \A x \in Op \X Key : attempts'[x] # NoAttempt =>
           attempts[x] # NoAttempt /\ attempts'[x].target = attempts[x].target
  BY <1>2, SettledParts DEF ArchiveInv
<1>10. \A l \in Id :
         /\ dirs'[l] \in Layout /\ dirs'[l].session = "free" /\ dirs'[l].there = dirs[l].there
         /\ dirs[l].seal = "sealed" => dirs'[l].seal = "sealed" /\ dirs'[l].data = dirs[l].data
         /\ dirs[l].seal = "open" => dirs'[l].seal = "open"
  BY <1>3, <1>5 DEF AfterPowerLoss, Volatile, Layout
<1>11. dirs' \in [Id -> Layout]
  BY <1>3, <1>10 DEF AfterPowerLoss
<1>12. /\ ObjectsKept(objects, dirs', serial)
       /\ AttemptsKept(attempts, objects, dirs', serial)
  BY <1>10, DirsMove
<1>13. ObjectsKept(objects', dirs', serial')
  BY <1>4, <1>6, <1>12 DEF ObjectsKept
<1>14. AttemptsKept(attempts', objects', dirs', serial')
  BY <1>4, <1>6, <1>9, <1>12 DEF AttemptsKept
<1>15. DirsKept(dirs', serial')
  BY <1>4, <1>10 DEF ArchiveInv, DirsKept
<1>16. TypeOK'
  BY <1>4, <1>6, <1>8, <1>9, <1>11 DEF ArchiveInv, TypeOK
<1>17. ReceiptsDurable'
  BY <1>4, <1>7 DEF ArchiveInv, ReceiptsDurable
<1> QED
  BY <1>4, <1>7, <1>13, <1>14, <1>15, <1>16, <1>17
     DEF ArchiveInv, Keeps, DirsKept, ObjectsKept, ObjectKept, AttemptsKept

LEMMA NextKeeps == ArchiveInv /\ [Next]_vars => ArchiveInv' /\ Keeps
<1> SUFFICES ASSUME ArchiveInv, [Next]_vars PROVE ArchiveInv' /\ Keeps
  OBVIOUS
<1>1. CASE UNCHANGED vars
  BY <1>1 DEF vars, ArchiveInv, Keeps, TypeOK, Published, ReceiptsDurable,
              DirsKept, ObjectsKept, ObjectKept, AttemptsKept
<1> QED
  BY <1>1, CallKeeps, MoverKeeps, CrashKeeps, PowerLossKeeps DEF Next

LEMMA ArchiveStarts == Init => ArchiveInv
<1> SUFFICES ASSUME Init PROVE ArchiveInv
  OBVIOUS
<1>1. \A k \in Key : objects[k] = NoObject
  BY DEF Init
<1>2. \A l \in Id : dirs[l] = Removed
  BY DEF Init
<1>3. \A x \in Op \X Key : attempts[x] = NoAttempt
  BY DEF Init
<1>4. TypeOK
  <2>1. Removed \in Layout
    BY DEF Removed, Layout
  <2> QED
    BY <1>1, <2>1, LayoutAssumption DEF Init, TypeOK, Published
<1>5. DirsKept(dirs, serial)
  BY <1>2 DEF DirsKept, Removed
<1>6. ObjectsKept(objects, dirs, serial) /\ AttemptsKept(attempts, objects, dirs, serial)
  BY <1>1, <1>3 DEF ObjectsKept, AttemptsKept
<1>7. ReceiptsDurable
  BY DEF Init, ReceiptsDurable
<1> QED
  BY <1>4, <1>5, <1>6, <1>7 DEF ArchiveInv

LEMMA AlwaysKept == Spec => []ArchiveInv
BY ArchiveStarts, NextKeeps, PTL DEF Spec

-----------------------------------------------------------------------------
(* Theorems.                                                               *)

\* Every variable keeps its type, for any number of attempts and keys.
THEOREM ArchiveTyped == Spec => []TypeOK
<1>1. ArchiveInv => TypeOK
  BY DEF ArchiveInv
<1> QED
  BY <1>1, AlwaysKept, PTL

\* Every receipt file, synced or not, names a payload that exists, is
\* durably sealed and holds the bytes the receipt states: commit seals
\* before it links, and no copy writes a sealed payload.
THEOREM CommittedIsIntact == Spec => []CommittedIntact
<1>1. ArchiveInv => CommittedIntact
  BY DEF ArchiveInv, ObjectsKept, ObjectKept, CommittedIntact, Published
<1> QED
  BY <1>1, AlwaysKept, PTL

\* A receipt that commit, resume_commit or inspect has answered is the
\* durable one of its key from then on: committed syncs before it answers.
THEOREM ReceiptsAreDurable == Spec => []ReceiptsDurable
<1>1. ArchiveInv => ReceiptsDurable
  BY DEF ArchiveInv
<1> QED
  BY <1>1, AlwaysKept, PTL

\* The payload directory prepare hands out belongs to one attempt, and no
\* receipt of another key names it.
THEOREM PayloadsArePrivate == Spec => []PayloadsPrivate
<1>1. ArchiveInv => PayloadsPrivate
  BY DEF ArchiveInv, AttemptsKept, PayloadsPrivate, Published
<1> QED
  BY <1>1, AlwaysKept, PTL

\* The catalog of the contract is a function of the receipt files alone: the
\* payload of a receipt holds what the receipt states.
Cataloged(objs, keys) ==
  [k \in Key |-> IF k \in keys
                   THEN [receipt |-> objs[k].receipt, bytes |-> objs[k].receipt.content]
                   ELSE NoObject]

LEMMA CatalogIs ==
  ASSUME NEW objs, NEW keys, NEW ds, NEW n, ObjectsKept(objs, ds, n),
         \A k \in keys : k \in Key /\ objs[k] # NoObject
  PROVE  [k \in Key |-> IF k \in keys
                          THEN [receipt |-> objs[k].receipt, bytes |-> ds[objs[k].payload].data]
                          ELSE NoObject]
           = Cataloged(objs, keys)
BY DEF ObjectsKept, ObjectKept, Cataloged

LEMMA CatalogParts ==
  ASSUME NEW objs, NEW keys, \A k \in keys : objs[k].receipt \in ArchiveReceipt, NEW k \in Key
  PROVE  /\ k \in keys =>
              /\ Cataloged(objs, keys)[k] # NoObject
              /\ Cataloged(objs, keys)[k].receipt = objs[k].receipt
              /\ Cataloged(objs, keys)[k].bytes = objs[k].receipt.content
         /\ k \notin keys => Cataloged(objs, keys)[k] = NoObject
<1>1. CASE k \in keys
  <2> DEFINE entry == [receipt |-> objs[k].receipt, bytes |-> objs[k].receipt.content]
  <2>1. entry \in [receipt: ArchiveReceipt, bytes: Content \cup {NoData}]
    BY <1>1 DEF ArchiveReceipt
  <2>2. entry # NoObject
    BY <2>1, AbsentAssumption
  <2>3. Cataloged(objs, keys)[k] = entry
    BY <1>1 DEF Cataloged
  <2> QED
    BY <1>1, <2>2, <2>3
<1>2. CASE k \notin keys
  BY <1>2 DEF Cataloged
<1> QED
  BY <1>1, <1>2

LEMMA CatalogStep ==
  ASSUME ArchiveInv, ArchiveInv', Keeps
  PROVE  Contract!Next
<1> DEFINE before == Cataloged(objects, synced)
           after == Cataloged(objects', synced')
<1>1. /\ \A k \in synced : k \in Key /\ objects[k] # NoObject /\ objects[k].receipt \in ArchiveReceipt
      /\ \A k \in synced' :
           k \in Key /\ objects'[k] # NoObject /\ objects'[k].receipt \in ArchiveReceipt
  BY DEF ArchiveInv, TypeOK, Published, Committed
<1>2. [k \in Key |-> IF k \in synced
                       THEN [receipt |-> objects[k].receipt, bytes |-> dirs[objects[k].payload].data]
                       ELSE NoObject] = before
  BY <1>1, CatalogIs DEF ArchiveInv
<1>3. [k \in Key |-> IF k \in synced'
                       THEN [receipt |-> objects'[k].receipt,
                             bytes |-> dirs'[objects'[k].payload].data]
                       ELSE NoObject] = after
  <2>1. ObjectsKept(objects', dirs', serial')
    BY DEF ArchiveInv, ObjectsKept, ObjectKept
  <2> QED
    BY <1>1, <2>1, CatalogIs
<1>4. \A k \in Key :
        /\ k \in synced => /\ before[k] # NoObject
                            /\ before[k].receipt = objects[k].receipt
                            /\ before[k].bytes = objects[k].receipt.content
        /\ k \notin synced => before[k] = NoObject
  BY <1>1, CatalogParts
<1>5. \A k \in Key :
        /\ k \in synced' => /\ after[k] # NoObject
                             /\ after[k].receipt = objects'[k].receipt
                             /\ after[k].bytes = objects'[k].receipt.content
        /\ k \notin synced' => after[k] = NoObject
  BY <1>1, CatalogParts
<1>6. \A k \in synced : k \in synced' /\ after[k] = before[k]
  BY <1>1 DEF Keeps, Cataloged
<1> HIDE DEF before, after
<1>7. Contract!Settle
  BY <1>2, <1>3, <1>4, <1>5, <1>6 DEF Contract!Settle
<1>8. Contract!Show
  <2>1. \A r \in returned' : r.key \in synced' /\ objects'[r.key].receipt = r
    BY DEF ArchiveInv, ReceiptsDurable
  <2> QED
    BY <1>1, <1>3, <1>5, <2>1 DEF Keeps, Contract!Show
<1> QED
  BY <1>7, <1>8 DEF Contract!Next

LEMMA CatalogStarts == Init => Contract!Init
BY DEF Init, Contract!Init

(***************************************************************************)
(* The archive implements the promise of the ArchiveBackend trait: a key   *)
(* is committed once and for ever, with the bytes its receipt states, and  *)
(* callers see only receipts that are committed for good, whatever calls,  *)
(* copies, failed syncs, crashes and power losses interleave.              *)
(***************************************************************************)
THEOREM ArchiveImplementsContract == Spec => ImplementsContract
<1>1. Init => Contract!Init
  BY CatalogStarts
<1>2. ArchiveInv /\ [Next]_vars /\ ArchiveInv' => [Contract!Next]_(Contract!archive)
  BY NextKeeps, CatalogStep
<1> QED
  BY <1>1, <1>2, AlwaysKept, PTL DEF Spec, ImplementsContract, Contract!Spec
=============================================================================
