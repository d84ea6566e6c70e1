-------------------------- MODULE HsmWorker_proofs --------------------------
(***************************************************************************)
(* Theorems about HsmWorker: what its leases, its pages and its epoch      *)
(* promise of the tasks of the authority, for every set of tasks, page     *)
(* size, budget and kind of fault.                                         *)
(***************************************************************************)
EXTENDS HsmWorker, FiniteSetTheorems, WellFoundedInduction, TLAPS

\* The steps of run_intent, between the claim and the report.
OwnSteps == {"completed", "inspect", "effect", "finish"}

\* What a lane knows in its locals: it owns a task exactly while run_intent
\* runs, one of its own class and backend; it reports Done only of an effect
\* in force; and it scans only while the budget of the pass lasts.
RoundOK(l, r) ==
  /\ r.pc \in OwnSteps <=> r.lease # NoTask
  /\ r.lease # NoTask => Accepts(l, r.lease.intent) /\ r.lease.intent \notin Foreign
  /\ r.report = "Done" => r.lease.intent \in applied
  /\ r.pc = "scan" \/ r.more => r.examined < ScanBudget /\ r.part \in {"scan", "last"}
  /\ r.part \in {"first", "seal"} => r.examined = 0
  /\ r.pc = "seals" => r.part = "first"

RoundsOK == \A l \in Lane : RoundOK(l, lanes[l])

\* Nothing is left of a lane that does not run.
DownOK == \A l \in Lane \ running : lanes[l] = Asleep

\* The qualification only advances.
EpochsOK ==
  /\ held <= epoch
  /\ \A i \in Intent : tasks[i].epoch <= epoch

\* As long as nobody has taken over, the authority agrees with every lease.
LeasesOK ==
  Qualified => \A l \in Lane : lanes[l].lease # NoTask =>
    tasks[Owned(l)] = [status |-> "Running", claim |-> lanes[l].lease.claim, epoch |-> held]

ApartOK ==
  \A l, k \in Lane :
    l # k /\ lanes[l].lease # NoTask /\ lanes[k].lease # NoTask => Owned(l) # Owned(k)

\* Without a fault the source lists a lane its own class only.
PagesOK ==
  budget = Budget => \A l \in Lane : \A item \in lanes[l].page : Accepts(l, item.intent)

\* Without a fault whatever runs under the current epoch is leased, whether
\* the worker is up, down or fenced.
HeldOK ==
  budget = Budget => \A i \in Intent :
    tasks[i].status = "Running" /\ tasks[i].epoch = epoch =>
      /\ Qualified
      /\ \E l \in running : lanes[l].lease = [intent |-> i, claim |-> tasks[i].claim]

WorkerInv ==
  /\ TypeOK
  /\ RoundsOK
  /\ DownOK
  /\ EpochsOK
  /\ LeasesOK
  /\ ApartOK
  /\ PagesOK
  /\ HeldOK

-----------------------------------------------------------------------------
(* Pages and scan requests: what Lowest, Highest and FirstOf return.       *)

\* Every set of task numbers has a lowest one.
LEMMA LowestExists ==
  ASSUME NEW S \in SUBSET Nat, S # {}
  PROVE  \E i \in S : \A j \in S : i <= j
<1>1. PICK i \in S : \A j \in S : ~ (<<j, i>> \in OpToRel(<, Nat))
  BY NatLessThanWellFounded, WFMin
<1>2. \A j \in S : ~ (j < i)
  BY <1>1 DEF OpToRel
<1> QED
  BY <1>2

\* A bounded one that is not empty has a highest one, which Highest chooses.
LEMMA HighestIsIn ==
  ASSUME NEW S \in SUBSET Nat, S # {}, NEW k \in Nat, \A i \in S : i <= k
  PROVE  Highest(S) \in S
<1> DEFINE Above == {m \in Nat : \A i \in S : i <= m}
<1>1. PICK m \in Above : \A n \in Above : m <= n
  BY LowestExists
<1>2. m \in S
  <2>1. PICK i \in S : TRUE
    OBVIOUS
  <2>2. CASE m = 0
    BY <2>1, <2>2, <1>1
  <2>3. CASE m # 0
    <3>1. m - 1 \in Nat /\ ~ (m <= m - 1)
      BY <2>3, <1>1
    <3>2. PICK j \in S : ~ (j <= m - 1)
      BY <3>1, <1>1
    <3>3. j = m
      BY <3>2, <1>1, <3>1
    <3> QED
      BY <3>3
  <2> QED
    BY <2>2, <2>3
<1>3. \E i \in S : \A j \in S : i >= j
  BY <1>1, <1>2
<1> QED
  BY <1>3 DEF Highest

\* The first n of a set: some of it, some unless it is empty, and with a
\* highest one when there is more to come.
LEMMA FirstOfIsPart ==
  ASSUME NEW S \in SUBSET Intent, NEW n \in Nat
  PROVE  /\ FirstOf(S, n) \subseteq S
         /\ IsFiniteSet(FirstOf(S, n))
         /\ Cardinality(FirstOf(S, n)) \in Nat
<1>1. FirstOf(S, n) \in SUBSET Intent
  BY DEF FirstOf
<1> QED
  BY <1>1, IntentAssumption, FS_Subset, FS_CardinalityType DEF FirstOf

LEMMA FirstOfContinues ==
  ASSUME NEW S \in SUBSET Intent, NEW n \in Nat \ {0}, FirstOf(S, n) # S
  PROVE  Highest(FirstOf(S, n)) \in Intent
<1> DEFINE Before(i) == {j \in S : j < i}
<1>0. S \in SUBSET Nat /\ IsFiniteSet(S)
  BY IntentAssumption, FS_Subset
<1>1. \A i \in S : IsFiniteSet(Before(i)) /\ Cardinality(Before(i)) \in Nat
  BY <1>0, FS_Subset, FS_CardinalityType
<1>2. PICK k \in S : ~ (Cardinality(Before(k)) < n)
  BY DEF FirstOf
<1>3. \A i \in FirstOf(S, n) : i <= k
  <2> SUFFICES ASSUME NEW i \in FirstOf(S, n), ~ (i <= k)
               PROVE  FALSE
    OBVIOUS
  <2>1. i \in S /\ Cardinality(Before(i)) < n
    BY DEF FirstOf
  <2>2. Before(k) \in SUBSET Before(i)
    <3>1. i \in Nat /\ k \in Nat /\ k < i
      BY <2>1, <1>0
    <3>2. ASSUME NEW j \in S, j < k PROVE j < i
      BY <3>1, <3>2, <1>0
    <3> QED
      BY <3>2
  <2>3. Cardinality(Before(k)) <= Cardinality(Before(i))
    BY <2>2, <2>1, <1>1, FS_Subset
  <2> QED
    BY <2>1, <2>3, <1>1, <1>2
<1>4. FirstOf(S, n) # {}
  <2>1. PICK i \in S : \A j \in S : i <= j
    BY <1>0, <1>2, LowestExists
  <2>2. ASSUME NEW j \in S PROVE ~ (j < i)
    BY <2>1, <2>2, <1>0
  <2>3. Before(i) = {} /\ Cardinality(Before(i)) = 0
    BY <2>2, FS_EmptySet
  <2> QED
    BY <2>3 DEF FirstOf
<1>5. FirstOf(S, n) \in SUBSET Nat /\ FirstOf(S, n) \subseteq Intent
  BY <1>0 DEF FirstOf
<1> QED
  BY <1>0, <1>2, <1>3, <1>4, <1>5, HighestIsIn

-----------------------------------------------------------------------------
(* Rounds: the locals of a lane that owns no task.                         *)

\* A round outside run_intent, in the terms of RoundOK.
Idle(r) ==
  /\ r.pc \notin OwnSteps
  /\ r.lease = NoTask
  /\ r.report # "Done"
  /\ r.pc = "scan" \/ r.more => r.examined < ScanBudget /\ r.part \in {"scan", "last"}
  /\ r.part \in {"first", "seal"} => r.examined = 0
  /\ r.pc = "seals" => r.part = "first"

LEMMA NoTaskIsNone == NoTask.intent \notin Intent
BY IntentAssumption DEF NoTask

LEMMA IdleIsOK ==
  ASSUME NEW l \in Lane, NEW r, Idle(r)
  PROVE  RoundOK(l, r) /\ RoundOK(l, r)'
BY DEF Idle, RoundOK, Owned

LEMMA AsleepIsIdle == Asleep \in Round /\ Idle(Asleep) /\ Asleep.page = {}
BY BoundAssumption DEF Asleep, Round, Idle, OwnSteps, Lease, NoTask

LEMMA IdleOfOK ==
  ASSUME NEW l \in Lane, NEW r, RoundOK(l, r), r.lease = NoTask, applied \subseteq Intent
  PROVE  Idle(r)
BY NoTaskIsNone DEF Idle, RoundOK

LEMMA NextSealIsIdle ==
  ASSUME NEW r \in Round, r.lease = NoTask, r.report # "Done",
         r.more => r.examined < ScanBudget /\ r.part \in {"scan", "last"},
         r.part \in {"first", "seal"} => r.examined = 0
  PROVE  /\ NextSeal(r) \in Round
         /\ Idle(NextSeal(r))
         /\ NextSeal(r).page = r.page
<1>1. NextSeal(r) \in {[r EXCEPT !.pc = "begin"], [r EXCEPT !.pc = "scan", !.part = "scan"],
                       [r EXCEPT !.pc = "scan"], [r EXCEPT !.pc = "list", !.part = "last"]}
  BY DEF NextSeal, ToScan, ToLast
<1>2. ASSUME NextSeal(r) = [r EXCEPT !.pc = "begin"]
      PROVE  NextSeal(r) \in Round /\ Idle(NextSeal(r)) /\ NextSeal(r).page = r.page
  BY <1>2 DEF Round, Idle, OwnSteps
<1>3. ASSUME NextSeal(r) = [r EXCEPT !.pc = "scan", !.part = "scan"], r.examined < ScanBudget
      PROVE  NextSeal(r) \in Round /\ Idle(NextSeal(r)) /\ NextSeal(r).page = r.page
  BY <1>3 DEF Round, Idle, OwnSteps
<1>4. ASSUME NextSeal(r) = [r EXCEPT !.pc = "scan"], r.more
      PROVE  NextSeal(r) \in Round /\ Idle(NextSeal(r)) /\ NextSeal(r).page = r.page
  BY <1>4 DEF Round, Idle, OwnSteps
<1>5. ASSUME NextSeal(r) = [r EXCEPT !.pc = "list", !.part = "last"]
      PROVE  NextSeal(r) \in Round /\ Idle(NextSeal(r)) /\ NextSeal(r).page = r.page
  BY <1>5 DEF Round, Idle, OwnSteps
<1>6. r.part = "seal" => r.examined < ScanBudget
  BY BoundAssumption
<1> QED
  BY <1>2, <1>3, <1>4, <1>5, <1>6 DEF NextSeal, ToScan, ToLast

LEMMA AfterExecuteIsIdle ==
  ASSUME NEW l \in Lane, NEW r \in Round, r.lease = NoTask, r.report # "Done",
         r.more => r.examined < ScanBudget /\ r.part \in {"scan", "last"},
         r.part \in {"first", "seal"} => r.examined = 0
  PROVE  /\ AfterExecute(l, r) \in Round
         /\ Idle(AfterExecute(l, r))
         /\ AfterExecute(l, r).page = {}
<1> DEFINE done == [r EXCEPT !.page = {}, !.next = 0, !.after = 0]
<1>1. /\ done \in Round /\ done.lease = NoTask /\ done.report # "Done" /\ done.page = {}
      /\ done.more => done.examined < ScanBudget /\ done.part \in {"scan", "last"}
      /\ done.part \in {"first", "seal"} => done.examined = 0
      /\ done.part = r.part
  BY DEF Round
<1>2. /\ [done EXCEPT !.pc = "seals"] \in Round
      /\ r.part = "first" => Idle([done EXCEPT !.pc = "seals"])
      /\ [done EXCEPT !.pc = "seals"].page = {}
  BY <1>1 DEF Round, Idle, OwnSteps
<1>3. AfterExecute(l, r) = IF l = "Recall" \/ r.part = "last" THEN Asleep
                           ELSE IF r.part = "first" THEN [done EXCEPT !.pc = "seals"]
                           ELSE NextSeal(done)
  BY DEF AfterExecute
<1> HIDE DEF done
<1> QED
  BY <1>1, <1>2, <1>3, NextSealIsIdle, AsleepIsIdle

LEMMA ExecutedIsIdle ==
  ASSUME NEW l \in Lane, NEW r \in Round,
         r.more => r.examined < ScanBudget /\ r.part \in {"scan", "last"},
         r.part \in {"first", "seal"} => r.examined = 0
  PROVE  /\ Executed(l, r) \in Round
         /\ Idle(Executed(l, r))
         /\ Executed(l, r).page \subseteq r.page
<1> DEFINE counted == [r EXCEPT !.executed = @ + 1, !.lease = NoTask, !.report = "Retry"]
<1>0. r.executed + 1 \in Nat /\ NoTask \in Lease
  BY DEF Round, Lease
<1>a. counted \in Round
  BY <1>0 DEF Round
<1>b. /\ counted.lease = NoTask /\ counted.report # "Done" /\ counted.page = r.page
      /\ counted.more = r.more /\ counted.examined = r.examined /\ counted.part = r.part
  BY DEF Round
<1>1. /\ counted \in Round /\ counted.lease = NoTask /\ counted.report # "Done"
      /\ counted.page = r.page
      /\ counted.more => counted.examined < ScanBudget /\ counted.part \in {"scan", "last"}
      /\ counted.part \in {"first", "seal"} => counted.examined = 0
  BY <1>a, <1>b
<1> HIDE DEF counted
<1>2. /\ [counted EXCEPT !.pc = "page"] \in Round
      /\ Idle([counted EXCEPT !.pc = "page"])
      /\ [counted EXCEPT !.pc = "page"].page = r.page
  BY <1>1 DEF Round, Idle, OwnSteps
<1> USE DEF counted
<1>3. Executed(l, r) = IF counted.executed >= MaxActions THEN AfterExecute(l, counted)
                       ELSE [counted EXCEPT !.pc = "page"]
  BY DEF Executed
<1> HIDE DEF counted
<1>4. AfterExecute(l, counted) \in Round /\ Idle(AfterExecute(l, counted))
      /\ AfterExecute(l, counted).page = {}
  BY <1>1, AfterExecuteIsIdle
<1> QED
  BY <1>2, <1>3, <1>4

LEMMA PassedIsIdle ==
  ASSUME NEW r \in Round,
         r.more => r.examined < ScanBudget /\ r.part \in {"scan", "last"},
         r.part \in {"first", "seal"} => r.examined = 0
  PROVE  /\ Passed(r) \in Round
         /\ Idle(Passed(r))
         /\ Passed(r).page = r.page
BY DEF Passed, Round, Lease, Idle, OwnSteps

-----------------------------------------------------------------------------
(* Steps.  A step of a lane moves its round and may change tasks that      *)
(* nobody else runs under the current epoch; the two lemmas LaneSafe and   *)
(* EndsSafe say when that keeps the invariant, and every action is an      *)
(* instance of one of them.                                                *)

\* Running under the current epoch: nobody may claim it.
Contended(i) == tasks[i].status = "Running" /\ tasks[i].epoch = epoch

\* The tasks that change are the lane's own or nobody's.
TasksStep(l, r) ==
  \A i \in Intent : tasks'[i] # tasks[i] =>
    /\ ~Contended(i) \/ (lanes[l].lease # NoTask /\ i = Owned(l))
    /\ tasks'[i].epoch <= epoch
    /\ \/ tasks'[i].status # "Running"
       \/ budget' # Budget
       \/ Qualified /\ r.lease = [intent |-> i, claim |-> tasks'[i].claim]

\* The lease that the round has afterwards, and the one it gives up.
LeaseStep(l, r) ==
  /\ r.lease # NoTask =>
       /\ Qualified => tasks'[r.lease.intent] =
            [status |-> "Running", claim |-> r.lease.claim, epoch |-> held]
       /\ \A k \in Lane \ {l} : lanes[k].lease # NoTask => Owned(k) # r.lease.intent
  /\ lanes[l].lease # NoTask /\ r.lease # lanes[l].lease =>
       budget' # Budget \/ tasks'[Owned(l)].status # "Running"

Moves(l, r) ==
  /\ running' = IF l = "Once" /\ r = Asleep THEN {} ELSE running
  /\ Set(l, r)
  /\ UNCHANGED held

BudgetStep == budget' \in 0..Budget /\ budget' <= budget

LEMMA LaneSafe ==
  ASSUME WorkerInv, NEW l \in Lane, l \in running, NEW r \in Round,
         Moves(l, r), RoundOK(l, r)', TasksStep(l, r), LeaseStep(l, r), BudgetStep,
         AuthorityTypeOK', epoch' = epoch, applied \subseteq applied',
         budget' = Budget => \A item \in r.page : Accepts(l, item.intent)
  PROVE  WorkerInv'
<1> USE DEF WorkerInv
<1>1. /\ lanes \in [Lane -> Round] /\ lanes' = [lanes EXCEPT ![l] = r]
      /\ lanes' \in [Lane -> Round] /\ lanes'[l] = r
      /\ \A k \in Lane \ {l} : lanes'[k] = lanes[k]
  BY DEF TypeOK, Moves, Set
<1>2. /\ running' \in {running, {}}
      /\ r # Asleep => running' = running
      /\ \A k \in running \ {l} : running' = running
  BY ModeAssumption DEF Moves, TypeOK
<1>3. held' = held
  BY DEF Moves
<1>4. TypeOK'
  BY <1>1, <1>2, <1>3 DEF TypeOK, BudgetStep, Epoch
<1>5. RoundsOK'
  <2> SUFFICES ASSUME NEW k \in Lane PROVE RoundOK(k, lanes[k])'
    BY DEF RoundsOK
  <2>1. CASE k = l
    BY <2>1, <1>1 DEF RoundOK
  <2>2. CASE k # l
    BY <2>2, <1>1 DEF RoundsOK, RoundOK
  <2> QED
    BY <2>1, <2>2
<1>6. DownOK'
  <2> SUFFICES ASSUME NEW k \in Lane, k \notin running' PROVE lanes'[k] = Asleep
    BY DEF DownOK
  <2>1. CASE k = l
    BY <2>1, <1>1, <1>2
  <2>2. CASE k # l
    BY <2>2, <1>1, <1>2 DEF DownOK
  <2> QED
    BY <2>1, <2>2
<1>7. EpochsOK'
  BY <1>3 DEF EpochsOK, TasksStep
<1>8. LeasesOK'
  <2> SUFFICES ASSUME held = epoch, NEW k \in Lane, lanes'[k].lease # NoTask
               PROVE  tasks'[lanes'[k].lease.intent] =
                        [status |-> "Running", claim |-> lanes'[k].lease.claim, epoch |-> held]
    BY <1>3 DEF LeasesOK, Qualified, Owned
  <2>1. CASE k = l
    BY <2>1, <1>1 DEF LeaseStep, Qualified
  <2>2. CASE k # l
    <3>1. /\ lanes'[k] = lanes[k] /\ lanes[k].lease # NoTask
          /\ Owned(k) = lanes[k].lease.intent /\ Owned(k) \in Intent
      BY <2>2, <1>1 DEF Owned, Round, Lease
    <3>2. tasks[Owned(k)] = [status |-> "Running", claim |-> lanes[k].lease.claim, epoch |-> held]
      BY <3>1 DEF LeasesOK, Qualified
    <3>3. Contended(Owned(k))
      BY <3>2 DEF Contended
    <3>4. lanes[l].lease # NoTask => Owned(k) # Owned(l)
      BY <2>2, <3>1 DEF ApartOK
    <3>5. tasks'[Owned(k)] = tasks[Owned(k)]
      BY <3>1, <3>3, <3>4 DEF TasksStep
    <3> QED
      BY <3>1, <3>2, <3>5
  <2> QED
    BY <2>1, <2>2
<1>9. ApartOK'
  <2> SUFFICES ASSUME NEW k \in Lane, NEW m \in Lane, k # m,
                      lanes'[k].lease # NoTask, lanes'[m].lease # NoTask
               PROVE  lanes'[k].lease.intent # lanes'[m].lease.intent
    BY DEF ApartOK, Owned
  <2>1. CASE k = l
    BY <2>1, <1>1 DEF LeaseStep, Owned
  <2>2. CASE m = l
    BY <2>2, <1>1 DEF LeaseStep, Owned
  <2>3. CASE k # l /\ m # l
    BY <2>3, <1>1 DEF ApartOK, Owned
  <2> QED
    BY <2>1, <2>2, <2>3
<1>10. budget' = Budget => budget = Budget
  BY BoundAssumption DEF BudgetStep, TypeOK
<1>11. PagesOK'
  <2> SUFFICES ASSUME budget' = Budget, NEW k \in Lane, NEW item \in lanes'[k].page
               PROVE  Accepts(k, item.intent)
    BY DEF PagesOK, Accepts
  <2>1. CASE k = l
    BY <2>1, <1>1
  <2>2. CASE k # l
    BY <2>2, <1>1, <1>10 DEF PagesOK
  <2> QED
    BY <2>1, <2>2
<1>12. HeldOK'
  <2> SUFFICES ASSUME budget' = Budget, NEW i \in Intent,
                      tasks'[i].status = "Running", tasks'[i].epoch = epoch
               PROVE  /\ held = epoch
                      /\ \E k \in running' :
                           lanes'[k].lease = [intent |-> i, claim |-> tasks'[i].claim]
    BY <1>3 DEF HeldOK, Qualified
  <2>1. ASSUME r.lease = [intent |-> i, claim |-> tasks'[i].claim]
        PROVE  l \in running' /\ lanes'[l].lease = [intent |-> i, claim |-> tasks'[i].claim]
    <3>1. r.lease # NoTask
      BY <2>1, IntentAssumption DEF NoTask
    <3>2. r # Asleep
      BY <3>1 DEF Asleep
    <3> QED
      BY <2>1, <3>2, <1>1, <1>2
  <2>2. CASE tasks'[i] # tasks[i]
    BY <2>1, <2>2 DEF TasksStep, Qualified
  <2>3. CASE tasks'[i] = tasks[i]
    <3>1. /\ held = epoch
          /\ \E k \in running : lanes[k].lease = [intent |-> i, claim |-> tasks[i].claim]
      BY <2>3, <1>10 DEF HeldOK, Qualified
    <3>2. PICK k \in running : lanes[k].lease = [intent |-> i, claim |-> tasks[i].claim]
      BY <3>1
    <3>3. k \in Lane
      BY ModeAssumption DEF TypeOK, Lane
    <3>4. CASE k # l
      BY <3>1, <3>2, <3>3, <3>4, <2>3, <1>1, <1>2
    <3>5. CASE k = l
      <4>1. lanes[l].lease # NoTask /\ Owned(l) = i
        BY <3>2, <3>5, IntentAssumption DEF NoTask, Owned
      <4>2. r.lease = lanes[l].lease
        BY <4>1 DEF LeaseStep
      <4> QED
        BY <4>2, <3>1, <3>2, <3>5, <2>1, <2>3
    <3> QED
      BY <3>4, <3>5
  <2> QED
    BY <2>2, <2>3
<1> QED
  BY <1>4, <1>5, <1>6, <1>7, <1>8, <1>9, <1>11, <1>12

\* The end of the process, which may leave claims behind only after a fault.
LEMMA EndsSafe ==
  ASSUME WorkerInv, running' \in Modes \cup {{}}, lanes' = [l \in Lane |-> Asleep],
         held' \in Epoch, held' <= epoch', epoch <= epoch', UNCHANGED tasks,
         AuthorityTypeOK', BudgetStep,
         budget' = Budget => \A i \in Intent :
           ~ (tasks[i].status = "Running" /\ tasks[i].epoch = epoch')
  PROVE  WorkerInv'
<1> USE DEF WorkerInv
<1>1. \A l \in Lane : lanes'[l] = Asleep
  OBVIOUS
<1>2. Asleep \in Round /\ Idle(Asleep) /\ Asleep.page = {} /\ Asleep.lease = NoTask
  BY AsleepIsIdle DEF Idle
<1>3. lanes' \in [Lane -> Round]
  BY <1>2
<1>4. TypeOK'
  BY <1>3 DEF TypeOK, BudgetStep, Epoch
<1>5. \A l \in Lane : RoundOK(l, Asleep)'
  BY <1>2, IdleIsOK
<1>6. RoundsOK' /\ DownOK'
  BY <1>1, <1>5 DEF RoundsOK, DownOK, RoundOK
<1>7. EpochsOK'
  BY DEF EpochsOK, TypeOK, AuthorityTypeOK, Epoch, Task
<1>8. LeasesOK' /\ ApartOK' /\ PagesOK'
  BY <1>1, <1>2 DEF LeasesOK, ApartOK, PagesOK
<1>9. HeldOK'
  BY DEF HeldOK
<1> QED
  BY <1>4, <1>6, <1>7, <1>8, <1>9

\* A fault is never undone.
LEMMA FaultCounts ==
  ASSUME TypeOK, NEW kind, Fault(kind)
  PROVE  BudgetStep /\ budget' # Budget
BY BoundAssumption DEF TypeOK, Fault, BudgetStep

LEMMA NoFault ==
  ASSUME TypeOK, budget' = budget
  PROVE  BudgetStep
BY BoundAssumption DEF TypeOK, BudgetStep

\* A lane goes on with what it owns.
LEMMA KeepsOn ==
  ASSUME WorkerInv, NEW l \in Lane, l \in running, NEW r \in Round,
         Moves(l, r), RoundOK(l, r)', r.lease = lanes[l].lease,
         UNCHANGED tasks, BudgetStep, AuthorityTypeOK', epoch' = epoch, applied \subseteq applied',
         budget' = Budget => \A item \in r.page : Accepts(l, item.intent)
  PROVE  WorkerInv'
<1>1. TasksStep(l, r)
  BY DEF TasksStep
<1>2. lanes[l].lease # NoTask => Owned(l) \in Intent
  BY DEF WorkerInv, TypeOK, Round, Lease, Owned
<1>3. LeaseStep(l, r)
  BY <1>2 DEF LeaseStep, WorkerInv, LeasesOK, ApartOK, Owned
<1> QED
  BY <1>1, <1>3, LaneSafe

LEMMA GoesOn ==
  ASSUME WorkerInv, NEW l \in Lane, l \in running, NEW r \in Round,
         Continue(l, r), RoundOK(l, r)', r.lease = lanes[l].lease,
         UNCHANGED tasks, BudgetStep, AuthorityTypeOK', epoch' = epoch, applied \subseteq applied',
         budget' = Budget => \A item \in r.page : Accepts(l, item.intent)
  PROVE  WorkerInv'
BY KeepsOn DEF Continue, Moves

\* A deferred lane drops what it owns; only a fault defers it.
LEMMA DeferSafe ==
  ASSUME WorkerInv, NEW l \in Lane, l \in running, Defer(l), TasksStep(l, Asleep),
         BudgetStep, budget' # Budget,
         AuthorityTypeOK', epoch' = epoch, applied \subseteq applied'
  PROVE  WorkerInv'
<1>1. Asleep \in Round /\ Idle(Asleep) /\ Asleep.lease = NoTask
  BY AsleepIsIdle DEF Idle
<1>2. Moves(l, Asleep) /\ LeaseStep(l, Asleep) /\ RoundOK(l, Asleep)'
  BY <1>1, IdleIsOK DEF Defer, Continue, Moves, LeaseStep
<1> QED
  BY <1>1, <1>2, LaneSafe

LEMMA ExitSafe ==
  ASSUME WorkerInv, NEW l \in Lane, Exit(l), BudgetStep,
         UNCHANGED <<epoch, tasks, applied, moved, seals, cursor, policy>>,
         budget' = Budget => \A i \in Intent : ~ Contended(i)
  PROVE  WorkerInv'
<1> USE DEF WorkerInv
<1>1. PICK cut \in SUBSET {k \in Lane \ {l} : lanes[k].pc = "effect"} :
        late' = late \cup {[intent |-> Owned(k), epoch |-> held] : k \in cut}
  BY DEF Exit, Unanswered
<1>2. ASSUME NEW k \in cut
      PROVE  [intent |-> Owned(k), epoch |-> held] \in EffectRequest
  <2>1. k \in Lane /\ lanes[k] \in Round /\ lanes[k].lease # NoTask
    BY <1>2 DEF RoundsOK, RoundOK, OwnSteps, TypeOK
  <2>2. Owned(k) \in Intent /\ held \in Nat
    BY <2>1, EpochAssumption DEF Owned, Round, Lease, TypeOK, Epoch
  <2> QED
    BY <2>2 DEF EffectRequest
<1>3. late' \subseteq EffectRequest
  BY <1>1, <1>2 DEF TypeOK, AuthorityTypeOK
<1>4. AuthorityTypeOK'
  BY <1>3 DEF TypeOK, AuthorityTypeOK, Epoch
<1> QED
  BY <1>4, EndsSafe DEF Exit, TypeOK, EpochsOK, Contended, AuthorityTypeOK, Epoch

\* A lane that finds itself fenced ends the process: nothing runs under the
\* epoch that fenced it.
LEMMA FencedSafe ==
  ASSUME WorkerInv, NEW l \in Lane, Fenced(l),
         UNCHANGED <<epoch, tasks, applied, moved, seals, cursor, policy>>
  PROVE  WorkerInv'
<1>1. Exit(l) /\ ~ Qualified /\ budget' = budget
  BY DEF Fenced
<1>2. budget' = Budget => \A i \in Intent : ~ Contended(i)
  BY <1>1 DEF WorkerInv, HeldOK, Contended
<1> QED
  BY <1>1, <1>2, NoFault, ExitSafe DEF WorkerInv

\* A request that changed nothing failed.
LEMMA FailsSafe ==
  ASSUME WorkerInv, NEW l \in Lane, l \in running, Fails(l),
         UNCHANGED <<epoch, tasks, applied, moved, seals, cursor, policy>>
  PROVE  WorkerInv'
<1>1. ASSUME Fault("lost"), Defer(l) PROVE WorkerInv'
  <2>1. BudgetStep /\ budget' # Budget
    BY <1>1, FaultCounts DEF WorkerInv
  <2>2. AuthorityTypeOK'
    BY <1>1 DEF WorkerInv, TypeOK, AuthorityTypeOK, Defer, Continue, Epoch
  <2> QED
    BY <1>1, <2>1, <2>2, DeferSafe DEF TasksStep
<1>2. ASSUME Fault("fatal"), Exit(l) PROVE WorkerInv'
  <2>1. BudgetStep /\ budget' # Budget
    BY <1>2, FaultCounts DEF WorkerInv
  <2> QED
    BY <1>2, <2>1, ExitSafe
<1> QED
  BY <1>1, <1>2 DEF Fails

\* The round of a lane that owns nothing.
LEMMA IdleLane ==
  ASSUME WorkerInv, NEW l \in Lane, lanes[l].pc \notin OwnSteps
  PROVE  lanes[l] \in Round /\ Idle(lanes[l]) /\ lanes[l].lease = NoTask
BY NoTaskIsNone DEF WorkerInv, TypeOK, AuthorityTypeOK, RoundsOK, RoundOK, Idle

\* A lane that owns nothing goes on.
LEMMA IdleGoesOn ==
  ASSUME WorkerInv, NEW l \in Lane, l \in running, lanes[l].pc \notin OwnSteps,
         NEW r \in Round, Idle(r), Continue(l, r),
         UNCHANGED tasks, BudgetStep, AuthorityTypeOK', epoch' = epoch, applied \subseteq applied',
         budget' = Budget => \A item \in r.page : Accepts(l, item.intent)
  PROVE  WorkerInv'
<1>1. lanes[l].lease = NoTask /\ r.lease = NoTask
  BY IdleLane DEF Idle
<1>2. RoundOK(l, r)'
  BY IdleIsOK
<1> QED
  BY <1>1, <1>2, GoesOn

\* Without a fault the pages hold what their lanes accept.
LEMMA PageIsOwnClass ==
  ASSUME WorkerInv, NEW l \in Lane, BudgetStep, budget' = Budget
  PROVE  \A item \in lanes[l].page : Accepts(l, item.intent)
BY BoundAssumption DEF WorkerInv, PagesOK, TypeOK, BudgetStep

LEMMA WakeSafe ==
  ASSUME WorkerInv, NEW l \in Lane, Wake(l)
  PROVE  WorkerInv'
<1>0. l \in running /\ lanes[l].pc = "sleep" /\ lanes[l].pc \notin OwnSteps
  BY DEF Wake, At, OwnSteps
<1>1. UNCHANGED <<epoch, tasks, applied, moved, seals, cursor, policy>>
  BY DEF Wake
<1>2. ASSUME NEW r, Continue(l, r), budget' = budget,
             \/ r = [Asleep EXCEPT !.pc = "list"]
             \/ r = [Asleep EXCEPT !.pc = "list", !.known = policy]
      PROVE  WorkerInv'
  <2>0. policy \in BOOLEAN
    BY DEF WorkerInv, TypeOK, AuthorityTypeOK
  <2>1. r \in Round /\ Idle(r) /\ r.page = {}
    BY ZenonT(40), <1>2, <2>0, AsleepIsIdle DEF Round, Idle, OwnSteps
  <2>2. AuthorityTypeOK'
    BY <1>1, <1>2 DEF WorkerInv, TypeOK, AuthorityTypeOK, Continue, Epoch
  <2>3. BudgetStep
    BY <1>2, NoFault DEF WorkerInv
  <2> QED
    BY <1>0, <1>1, <1>2, <2>1, <2>2, <2>3, IdleGoesOn
<1>4. ASSUME Fenced(l) PROVE WorkerInv'
  BY <1>1, <1>4, FencedSafe
<1>5. ASSUME Fails(l) PROVE WorkerInv'
  BY <1>0, <1>1, <1>5, FailsSafe
<1> QED
  BY <1>2, <1>4, <1>5 DEF Wake

LEMMA FetchSealsSafe ==
  ASSUME WorkerInv, NEW l \in Lane, FetchSeals(l)
  PROVE  WorkerInv'
<1>0. l \in running /\ lanes[l].pc = "seals" /\ lanes[l].pc \notin OwnSteps
  BY DEF FetchSeals, At, OwnSteps
<1>1. UNCHANGED <<epoch, tasks, applied, moved, seals, cursor, policy>>
  BY DEF FetchSeals
<1> DEFINE pending == [lanes[l] EXCEPT !.part = "seal", !.queue = {i \in Intent : seals[i] = "begun"}]
<1>2. ASSUME Continue(l, NextSeal(pending)), budget' = budget
      PROVE  WorkerInv'
  <2>1. lanes[l] \in Round /\ Idle(lanes[l]) /\ lanes[l].part = "first"
    BY <1>0, IdleLane DEF Idle
  <2>2. /\ pending \in Round /\ pending.lease = NoTask /\ pending.report # "Done"
        /\ pending.more = FALSE /\ pending.part = "seal"
        /\ pending.examined = 0 /\ pending.page = lanes[l].page
    BY <2>1 DEF Round, Idle
  <2>3. AuthorityTypeOK'
    BY <1>1, <1>2 DEF WorkerInv, TypeOK, AuthorityTypeOK, Continue, Epoch
  <2>4. BudgetStep
    BY <1>2, NoFault DEF WorkerInv
  <2> HIDE DEF pending
  <2>5. /\ NextSeal(pending) \in Round /\ Idle(NextSeal(pending))
        /\ NextSeal(pending).page = lanes[l].page
    BY <2>2, NextSealIsIdle
  <2> QED
    BY <1>0, <1>1, <1>2, <2>3, <2>4, <2>5, IdleGoesOn, PageIsOwnClass
<1>3. ASSUME Fails(l) PROVE WorkerInv'
  BY <1>0, <1>1, <1>3, FailsSafe
<1> QED
  BY <1>2, <1>3 DEF FetchSeals

LEMMA SealBeginSafe ==
  ASSUME WorkerInv, NEW l \in Lane, SealBegin(l)
  PROVE  WorkerInv'
<1>0. l \in running /\ lanes[l].pc = "begin" /\ lanes[l].pc \notin OwnSteps
  BY DEF SealBegin, At, OwnSteps
<1>1. UNCHANGED <<epoch, tasks, applied, moved, cursor, policy>>
  BY DEF SealBegin
<1>2. lanes[l] \in Round /\ Idle(lanes[l])
  BY <1>0, IdleLane
<1>3. ASSUME NEW file, seals' = [seals EXCEPT ![file] = "begun"], UNCHANGED late
      PROVE  AuthorityTypeOK'
  BY <1>1, <1>3 DEF WorkerInv, TypeOK, AuthorityTypeOK, Epoch
<1>4. ASSUME Continue(l, [lanes[l] EXCEPT !.pc = "commit"]), budget' = budget, AuthorityTypeOK'
      PROVE  WorkerInv'
  <2> DEFINE r == [lanes[l] EXCEPT !.pc = "commit"]
  <2>1. r \in Round /\ Idle(r) /\ r.page = lanes[l].page
    BY <1>2 DEF Round, Idle, OwnSteps
  <2>2. BudgetStep
    BY <1>4, NoFault DEF WorkerInv
  <2> HIDE DEF r
  <2> QED
    BY <1>0, <1>1, <1>4, <2>1, <2>2, IdleGoesOn, PageIsOwnClass DEF r
<1>5. ASSUME Fault("lost"), Defer(l), AuthorityTypeOK' PROVE WorkerInv'
  BY <1>0, <1>1, <1>5, FaultCounts, DeferSafe DEF WorkerInv, TasksStep
<1>6. ASSUME UNCHANGED seals, Fails(l) PROVE WorkerInv'
  BY <1>0, <1>1, <1>6, FailsSafe
<1> QED
  BY <1>3, <1>4, <1>5, <1>6 DEF SealBegin, Continue, Defer

LEMMA SealCommitSafe ==
  ASSUME WorkerInv, NEW l \in Lane, SealCommit(l)
  PROVE  WorkerInv'
<1>0. l \in running /\ lanes[l].pc = "commit" /\ lanes[l].pc \notin OwnSteps
  BY DEF SealCommit, At, OwnSteps
<1>1. UNCHANGED <<epoch, tasks, applied, moved, cursor, policy>>
  BY DEF SealCommit
<1>2. lanes[l] \in Round /\ Idle(lanes[l])
  BY <1>0, IdleLane
<1>3. ASSUME NEW file, seals' = [seals EXCEPT ![file] = "sealed"], UNCHANGED late
      PROVE  AuthorityTypeOK'
  BY <1>1, <1>3 DEF WorkerInv, TypeOK, AuthorityTypeOK, Epoch
<1> DEFINE file == Lowest(lanes[l].queue)
           r == [lanes[l] EXCEPT !.queue = @ \ {file}]
           next == IF r.part = "seal" THEN [r EXCEPT !.pc = "list"] ELSE NextSeal(r)
<1>4. ASSUME Continue(l, next), budget' = budget, AuthorityTypeOK'
      PROVE  WorkerInv'
  <2>1. /\ r \in Round /\ r.lease = NoTask /\ r.report # "Done" /\ r.page = lanes[l].page
        /\ r.more => r.examined < ScanBudget /\ r.part \in {"scan", "last"}
        /\ r.part \in {"first", "seal"} => r.examined = 0
    BY <1>2 DEF Round, Idle
  <2> HIDE DEF r
  <2>2. [r EXCEPT !.pc = "list"] \in Round /\ Idle([r EXCEPT !.pc = "list"])
        /\ [r EXCEPT !.pc = "list"].page = r.page
    BY <2>1 DEF Round, Idle, OwnSteps
  <2>3. NextSeal(r) \in Round /\ Idle(NextSeal(r)) /\ NextSeal(r).page = r.page
    BY <2>1, NextSealIsIdle
  <2>4. next \in Round /\ Idle(next) /\ next.page = lanes[l].page
    BY <2>1, <2>2, <2>3
  <2>5. BudgetStep
    BY <1>4, NoFault DEF WorkerInv
  <2> HIDE DEF next
  <2> QED
    BY <1>0, <1>1, <1>4, <2>4, <2>5, IdleGoesOn, PageIsOwnClass
<1>5. ASSUME Fault("lost"), Defer(l), AuthorityTypeOK' PROVE WorkerInv'
  BY <1>0, <1>1, <1>5, FaultCounts, DeferSafe DEF WorkerInv, TasksStep
<1>6. ASSUME UNCHANGED seals, Fails(l) PROVE WorkerInv'
  BY <1>0, <1>1, <1>6, FailsSafe
<1> QED
  BY <1>3, <1>4, <1>5, <1>6 DEF SealCommit, Continue, Defer

\* A scan examines no more than is left of its budget, so it goes on only with
\* some left; what it admits was nobody's.
LEMMA ScanSafe ==
  ASSUME WorkerInv, NEW l \in Lane, Scan(l)
  PROVE  WorkerInv'
<1>0. l \in running /\ lanes[l].pc = "scan" /\ lanes[l].pc \notin OwnSteps
  BY DEF Scan, At, OwnSteps
<1>1. UNCHANGED <<epoch, applied, moved, seals, policy>>
  BY DEF Scan
<1>2. lanes[l] \in Round /\ Idle(lanes[l]) /\ lanes[l].lease = NoTask
      /\ lanes[l].examined < ScanBudget /\ lanes[l].part \in {"scan", "last"}
  BY <1>0, IdleLane DEF Idle
<1> DEFINE rest == {i \in Candidates : i > cursor}
           batch == FirstOf(rest, ScanRequest(lanes[l]))
           next == IF batch = rest THEN 0 ELSE Highest(batch)
           examined == lanes[l].examined + Cardinality(batch)
           r == [lanes[l] EXCEPT !.examined = examined,
                                 !.more = ScanGoesOn(examined, next),
                                 !.queue = {i \in batch : seals[i] # "sealed"}]
           admitted == [i \in Intent |->
             IF i \in batch /\ seals[i] = "sealed" /\ tasks[i].status = "None"
               THEN Unclaimed("Ready") ELSE tasks[i]]
<1>3. rest \in SUBSET Intent
  BY DEF Candidates, Background
<1>4. ScanRequest(lanes[l]) \in Nat \ {0}
  <2>1. lanes[l].examined \in Nat
    BY <1>2 DEF Round
  <2> QED
    BY <2>1, <1>2, BoundAssumption DEF ScanRequest
<1> HIDE DEF rest
<1>5. batch \subseteq Intent /\ Cardinality(batch) \in Nat
  BY <1>3, <1>4, FirstOfIsPart
<1>6. next \in Nat
  BY <1>3, <1>4, FirstOfContinues, IntentAssumption
<1> HIDE DEF batch, next
<1>7. examined \in Nat
  BY <1>2, <1>5 DEF Round
<1>8. ScanGoesOn(examined, next) => examined < ScanBudget
  BY DEF ScanGoesOn
<1>9. ASSUME cursor' = next, tasks' = admitted, UNCHANGED late
      PROVE  AuthorityTypeOK'
  BY <1>1, <1>6, <1>9 DEF WorkerInv, TypeOK, AuthorityTypeOK, Epoch, Task, Unclaimed, IntentStatus, Live
<1>10. ASSUME tasks' = admitted, NEW q, q.lease = NoTask
       PROVE  TasksStep(l, q) /\ LeaseStep(l, q)
  <2>1. ASSUME NEW i \in Intent, tasks'[i] # tasks[i]
        PROVE  tasks[i].status = "None" /\ tasks'[i] = Unclaimed("Ready")
    BY <1>10, <2>1
  <2> HIDE DEF admitted
  <2> QED
    BY <1>2, <1>10, <2>1, EpochAssumption
      DEF TasksStep, LeaseStep, Contended, Unclaimed, WorkerInv, TypeOK, AuthorityTypeOK, Epoch
<1> HIDE DEF examined, admitted
<1>11. ASSUME Continue(l, NextSeal(r)), budget' = budget, AuthorityTypeOK', tasks' = admitted
       PROVE  WorkerInv'
  <2>1. ScanGoesOn(examined, next) \in BOOLEAN
    BY DEF ScanGoesOn
  <2>2. /\ r \in Round /\ r.page = lanes[l].page
        /\ r.lease = NoTask /\ r.report # "Done" /\ r.part = lanes[l].part
        /\ r.examined = examined /\ r.more = ScanGoesOn(examined, next)
    BY <1>2, <1>5, <1>7, <2>1 DEF Round, Idle
  <2> HIDE DEF r
  <2>3. NextSeal(r) \in Round /\ Idle(NextSeal(r)) /\ NextSeal(r).page = lanes[l].page
    BY <1>2, <2>2, <1>8, NextSealIsIdle
  <2>4. BudgetStep
    BY <1>11, NoFault DEF WorkerInv
  <2>5. PICK q \in Round : q = NextSeal(r)
    BY <2>3
  <2>6. Moves(l, q) /\ Idle(q) /\ q.page = lanes[l].page
    BY <1>11, <2>3, <2>5 DEF Continue, Moves
  <2>7. RoundOK(l, q)' /\ q.lease = NoTask
    BY <2>6, IdleIsOK DEF Idle
  <2>8. TasksStep(l, q) /\ LeaseStep(l, q)
    BY <2>7, <1>10, <1>11
  <2> QED
    BY <1>0, <1>1, <1>11, <2>4, <2>6, <2>7, <2>8, LaneSafe, PageIsOwnClass
<1>12. ASSUME Fault("lost"), Defer(l), AuthorityTypeOK', tasks' = admitted PROVE WorkerInv'
  BY <1>0, <1>1, <1>10, <1>12, FaultCounts, DeferSafe, AsleepIsIdle DEF WorkerInv, Idle
<1>13. ASSUME UNCHANGED <<tasks, cursor>>, Fenced(l) \/ Fails(l) PROVE WorkerInv'
  BY <1>0, <1>1, <1>13, FencedSafe, FailsSafe
<1>14. Scan(l) =>
         \/ /\ cursor' = next /\ tasks' = admitted
            /\ \/ Continue(l, NextSeal(r)) /\ budget' = budget
               \/ Fault("lost") /\ Defer(l)
         \/ UNCHANGED <<tasks, cursor>> /\ (Fenced(l) \/ Fails(l))
  BY DEF Scan, r, examined, admitted, next, batch, rest
<1> QED
  BY <1>9, <1>11, <1>12, <1>13, <1>14 DEF Continue, Defer

\* A page holds tasks of the class that was asked for, unless the source
\* ignores the class.
LEMMA ListSafe ==
  ASSUME WorkerInv, NEW l \in Lane, List(l)
  PROVE  WorkerInv'
<1>0. l \in running /\ lanes[l].pc = "list" /\ lanes[l].pc \notin OwnSteps
  BY DEF List, At, OwnSteps
<1>1. UNCHANGED <<epoch, tasks, applied, moved, seals, cursor, policy>>
  BY DEF List
<1>2. /\ lanes[l] \in Round /\ Idle(lanes[l]) /\ lanes[l].lease = NoTask
      /\ lanes[l].report # "Done"
      /\ lanes[l].more => lanes[l].examined < ScanBudget /\ lanes[l].part \in {"scan", "last"}
      /\ lanes[l].part \in {"first", "seal"} => lanes[l].examined = 0
  BY <1>0, IdleLane DEF Idle
<1>3. UNCHANGED late => AuthorityTypeOK'
  BY <1>1 DEF WorkerInv, TypeOK, AuthorityTypeOK, Epoch
<1>4. ASSUME Continue(l, AfterExecute(l, lanes[l])), budget' = budget
      PROVE  WorkerInv'
  <2>1. /\ AfterExecute(l, lanes[l]) \in Round /\ Idle(AfterExecute(l, lanes[l]))
        /\ AfterExecute(l, lanes[l]).page = {}
    BY <1>2, AfterExecuteIsIdle
  <2>2. BudgetStep /\ UNCHANGED late
    BY <1>4, NoFault DEF WorkerInv, Continue
  <2> QED
    BY <1>0, <1>1, <1>3, <1>4, <2>1, <2>2, IdleGoesOn
<1> DEFINE own == {i \in Intent : Accepts(l, i)}
           rest(class) == {i \in class : i > lanes[l].after /\ tasks[i].status \in Live}
           batch(class) == FirstOf(rest(class), PageSize)
           item(i) == [intent |-> i, status |-> tasks[i].status, epoch |-> tasks[i].epoch]
           next(class) == IF batch(class) = rest(class) THEN 0 ELSE Highest(batch(class))
           r(class) == [lanes[l] EXCEPT !.pc = "page", !.page = {item(i) : i \in batch(class)},
                                        !.next = next(class)]
<1>5. ASSUME NEW class \in {own, Intent}, Continue(l, r(class)),
             (budget' = budget /\ class = own) \/ Fault("misroute")
      PROVE  WorkerInv'
  <2>1. rest(class) \in SUBSET Intent /\ \A i \in rest(class) : tasks[i].status \in Live
    OBVIOUS
  <2>2. batch(class) \subseteq rest(class)
    BY <2>1, BoundAssumption, FirstOfIsPart
  <2>3. next(class) \in Nat
    BY <2>1, BoundAssumption, FirstOfContinues, IntentAssumption
  <2>a. rest(class) \subseteq class
    OBVIOUS
  <2> HIDE DEF batch, rest
  <2>4. \A i \in batch(class) : item(i) \in Item /\ item(i).intent = i
    BY <2>1, <2>2 DEF Item, WorkerInv, TypeOK, AuthorityTypeOK, Task
  <2>5. {item(i) : i \in batch(class)} \subseteq Item
    BY <2>4
  <2> HIDE DEF item, next
  <2>6. /\ r(class) \in Round /\ Idle(r(class))
        /\ r(class).page = {item(i) : i \in batch(class)}
    BY <1>2, <2>3, <2>5 DEF Round, Idle, OwnSteps
  <2>7. BudgetStep /\ (class # own => budget' # Budget)
    BY <1>5, NoFault, FaultCounts DEF WorkerInv
  <2>8. budget' = Budget => \A x \in r(class).page : Accepts(l, x.intent)
    <3> SUFFICES ASSUME budget' = Budget, NEW i \in batch(class)
                 PROVE  Accepts(l, item(i).intent)
      BY <2>6
    <3> QED
      BY <2>2, <2>a, <2>4, <2>7
  <2>9. UNCHANGED late
    BY <1>5 DEF Continue
  <2> HIDE DEF r
  <2> QED
    BY <1>0, <1>1, <1>3, <1>5, <2>6, <2>7, <2>8, <2>9, IdleGoesOn
<1>6. ASSUME Fenced(l) \/ Fails(l) PROVE WorkerInv'
  BY <1>0, <1>1, <1>6, FencedSafe, FailsSafe
<1>7. \/ Continue(l, AfterExecute(l, lanes[l])) /\ budget' = budget
      \/ \E class \in {own, Intent} :
           /\ Continue(l, r(class))
           /\ (budget' = budget /\ class = own) \/ Fault("misroute")
      \/ Fenced(l) \/ Fails(l)
  BY DEF List
<1> HIDE DEF own, r
<1> QED
  BY <1>4, <1>5, <1>6, <1>7

LEMMA TurnPageSafe ==
  ASSUME WorkerInv, NEW l \in Lane, TurnPage(l)
  PROVE  WorkerInv'
<1>0. l \in running /\ lanes[l].pc = "page" /\ lanes[l].pc \notin OwnSteps
  BY DEF TurnPage, At, OwnSteps
<1>1. UNCHANGED <<epoch, tasks, applied, moved, seals, cursor, policy, budget>>
  BY DEF TurnPage
<1>2. /\ lanes[l] \in Round /\ Idle(lanes[l]) /\ lanes[l].lease = NoTask
      /\ lanes[l].report # "Done"
      /\ lanes[l].more => lanes[l].examined < ScanBudget /\ lanes[l].part \in {"scan", "last"}
      /\ lanes[l].part \in {"first", "seal"} => lanes[l].examined = 0
  BY <1>0, IdleLane DEF Idle
<1> DEFINE turned == [lanes[l] EXCEPT !.pc = "list", !.page = {}, !.after = lanes[l].next]
           r == IF lanes[l].next = 0 THEN AfterExecute(l, lanes[l]) ELSE turned
<1>3. turned \in Round /\ Idle(turned) /\ turned.page = {}
  BY <1>2 DEF Round, Idle, OwnSteps
<1>4. /\ AfterExecute(l, lanes[l]) \in Round /\ Idle(AfterExecute(l, lanes[l]))
      /\ AfterExecute(l, lanes[l]).page = {}
  BY <1>2, AfterExecuteIsIdle
<1>5. r \in Round /\ Idle(r) /\ r.page = {}
  BY <1>3, <1>4
<1>6. Continue(l, r) /\ UNCHANGED late
  BY DEF TurnPage, Continue
<1>7. AuthorityTypeOK' /\ BudgetStep
  BY <1>1, <1>6, NoFault DEF WorkerInv, TypeOK, AuthorityTypeOK, Epoch
<1> HIDE DEF r
<1> QED
  BY <1>0, <1>1, <1>5, <1>6, <1>7, IdleGoesOn

\* Only a source that ignored the class makes a lane reject work.
LEMMA RejectClassSafe ==
  ASSUME WorkerInv, NEW l \in Lane, RejectClass(l)
  PROVE  WorkerInv'
<1>1. /\ UNCHANGED <<epoch, tasks, applied, moved, seals, cursor, policy, budget>>
      /\ Exit(l) /\ \E item \in lanes[l].page : ~ Accepts(l, item.intent)
  BY DEF RejectClass
<1>2. BudgetStep
  BY <1>1, NoFault DEF WorkerInv
<1>3. budget' # Budget
  BY <1>1, <1>2, PageIsOwnClass
<1> QED
  BY <1>1, <1>2, <1>3, ExitSafe

-----------------------------------------------------------------------------
(* run_intent.                                                             *)

\* What may be claimed nobody runs under the current epoch.
LEMMA ClaimableIsFree ==
  ASSUME NEW i \in Intent, Claimable(i), TypeOK
  PROVE  ~ Contended(i)
BY DEF Claimable, Contended, TypeOK, AuthorityTypeOK, Task, Epoch

LEMMA FreeClaimIsClaim == FreeClaims \subseteq ClaimId
BY DEF FreeClaims

LEMMA ClaimTyped ==
  ASSUME TypeOK, NEW i \in Intent, NEW id \in ClaimId, Claim(i, id)
  PROVE  /\ tasks' \in [Intent -> Task]
         /\ tasks'[i] = [status |-> "Running", claim |-> id, epoch |-> epoch]
         /\ \A j \in Intent \ {i} : tasks'[j] = tasks[j]
BY EpochAssumption DEF Claim, TypeOK, AuthorityTypeOK, Task, IntentStatus, Live, Epoch

\* A claim is made under the epoch of the process, of a task that no lane owns.
LEMMA TakeClaims ==
  ASSUME WorkerInv, NEW l \in Lane, l \in running, lanes[l].pc = "page",
         NEW item \in lanes[l].page, FirstToRun(l, item),
         Qualified, Claimable(item.intent),
         NEW id \in ClaimId, Claim(item.intent, id),
         UNCHANGED <<epoch, applied, moved, seals, cursor, policy, late>>,
         \/ /\ Continue(l, [Rest(l, item.intent) EXCEPT !.pc = "completed",
                              !.lease = [intent |-> item.intent, claim |-> id]])
            /\ budget' = budget
         \/ Fault("lost") /\ Defer(l)
  PROVE  WorkerInv'
<1> DEFINE i == item.intent
           lease == [intent |-> i, claim |-> id]
           r == [Rest(l, i) EXCEPT !.pc = "completed", !.lease = lease]
<1>0. lanes[l].pc \notin OwnSteps
  BY DEF OwnSteps
<1>1. /\ lanes[l] \in Round /\ Idle(lanes[l]) /\ lanes[l].lease = NoTask
  BY <1>0, IdleLane
<1>2. i \in Intent /\ ~ Contended(i)
  BY <1>1, ClaimableIsFree DEF Round, Item, WorkerInv
<1>3. lease \in Lease /\ lease # NoTask /\ lease.intent = i /\ lease.claim = id
  BY <1>2, NoTaskIsNone DEF Lease
<1>4. /\ tasks' \in [Intent -> Task]
      /\ tasks'[i] = [status |-> "Running", claim |-> id, epoch |-> epoch]
      /\ \A j \in Intent \ {i} : tasks'[j] = tasks[j]
  BY <1>2, ClaimTyped DEF WorkerInv
<1>5. Accepts(l, i) /\ i \notin Foreign
  BY DEF FirstToRun, Belongs
<1>6. AuthorityTypeOK'
  BY <1>4 DEF WorkerInv, TypeOK, AuthorityTypeOK, Epoch
<1>7. \A k \in Lane \ {l} : lanes[k].lease # NoTask => Owned(k) # i
  <2> SUFFICES ASSUME NEW k \in Lane \ {l}, lanes[k].lease # NoTask, Owned(k) = i
               PROVE  FALSE
    OBVIOUS
  <2>1. tasks[Owned(k)] = [status |-> "Running", claim |-> lanes[k].lease.claim, epoch |-> held]
    BY DEF WorkerInv, LeasesOK
  <2>2. tasks[i].status = "Running" /\ tasks[i].epoch = epoch
    BY <2>1 DEF Qualified
  <2> QED
    BY <2>2, <1>2 DEF Contended
<1> HIDE DEF lease, i
<1>8. /\ r \in Round /\ r.pc = "completed" /\ r.lease = lease /\ r.page \subseteq lanes[l].page
      /\ r.report = lanes[l].report /\ r.more = lanes[l].more
      /\ r.examined = lanes[l].examined /\ r.part = lanes[l].part
  BY <1>1, <1>3 DEF Round, Rest
<1>9. ASSUME Continue(l, r), budget' = budget PROVE WorkerInv'
  <2> HIDE DEF r
  <2>1. PICK q \in Round : q = r
    BY <1>8
  <2>2. BudgetStep
    BY <1>9, NoFault DEF WorkerInv
  <2>3. Moves(l, q)
    BY <1>9, <2>1 DEF Continue, Moves
  <2>4. RoundOK(l, q)'
    BY <1>1, <1>3, <1>5, <1>8, <2>1 DEF RoundOK, Idle, OwnSteps, Accepts
  <2>5. TasksStep(l, q)
    BY <1>1, <1>2, <1>3, <1>4, <1>8, <2>1, EpochAssumption
      DEF TasksStep, lease, WorkerInv, TypeOK, AuthorityTypeOK, Epoch
  <2>6. LeaseStep(l, q)
    <3>1. q.lease = lease
      BY <1>8, <2>1
    <3> QED
      BY <3>1, <1>1, <1>3, <1>4, <1>7 DEF LeaseStep, Qualified
  <2>7. budget' = Budget => \A x \in q.page : Accepts(l, x.intent)
    BY <1>8, <2>1, <2>2, PageIsOwnClass
  <2> QED
    BY <1>6, <2>2, <2>3, <2>4, <2>5, <2>6, <2>7, LaneSafe
<1>10. ASSUME Fault("lost"), Defer(l) PROVE WorkerInv'
  <2>1. BudgetStep /\ budget' # Budget
    BY <1>10, FaultCounts DEF WorkerInv
  <2>2. TasksStep(l, Asleep)
    BY <1>2, <1>4, <2>1 , EpochAssumption DEF TasksStep, WorkerInv, TypeOK, AuthorityTypeOK, Epoch
  <2> QED
    BY <1>6, <1>10, <2>1, <2>2, DeferSafe
<1> QED
  BY <1>9, <1>10 DEF r, lease, i

\* A task is put back or decided: by the claim that finds it superseded, or by
\* the report of the lane that owns it.
LEMMA PutSafe ==
  ASSUME WorkerInv, NEW l \in Lane, l \in running, NEW i \in Intent,
         NEW status \in IntentStatus \ {"Running"},
         tasks' = [tasks EXCEPT ![i] = Unclaimed(status)],
         ~ Contended(i) \/ (lanes[l].lease # NoTask /\ i = Owned(l)),
         lanes[l].lease # NoTask => i = Owned(l),
         UNCHANGED <<epoch, applied, moved, seals, cursor, policy, late>>,
         NEW r \in Round, Idle(r),
         budget' = Budget => \A item \in r.page : Accepts(l, item.intent),
         \/ Continue(l, r) /\ budget' = budget
         \/ Fault("lost") /\ Defer(l)
  PROVE  WorkerInv'
<1>1. /\ tasks' \in [Intent -> Task]
      /\ tasks'[i].status # "Running" /\ tasks'[i].epoch = 0
      /\ \A j \in Intent \ {i} : tasks'[j] = tasks[j]
  BY DEF WorkerInv, TypeOK, AuthorityTypeOK, Task, Unclaimed
<1>2. AuthorityTypeOK'
  BY <1>1 DEF WorkerInv, TypeOK, AuthorityTypeOK, Epoch
<1>3. ASSUME NEW q PROVE TasksStep(l, q)
  BY <1>1, EpochAssumption DEF TasksStep, WorkerInv, TypeOK, AuthorityTypeOK, Epoch
<1>4. ASSUME Continue(l, r), budget' = budget PROVE WorkerInv'
  <2>1. BudgetStep
    BY <1>4, NoFault DEF WorkerInv
  <2>2. Moves(l, r) /\ RoundOK(l, r)' /\ r.lease = NoTask
    BY <1>4, IdleIsOK DEF Continue, Moves, Idle
  <2>3. LeaseStep(l, r)
    BY <1>1, <2>2 DEF LeaseStep
  <2> QED
    BY <1>2, <1>3, <2>1, <2>2, <2>3, LaneSafe
<1>5. ASSUME Fault("lost"), Defer(l) PROVE WorkerInv'
  <2>1. BudgetStep /\ budget' # Budget
    BY <1>5, FaultCounts DEF WorkerInv
  <2> QED
    BY <1>2, <1>3, <1>5, <2>1, DeferSafe
<1> QED
  BY <1>4, <1>5

LEMMA TakeSafe ==
  ASSUME WorkerInv, NEW l \in Lane, Take(l)
  PROVE  WorkerInv'
<1>0. l \in running /\ lanes[l].pc = "page" /\ lanes[l].pc \notin OwnSteps
  BY DEF Take, At, OwnSteps
<1>1. UNCHANGED <<epoch, applied, moved, seals, cursor, policy>>
  BY DEF Take
<1>2. /\ lanes[l] \in Round /\ Idle(lanes[l]) /\ lanes[l].lease = NoTask
      /\ lanes[l].more => lanes[l].examined < ScanBudget /\ lanes[l].part \in {"scan", "last"}
      /\ lanes[l].part \in {"first", "seal"} => lanes[l].examined = 0
  BY <1>0, IdleLane DEF Idle
<1>3. PICK item \in lanes[l].page :
        /\ FirstToRun(l, item)
        /\ \/ /\ Qualified /\ Claimable(item.intent)
              /\ \E id \in FreeClaims :
                   /\ Claim(item.intent, id)
                   /\ \/ /\ Continue(l, [Rest(l, item.intent) EXCEPT !.pc = "completed",
                                !.lease = [intent |-> item.intent, claim |-> id]])
                         /\ UNCHANGED budget
                      \/ Fault("lost") /\ Defer(l)
           \/ /\ Qualified /\ Claimable(item.intent) /\ item.intent \in moved
              /\ SupersedeClaimed(item.intent)
              /\ Continue(l, Executed(l, Rest(l, item.intent)))
              /\ UNCHANGED budget
           \/ /\ Qualified /\ ~Claimable(item.intent)
              /\ Continue(l, Passed(Rest(l, item.intent)))
              /\ UNCHANGED <<tasks, budget>>
           \/ UNCHANGED tasks /\ (Fenced(l) \/ Fails(l))
  BY DEF Take
<1> DEFINE i == item.intent
<1>4. i \in Intent
  BY <1>2 DEF Round, Item
<1>5. /\ Rest(l, i) \in Round /\ Rest(l, i).page \subseteq lanes[l].page
      /\ Rest(l, i).more = lanes[l].more /\ Rest(l, i).examined = lanes[l].examined
      /\ Rest(l, i).part = lanes[l].part
  BY <1>2 DEF Rest, Round
<1> HIDE DEF i
<1>6. ASSUME Qualified, Claimable(i), NEW id \in FreeClaims, Claim(i, id),
             \/ /\ Continue(l, [Rest(l, i) EXCEPT !.pc = "completed",
                                  !.lease = [intent |-> i, claim |-> id]])
                /\ UNCHANGED budget
             \/ Fault("lost") /\ Defer(l)
      PROVE  WorkerInv'
  <2>1. id \in ClaimId /\ UNCHANGED late
    BY <1>6, FreeClaimIsClaim DEF Continue, Defer
  <2> QED
    BY <1>0, <1>1, <1>3, <1>6, <2>1, TakeClaims DEF i
<1>7. ASSUME Claimable(i), SupersedeClaimed(i), Continue(l, Executed(l, Rest(l, i))),
             UNCHANGED budget
      PROVE  WorkerInv'
  <2>1. /\ Executed(l, Rest(l, i)) \in Round /\ Idle(Executed(l, Rest(l, i)))
        /\ Executed(l, Rest(l, i)).page \subseteq lanes[l].page
    BY <1>2, <1>5, ExecutedIsIdle
  <2>2. BudgetStep /\ UNCHANGED late
    BY <1>7, NoFault DEF WorkerInv, Continue
  <2>3. "Superseded" \in IntentStatus \ {"Running"}
    BY DEF IntentStatus, Final
  <2>4. ~ Contended(i)
    BY <1>4, <1>7, ClaimableIsFree DEF WorkerInv
  <2>5. tasks' = [tasks EXCEPT ![i] = Unclaimed("Superseded")]
    BY <1>7 DEF SupersedeClaimed
  <2>6. budget' = Budget => \A x \in Executed(l, Rest(l, i)).page : Accepts(l, x.intent)
    BY <2>1, <2>2, PageIsOwnClass
  <2> QED
    BY <1>0, <1>1, <1>2, <1>4, <1>7, <2>1, <2>2, <2>3, <2>4, <2>5, <2>6, PutSafe
<1>8. ASSUME Continue(l, Passed(Rest(l, i))), UNCHANGED <<tasks, budget>>
      PROVE  WorkerInv'
  <2>1. /\ Passed(Rest(l, i)) \in Round /\ Idle(Passed(Rest(l, i)))
        /\ Passed(Rest(l, i)).page \subseteq lanes[l].page
    BY <1>2, <1>5, PassedIsIdle
  <2>2. BudgetStep /\ UNCHANGED late
    BY <1>8, NoFault DEF WorkerInv, Continue
  <2>3. AuthorityTypeOK'
    BY <1>1, <1>8, <2>2 DEF WorkerInv, TypeOK, AuthorityTypeOK, Epoch
  <2>4. budget' = Budget => \A x \in Passed(Rest(l, i)).page : Accepts(l, x.intent)
    BY <2>1, <2>2, PageIsOwnClass
  <2> QED
    BY <1>0, <1>1, <1>8, <2>1, <2>2, <2>3, <2>4, IdleGoesOn
<1>9. ASSUME UNCHANGED tasks, Fenced(l) \/ Fails(l) PROVE WorkerInv'
  BY <1>0, <1>1, <1>9, FencedSafe, FailsSafe
<1> QED
  BY <1>3, <1>6, <1>7, <1>8, <1>9 DEF i

\* The owner of a task goes on to its next step, or to its report.
LEMMA OwnerGoesOn ==
  ASSUME WorkerInv, NEW l \in Lane, l \in running, lanes[l].pc \in OwnSteps,
         NEW pc \in OwnSteps, NEW report \in {"Done", "Retry", "Failed", "Superseded"}, NEW r,
         \/ r = [lanes[l] EXCEPT !.pc = pc] /\ report = lanes[l].report
         \/ r = [lanes[l] EXCEPT !.pc = pc, !.report = report],
         report = "Done" => Owned(l) \in applied',
         Moves(l, r), UNCHANGED tasks, BudgetStep, AuthorityTypeOK', epoch' = epoch,
         applied \subseteq applied'
  PROVE  WorkerInv'
<1>1. lanes[l] \in Round /\ RoundOK(l, lanes[l])
  BY DEF WorkerInv, TypeOK, RoundsOK
<1>2. /\ r \in Round /\ r.pc = pc /\ r.report = report
      /\ r.lease = lanes[l].lease /\ r.page = lanes[l].page /\ r.more = lanes[l].more
      /\ r.examined = lanes[l].examined /\ r.part = lanes[l].part
  BY <1>1 DEF Round, OwnSteps
<1>3. RoundOK(l, r)'
  BY <1>1, <1>2 DEF RoundOK, OwnSteps, Owned, Accepts
<1> QED
  BY <1>2, <1>3, KeepsOn, PageIsOwnClass

LEMMA ReportSafe ==
  ASSUME WorkerInv, NEW l \in Lane, l \in running, lanes[l].pc \in OwnSteps,
         NEW report \in {"Done", "Retry", "Failed", "Superseded"}, Report(l, report),
         report = "Done" => Owned(l) \in applied',
         UNCHANGED <<epoch, tasks, moved, seals, cursor, policy>>, BudgetStep,
         applied \subseteq applied', applied' \subseteq Intent
  PROVE  WorkerInv'
<1>1. PICK r : r = [lanes[l] EXCEPT !.pc = "finish", !.report = report]
  OBVIOUS
<1>2. Moves(l, r) /\ UNCHANGED late
  BY <1>1 DEF Report, Continue, Moves
<1>3. AuthorityTypeOK'
  BY <1>2 DEF WorkerInv, TypeOK, AuthorityTypeOK, Epoch
<1> QED
  BY <1>1, <1>2, <1>3, OwnerGoesOn DEF OwnSteps

LEMMA AdvanceSafe ==
  ASSUME WorkerInv, NEW l \in Lane, l \in running, lanes[l].pc \in OwnSteps,
         NEW pc \in OwnSteps, Continue(l, [lanes[l] EXCEPT !.pc = pc]), UNCHANGED budget,
         UNCHANGED <<epoch, tasks, applied, moved, seals, cursor, policy>>
  PROVE  WorkerInv'
<1>1. PICK r : r = [lanes[l] EXCEPT !.pc = pc]
  OBVIOUS
<1>2. Moves(l, r) /\ UNCHANGED late
  BY <1>1 DEF Continue, Moves
<1>3. AuthorityTypeOK' /\ BudgetStep
  BY <1>2, NoFault DEF WorkerInv, TypeOK, AuthorityTypeOK, Epoch
<1>4. PICK report \in {"Done", "Retry", "Failed", "Superseded"} : report = lanes[l].report
  BY DEF WorkerInv, TypeOK, Round
<1>5. report = "Done" => Owned(l) \in applied'
  BY <1>4 DEF WorkerInv, RoundsOK, RoundOK, Owned
<1> QED
  BY <1>1, <1>2, <1>3, <1>4, <1>5, OwnerGoesOn

LEMMA QueryErrorsSafe ==
  ASSUME WorkerInv, NEW l \in Lane, l \in running, lanes[l].pc \in OwnSteps, QueryErrors(l),
         UNCHANGED <<epoch, tasks, applied, moved, seals, cursor, policy>>
  PROVE  WorkerInv'
<1>1. /\ ReportOf("Fenced") = "Failed" /\ ReportOf("Unknown") = "Retry"
      /\ ReportOf("Integrity") = "Failed"
  BY DEF ReportOf, Retryable
<1>2. applied' \subseteq Intent
  BY DEF WorkerInv, TypeOK, AuthorityTypeOK
<1>3. ASSUME Report(l, "Failed"), UNCHANGED budget PROVE WorkerInv'
  BY <1>2, <1>3, NoFault, ReportSafe DEF WorkerInv
<1>4. ASSUME Fault("lost"), Report(l, "Retry") PROVE WorkerInv'
  BY <1>2, <1>4, FaultCounts, ReportSafe DEF WorkerInv
<1>5. ASSUME Fault("fatal"), Report(l, "Failed") PROVE WorkerInv'
  BY <1>2, <1>5, FaultCounts, ReportSafe DEF WorkerInv
<1> QED
  BY <1>1, <1>3, <1>4, <1>5 DEF QueryErrors

LEMMA CompletedSafe ==
  ASSUME WorkerInv, NEW l \in Lane, Completed(l)
  PROVE  WorkerInv'
<1>0. l \in running /\ lanes[l].pc \in OwnSteps
  BY DEF Completed, At, OwnSteps
<1>1. UNCHANGED <<epoch, tasks, applied, moved, seals, cursor, policy>>
      /\ applied' \subseteq Intent
  BY DEF Completed, WorkerInv, TypeOK, AuthorityTypeOK
<1>2. ASSUME Owned(l) \in applied, Report(l, "Done"), UNCHANGED budget PROVE WorkerInv'
  BY <1>0, <1>1, <1>2, NoFault, ReportSafe DEF WorkerInv
<1>3. ASSUME Continue(l, [lanes[l] EXCEPT !.pc = "inspect"]), UNCHANGED budget PROVE WorkerInv'
  BY <1>0, <1>1, <1>3, AdvanceSafe DEF OwnSteps
<1>4. ASSUME QueryErrors(l) PROVE WorkerInv'
  BY <1>0, <1>1, <1>4, QueryErrorsSafe
<1> QED
  BY <1>2, <1>3, <1>4 DEF Completed

LEMMA InspectSafe ==
  ASSUME WorkerInv, NEW l \in Lane, Inspect(l)
  PROVE  WorkerInv'
<1>0. l \in running /\ lanes[l].pc \in OwnSteps
  BY DEF Inspect, At, OwnSteps
<1>1. UNCHANGED <<epoch, tasks, applied, moved, seals, cursor, policy>>
      /\ applied' \subseteq Intent
  BY DEF Inspect, WorkerInv, TypeOK, AuthorityTypeOK
<1>2. ReportOf("Unknown") = "Retry" /\ ReportOf("Integrity") = "Failed"
  BY DEF ReportOf, Retryable
<1>3. ASSUME Report(l, "Superseded"), UNCHANGED budget PROVE WorkerInv'
  BY <1>0, <1>1, <1>3, NoFault, ReportSafe DEF WorkerInv
<1>4. ASSUME Continue(l, [lanes[l] EXCEPT !.pc = "effect"]), UNCHANGED budget PROVE WorkerInv'
  BY <1>0, <1>1, <1>4, AdvanceSafe DEF OwnSteps
<1>5. ASSUME Fault("lost"), Report(l, "Retry") PROVE WorkerInv'
  BY <1>0, <1>1, <1>5, FaultCounts, ReportSafe DEF WorkerInv
<1>6. ASSUME Fault("fatal"), Report(l, "Failed") PROVE WorkerInv'
  BY <1>0, <1>1, <1>6, FaultCounts, ReportSafe DEF WorkerInv
<1> QED
  BY <1>2, <1>3, <1>4, <1>5, <1>6 DEF Inspect

LEMMA EffectSafe ==
  ASSUME WorkerInv, NEW l \in Lane, Effect(l)
  PROVE  WorkerInv'
<1>0. l \in running /\ lanes[l].pc \in OwnSteps
  BY DEF Effect, At, OwnSteps
<1>1. UNCHANGED <<epoch, tasks, moved, seals, cursor, policy>>
  BY DEF Effect
<1>2. applied \subseteq Intent /\ Owned(l) \in Intent /\ held \in Nat
  BY <1>0, EpochAssumption
    DEF WorkerInv, TypeOK, AuthorityTypeOK, RoundsOK, RoundOK, Owned, Round, Lease, Epoch
<1>3. /\ ReportOf("Unknown") = "Retry" /\ ReportOf("Integrity") = "Failed"
      /\ ReportOf("Busy") = "Retry" /\ ReportOf("Conflict") = "Failed"
  BY DEF ReportOf, Retryable
<1>4. ASSUME NEW report \in {"Done", "Retry", "Failed"}, Report(l, report), UNCHANGED budget,
             report = "Done" => Owned(l) \in applied', applied' \in {applied, applied \cup {Owned(l)}}
      PROVE  WorkerInv'
  <2>1. BudgetStep /\ applied' \subseteq Intent /\ applied \subseteq applied'
    BY <1>2, <1>4, NoFault DEF WorkerInv
  <2> QED
    BY <1>0, <1>1, <1>4, <2>1, ReportSafe
<1>5. ASSUME NEW report \in {"Retry", "Failed"}, NEW kind, Fault(kind), Report(l, report),
             applied' = applied \cup {Owned(l)}
      PROVE  WorkerInv'
  <2>1. BudgetStep /\ applied' \subseteq Intent /\ applied \subseteq applied'
    BY <1>2, <1>5, FaultCounts DEF WorkerInv
  <2> QED
    BY <1>0, <1>1, <1>5, <2>1, ReportSafe
<1>6. ASSUME Fault("late"), UNCHANGED <<running, held, applied>>,
             late' = late \cup {[intent |-> Owned(l), epoch |-> held]},
             Set(l, [lanes[l] EXCEPT !.pc = "finish", !.report = "Retry"])
      PROVE  WorkerInv'
  <2>1. PICK r : r = [lanes[l] EXCEPT !.pc = "finish", !.report = "Retry"]
    OBVIOUS
  <2>2. r # Asleep
    BY <2>1 DEF WorkerInv, TypeOK, Round, Asleep
  <2>3. Moves(l, r)
    BY <1>6, <2>1, <2>2 DEF Moves
  <2>4. [intent |-> Owned(l), epoch |-> held] \in EffectRequest
    BY <1>2 DEF EffectRequest
  <2>5. AuthorityTypeOK' /\ BudgetStep
    BY <1>1, <1>6, <2>4, FaultCounts DEF WorkerInv, TypeOK, AuthorityTypeOK, Epoch
  <2> QED
    BY <1>0, <1>1, <1>6, <2>1, <2>3, <2>5, OwnerGoesOn DEF OwnSteps
<1>7. ASSUME QueryErrors(l), UNCHANGED applied PROVE WorkerInv'
  BY <1>0, <1>1, <1>7, QueryErrorsSafe
<1> QED
  BY <1>3, <1>4, <1>5, <1>6, <1>7 DEF Effect

\* What a qualified lane reports is never refused.
LEMMA NotRefused ==
  ASSUME WorkerInv, NEW l \in Lane, lanes[l].pc = "finish", Qualified
  PROVE  ~ FinishRefused(Owned(l), lanes[l].lease.claim, lanes[l].report)
<1>1. lanes[l].lease # NoTask /\ (lanes[l].report = "Done" => Owned(l) \in applied)
  BY DEF WorkerInv, RoundsOK, RoundOK, OwnSteps, Owned
<1>2. tasks[Owned(l)] = [status |-> "Running", claim |-> lanes[l].lease.claim, epoch |-> held]
  BY <1>1 DEF WorkerInv, LeasesOK
<1> QED
  BY <1>1, <1>2 DEF FinishRefused

LEMMA FinishSafe ==
  ASSUME WorkerInv, NEW l \in Lane, Finish(l)
  PROVE  WorkerInv'
<1> DEFINE i == Owned(l)
           report == lanes[l].report
           refused == FinishRefused(i, lanes[l].lease.claim, report)
<1>0. l \in running /\ lanes[l].pc = "finish" /\ lanes[l].pc \in OwnSteps
  BY DEF Finish, At, OwnSteps
<1>1. UNCHANGED <<epoch, applied, moved, seals, cursor, policy>>
  BY DEF Finish
<1>2. /\ lanes[l] \in Round /\ lanes[l].lease # NoTask /\ i \in Intent
      /\ lanes[l].more => lanes[l].examined < ScanBudget /\ lanes[l].part \in {"scan", "last"}
      /\ lanes[l].part \in {"first", "seal"} => lanes[l].examined = 0
  BY <1>0 DEF WorkerInv, TypeOK, RoundsOK, RoundOK, Owned, Round, Lease
<1>3. ASSUME Qualified, FinishIntent(i, report),
             \/ Continue(l, Executed(l, lanes[l])) /\ UNCHANGED budget
             \/ Fault("lost") /\ Defer(l)
      PROVE  WorkerInv'
  <2>1. FinishStatus(i, report) \in IntentStatus \ {"Running"}
    BY <1>2 DEF FinishStatus, IntentStatus, Final, Live, Round
  <2>2. /\ Executed(l, lanes[l]) \in Round /\ Idle(Executed(l, lanes[l]))
        /\ Executed(l, lanes[l]).page \subseteq lanes[l].page
    BY <1>2, ExecutedIsIdle
  <2>3. BudgetStep /\ UNCHANGED late
    BY <1>3, NoFault, FaultCounts DEF WorkerInv, Continue, Defer
  <2>4. budget' = Budget => \A x \in Executed(l, lanes[l]).page : Accepts(l, x.intent)
    BY <2>2, <2>3, PageIsOwnClass
  <2>5. tasks' = [tasks EXCEPT ![i] = Unclaimed(FinishStatus(i, report))]
    BY <1>3 DEF FinishIntent
  <2> HIDE DEF i
  <2> QED
    BY <1>0, <1>1, <1>2, <1>3, <2>1, <2>2, <2>3, <2>4, <2>5, PutSafe DEF i
<1>4. ASSUME UNCHANGED tasks, Fenced(l) \/ Fails(l) PROVE WorkerInv'
  BY <1>0, <1>1, <1>4, FencedSafe, FailsSafe
<1>5. Qualified => ~ refused
  BY <1>0, NotRefused
<1> QED
  BY <1>3, <1>4, <1>5 DEF Finish

-----------------------------------------------------------------------------
(* The process and what is around it.                                      *)

\* Steps of others: they leave the rounds alone, and tasks that are run under
\* the current epoch.
LEMMA OthersSafe ==
  ASSUME WorkerInv, UNCHANGED <<epoch, running, held, lanes>>, AuthorityTypeOK', BudgetStep,
         applied \subseteq applied',
         \A i \in Intent : tasks'[i] # tasks[i] =>
           /\ ~ Contended(i)
           /\ tasks'[i].epoch <= epoch
           /\ tasks'[i].status # "Running" \/ budget' # Budget
  PROVE  WorkerInv'
<1> USE DEF WorkerInv
<1>1. TypeOK'
  BY DEF TypeOK, BudgetStep, Epoch
<1>2. RoundsOK' /\ DownOK' /\ ApartOK'
  BY DEF RoundsOK, RoundOK, DownOK, ApartOK, Owned, Accepts
<1>3. EpochsOK'
  BY DEF EpochsOK
<1>4. LeasesOK'
  <2> SUFFICES ASSUME held = epoch, NEW l \in Lane, lanes[l].lease # NoTask
               PROVE  tasks'[Owned(l)] =
                        [status |-> "Running", claim |-> lanes[l].lease.claim, epoch |-> held]
    BY DEF LeasesOK, Qualified, Owned
  <2>1. tasks[Owned(l)] = [status |-> "Running", claim |-> lanes[l].lease.claim, epoch |-> held]
    BY DEF LeasesOK, Qualified
  <2>2. Owned(l) \in Intent
    BY DEF Owned, TypeOK, Round, Lease
  <2> QED
    BY <2>1, <2>2 DEF Contended
<1>5. budget' = Budget => budget = Budget
  BY BoundAssumption DEF BudgetStep, TypeOK
<1>6. PagesOK'
  BY <1>5 DEF PagesOK, Accepts
<1>7. HeldOK'
  BY <1>5 DEF HeldOK, Qualified
<1> QED
  BY <1>1, <1>2, <1>3, <1>4, <1>6, <1>7

LEMMA AroundSafe ==
  ASSUME WorkerInv,
         \/ PutPolicy
         \/ \E i \in Intent : Access(i) \/ ScanCommand(i) \/ Move(i)
         \/ \E request \in late : LateEffect(request),
         UNCHANGED <<running, held, lanes, budget>>
  PROVE  WorkerInv'
<1> USE DEF WorkerInv
<1>0. BudgetStep
  BY NoFault
<1>1. ASSUME NEW i \in Intent, tasks[i].status = "None", tasks' = [tasks EXCEPT ![i] = Unclaimed("Ready")],
             UNCHANGED <<epoch, applied, moved, late, seals, cursor, policy>>
      PROVE  WorkerInv'
  <2>1. tasks' \in [Intent -> Task]
    BY <1>1 DEF TypeOK, AuthorityTypeOK, Task, Unclaimed, IntentStatus, Live
  <2>2. AuthorityTypeOK'
    BY <1>1, <2>1 DEF TypeOK, AuthorityTypeOK, Epoch
  <2>3. \A j \in Intent : tasks'[j] # tasks[j] =>
           /\ ~ Contended(j) /\ tasks'[j].epoch <= epoch /\ tasks'[j].status # "Running"
    BY <1>1, EpochAssumption DEF Contended, Unclaimed, TypeOK, AuthorityTypeOK, Epoch
  <2> QED
    BY <1>0, <1>1, <2>2, <2>3, OthersSafe
<1>2. ASSUME UNCHANGED <<epoch, tasks>>, AuthorityTypeOK', applied \subseteq applied'
      PROVE  WorkerInv'
  BY <1>0, <1>2, OthersSafe
<1>3. ASSUME PutPolicy PROVE WorkerInv'
  BY <1>2, <1>3 DEF PutPolicy, TypeOK, AuthorityTypeOK, Epoch
<1>4. ASSUME NEW i \in Intent, Access(i) \/ ScanCommand(i) PROVE WorkerInv'
  BY <1>1, <1>4 DEF Access, ScanCommand
<1>5. ASSUME NEW i \in Intent, Move(i) PROVE WorkerInv'
  BY <1>2, <1>5 DEF Move, TypeOK, AuthorityTypeOK, Epoch
<1>6. ASSUME NEW request \in late, LateEffect(request) PROVE WorkerInv'
  BY <1>2, <1>6 DEF LateEffect, TypeOK, AuthorityTypeOK, Epoch, EffectRequest
<1> QED
  BY <1>3, <1>4, <1>5, <1>6

LEMMA RivalSafe ==
  ASSUME WorkerInv, NEW i \in Intent, RivalClaims(i)
  PROVE  WorkerInv'
<1>1. PICK id \in FreeClaims : Claim(i, id)
  BY DEF RivalClaims
<1>2. id \in ClaimId
  BY FreeClaimIsClaim
<1>3. /\ UNCHANGED <<epoch, applied, moved, late, seals, cursor, policy, running, held, lanes>>
      /\ ~ Contended(i) /\ BudgetStep /\ budget' # Budget
  BY ClaimableIsFree, FaultCounts DEF RivalClaims, WorkerInv
<1>4. /\ tasks' \in [Intent -> Task]
      /\ tasks'[i] = [status |-> "Running", claim |-> id, epoch |-> epoch]
      /\ \A j \in Intent \ {i} : tasks'[j] = tasks[j]
  <2>1. TypeOK
    BY DEF WorkerInv
  <2> QED
    BY <1>1, <1>2, <2>1, ClaimTyped
<1>5. AuthorityTypeOK' /\ epoch <= epoch
  BY <1>3, <1>4, EpochAssumption DEF WorkerInv, TypeOK, AuthorityTypeOK, Epoch
<1> QED
  BY <1>3, <1>4, <1>5, OthersSafe

\* Nothing runs under an epoch that has just begun.
LEMMA TakeoverSafe ==
  ASSUME WorkerInv, OperatorTakesOver
  PROVE  WorkerInv'
<1> USE DEF WorkerInv
<1>1. /\ epoch < MaxEpoch /\ epoch' = epoch + 1
      /\ UNCHANGED <<tasks, applied, moved, late, seals, cursor, policy, running, held, lanes>>
  BY DEF OperatorTakesOver, Takeover
<1>2. BudgetStep
  BY NoFault, FaultCounts DEF OperatorTakesOver
<1>3. /\ epoch \in Nat /\ held \in Nat /\ epoch' \in Epoch
      /\ \A i \in Intent : tasks[i].epoch \in Nat
  BY <1>1, EpochAssumption DEF TypeOK, AuthorityTypeOK, Epoch, Task
<1>4. TypeOK'
  BY <1>1, <1>2, <1>3 DEF TypeOK, AuthorityTypeOK, BudgetStep, Epoch
<1>5. RoundsOK' /\ DownOK' /\ ApartOK'
  BY <1>1 DEF RoundsOK, RoundOK, DownOK, ApartOK, Owned, Accepts
<1>6. EpochsOK' /\ LeasesOK'
  BY <1>1, <1>3 DEF EpochsOK, LeasesOK, Qualified
<1>7. budget' = Budget => budget = Budget
  BY <1>2, BoundAssumption DEF BudgetStep, TypeOK
<1>8. PagesOK'
  BY <1>1, <1>7 DEF PagesOK, Accepts
<1>9. HeldOK'
  BY <1>1, <1>3 DEF HeldOK, EpochsOK
<1> QED
  BY <1>4, <1>5, <1>6, <1>8, <1>9

LEMMA CrashSafe ==
  ASSUME WorkerInv, Crash
  PROVE  WorkerInv'
<1>2. PICK cut \in SUBSET {k \in Lane : lanes[k].pc = "effect"} :
        late' = late \cup {[intent |-> Owned(k), epoch |-> held] : k \in cut}
  BY DEF Crash, Unanswered
<1>3. ASSUME NEW k \in cut
      PROVE  [intent |-> Owned(k), epoch |-> held] \in EffectRequest
  <2>1. k \in Lane /\ lanes[k] \in Round /\ lanes[k].lease # NoTask
    BY <1>3 DEF WorkerInv, RoundsOK, RoundOK, OwnSteps, TypeOK
  <2>2. Owned(k) \in Intent /\ held \in Nat
    BY <2>1, EpochAssumption DEF Owned, Round, Lease, WorkerInv, TypeOK, Epoch
  <2> QED
    BY <2>2 DEF EffectRequest
<1>4. late' \subseteq EffectRequest
  BY <1>2, <1>3 DEF WorkerInv, TypeOK, AuthorityTypeOK
<1>5. /\ running' = {} /\ lanes' = [k \in Lane |-> Asleep] /\ held' = held
      /\ UNCHANGED <<epoch, tasks, applied, moved, seals, cursor, policy>>
  BY DEF Crash
<1>6. AuthorityTypeOK'
  BY <1>4, <1>5 DEF WorkerInv, TypeOK, AuthorityTypeOK, Epoch
<1>7. BudgetStep /\ budget' # Budget
  BY FaultCounts DEF Crash, WorkerInv
<1> QED
  BY <1>5, <1>6, <1>7, EndsSafe DEF WorkerInv, TypeOK, EpochsOK, AuthorityTypeOK, Epoch

\* A new process starts under the current epoch; what it finds running has
\* been left by a fault.
LEMMA RestartSafe ==
  ASSUME WorkerInv, Restart
  PROVE  WorkerInv'
<1>1. /\ running = {} /\ running' \in Modes /\ held' = epoch /\ lanes' = [l \in Lane |-> Asleep]
      /\ UNCHANGED <<epoch, tasks, applied, moved, late, seals, cursor, policy, budget>>
  BY DEF Restart
<1>2. BudgetStep
  BY <1>1, NoFault DEF WorkerInv
<1>3. AuthorityTypeOK' /\ epoch \in Epoch /\ epoch <= epoch
  BY <1>1, EpochAssumption DEF WorkerInv, TypeOK, AuthorityTypeOK, Epoch
<1>4. budget' = Budget => \A i \in Intent : ~ (tasks[i].status = "Running" /\ tasks[i].epoch = epoch')
  BY <1>1 DEF WorkerInv, HeldOK
<1> QED
  BY <1>1, <1>2, <1>3, <1>4, EndsSafe

-----------------------------------------------------------------------------
(* The theorems.                                                           *)

LEMMA InitSafe == Init => WorkerInv
<1> SUFFICES ASSUME Init PROVE WorkerInv
  OBVIOUS
<1>1. Asleep \in Round /\ Idle(Asleep) /\ Asleep.page = {} /\ Asleep.lease = NoTask
  BY AsleepIsIdle DEF Idle
<1>2. \A l \in Lane : lanes[l] = Asleep
  BY DEF Init
<1>3. AuthorityTypeOK
  <2>1. Unclaimed("Ready") \in Task /\ Unclaimed("None") \in Task
    BY DEF Task, Unclaimed, IntentStatus, Live
  <2>2. tasks \in [Intent -> Task]
    BY <2>1 DEF Init, AuthorityInit
  <2>3. seals \in [Intent -> {"open", "begun", "sealed"}]
    BY DEF Init, AuthorityInit
  <2>4. epoch \in Epoch
    BY EpochAssumption DEF Init, AuthorityInit, Epoch
  <2>5. /\ applied \subseteq Intent /\ moved \subseteq Intent /\ late \subseteq EffectRequest
        /\ cursor \in Nat /\ policy \in BOOLEAN
    BY DEF Init, AuthorityInit
  <2> QED
    BY <2>2, <2>3, <2>4, <2>5 DEF AuthorityTypeOK
<1>4. TypeOK
  BY <1>1, <1>3, BoundAssumption, EpochAssumption DEF Init, TypeOK, Epoch
<1>5. RoundsOK
  <2> SUFFICES ASSUME NEW l \in Lane PROVE RoundOK(l, lanes[l])
    BY DEF RoundsOK
  <2>1. RoundOK(l, Asleep)
    BY <1>1, IdleIsOK
  <2> QED
    BY <1>2, <2>1
<1>6. DownOK /\ LeasesOK /\ ApartOK /\ PagesOK
  BY <1>1, <1>2 DEF DownOK, LeasesOK, ApartOK, PagesOK
<1>7. EpochsOK /\ HeldOK
  BY DEF Init, AuthorityInit, EpochsOK, HeldOK, Unclaimed
<1> QED
  BY <1>4, <1>5, <1>6, <1>7 DEF WorkerInv

LEMMA StepSafe == WorkerInv /\ [Next]_vars => WorkerInv'
<1> SUFFICES ASSUME WorkerInv, [Next]_vars PROVE WorkerInv'
  OBVIOUS
<1>1. ASSUME NEW l \in Lane, LaneStep(l) PROVE WorkerInv'
  BY <1>1, WakeSafe, FetchSealsSafe, SealBeginSafe, SealCommitSafe, ScanSafe, ListSafe,
     TurnPageSafe, RejectClassSafe, TakeSafe, CompletedSafe, InspectSafe, EffectSafe, FinishSafe
    DEF LaneStep
<1>2. ASSUME Outside PROVE WorkerInv'
  BY <1>2, AroundSafe, RivalSafe, TakeoverSafe, CrashSafe, RestartSafe DEF Outside
<1>3. ASSUME UNCHANGED vars PROVE WorkerInv'
  <2>1. BudgetStep /\ AuthorityTypeOK'
    BY <1>3, NoFault DEF vars, WorkerInv, TypeOK, AuthorityTypeOK, Epoch
  <2> QED
    BY <1>3, <2>1, OthersSafe DEF vars
<1> QED
  BY <1>1, <1>2, <1>3 DEF Next

\* The inductive invariant of the worker: the locals of each lane agree with
\* what the authority records of its task as long as nobody has taken over,
\* whatever is lost, slow, claimed by others, moved or crashes (the worker
\* command and run_intent).
THEOREM WorkerSafe == Spec => []WorkerInv
BY InitSafe, StepSafe, PTL DEF Spec

\* Every variable of the worker and of the authority keeps its type; in
\* particular cursors and page keys stay task numbers.
THEOREM WorkerTyped == Spec => []TypeOK
BY WorkerSafe, PTL DEF WorkerInv

\* A worker that is still qualified reports under a claim that holds, and
\* reports Done only of an effect in force (finish_intent after run_intent).
THEOREM ReportsCount == Spec => []QualifiedReportsCount
<1>1. WorkerInv => QualifiedReportsCount
  BY NotRefused DEF QualifiedReportsCount, At
<1> QED
  BY <1>1, WorkerSafe, PTL

\* Each lane owns at most one effect, of its own class and backend, and no two
\* lanes own the same (execute_ready of the two lanes).
THEOREM LanesStayApart == Spec => []LanesApart
<1>1. WorkerInv => LanesApart
  <2> SUFFICES ASSUME WorkerInv, NEW l \in Lane, lanes[l].lease # NoTask
               PROVE  /\ Accepts(l, Owned(l)) /\ Owned(l) \notin Foreign
                      /\ \A k \in Lane \ {l} : Owned(k) # Owned(l)
    BY DEF LanesApart
  <2>1. Accepts(l, Owned(l)) /\ Owned(l) \notin Foreign
    BY DEF WorkerInv, RoundsOK, RoundOK, Owned
  <2>2. Owned(l) \in Intent
    BY DEF WorkerInv, TypeOK, Round, Lease, Owned
  <2>3. ASSUME NEW k \in Lane \ {l}, Owned(k) = Owned(l) PROVE FALSE
    <3>1. CASE lanes[k].lease = NoTask
      BY <2>2, <2>3, <3>1, NoTaskIsNone DEF Owned
    <3>2. CASE lanes[k].lease # NoTask
      BY <2>3, <3>2 DEF WorkerInv, ApartOK
    <3> QED
      BY <3>1, <3>2
  <2> QED
    BY <2>1, <2>3
<1> QED
  BY <1>1, WorkerSafe, PTL

\* Without a fault every running task of the epoch has a lane that will report
\* it: no path through run_intent forgets its claim.
THEOREM ClaimsStayHeld == Spec => []ClaimsAreHeld
<1>1. WorkerInv => ClaimsAreHeld
  BY DEF WorkerInv, HeldOK, ClaimsAreHeld, Abandoned
<1> QED
  BY <1>1, WorkerSafe, PTL

\* No step of a lane that has been taken over from changes a task or an effect:
\* each of its requests carries the epoch it read when the process began.
THEOREM FencedLanesDecideNothing == Spec => FencedDecidesNothing
<1> DEFINE Decides == running # {} /\ held # epoch /\ \E l \in Lane : lanes'[l] # lanes[l]
<1>1. ASSUME [Next]_vars, Decides PROVE UNCHANGED <<tasks, applied>>
  <2>1. ASSUME NEW l \in Lane, LaneStep(l) PROVE UNCHANGED <<tasks, applied>>
    <3>1. ~ Qualified
      BY <1>1 DEF Qualified
    <3>2. ASSUME Wake(l) \/ FetchSeals(l) \/ SealBegin(l) \/ SealCommit(l) \/ Scan(l)
          PROVE  UNCHANGED <<tasks, applied>>
      BY <3>1, <3>2 DEF Wake, FetchSeals, SealBegin, SealCommit, Scan
    <3>3. ASSUME List(l) \/ TurnPage(l) \/ RejectClass(l) \/ Take(l)
          PROVE  UNCHANGED <<tasks, applied>>
      BY <3>1, <3>3 DEF List, TurnPage, RejectClass, Take
    <3>4. ASSUME Completed(l) \/ Inspect(l) \/ Effect(l) \/ Finish(l)
          PROVE  UNCHANGED <<tasks, applied>>
      BY <3>1, <3>4 DEF Completed, Inspect, Effect, Finish
    <3> QED
      BY <2>1, <3>2, <3>3, <3>4 DEF LaneStep
  <2>2. ASSUME Outside PROVE UNCHANGED <<tasks, applied>>
    BY <1>1, <2>2 DEF Outside, RivalClaims, OperatorTakesOver, Takeover, Crash, Restart
  <2>3. ASSUME UNCHANGED vars PROVE UNCHANGED <<tasks, applied>>
    BY <2>3 DEF vars
  <2> QED
    BY <1>1, <2>1, <2>2, <2>3 DEF Next
<1>2. [Next]_vars => [Decides => UNCHANGED <<tasks, applied>>]_vars
  BY <1>1
<1> QED
  BY <1>2, PTL DEF Spec, FencedDecidesNothing
=============================================================================
