------------------------- MODULE LifecycleAuthority -------------------------
(***************************************************************************)
(* The source authority that owns lifecycle work, as a worker sees it: the *)
(* LifecycleStorage trait and its records (crates/hsm-core/src/            *)
(* lifecycle.rs).  The Curvine server behind the trait is not part of the  *)
(* repository; what it does is taken from how the adapter and the worker   *)
(* use it and from what tests/managed_cluster.rs asserts of its answers.   *)
(*                                                                         *)
(* A task is known by its place in the work index, so tasks are numbers;   *)
(* every Archive or Release task stands for one file that a scan examines. *)
(***************************************************************************)
EXTENDS Naturals, FiniteSets

CONSTANTS
  Intent,      \* tasks, numbered in the key order of the work index
  Kind,        \* Intent -> {"Archive", "Release", "Recall"}
  Foreign,     \* tasks of another archive backend
  Restless,    \* tasks whose file may be used before they are decided
  ClaimId,     \* claim identities; a free one stands for one never issued
  NoClaim,
  MaxEpoch     \* bound: controller epochs

ASSUME IntentAssumption == Intent \subseteq Nat \ {0} /\ IsFiniteSet(Intent)
ASSUME KindAssumption == Kind \in [Intent -> {"Archive", "Release", "Recall"}]
ASSUME ClaimAssumption == NoClaim \notin ClaimId
ASSUME EpochAssumption == MaxEpoch \in Nat \ {0}

VARIABLES
  epoch,    \* the committed controller qualification
  tasks,    \* what the authority records of each task
  applied,  \* tasks whose effect is in force, under their original operation
  moved,    \* tasks whose file or policy is not as it was when admitted
  late,     \* effect requests whose sender has stopped waiting
  seals,    \* content protection of the file of a task
  cursor,   \* how far the current pass of the scan has come
  policy    \* a policy of this backend is defined and enabled

authority == <<epoch, tasks, applied, moved, late, seals, cursor, policy>>

Epoch == 1..MaxEpoch
Final == {"Done", "Failed", "Superseded"}
Live == {"Ready", "Running"}
IntentStatus == {"None"} \cup Live \cup Final

\* LifecycleIntent with its IntentClaim.
Task == [status : IntentStatus, claim : ClaimId \cup {NoClaim}, epoch : Nat]
Unclaimed(status) == [status |-> status, claim |-> NoClaim, epoch |-> 0]

Background == {i \in Intent : Kind[i] # "Recall"}
Candidates == Background \ Foreign

\* The effect request of a task, sent under the epoch of its claim.
EffectRequest == [intent : Intent, epoch : Nat]

AuthorityTypeOK ==
  /\ epoch \in Epoch
  /\ tasks \in [Intent -> Task]
  /\ applied \subseteq Intent
  /\ moved \subseteq Intent
  /\ late \subseteq EffectRequest
  /\ seals \in [Intent -> {"open", "begun", "sealed"}]
  /\ cursor \in Nat
  /\ policy \in BOOLEAN

\* The tasks of other backends are queued from the start; nobody here runs them.
AuthorityInit ==
  /\ epoch = 1
  /\ tasks = [i \in Intent |-> Unclaimed(IF i \in Foreign THEN "Ready" ELSE "None")]
  /\ applied = {}
  /\ moved = {}
  /\ late = {}
  /\ seals = [i \in Intent |-> "open"]
  /\ cursor = 0
  /\ policy = FALSE

-----------------------------------------------------------------------------
(* The answers to LifecycleStorage.                                        *)

\* Wrong variant: a claim also takes what another worker of this epoch runs.
ClaimableWhileRunning(i) ==
  \/ tasks[i].status = "Ready"
  \/ tasks[i].status = "Running" /\ tasks[i].epoch <= epoch

\* A claim takes ready work, or running work of an older epoch.
Claimable(i) ==
  \/ tasks[i].status = "Ready"
  \/ tasks[i].status = "Running" /\ tasks[i].epoch < epoch

Claim(i, id) ==
  tasks' = [tasks EXCEPT ![i] = [status |-> "Running", claim |-> id, epoch |-> epoch]]

\* A task whose admission no longer holds is superseded when it is claimed.
SupersedeClaimed(i) == tasks' = [tasks EXCEPT ![i] = Unclaimed("Superseded")]

(***************************************************************************)
(* A finish is checked against the claim.  An effect in force decides over *)
(* the report: Done is refused without it, and no other report makes a     *)
(* failure of it.  A retry goes back to the queue.                         *)
(***************************************************************************)
FinishRefused(i, claim, report) ==
  \/ tasks[i].status # "Running"
  \/ tasks[i].claim # claim
  \/ report = "Done" /\ i \notin applied

\* Wrong variant: the report is recorded as it came.
FinishStatusVerbatim(i, report) == IF i \in applied THEN "Done" ELSE report

FinishStatus(i, report) ==
  CASE report = "Retry" -> "Ready"
    [] i \in applied -> "Done"
    [] OTHER -> report

FinishIntent(i, report) ==
  tasks' = [tasks EXCEPT ![i] = Unclaimed(FinishStatus(i, report))]

\* The source applies an effect only to what it was decided for.
Applicable(i) == i \notin moved /\ i \notin applied

-----------------------------------------------------------------------------
(* What happens at the source without this worker.                         *)

\* Reading an offline file queues its restoration.
Access(i) ==
  /\ Kind[i] = "Recall" /\ i \notin Foreign
  /\ tasks[i].status = "None"
  /\ tasks' = [tasks EXCEPT ![i] = Unclaimed("Ready")]
  /\ UNCHANGED <<epoch, applied, moved, late, seals, cursor, policy>>

PutPolicy ==
  /\ ~policy
  /\ policy' = TRUE
  /\ UNCHANGED <<epoch, tasks, applied, moved, late, seals, cursor>>

\* The scan command admits what is sealed; it seals nothing.
ScanCommand(i) ==
  /\ policy
  /\ i \in Candidates /\ seals[i] = "sealed"
  /\ tasks[i].status = "None"
  /\ tasks' = [tasks EXCEPT ![i] = Unclaimed("Ready")]
  /\ UNCHANGED <<epoch, applied, moved, late, seals, cursor, policy>>

\* The file is used, or its policy revised, after the task was admitted.
Move(i) ==
  /\ i \in Restless /\ i \notin moved /\ i \notin applied
  /\ tasks[i].status \in Live
  /\ moved' = moved \cup {i}
  /\ UNCHANGED <<epoch, tasks, applied, late, seals, cursor, policy>>

\* A request that was only slow is applied, or refused, after all.
LateEffect(request) ==
  /\ late' = late \ {request}
  /\ applied' = IF request.epoch = epoch /\ Applicable(request.intent)
                  THEN applied \cup {request.intent} ELSE applied
  /\ UNCHANGED <<epoch, tasks, moved, seals, cursor, policy>>

\* The takeover command advances the qualification it has just read.
Takeover ==
  /\ epoch < MaxEpoch
  /\ epoch' = epoch + 1
  /\ UNCHANGED <<tasks, applied, moved, late, seals, cursor, policy>>
=============================================================================
