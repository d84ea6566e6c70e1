------------------------------ MODULE HsmWorker ------------------------------
(***************************************************************************)
(* The lifecycle worker of crates/hsm-curvine/src/bin/hsm-curvine.rs with  *)
(* run_intent of crates/hsm-engine/src/lib.rs.  One process at a time (it  *)
(* holds the lock of the archive root) reads the controller epoch when it  *)
(* starts and runs two lanes, or one cycle with --once.  Every await is a  *)
(* step: the other lane, the source, operators and faults come in between. *)
(***************************************************************************)
EXTENDS LifecycleAuthority

CONSTANTS
  Modes,       \* the lanes a process may be started with: see Lane
  PageSize,    \* tasks of one listing (16 in the code)
  MaxActions,  \* --max-actions
  ScanLimit,   \* records of one scan request (256 in the code)
  ScanBudget,  \* selection.scan_budget of the policy
  Stuck,       \* tasks whose effect is refused as Busy for ever
  Faults,      \* the kinds of fault an instance may suffer
  Budget       \* bound: how many of them

ASSUME BoundAssumption ==
  /\ PageSize \in Nat \ {0} /\ MaxActions \in Nat \ {0}
  /\ ScanLimit \in Nat \ {0} /\ ScanBudget \in Nat \ {0} /\ Budget \in Nat
ASSUME ModeAssumption == Modes \subseteq {{"Background", "Recall"}, {"Once"}} /\ Modes # {}

VARIABLES
  running, \* the lanes of the worker process, none when it is down
  held,    \* the epoch it read when it started
  lanes,   \* its lanes, each with the locals of its round
  budget   \* faults still to come

vars == <<epoch, tasks, applied, moved, late, seals, cursor, policy,
          running, held, lanes, budget>>

\* worker --once runs one lane for both classes, and one cycle.
Lane == {"Background", "Recall", "Once"}

Item == [intent : Intent, status : Live, epoch : Nat]
NoTask == [intent |-> 0, claim |-> NoClaim]
Lease == [intent : Intent, claim : ClaimId] \cup {NoTask}

(***************************************************************************)
(* The locals of a lane: the caller of execute_ready (part), its page and  *)
(* cursor, the actions counted in this round, the files still to seal, the *)
(* task it owns and what it will report of it.                             *)
(***************************************************************************)
Round == [pc : {"sleep", "seals", "begin", "commit", "scan", "list", "page",
                "completed", "inspect", "effect", "finish"},
          part : {"first", "seal", "scan", "last"},
          known : BOOLEAN,
          page : SUBSET Item, next : Nat, after : Nat,
          executed : Nat,
          queue : SUBSET Intent, examined : Nat, more : BOOLEAN,
          lease : Lease,
          report : {"Done", "Retry", "Failed", "Superseded"}]

Asleep == [pc |-> "sleep", part |-> "first", known |-> FALSE,
           page |-> {}, next |-> 0, after |-> 0, executed |-> 0,
           queue |-> {}, examined |-> 0, more |-> FALSE,
           lease |-> NoTask, report |-> "Retry"]

TypeOK ==
  /\ AuthorityTypeOK
  /\ running \in Modes \cup {{}}
  /\ held \in Epoch
  /\ lanes \in [Lane -> Round]
  /\ budget \in 0..Budget

Init ==
  /\ AuthorityInit
  /\ running \in Modes
  /\ held = 1
  /\ lanes = [l \in Lane |-> Asleep]
  /\ budget = Budget

At(l, label) == l \in running /\ lanes[l].pc = label
Set(l, round) == lanes' = [lanes EXCEPT ![l] = round]
Owned(l) == lanes[l].lease.intent

Fault(kind) == kind \in Faults /\ budget > 0 /\ budget' = budget - 1

-----------------------------------------------------------------------------
(* Ends of a round and of the process.                                     *)

\* Effects on their way when the process dies.
Unanswered(ls) ==
  \E cut \in SUBSET {l \in ls : lanes[l].pc = "effect"} :
    late' = late \cup {[intent |-> Owned(l), epoch |-> held] : l \in cut}

\* try_join: an error that is not deferred ends the process and drops the
\* other lane wherever it waits.
Exit(l) ==
  /\ running' = {}
  /\ lanes' = [k \in Lane |-> Asleep]
  /\ Unanswered(Lane \ {l})
  /\ UNCHANGED held

\* The locals go with the round; --once has no second round.
Continue(l, round) ==
  /\ running' = IF l = "Once" /\ round = Asleep THEN {} ELSE running
  /\ Set(l, round)
  /\ UNCHANGED <<held, late>>

\* Busy, Conflict, Unknown and Io put the lane off to its next round.
Defer(l) == Continue(l, Asleep)

\* Wrong variant: an older epoch is accepted.
QualifiedOnce == held <= epoch

\* A request of an older epoch is refused.
Qualified == held = epoch
Fenced(l) == ~Qualified /\ Exit(l) /\ UNCHANGED budget

\* A request that changes nothing fails, for a while or for good.
Fails(l) ==
  \/ Fault("lost") /\ Defer(l)
  \/ Fault("fatal") /\ Exit(l)

-----------------------------------------------------------------------------
(* The order of a cycle: execute; seal each pending file and execute; scan *)
(* and seal what the scan names; execute.  The Recall lane only executes.  *)

ToLast(r) == [r EXCEPT !.pc = "list", !.part = "last"]

\* A policy that was not defined when the cycle began is not scanned.
ToScan(r) == IF r.known THEN [r EXCEPT !.pc = "scan", !.part = "scan"] ELSE ToLast(r)

\* Wrong variant: what a scan names to seal is forgotten.
NextSealPendingOnly(r) ==
  IF r.part = "seal" THEN IF r.queue # {} THEN [r EXCEPT !.pc = "begin"] ELSE ToScan(r)
  ELSE IF r.more THEN [r EXCEPT !.pc = "scan"]
  ELSE ToLast(r)

NextSeal(r) ==
  IF r.queue # {} THEN [r EXCEPT !.pc = "begin"]
  ELSE IF r.part = "seal" THEN ToScan(r)
  ELSE IF r.more THEN [r EXCEPT !.pc = "scan"]
  ELSE ToLast(r)

AfterExecute(l, r) ==
  LET done == [r EXCEPT !.page = {}, !.next = 0, !.after = 0]
  IN IF l = "Recall" \/ r.part = "last" THEN Asleep
     ELSE IF r.part = "first" THEN [done EXCEPT !.pc = "seals"]
     ELSE NextSeal(done)

\* A round begins: the Recall lane works with no policies, the others with
\* those defined now.
Wake(l) ==
  /\ At(l, "sleep")
  /\ \/ l = "Recall" /\ Continue(l, [Asleep EXCEPT !.pc = "list"]) /\ UNCHANGED budget
     \/ /\ l # "Recall"
        /\ \/ /\ Qualified
              /\ Continue(l, [Asleep EXCEPT !.pc = "list", !.known = policy])
              /\ UNCHANGED budget
           \/ Fenced(l)
           \/ Fails(l)
  /\ UNCHANGED <<epoch, tasks, applied, moved, seals, cursor, policy>>

\* pending_seals: protections that an interrupted seal left at the source.
FetchSeals(l) ==
  /\ At(l, "seals")
  /\ \/ /\ Continue(l, NextSeal([lanes[l] EXCEPT
              !.part = "seal", !.queue = {i \in Intent : seals[i] = "begun"}]))
        /\ UNCHANGED budget
     \/ Fails(l)
  /\ UNCHANGED <<epoch, tasks, applied, moved, seals, cursor, policy>>

Lowest(S) == CHOOSE i \in S : \A j \in S : i <= j
Highest(S) == CHOOSE i \in S : \A j \in S : i >= j
FirstOf(S, n) == {i \in S : Cardinality({j \in S : j < i}) < n}

\* seal_ordinary: pin the generation, under a token that a repetition reuses.
SealBegin(l) ==
  /\ At(l, "begin")
  /\ \/ /\ seals' = [seals EXCEPT ![Lowest(lanes[l].queue)] = "begun"]
        /\ \/ Continue(l, [lanes[l] EXCEPT !.pc = "commit"]) /\ UNCHANGED budget
           \/ Fault("lost") /\ Defer(l)
     \/ UNCHANGED seals /\ Fails(l)
  /\ UNCHANGED <<epoch, tasks, applied, moved, cursor, policy>>

\* The content is read and its digest committed; an error while reading
\* leaves the protection.  After a pending seal the lane executes.
SealCommit(l) ==
  /\ At(l, "commit")
  /\ LET file == Lowest(lanes[l].queue)
         r == [lanes[l] EXCEPT !.queue = @ \ {file}]
     IN \/ /\ seals' = [seals EXCEPT ![file] = "sealed"]
           /\ \/ /\ Continue(l, IF r.part = "seal" THEN [r EXCEPT !.pc = "list"]
                                ELSE NextSeal(r))
                 /\ UNCHANGED budget
              \/ Fault("lost") /\ Defer(l)
        \/ UNCHANGED seals /\ Fails(l)
  /\ UNCHANGED <<epoch, tasks, applied, moved, cursor, policy>>

\* How many records the next request of a pass may examine.
ScanRequest(r) ==
  IF ScanBudget - r.examined < ScanLimit THEN ScanBudget - r.examined ELSE ScanLimit

\* The pass is over, or has had its budget.
ScanGoesOn(examined, next) == next # 0 /\ examined < ScanBudget

(***************************************************************************)
(* scan_scheduled: the source examines the next records, admits those that *)
(* are sealed and names those to seal.  Its cursor outlives this process;  *)
(* the reply may be lost when it has moved on.                             *)
(***************************************************************************)
Scan(l) ==
  /\ At(l, "scan")
  /\ \/ /\ Qualified
        /\ LET rest == {i \in Candidates : i > cursor}
               batch == FirstOf(rest, ScanRequest(lanes[l]))
               next == IF batch = rest THEN 0 ELSE Highest(batch)
               examined == lanes[l].examined + Cardinality(batch)
           IN /\ cursor' = next
              /\ tasks' = [i \in Intent |->
                   IF i \in batch /\ seals[i] = "sealed" /\ tasks[i].status = "None"
                     THEN Unclaimed("Ready") ELSE tasks[i]]
              /\ \/ /\ Continue(l, NextSeal([lanes[l] EXCEPT
                         !.examined = examined,
                         !.more = ScanGoesOn(examined, next),
                         !.queue = {i \in batch : seals[i] # "sealed"}]))
                    /\ UNCHANGED budget
                 \/ Fault("lost") /\ Defer(l)
     \/ UNCHANGED <<tasks, cursor>> /\ (Fenced(l) \/ Fails(l))
  /\ UNCHANGED <<epoch, applied, moved, seals, policy>>

-----------------------------------------------------------------------------
(* execute_ready.                                                          *)

\* Wrong variant: the background lane runs restorations as well.
AcceptsMore(l, i) == l = "Recall" => Kind[i] = "Recall"

\* The work class a lane asks for and accepts.
Accepts(l, i) ==
  CASE l = "Recall" -> Kind[i] = "Recall"
    [] l = "Background" -> Kind[i] # "Recall"
    [] OTHER -> TRUE

\* A Release has no key: its backend is that of a policy known to the cycle.
Belongs(l, i) ==
  /\ i \notin Foreign
  /\ (Kind[i] = "Release" => lanes[l].known)

Eligible(item) ==
  \/ item.status = "Ready"
  \/ item.status = "Running" /\ item.epoch < held

\* One page of the live tasks of the class, in key order, as they are now.
\* A source that ignores the class is a fault.
List(l) ==
  /\ At(l, "list")
  /\ \/ /\ lanes[l].executed >= MaxActions
        /\ Continue(l, AfterExecute(l, lanes[l]))
        /\ UNCHANGED budget
     \/ /\ lanes[l].executed < MaxActions
        /\ Qualified
        /\ \E class \in {{i \in Intent : Accepts(l, i)}, Intent} :
             /\ IF class = {i \in Intent : Accepts(l, i)} THEN UNCHANGED budget
                ELSE Fault("misroute")
             /\ LET rest == {i \in class : i > lanes[l].after /\ tasks[i].status \in Live}
                    batch == FirstOf(rest, PageSize)
                IN Continue(l, [lanes[l] EXCEPT
                     !.pc = "page",
                     !.page = {[intent |-> i, status |-> tasks[i].status,
                                epoch |-> tasks[i].epoch] : i \in batch},
                     !.next = IF batch = rest THEN 0 ELSE Highest(batch)])
     \/ lanes[l].executed < MaxActions /\ (Fenced(l) \/ Fails(l))
  /\ UNCHANGED <<epoch, tasks, applied, moved, seals, cursor, policy>>

\* Wrong variant: the next page is the first one again.
TurnPageRestarts(l) ==
  /\ At(l, "page")
  /\ \A item \in lanes[l].page :
       Accepts(l, item.intent) /\ ~(Belongs(l, item.intent) /\ Eligible(item))
  /\ Continue(l, IF lanes[l].next = 0 THEN AfterExecute(l, lanes[l])
                 ELSE [lanes[l] EXCEPT !.pc = "list", !.page = {}])
  /\ UNCHANGED <<epoch, tasks, applied, moved, seals, cursor, policy, budget>>

\* No task of the page is left to run.
TurnPage(l) ==
  /\ At(l, "page")
  /\ \A item \in lanes[l].page :
       Accepts(l, item.intent) /\ ~(Belongs(l, item.intent) /\ Eligible(item))
  /\ Continue(l, IF lanes[l].next = 0 THEN AfterExecute(l, lanes[l])
                 ELSE [lanes[l] EXCEPT !.pc = "list", !.page = {}, !.after = lanes[l].next])
  /\ UNCHANGED <<epoch, tasks, applied, moved, seals, cursor, policy, budget>>

\* Work of another class is an Integrity error.
RejectClass(l) ==
  /\ At(l, "page")
  /\ \E item \in lanes[l].page :
       /\ ~Accepts(l, item.intent)
       /\ \A other \in lanes[l].page : other.intent < item.intent =>
            ~(Belongs(l, other.intent) /\ Eligible(other))
  /\ Exit(l)
  /\ UNCHANGED <<epoch, tasks, applied, moved, seals, cursor, policy, budget>>

\* Wrong variant: the class of a task is not looked at.
FirstToRunAnyClass(l, item) ==
  /\ item \in lanes[l].page
  /\ Belongs(l, item.intent) /\ Eligible(item)
  /\ \A other \in lanes[l].page : other.intent < item.intent =>
       ~(Belongs(l, other.intent) /\ Eligible(other))

\* The first task of the page that is to run.
FirstToRun(l, item) ==
  /\ item \in lanes[l].page
  /\ Belongs(l, item.intent) /\ Eligible(item) /\ Accepts(l, item.intent)
  /\ \A other \in lanes[l].page : other.intent < item.intent =>
       Accepts(l, other.intent) /\ ~(Belongs(l, other.intent) /\ Eligible(other))

\* A task has been run; after max_actions the pages are left.
Executed(l, r) ==
  LET counted == [r EXCEPT !.executed = @ + 1, !.lease = NoTask, !.report = "Retry"]
  IN IF counted.executed >= MaxActions THEN AfterExecute(l, counted)
     ELSE [counted EXCEPT !.pc = "page"]

\* Busy and Conflict are not counted and the page goes on.
Passed(r) == [r EXCEPT !.pc = "page", !.lease = NoTask, !.report = "Retry"]

-----------------------------------------------------------------------------
(* run_intent: claim, look for the original effect, compare the            *)
(* observation, act, report.                                               *)

\* A claim identity that nothing refers to.  Identities are only compared, so
\* one free identity stands for all that were never issued.
FreeClaims ==
  LET free == ClaimId \ ({tasks[i].claim : i \in Intent} \cup {lanes[l].lease.claim : l \in Lane})
  IN IF free = {} THEN {} ELSE {CHOOSE id \in free : TRUE}

Rest(l, i) == [lanes[l] EXCEPT !.page = {item \in @ : item.intent > i}]

\* The claim is made under an operation ID of its own, so a lost reply cannot
\* be asked for again.
Take(l) ==
  /\ At(l, "page")
  /\ \E item \in lanes[l].page :
       /\ FirstToRun(l, item)
       /\ LET i == item.intent
          IN \/ /\ Qualified /\ Claimable(i)
                /\ \E id \in FreeClaims :
                     /\ Claim(i, id)
                     /\ \/ /\ Continue(l, [Rest(l, i) EXCEPT !.pc = "completed",
                                  !.lease = [intent |-> i, claim |-> id]])
                           /\ UNCHANGED budget
                        \/ Fault("lost") /\ Defer(l)
             \/ /\ Qualified /\ Claimable(i) /\ i \in moved
                /\ SupersedeClaimed(i)
                /\ Continue(l, Executed(l, Rest(l, i)))
                /\ UNCHANGED budget
             \/ /\ Qualified /\ ~Claimable(i)
                /\ Continue(l, Passed(Rest(l, i)))
                /\ UNCHANGED <<tasks, budget>>
             \/ UNCHANGED tasks /\ (Fenced(l) \/ Fails(l))
  /\ UNCHANGED <<epoch, applied, moved, seals, cursor, policy>>

\* What run_intent reports of an error of its own steps.
Retryable == {"Unknown", "Io", "Busy"}
ReportOf(error) == IF error \in Retryable THEN "Retry" ELSE "Failed"

Report(l, report) ==
  Continue(l, [lanes[l] EXCEPT !.pc = "finish", !.report = report])

\* Errors of the queries and of the effect are reported, not returned.
QueryErrors(l) ==
  \/ ~Qualified /\ Report(l, ReportOf("Fenced")) /\ UNCHANGED budget
  \/ Fault("lost") /\ Report(l, ReportOf("Unknown"))
  \/ Fault("fatal") /\ Report(l, ReportOf("Integrity"))

\* storage.completed: the effect may be in force already.
Completed(l) ==
  /\ At(l, "completed")
  /\ \/ /\ Qualified
        /\ IF Owned(l) \in applied THEN Report(l, "Done")
           ELSE Continue(l, [lanes[l] EXCEPT !.pc = "inspect"])
        /\ UNCHANGED budget
     \/ QueryErrors(l)
  /\ UNCHANGED <<epoch, tasks, applied, moved, seals, cursor, policy>>

\* Wrong variant: a changed file ends the run without a report.
InspectReturns(l) ==
  /\ At(l, "inspect")
  /\ IF Owned(l) \in moved \cup applied THEN Continue(l, Passed(lanes[l]))
     ELSE Continue(l, [lanes[l] EXCEPT !.pc = "effect"])
  /\ UNCHANGED <<epoch, tasks, applied, moved, seals, cursor, policy, budget>>

\* storage.inspect: the file must be as the task expects it; an effect that
\* has come into force meanwhile changes it too.
Inspect(l) ==
  /\ At(l, "inspect")
  /\ \/ /\ IF Owned(l) \in moved \cup applied THEN Report(l, "Superseded")
           ELSE Continue(l, [lanes[l] EXCEPT !.pc = "effect"])
        /\ UNCHANGED budget
     \/ Fault("lost") /\ Report(l, ReportOf("Unknown"))
     \/ Fault("fatal") /\ Report(l, ReportOf("Integrity"))
  /\ UNCHANGED <<epoch, tasks, applied, moved, seals, cursor, policy>>

(***************************************************************************)
(* archive, release or recall, down to the commit at the source: it looks  *)
(* for the original effect again, then it is applied and answered, applied *)
(* with the answer lost or unreadable, still on its way, refused for now,  *)
(* or refused.                                                             *)
(***************************************************************************)
Effect(l) ==
  /\ At(l, "effect")
  /\ LET i == Owned(l)
     IN \/ /\ Qualified /\ i \in applied
           /\ Report(l, "Done")
           /\ UNCHANGED <<applied, budget>>
        \/ /\ Qualified /\ Applicable(i) /\ i \notin Stuck
           /\ applied' = applied \cup {i}
           /\ \/ Report(l, "Done") /\ UNCHANGED budget
              \/ Fault("lost") /\ Report(l, ReportOf("Unknown"))
              \/ Fault("fatal") /\ Report(l, ReportOf("Integrity"))
        \/ /\ i \notin applied /\ i \notin Stuck
           /\ Fault("late")
           /\ UNCHANGED <<running, held>>
           /\ late' = late \cup {[intent |-> i, epoch |-> held]}
           /\ Set(l, [lanes[l] EXCEPT !.pc = "finish", !.report = ReportOf("Unknown")])
           /\ UNCHANGED applied
        \/ /\ Qualified /\ i \notin applied /\ i \in Stuck
           /\ Report(l, ReportOf("Busy"))
           /\ UNCHANGED <<applied, budget>>
        \/ /\ Qualified /\ i \in moved /\ i \notin applied
           /\ Report(l, ReportOf("Conflict"))
           /\ UNCHANGED <<applied, budget>>
        \/ QueryErrors(l) /\ UNCHANGED applied
  /\ UNCHANGED <<epoch, tasks, moved, seals, cursor, policy>>

\* finish_intent, under the epoch of the lease.  A refusal for the claim is
\* Busy or Conflict; a lost reply defers the lane, finished or not.
Finish(l) ==
  /\ At(l, "finish")
  /\ LET i == Owned(l)
         report == lanes[l].report
         refused == FinishRefused(i, lanes[l].lease.claim, report)
     IN \/ /\ Qualified
           /\ IF refused THEN UNCHANGED tasks ELSE FinishIntent(i, report)
           /\ \/ /\ Continue(l, IF refused THEN Passed(lanes[l]) ELSE Executed(l, lanes[l]))
                 /\ UNCHANGED budget
              \/ Fault("lost") /\ Defer(l)
        \/ UNCHANGED tasks /\ (Fenced(l) \/ Fails(l))
  /\ UNCHANGED <<epoch, applied, moved, seals, cursor, policy>>

-----------------------------------------------------------------------------
(* The process and what is around it.                                      *)

Crash ==
  /\ running # {}
  /\ Fault("crash")
  /\ running' = {}
  /\ lanes' = [l \in Lane |-> Asleep]
  /\ Unanswered(Lane)
  /\ UNCHANGED <<epoch, tasks, applied, moved, seals, cursor, policy, held>>

\* A new process reads the epoch before anything else.
Restart ==
  /\ running = {}
  /\ running' \in Modes
  /\ held' = epoch
  /\ lanes' = [l \in Lane |-> Asleep]
  /\ UNCHANGED <<epoch, tasks, applied, moved, late, seals, cursor, policy, budget>>

\* Running work that no lane of this process will finish.
Abandoned(i) ==
  /\ tasks[i].status = "Running" /\ tasks[i].epoch = epoch
  /\ ~\E l \in running : lanes[l].lease = [intent |-> i, claim |-> tasks[i].claim]

\* An operator takes over for abandoned work, or without need.
OperatorTakesOver ==
  /\ \/ (\E i \in Intent \ Foreign : Abandoned(i)) /\ UNCHANGED budget
     \/ Fault("takeover")
  /\ Takeover
  /\ UNCHANGED <<running, held, lanes>>

\* Another controller claims a task through the library and goes away.
RivalClaims(i) ==
  /\ Fault("rival")
  /\ i \notin Foreign /\ Claimable(i)
  /\ \E id \in FreeClaims : Claim(i, id)
  /\ UNCHANGED <<epoch, applied, moved, late, seals, cursor, policy, running, held, lanes>>

Outside ==
  \/ /\ \/ PutPolicy
        \/ \E i \in Intent : Access(i) \/ ScanCommand(i) \/ Move(i)
        \/ \E request \in late : LateEffect(request)
     /\ UNCHANGED <<running, held, lanes, budget>>
  \/ \E i \in Intent : RivalClaims(i)
  \/ OperatorTakesOver
  \/ Crash
  \/ Restart

LaneStep(l) ==
  \/ Wake(l) \/ FetchSeals(l) \/ SealBegin(l) \/ SealCommit(l) \/ Scan(l)
  \/ List(l) \/ TurnPage(l) \/ RejectClass(l)
  \/ Take(l) \/ Completed(l) \/ Inspect(l) \/ Effect(l) \/ Finish(l)

Next == Outside \/ \E l \in Lane : LaneStep(l)

Spec == Init /\ [][Next]_vars

(***************************************************************************)
(* The runtime polls every lane that can go on, a supervisor restarts the  *)
(* worker, and an operator takes over for work that nobody will finish.    *)
(* Users, slow requests and faults are under no obligation.                *)
(***************************************************************************)
Attended ==
  /\ WF_vars(Restart)
  /\ WF_vars(OperatorTakesOver /\ budget' = budget)

\* The background lane may hang for ever at any await, the Recall lane not.
RecallFairSpec == Spec /\ Attended /\ WF_vars(LaneStep("Recall"))

\* Nobody takes over.
UnattendedSpec == Spec /\ WF_vars(Restart) /\ \A l \in Lane : WF_vars(LaneStep(l))

-----------------------------------------------------------------------------
(* Properties.                                                             *)

\* What a qualified worker reports counts: its claim has not been given to
\* anyone else, and a Done has its effect in force at the source, whatever
\* was lost, slow or claimed by others before.
QualifiedReportsCount ==
  \A l \in Lane : At(l, "finish") /\ Qualified =>
    ~FinishRefused(Owned(l), lanes[l].lease.claim, lanes[l].report)

\* "Each lane owns at most one effect": no two lanes work on one task, and no
\* lane on a task of the other class or of another backend.
LanesApart ==
  \A l \in Lane : lanes[l].lease # NoTask =>
    /\ Accepts(l, Owned(l))
    /\ Owned(l) \notin Foreign
    /\ \A k \in Lane \ {l} : Owned(k) # Owned(l)

\* Without a fault the worker never leaves a claim behind: whatever
\* run_intent meets, running work of its epoch has a lane that will report it.
ClaimsAreHeld ==
  (running # {} /\ Qualified /\ budget = Budget) =>
    \A i \in Intent : tasks[i].status = "Running" => ~Abandoned(i)

\* What a fenced worker still believes to own it can no longer decide: its
\* steps leave every task as it is.
FencedDecidesNothing ==
  [][(running # {} /\ held # epoch /\ \E l \in Lane : lanes'[l] # lanes[l]) => UNCHANGED <<tasks, applied>>]_vars

Settled(i) == tasks[i].status \in Live ~> tasks[i].status \in Final

\* The runtime does not let the background lane hang at an await.
BackgroundRuns == WF_vars(LaneStep("Background"))

\* Every admitted task is decided in the end, whatever is lost and whenever
\* the worker dies, as long as operators take over for abandoned work; tasks
\* that are Busy for ever do not keep the others from their turn.
EveryTaskSettles ==
  BackgroundRuns => \A i \in Intent \ (Foreign \cup Stuck) : Settled(i)

\* "A slow Archive cannot occupy the Recall lane": restorations are decided
\* even if the background lane hangs.
RecallsSettle == \A i \in Intent \ (Foreign \cup Stuck) : Kind[i] = "Recall" => Settled(i)

\* An interrupted or failed seal, a lost scan reply and a scan budget smaller
\* than a pass do not keep a file from being admitted.
EveryFileIsAdmitted ==
  BackgroundRuns => \A i \in Candidates : policy ~> tasks[i].status # "None"

\* docs/LOCAL-HSM.md: an operation whose outcome is Unknown is tried again
\* without an operator.
UnknownIsRetried == \A i \in Intent \ Foreign : Settled(i)
=============================================================================
