---------------------------- MODULE CurvineAdapter ----------------------------
(***************************************************************************)
(* CurvineStorage of crates/hsm-curvine/src/lib.rs over NativeControl: the *)
(* ManagedStorage methods as exchanges with a server that may be older,    *)
(* answer late, not at all, or not to the question.  Each operation is     *)
(* driven as run_intent of the engine drives it, so an answer is judged by *)
(* what is done about it.  A request and its reply are two steps.          *)
(***************************************************************************)
EXTENDS ControlServer

CONSTANTS
  Faults,   \* the kinds of fault an instance may suffer
  Budget    \* bound: how many of them, each kind once

ASSUME BudgetAssumption == Budget \in Nat

VARIABLES
  link,     \* the capabilities learnt by connect, or None
  calls,    \* the call of each operation
  late,     \* requests whose sender has stopped waiting
  suffered  \* the faults there have been

vars == <<offer, states, outcome, pins, layouts, link, calls, late, suffered>>

Waiting == {"completed", "inspect", "prepare_archive", "commit_archive",
            "release", "prepare_recall", "commit_recall"}
Ended == {"Done", "Failed", "Superseded"}

\* A call: the method it waits in, whether run_intent has called the engine's
\* method already, the state it was admitted with, the view or layout it holds,
\* the reply that has come, and the state it was answered.
Call == [pc : {"new"} \cup Waiting \cup Ended, inside : BOOLEAN,
         expected : State \cup {None}, handle : Op \cup {None},
         reply : Reply \cup {None}, answer : State \cup {None}]

TypeOK ==
  /\ ServerTypeOK
  /\ link \in (SUBSET Feature) \cup {None}
  /\ calls \in [Op -> Call]
  /\ late \subseteq Request
  /\ suffered \subseteq Faults

Init ==
  /\ ServerInit
  /\ link = None
  /\ calls = [o \in Op |-> [pc |-> "new", inside |-> FALSE, expected |-> None,
                            handle |-> None, reply |-> None, answer |-> None]]
  /\ late = {}
  /\ suffered = {}

Fault(kind) ==
  /\ kind \in Faults \ suffered /\ Cardinality(suffered) < Budget
  /\ suffered' = suffered \cup {kind}

-----------------------------------------------------------------------------
(* Connecting.                                                             *)

\* Wrong variant: Release does not ask for private Recall.
ValidateAlone(caps) ==
  /\ caps # {} => "records" \in caps
  /\ caps \cap {"reservation", "transparent"} # {} => "recall" \in caps
  /\ "release" \in caps => {"views", "durable"} \subseteq caps

\* CurvineCapabilities::validate.
Validate(caps) ==
  /\ caps # {} => "records" \in caps
  /\ caps \cap {"reservation", "transparent"} # {} => "recall" \in caps
  /\ "release" \in caps => {"views", "recall", "durable"} \subseteq caps

Connect ==
  /\ link = None
  /\ Validate(offer)
  /\ link' = offer
  /\ UNCHANGED <<offer, states, outcome, pins, layouts, calls, late, suffered>>

-----------------------------------------------------------------------------
(* Sending.                                                                *)

\* What a method requires of the connection before it sends.
Required(method) ==
  CASE method \in {"completed", "inspect"} -> {"records"}
    [] method = "prepare_archive" -> {"views"}
    [] method = "commit_archive" -> {"records", "views"}
    [] method = "release" -> {"release"}
    [] OTHER -> {"recall"}

Sent(o) == [kind |-> calls[o].pc, op |-> o, expected |-> calls[o].expected,
            handle |-> calls[o].handle]

Deliver(o, reply) == calls' = [calls EXCEPT ![o].reply = reply]

\* The states that entities have had.
Recorded == {Imported(e) : e \in Entity} \cup ({outcome[p] : p \in Op} \ {None})

\* What may come in place of the reply: one to any request, of this operation or
\* another, about this entity or another, of this moment or an earlier one.
Misrouted ==
  {EntityReply(state) : state \in Recorded}
    \cup {CompletedReply(state) : state \in Recorded \cup {None}}
    \cup {[kind |-> "view", op |-> p] : p \in {p \in Op : Action[p] = "Archive" /\ Prepared(p)}}
    \cup {[kind |-> "recall", op |-> p] : p \in {p \in Op : Action[p] = "Recall" /\ Prepared(p)}}

(***************************************************************************)
(* exchange: the server takes the request and its reply comes back, or it  *)
(* does not; the request may also be lost before it arrives, or arrive     *)
(* when nobody waits for it any more.                                      *)
(***************************************************************************)
Exchange(o) ==
  /\ link # None /\ calls[o].pc \in Waiting /\ calls[o].reply = None
  /\ Required(calls[o].pc) \subseteq link
  /\ \/ /\ Apply(Sent(o))
        /\ \/ Deliver(o, ReplyTo(Sent(o))) /\ UNCHANGED suffered
           \/ \E kind \in {"lost", "garbled", "version"} :
                Fault(kind) /\ Deliver(o, [kind |-> kind])
           \/ Fault("code") /\ Deliver(o, ErrorReply("new"))
           \/ Fault("misroute") /\ \E reply \in Misrouted : Deliver(o, reply)
        /\ UNCHANGED late
     \/ /\ \/ Fault("lost") /\ Deliver(o, [kind |-> "lost"])
           \/ Fault("code") /\ Deliver(o, ErrorReply("new"))
           \/ Fault("refuse") /\ \E code \in Codes \ {"new"} : Deliver(o, ErrorReply(code))
        /\ UNCHANGED <<offer, states, outcome, pins, layouts, late>>
     \/ /\ Fault("late")
        /\ Deliver(o, [kind |-> "lost"])
        /\ late' = late \cup {Sent(o)}
        /\ UNCHANGED <<offer, states, outcome, pins, layouts>>
  /\ UNCHANGED link

\* A late request arrives; its reply is dropped.
Arrive(q) ==
  /\ q \in late
  /\ late' = late \ {q}
  /\ Apply(q)
  /\ UNCHANGED <<link, calls, suffered>>

-----------------------------------------------------------------------------
(* Errors.                                                                 *)

\* Wrong variant: an unknown code is taken for a refusal.
RemoteErrorRefuses(code) == IF code = "busy" THEN "Busy" ELSE "Definite"

\* remote_error: "Unknown failure codes remain uncertain."
RemoteError(code) ==
  CASE code = "busy" -> "Busy"
    [] code = "new" -> "Unknown"
    [] OTHER -> "Definite"

\* The error that a reply is, whatever was asked: NativeControl::exchange does
\* not know of the reply, exchange cannot decode it, or it is an error reply.
ErrorOf(reply) ==
  CASE reply.kind = "lost" -> "Unknown"
    [] reply.kind = "version" -> "Unsupported"
    [] reply.kind = "garbled" -> "Integrity"
    [] reply.kind = "error" -> RemoteError(reply.code)
    [] OTHER -> "None"

\* Wrong variant: an operation whose outcome is unknown has failed.
RetriedBusy(error) == error = "Busy"

\* run_intent tries again what it reports as Retry, and fails the rest.
Retried(error) == error \in {"Unknown", "Busy"}

\* run_intent ends, or is to begin again.
Return(o, pc, answer) ==
  calls' = [calls EXCEPT ![o] = [pc |-> pc, inside |-> FALSE, expected |-> calls[o].expected,
                                 handle |-> None, reply |-> None, answer |-> answer]]

Raise(o, error) == Return(o, IF Retried(error) THEN "completed" ELSE "Failed", None)

Answer(o, state) == Return(o, "Done", state)

Proceed(o, method) == calls' = [calls EXCEPT ![o].pc = method, ![o].reply = None]

\* A reply of the wrong kind, or one that fails a check, is an Integrity error.
Judge(o, method, accepted, next) ==
  /\ calls[o].pc = method /\ calls[o].reply # None
  /\ LET error == ErrorOf(calls[o].reply)
     IN IF error # "None" THEN Raise(o, error)
        ELSE IF accepted THEN next ELSE Raise(o, "Integrity")
  /\ UNCHANGED <<offer, states, outcome, pins, layouts, link, late, suffered>>

\* A method that the connection does not support sends nothing.
Unsupported(o) ==
  /\ link # None /\ calls[o].pc \in Waiting /\ calls[o].reply = None
  /\ ~(Required(calls[o].pc) \subseteq link)
  /\ Raise(o, "Unsupported")
  /\ UNCHANGED <<offer, states, outcome, pins, layouts, link, late, suffered>>

-----------------------------------------------------------------------------
(* The methods, when their reply has come.                                 *)

\* validate_state.
ValidState(state) ==
  /\ \A anchor \in state.anchors : anchor.entity = state.entity
  /\ state.residency = "Online" <=> state.anchors = {}

\* The reply is a state, of this entity.
Shows(o, kind) ==
  LET reply == calls[o].reply
  IN /\ reply.kind = kind
     /\ reply.state # None
     /\ reply.state.entity = Target[o]
     /\ ValidState(reply.state)

HasKey(o, state) == \E anchor \in state.anchors : anchor.key = KeyOf[o]

MatchesAction(o, state) ==
  IF Action[o] = "Release" THEN state.residency = "Offline"
  ELSE state.residency = "Dual" /\ HasKey(o, state)

StoredOutcome(o) == Shows(o, "completed") /\ MatchesAction(o, calls[o].reply.state)

\* What the engine's method asks next, when the operation has no outcome.
FirstMethod(o) ==
  CASE Action[o] = "Archive" -> "prepare_archive"
    [] Action[o] = "Release" -> "inspect"
    [] OTHER -> "prepare_recall"

\* Asked by run_intent, and asked again by the engine's method.
Completed(o) ==
  LET reply == calls[o].reply
      absent == reply.kind = "completed" /\ reply.state = None
  IN Judge(o, "completed", absent \/ StoredOutcome(o),
           IF absent THEN Proceed(o, IF calls[o].inside THEN FirstMethod(o) ELSE "inspect")
           ELSE Answer(o, reply.state))

\* run_intent calls the method of the engine.
Enter(o) == calls' = [calls EXCEPT ![o].pc = "completed", ![o].inside = TRUE, ![o].reply = None]

\* inspect.
Inspected(o) == Shows(o, "entity")

\* run_intent: the state must be the one the task was admitted with.
Inspect(o) ==
  /\ ~calls[o].inside
  /\ Judge(o, "inspect", Inspected(o),
           IF calls[o].reply.state = calls[o].expected THEN Enter(o)
           ELSE Return(o, "Superseded", None))

\* HsmEngine::release: it still must.  ("release observation is stale".)
InspectAgain(o) ==
  /\ calls[o].inside
  /\ Judge(o, "inspect", Inspected(o),
           IF calls[o].reply.state = calls[o].expected THEN Proceed(o, "release")
           ELSE Raise(o, "Conflict"))

\* The view or layout of the reply is what the commit will name.
Hold(o, method) ==
  calls' = [calls EXCEPT ![o].pc = method, ![o].handle = calls[o].reply.op, ![o].reply = None]

\* What the engine then asks of the archive and the mover succeeds here.
PrepareArchive(o) ==
  LET reply == calls[o].reply
  IN Judge(o, "prepare_archive",
           reply.kind = "view" /\ Target[reply.op] = Target[o],
           Hold(o, "commit_archive"))

AnchorAttached(o) ==
  /\ Shows(o, "entity")
  /\ calls[o].reply.state.residency = "Dual"
  /\ ReceiptOf(o) \in calls[o].reply.state.anchors

CommitArchive(o) ==
  Judge(o, "commit_archive", AnchorAttached(o), Answer(o, calls[o].reply.state))

\* Wrong variant: a state of the entity acknowledges its Release.
AcknowledgedRelease(o) == Shows(o, "entity")

ReleasedAsExpected(o) ==
  LET state == calls[o].reply.state
  IN /\ Shows(o, "entity")
     /\ state.residency = "Offline"
     /\ state.anchors = calls[o].expected.anchors
     /\ state.revision >= calls[o].expected.revision

Release(o) ==
  Judge(o, "release", ReleasedAsExpected(o), Answer(o, calls[o].reply.state))

\* The anchor of a recall is one of the expected state.
PrepareRecall(o) ==
  LET reply == calls[o].reply
  IN Judge(o, "prepare_recall",
           /\ reply.kind = "recall"
           /\ Target[reply.op] = Target[o] /\ KeyOf[reply.op] = KeyOf[o],
           Hold(o, "commit_recall"))

CommitRecall(o) ==
  Judge(o, "commit_recall",
        /\ Shows(o, "entity")
        /\ calls[o].reply.state.residency = "Dual" /\ HasKey(o, calls[o].reply.state),
        Answer(o, calls[o].reply.state))

-----------------------------------------------------------------------------
(* Around the adapter.                                                     *)

\* The source admits an operation that fits the entity.
Admissible(o) ==
  LET state == states[Target[o]]
  IN CASE Action[o] = "Archive" -> state.residency # "Offline"
       [] Action[o] = "Release" -> state.residency = "Dual"
       [] OTHER -> state.residency = "Offline" /\ HasKey(o, state)

Admit(o) ==
  /\ calls[o].pc = "new"
  /\ Admissible(o)
  /\ calls' = [calls EXCEPT ![o].pc = "completed", ![o].expected = states[Target[o]]]
  /\ UNCHANGED <<offer, states, outcome, pins, layouts, link, late, suffered>>

\* The server is replaced by one that offers something else.
Reoffer ==
  /\ Fault("offer")
  /\ offer' \in Offers
  /\ UNCHANGED <<states, outcome, pins, layouts, link, calls, late>>

\* The process dies; its successor connects anew and looks for the outcome of
\* every operation that was under way.
Crash ==
  /\ link # None
  /\ Fault("crash")
  /\ link' = None
  /\ calls' = [o \in Op |-> IF calls[o].pc \in Waiting
                              THEN [calls[o] EXCEPT !.pc = "completed", !.inside = FALSE,
                                                    !.handle = None, !.reply = None]
                              ELSE calls[o]]
  /\ UNCHANGED <<offer, states, outcome, pins, layouts, late>>

Receive(o) ==
  \/ Completed(o) \/ Inspect(o) \/ InspectAgain(o)
  \/ PrepareArchive(o) \/ CommitArchive(o)
  \/ Release(o)
  \/ PrepareRecall(o) \/ CommitRecall(o)

CallStep(o) == Exchange(o) \/ Unsupported(o) \/ Receive(o)

Next ==
  \/ \E o \in Op : Admit(o) \/ CallStep(o)
  \/ \E q \in late : Arrive(q)
  \/ Connect \/ Reoffer \/ Crash

Spec == Init /\ [][Next]_vars

\* The runtime polls each call, and the process connects where it can.
FairSpec == Spec /\ WF_vars(Connect) /\ \A o \in Op : WF_vars(CallStep(o))

-----------------------------------------------------------------------------
(* Properties.                                                             *)

\* What the adapter's checks make sure of by themselves: the entity was released,
\* or archived under this key, by some operation and by the time of this state.
\* They do not tell a recall from the archive it goes back to.
Vouched(o, state) ==
  \E p \in Op :
    /\ Target[p] = Target[o] /\ outcome[p] # None
    /\ IF Action[o] = "Release" THEN Action[p] = "Release"
       ELSE Action[p] = "Archive" /\ KeyOf[p] = KeyOf[o]
    /\ state.entity = Target[o]
    /\ state.residency = outcome[p].residency
    /\ state.revision >= outcome[p].revision

\* An operation that is told it succeeded is told its own result, though replies
\* are lost, late, refused or unreadable, and servers are replaced.  Once a reply
\* to another question may have come instead, now or before, the state it is told
\* is one its entity has had, and the checks of the adapter have their meaning.
DoneIsReal ==
  \A o \in Op : calls[o].pc = "Done" =>
    \/ outcome[o] # None /\ calls[o].answer = outcome[o]
    \/ "misroute" \in suffered /\ Vouched(o, calls[o].answer)

\* The type invariant, and what an answer of success stands for.
AdapterInv == TypeOK /\ DoneIsReal

\* The faults of a network: requests and replies are lost, late or answered
\* with a code this client does not know, and the process dies.
OnlyNetwork == suffered \subseteq {"lost", "late", "code", "crash"}

\* A Release of which an earlier request may arrive between the two lookups of a
\* later attempt and the second inspection, which then is a Conflict.
MayOvertake(o) == Action[o] = "Release" /\ "late" \in suffered

\* Under faults of the network, an operation that was given up for an error has
\* no effect, then or later; the only exception is a Release whose own late
\* request makes the engine find its observation stale.  (lib.rs asks that errors
\* after sending "preserve uncertainty".  A reply of another version or one that
\* cannot be decoded is a definite error even so; OnlyNetwork leaves both out.)
DefiniteErrorIsFinal ==
  OnlyNetwork =>
    \A o \in Op : calls[o].pc = "Failed" => outcome[o] = None \/ MayOvertake(o)

\* A result that the source holds reaches the operation it belongs to, although
\* replies are lost and the process dies.
EffectIsLearnt ==
  \A o \in Op :
    outcome[o] # None ~> calls[o].pc = "Done" \/ ~(suffered \subseteq {"lost", "crash"})

\* What this client takes offline it can bring back: a recall is never refused
\* for want of a guarantee that the release did not ask for.
ReleasedComesBack ==
  \A o \in Op : Action[o] = "Recall" =>
    (calls[o].pc \in Waiting ~>
       states[Target[o]].residency = "Dual" \/ ~(suffered \subseteq {"lost", "crash"}))
=============================================================================
