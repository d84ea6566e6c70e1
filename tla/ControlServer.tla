---------------------------- MODULE ControlServer ----------------------------
(***************************************************************************)
(* The Curvine server behind the control protocol: what the requests of    *)
(* crates/hsm-curvine/src/protocol.rs do to it and what it answers.  It is *)
(* not part of the repository; its rules are those the adapter relies on   *)
(* (crates/hsm-curvine/src/lib.rs), the contract of ManagedStorage.        *)
(***************************************************************************)
EXTENDS Naturals, FiniteSets

CONSTANTS
  Entity,
  Op,         \* operations, each with one action on one entity
  Action,     \* Op -> {"Archive", "Release", "Recall"}
  Target,     \* Op -> Entity
  Key,        \* archive keys
  KeyOf,      \* Op -> Key, of the Archive and Recall operations
  Offers,     \* the capabilities a server may advertise
  None        \* no state, no reply

ASSUME OpAssumption ==
  /\ Action \in [Op -> {"Archive", "Release", "Recall"}]
  /\ Target \in [Op -> Entity]
  /\ KeyOf \in [Op -> Key]

\* CurvineCapabilities.
Feature == {"records", "views", "release", "recall",
            "authority", "durable", "reservation", "transparent"}

ASSUME OfferAssumption == Offers \subseteq SUBSET Feature

VARIABLES
  offer,     \* what the server offers now
  states,    \* its record of each entity
  outcome,   \* the first successful result of each operation
  pins,      \* archives with an open view
  layouts    \* recalls with a private layout

server == <<offer, states, outcome, pins, layouts>>

\* Length and digest are those of the entity, which is immutable, so a receipt
\* is known by its key and its entity.
Receipt == [key : Key, entity : Entity]
ReceiptOf(o) == [key |-> KeyOf[o], entity |-> Target[o]]

State == [entity : Entity, revision : Nat,
          residency : {"Online", "Dual", "Offline"}, anchors : SUBSET Receipt]

\* No state is none: None of a lookup tells an absent state from a present one.
ASSUME NoStateAssumption == None \notin State

Imported(e) == [entity |-> e, revision |-> 1, residency |-> "Online", anchors |-> {}]

\* ControlRequest; the handle is the operation whose view or layout it names.
Request == [kind : {"completed", "inspect", "prepare_archive", "commit_archive",
                    "release", "prepare_recall", "commit_recall"},
            op : Op, expected : State, handle : Op \cup {None}]

\* ControlReply, and what takes its place when there is none to decode.
Codes == {"unsupported", "invalid", "conflict", "busy", "not_found",
          "fenced", "integrity", "new"}
Reply == [kind : {"entity", "completed"}, state : State \cup {None}]
           \cup [kind : {"view", "recall"}, op : Op]
           \cup [kind : {"error"}, code : Codes]
           \cup [kind : {"lost", "garbled", "version"}]

ServerTypeOK ==
  /\ offer \in Offers
  /\ states \in [Entity -> State]
  /\ outcome \in [Op -> State \cup {None}]
  /\ pins \subseteq Op
  /\ layouts \subseteq Op

ServerInit ==
  /\ offer \in Offers
  /\ states = [e \in Entity |-> Imported(e)]
  /\ outcome = [o \in Op |-> None]
  /\ pins = {}
  /\ layouts = {}

-----------------------------------------------------------------------------
(* What a request needs, when it takes effect, and its answer.             *)

Needs(kind) ==
  CASE kind \in {"completed", "inspect", "commit_archive"} -> {"records"}
    [] kind = "prepare_archive" -> {"views"}
    [] kind = "release" -> {"release"}
    [] OTHER -> {"recall"}

On(e, ops) == {o \in ops : Target[o] = e}

\* The step of the operation that this request would be, and is not yet.
Granted(q) ==
  LET e == Target[q.op]
  IN /\ Needs(q.kind) \subseteq offer
     /\ outcome[q.op] = None
     /\ CASE q.kind = "prepare_archive" ->
               q.op \notin pins /\ states[e].residency # "Offline" /\ On(e, layouts) = {}
          [] q.kind = "commit_archive" -> q.op \in pins /\ q.handle = q.op
          [] q.kind = "release" ->
               /\ states[e] = q.expected /\ states[e].residency = "Dual"
               /\ On(e, pins \cup layouts) = {}
          [] q.kind = "prepare_recall" ->
               /\ states[e] = q.expected /\ states[e].residency = "Offline"
               /\ On(e, layouts) = {}
          [] q.kind = "commit_recall" -> q.op \in layouts /\ q.handle = q.op
          [] OTHER -> FALSE

Moved(e, residency, anchors) ==
  [states[e] EXCEPT !.revision = @ + 1, !.residency = residency, !.anchors = anchors]

Result(q) ==
  LET e == Target[q.op]
  IN CASE q.kind = "commit_archive" -> Moved(e, "Dual", states[e].anchors \cup {ReceiptOf(q.op)})
       [] q.kind = "release" -> Moved(e, "Offline", states[e].anchors)
       [] q.kind = "commit_recall" -> Moved(e, "Dual", states[e].anchors)

Prepare(q) ==
  /\ q.kind \in {"prepare_archive", "prepare_recall"}
  /\ pins' = IF q.kind = "prepare_archive" THEN pins \cup {q.op} ELSE pins
  /\ layouts' = IF q.kind = "prepare_recall" THEN layouts \cup {q.op} ELSE layouts
  /\ UNCHANGED <<states, outcome>>

Commit(q) ==
  /\ q.kind \in {"commit_archive", "release", "commit_recall"}
  /\ states' = [states EXCEPT ![Target[q.op]] = Result(q)]
  /\ outcome' = [outcome EXCEPT ![q.op] = Result(q)]
  /\ pins' = pins \ {q.op}
  /\ layouts' = layouts \ {q.op}

\* Effects happen once, at most.
Apply(q) ==
  /\ \/ Granted(q) /\ (Prepare(q) \/ Commit(q))
     \/ ~Granted(q) /\ UNCHANGED <<states, outcome, pins, layouts>>
  /\ UNCHANGED offer

\* A repeated step is answered with its original result.
Prepared(o) == o \in pins \cup layouts \/ outcome[o] # None

EntityReply(state) == [kind |-> "entity", state |-> state]
CompletedReply(state) == [kind |-> "completed", state |-> state]
ErrorReply(code) == [kind |-> "error", code |-> code]

\* The error of a request that is not granted.
Refusal(q) ==
  LET e == Target[q.op]
  IN IF q.kind \in {"release", "prepare_recall"} /\ states[e] # q.expected THEN "conflict"
     ELSE IF q.kind \in {"commit_archive", "commit_recall"} THEN "conflict"
     ELSE "busy"

ReplyTo(q) ==
  IF ~(Needs(q.kind) \subseteq offer) THEN ErrorReply("unsupported")
  ELSE CASE q.kind = "completed" -> CompletedReply(outcome[q.op])
    [] q.kind = "inspect" -> EntityReply(states[Target[q.op]])
    [] q.kind = "prepare_archive" /\ (Granted(q) \/ Prepared(q.op)) ->
         [kind |-> "view", op |-> q.op]
    [] q.kind = "prepare_recall" /\ (Granted(q) \/ Prepared(q.op)) ->
         [kind |-> "recall", op |-> q.op]
    [] q.kind \in {"commit_archive", "release", "commit_recall"} /\ Granted(q) ->
         EntityReply(Result(q))
    [] q.kind \in {"commit_archive", "release", "commit_recall"} /\ outcome[q.op] # None ->
         EntityReply(outcome[q.op])
    [] OTHER -> ErrorReply(Refusal(q))
=============================================================================
