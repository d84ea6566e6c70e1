--------------------------- MODULE ManagedContract ---------------------------
(***************************************************************************)
(* What the ManagedStorage trait (crates/hsm-core/src/managed.rs) promises *)
(* its callers, with no mechanism: each operation ID takes effect at most  *)
(* once, content keeps its identity through every move, bytes leave the    *)
(* source only while an anchor is bound, and a Recall brings back exactly  *)
(* the bytes of the selected content.                                      *)
(***************************************************************************)
CONSTANTS Op, Entity, Key, Content,
          NoContent,   \* no bytes are served, or the entity does not exist
          Unused       \* the operation has had no effect

VARIABLES
  identity,  \* the content an entity was created with
  bytes,     \* the bytes a reader of the entity is served
  anchored,  \* the archive keys bound to the entity
  effect     \* what each operation did

contract == <<identity, bytes, anchored, effect>>

Init ==
  /\ identity = [e \in Entity |-> NoContent]
  /\ bytes = [e \in Entity |-> NoContent]
  /\ anchored = [e \in Entity |-> {}]
  /\ effect = [op \in Op |-> Unused]

Create(e, c) ==
  /\ identity[e] = NoContent
  /\ identity' = [identity EXCEPT ![e] = c]
  /\ bytes' = [bytes EXCEPT ![e] = c]
  /\ UNCHANGED <<anchored, effect>>

\* Each operation has one effect, ever.
Effect(op, kind, e) ==
  /\ effect[op] = Unused
  /\ effect' = [effect EXCEPT ![op] = [kind |-> kind, entity |-> e]]

Archive(op, e, k) ==
  /\ bytes[e] # NoContent
  /\ Effect(op, "Archive", e)
  /\ anchored' = [anchored EXCEPT ![e] = @ \cup {k}]
  /\ UNCHANGED <<identity, bytes>>

Release(op, e) ==
  /\ bytes[e] # NoContent
  /\ anchored[e] # {}
  /\ Effect(op, "Release", e)
  /\ bytes' = [bytes EXCEPT ![e] = NoContent]
  /\ UNCHANGED <<identity, anchored>>

Recall(op, e) ==
  /\ identity[e] # NoContent
  /\ bytes[e] = NoContent
  /\ anchored[e] # {}
  /\ Effect(op, "Recall", e)
  /\ bytes' = [bytes EXCEPT ![e] = identity[e]]
  /\ UNCHANGED <<identity, anchored>>

Next ==
  \/ \E e \in Entity, c \in Content : Create(e, c)
  \/ \E op \in Op, e \in Entity :
       \/ \E k \in Key : Archive(op, e, k)
       \/ Release(op, e)
       \/ Recall(op, e)

Spec == Init /\ [][Next]_contract
=============================================================================
