--------------------------- MODULE ArchiveContract ---------------------------
(***************************************************************************)
(* What the ArchiveBackend trait (crates/hsm-core/src/managed.rs) promises *)
(* about receipts: a key is committed once and for ever, with the bytes    *)
(* its receipt states, and a receipt is shown to a caller only when it is  *)
(* the committed one.                                                      *)
(***************************************************************************)
CONSTANTS Key, Nothing

VARIABLES
  catalog,  \* key -> [receipt, bytes], or Nothing
  issued    \* the receipts shown to callers

archive == <<catalog, issued>>

Init ==
  /\ catalog = [k \in Key |-> Nothing]
  /\ issued = {}

\* One call may settle several publications whose outcome was uncertain.
Settle ==
  /\ \A k \in Key : catalog[k] # Nothing => catalog'[k] = catalog[k]
  /\ \A k \in Key : catalog'[k] # Nothing =>
       catalog'[k].bytes = catalog'[k].receipt.content

Show ==
  /\ issued \subseteq issued'
  /\ \A r \in issued' : catalog'[r.key] # Nothing /\ catalog'[r.key].receipt = r

Next == Settle /\ Show

Spec == Init /\ [][Next]_archive
=============================================================================
