--------------------------- MODULE MCLocalArchive ---------------------------
(***************************************************************************)
(* An instance of LocalArchive for TLC: views of two contents compete for  *)
(* a key, attempts are repeated, transfers deliver right and wrong bytes.  *)
(***************************************************************************)
EXTENDS LocalArchive, TLC

CONSTANTS d1, d2, c1, c2

\* Two source generations with different bytes, each pinned once.
MCView == {[data |-> d1, content |-> c1], [data |-> d2, content |-> c2]}

AllDiskFaults == DiskFaultKind
=============================================================================
