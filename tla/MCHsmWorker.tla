----------------------------- MODULE MCHsmWorker -----------------------------
(***************************************************************************)
(* Instances of HsmWorker for TLC.                                         *)
(***************************************************************************)
EXTENDS HsmWorker_proofs, TLC

MCKind == [i \in Intent |-> CASE i % 3 = 1 -> "Recall" [] i % 3 = 2 -> "Archive" [] OTHER -> "Release"]
=============================================================================
