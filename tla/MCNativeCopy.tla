---------------------------- MODULE MCNativeCopy ----------------------------
(***************************************************************************)
(* An instance of NativeCopy for TLC.                                      *)
(***************************************************************************)
EXTENDS NativeCopy, TLC
=============================================================================
