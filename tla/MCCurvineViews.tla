---------------------------- MODULE MCCurvineViews ----------------------------
(***************************************************************************)
(* An instance of CurvineViews for TLC: p and q are processes of one       *)
(* operation, r of another; p and r write to the same output.              *)
(***************************************************************************)
EXTENDS CurvineViews, TLC

CONSTANTS p, q, r, o1, o2, x, y

MCOpOf == [z \in Proc |-> IF z = r THEN o2 ELSE o1]
MCOutputOf == [z \in Proc |-> IF z = q THEN y ELSE x]

\* The file is written once more.
MCLengths == <<2, 1>>
=============================================================================
