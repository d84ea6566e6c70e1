--------------------------- MODULE MCCurvineUploads ---------------------------
(***************************************************************************)
(* An instance of CurvineUploads for TLC: p and q attempt i and r attempts *)
(* j, another import of the same path.                                     *)
(***************************************************************************)
EXTENDS CurvineUploads, TLC

CONSTANTS file, i, j, p, q, r

MCPathOf == [o \in Op |-> file]
MCOpOf == [x \in Proc |-> IF x = r THEN j ELSE i]

\* Sources that change between attempts, in their content or their length.
MCInputs == [o \in Op |-> IF o = i THEN {<<"a", "b">>, <<"b", "b">>} ELSE {<<>>, <<"b">>}]
=============================================================================
