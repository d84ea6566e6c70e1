--------------------------- MODULE MCCurvineAdapter ---------------------------
(***************************************************************************)
(* An instance of CurvineAdapter for TLC.                                   *)
(***************************************************************************)
EXTENDS CurvineAdapter, TLC

CONSTANTS file, other, k1, a, r, c

\* An archive, a release and a recall of one file.
MCAction == [o \in Op |-> CASE o = a -> "Archive" [] o = r -> "Release" [] o = c -> "Recall"]
MCTarget == [o \in Op |-> file]
MCKeyOf == [o \in Op |-> k1]

Native == {"records", "views", "release", "recall", "durable"}

\* A server that offers everything an HSM needs, one that has only records, one
\* that has none, and one whose Release cannot be undone.
MCOffers == {Native, {"records", "views"}, {}, {"records", "views", "durable", "release"}}
=============================================================================
