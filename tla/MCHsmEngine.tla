----------------------------- MODULE MCHsmEngine -----------------------------
(***************************************************************************)
(* Instances of HsmEngine for TLC.                                         *)
(***************************************************************************)
EXTENDS HsmEngine_proofs, TLC

CONSTANTS e1, k1, o1, o2, o3, archiver, archiver2, releaser, recaller

Call(op, kind) == [op |-> op, kind |-> kind, entity |-> e1, key |-> k1]

Plans ==
  (archiver :> Call(o1, "Archive") @@ releaser :> Call(o2, "Release")
     @@ recaller :> Call(o3, "Recall") @@ archiver2 :> Call(o1, "Archive"))

MCPlan == [t \in Task |-> Plans[t]]

ErrorClass == {"Unknown", "Io", "Busy", "Conflict", "NotFound", "Fenced", "Integrity"}

\* run_intent: every class but the retryable ones is final.
FinalErrors == ErrorClass \ Retryable
Never == {}

StorageFaults == {"persist", "seal", "crash", "power"}
ReopenFaults == {"persist", "crash"}
CrashOnly == {"crash"}
AllDiskFaults == {"prepare", "seal", "publish", "crash", "power"}
=============================================================================
