--------------------------- MODULE MCLocalStorage ---------------------------
(***************************************************************************)
(* Instances of LocalStorage for TLC.                                      *)
(***************************************************************************)
EXTENDS LocalStorage_proofs, TLC

CONSTANTS Good, Bad,   \* the bytes of the entities, and other bytes
          o1, o2, o3, e1

AllFaults == FaultKind

\* One entity, the generation import gives it.
CurrentData == [entity: Entity, generation: {1}]

\* The receipts an honest backend issues for the right bytes.
GoodReceipt ==
  [key: Key, data: CurrentData, content: {Good}, receipt_id: {1}, wellformed: {TRUE}]

\* One operation for each action of a life cycle.
CycleUses ==
  {<<o1, "prepare_archive">>, <<o1, "commit_archive">>, <<o2, "release">>,
   <<o3, "prepare_recall">>, <<o3, "commit_recall">>}

\* Receipts for other bytes, and a second receipt of a key.
AnyReceipt ==
  GoodReceipt \cup
  [key: Key, data: CurrentData, content: {Bad}, receipt_id: {1}, wellformed: {TRUE}] \cup
  [key: Key, data: CurrentData, content: {Good}, receipt_id: {2}, wellformed: {TRUE}]

\* Operation IDs tried for several actions, two archives and two releases.
ReuseUses ==
  {<<o1, "prepare_archive">>, <<o1, "commit_archive">>, <<o1, "release">>,
   <<o2, "prepare_archive">>, <<o2, "commit_archive">>, <<o2, "release">>,
   <<o2, "prepare_recall">>, <<o2, "commit_recall">>}

NoFaults == {}
=============================================================================
