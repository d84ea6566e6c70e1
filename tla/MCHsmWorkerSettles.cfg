\* An archive, a recall and a recall that is Busy for ever, with one action a
\* round more than that one takes; the scan may examine one record a cycle; one
\* fault that leaves work behind; the background lane may hang.
CONSTANTS
  Intent = {1, 2, 4}
  Kind <- MCKind
  Foreign = {}
  Restless = {}
  ClaimId = {c1, c2, c3, c4}
  NoClaim = NoClaim
  MaxEpoch = 2
  Modes = {{"Background", "Recall"}}
  PageSize = 1
  MaxActions = 2
  ScanLimit = 1
  ScanBudget = 1
  Stuck = {1}
  Faults = {"lost", "late", "crash"}
  Budget = 1
SPECIFICATION RecallFairSpec
PROPERTIES RecallsSettle EveryTaskSettles EveryFileIsAdmitted
