\* One fault of any kind, at any step.
CONSTANTS
  Intent = {1, 2, 3}
  Kind <- MCKind
  Foreign = {}
  Restless = {2}
  ClaimId = {c1, c2, c3, c4}
  NoClaim = NoClaim
  MaxEpoch = 2
  Modes = {{"Background", "Recall"}, {"Once"}}
  PageSize = 2
  MaxActions = 2
  ScanLimit = 1
  ScanBudget = 1
  Stuck = {}
  Faults = {"lost", "fatal", "late", "crash", "takeover", "rival", "misroute"}
  Budget = 1
SPECIFICATION Spec
INVARIANTS WorkerInv QualifiedReportsCount LanesApart ClaimsAreHeld
PROPERTIES FencedDecidesNothing
