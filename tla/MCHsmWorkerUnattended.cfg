\* One reply is lost; nobody takes over.
CONSTANTS
  Intent = {1, 2}
  Kind <- MCKind
  Foreign = {}
  Restless = {}
  ClaimId = {c1, c2, c3}
  NoClaim = NoClaim
  MaxEpoch = 1
  Modes = {{"Background", "Recall"}}
  PageSize = 2
  MaxActions = 2
  ScanLimit = 2
  ScanBudget = 2
  Stuck = {}
  Faults = {"lost"}
  Budget = 1
SPECIFICATION UnattendedSpec
PROPERTIES UnknownIsRetried
