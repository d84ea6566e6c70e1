\* Operation IDs reused across actions, bad receipts and stale observations.
CONSTANTS
  Content = {Good, Bad}
  Good = Good
  Bad = Bad
  NoData = NoData
  MaxId = 4
  Op = {o1, o2, o3}
  o1 = o1
  o2 = o2
  o3 = o3
  Entity = {e1}
  e1 = e1
  Key = {k1}
  Receipt <- AnyReceipt
  AskedData <- CurrentData
  Uses <- ReuseUses
  Faults <- NoFaults
  NoLayout = NoLayout
  NoEntity = NoEntity
  NoStep = NoStep
  NoOutcome = NoOutcome
  NoKey = NoKey
  NoValue = NoValue
SPECIFICATION Spec
CHECK_DEADLOCK FALSE
INVARIANTS OneEffectPerOperation RevisionIdentifies
