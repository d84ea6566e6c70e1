\* One life cycle under every fault.
CONSTANTS
  Content = {Good, Bad}
  Good = Good
  Bad = Bad
  NoData = NoData
  MaxId = 4
  Op = {o1, o2, o3}
  o1 = o1
  o2 = o2
  o3 = o3
  Entity = {e1}
  e1 = e1
  Key = {k1}
  Receipt <- GoodReceipt
  AskedData <- CurrentData
  Uses <- CycleUses
  Faults <- AllFaults
  NoLayout = NoLayout
  NoEntity = NoEntity
  NoStep = NoStep
  NoOutcome = NoOutcome
  NoKey = NoKey
  NoValue = NoValue
SPECIFICATION Spec
INVARIANTS StorageInv PublishedIntact Coherent AnswersDurable
PROPERTIES SealedImmutable ImplementsContract
