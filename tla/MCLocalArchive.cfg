\* Two attempts compete for two keys under every fault.
CONSTANTS
  Content = {c1, c2}
  NoData = NoData
  MaxId = 3
  Op = {a1, a2}
  Key = {k1, k2}
  Data = {d1, d2}
  d1 = d1
  d2 = d2
  c1 = c1
  c2 = c2
  View <- MCView
  DiskFaults <- AllDiskFaults
  NoObject = NoObject
  NoAttempt = NoAttempt
SPECIFICATION Spec
INVARIANTS TypeOK CommittedIntact ReceiptsDurable PayloadsPrivate
PROPERTIES ImplementsContract
