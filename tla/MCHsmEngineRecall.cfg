\* A recall call is repeated after one failed metadata update and a restart.
CONSTANTS
  Content = {bytes, Torn}
  Torn = Torn
  NoData = NoData
  MaxId = 7
  Op = {o1, o2, o3}
  o1 = o1
  o2 = o2
  o3 = o3
  Entity = {e1}
  e1 = e1
  Key = {k1}
  k1 = k1
  Task = {archiver, releaser, recaller}
  archiver = archiver
  archiver2 = archiver2
  releaser = releaser
  recaller = recaller
  Plan <- MCPlan
  GivesUp <- Never
  Faults <- ReopenFaults
  DiskFaults <- CrashOnly
  Budget = 1
  NoLayout = NoLayout
  NoEntity = NoEntity
  NoStep = NoStep
  NoOutcome = NoOutcome
  NoKey = NoKey
  NoValue = NoValue
  NoObject = NoObject
  NoAttempt = NoAttempt
SPECIFICATION FairSpec
CHECK_DEADLOCK FALSE
PROPERTIES RecallCompletes
