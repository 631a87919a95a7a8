SPECIFICATION Spec
CONSTANTS
  N = 3
  Slots = 1
  m1 = m1
  m2 = m2
  Managers = {m1}
  JobType = "database-backup"
  Twins <- SecondIsTwin
  FaultKinds = {"lose", "kill"}
  MaxFaults = 1
INVARIANTS
  MissedIsReported
  OneRunAtATime
  TwinRunsOnce
PROPERTIES
  BackupGivenUpWithReason
  ImplementsDeliveryPromise
