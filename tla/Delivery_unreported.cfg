SPECIFICATION Spec
CONSTANTS
  N = 1
  Slots = 1
  m1 = m1
  m2 = m2
  Managers = {m1}
  JobType = "scheduled-task"
  Twins <- NoTwins
  FaultKinds = {"lose", "crash"}
  MaxFaults = 1
INVARIANTS
  MissedIsReported
