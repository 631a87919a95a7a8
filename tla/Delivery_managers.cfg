SPECIFICATION FairSpec
CONSTANTS
  N = 1
  Slots = 2
  m1 = m1
  m2 = m2
  Managers = {m1, m2}
  JobType = "scheduled-task"
  Twins <- NoTwins
  FaultKinds = {"lose", "kill", "crash", "delete"}
  MaxFaults = 1
INVARIANTS
  TypeOK
  BodyRunsAtMostOnce
  MissedNeverRuns
  MissedReportedOnce
PROPERTIES
  ClosedForever
  EveryOccurrenceCloses
