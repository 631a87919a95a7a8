SPECIFICATION FairSpec
CHECK_DEADLOCK FALSE
CONSTANTS
  a1 = a1
  a2 = a2
  s1 = s1
  s2 = s2
  s3 = s3
  s4 = s4
  c1 = c1
  c2 = c2
  noServer = noServer
  MaxDeployments = 2
  MaxCancels = 1
  MaxForced = 1
  Apps = {a1, a2}
  PullRequests = {0}
  Servers = {s1, s2, s3, s4}
  Commits = {c1, c2}
  NoServer = noServer
  Requests <- MixedRequests
  Primary <- OnS1AndS3
  BuildServers <- BuilderOfAdditional
  ConcurrentBuilds <- OneBuild
  QueueLimit <- OneQueued
  AutoCancel <- WebhooksReplaceQueued
INVARIANTS TypeOK NoLeakedSlot ExclusiveChange
PROPERTIES StartedOnce ImplementsPromise EveryRunEnds OnlyOverlookedWaits
