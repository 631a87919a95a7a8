SPECIFICATION FairRestartSpec
CHECK_DEADLOCK FALSE
CONSTANTS
  a1 = a1
  a2 = a2
  s1 = s1
  s2 = s2
  s3 = s3
  s4 = s4
  c1 = c1
  c2 = c2
  noServer = noServer
  MaxDeployments = 2
  MaxCancels = 1
  MaxForced = 0
  MaxCrashes = 2
  Apps = {a1, a2}
  PullRequests = {0}
  Servers = {s1, s2}
  Commits = {c1, c2}
  NoServer = noServer
  Requests <- AdditionalServerRequests
  Primary <- OnS1
  BuildServers <- NoBuildServers
  ConcurrentBuilds <- OneBuild
  QueueLimit <- TwoQueued
  AutoCancel <- WebhooksReplaceBuilds
INVARIANTS SupersededNeverDeploys
PROPERTIES RevivedOnlyFromQueue EndsUnlessNeverDispatched
