SPECIFICATION Spec
CHECK_DEADLOCK FALSE
CONSTANTS
  a1 = a1
  a2 = a2
  s1 = s1
  s2 = s2
  s3 = s3
  s4 = s4
  c1 = c1
  c2 = c2
  noServer = noServer
  MaxDeployments = 3
  MaxCancels = 0
  MaxForced = 0
  Apps = {a1, a2}
  PullRequests = {0}
  Servers = {s1, s2, s3, s4}
  Commits = {c1, c2}
  NoServer = noServer
  Requests <- ServerRequests
  Primary <- EachOnItsOwn
  BuildServers <- SharedBuildServers
  ConcurrentBuilds <- OneBuild
  QueueLimit <- OneQueued
  AutoCancel <- WebhooksReplaceBuilds
INVARIANTS OneRegularPerTarget DuplicateOnlyOnRequest QueueWithinLimit SlotsWithinLimit
