\* Two deployments of one application in one environment, one edit, one crash.
SPECIFICATION FairSpec
CONSTANTS
  None = None
  Ids = {"d1", "d2"}
  Request <- TwoCommits
  Seconds = {0}
  Project <- MCProject
  Edits <- Narrowed
  Source = "registry"
  Server = "in-cluster"
  MaxCrashes = 1
INVARIANTS
  TypeOK
  AppliedWasTarget
PROPERTIES
  TargetIsAllowed
  SyncedOrReplaced
CHECK_DEADLOCK FALSE
