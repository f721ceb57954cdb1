\* The second deployment of an application, no crash.
SPECIFICATION Spec
CONSTANTS
  None = None
  Ids = {"d1", "d2"}
  Request <- TwoCommits
  Seconds = {0}
  Project <- MCProject
  Edits = {}
  Source = "registry"
  Server = "in-cluster"
  MaxCrashes = 0
INVARIANTS
  CompletedWasSynced
CHECK_DEADLOCK FALSE
