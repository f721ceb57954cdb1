\* One commit for two environments, in one second.
SPECIFICATION Spec
CONSTANTS
  None = None
  Ids = {"d1", "d2"}
  Request <- TwoEnvironments
  Seconds = {0}
  Project <- MCProject
  Edits = {}
  Source = "registry"
  Server = "in-cluster"
  MaxCrashes = 0
INVARIANTS
  RunsItsOwn
CHECK_DEADLOCK FALSE
