\* One application scaffolded twice: the chart of both repositories is one.
SPECIFICATION Spec
CONSTANTS
  None = None
  Requests = {q1}
  Apps = {"orders"}
  Suffixes = {a3f2, b71c}
  Earlier = {}
  Base <- MCBase
  MaxRuns = 2
  MaxRank = 1
  Life = 3
  Fallback = 2
INVARIANT VersionIsOwnBuild
