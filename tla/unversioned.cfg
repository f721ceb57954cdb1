\* One application, one repository; its build may have any tag.
SPECIFICATION Spec
CONSTANTS
  None = None
  Requests = {q1}
  Apps = {"orders"}
  Suffixes = {a3f2}
  Earlier = {}
  Base <- MCBase
  MaxRuns = 1
  MaxRank = 1
  Life = 3
  Fallback = 2
INVARIANT BuiltIsNotAwaited
