\* Two requests, two applications whose repository names are cut alike;
\* the chart of the shorter one was published before.
SPECIFICATION Spec
CONSTANTS
  None = None
  Requests = {q1, q2}
  Apps = {"orders", "ordersLong"}
  Suffixes = {a3f2}
  Earlier = {"orders"}
  Base <- MCBase
  MaxRuns = 2
  MaxRank = 1
  Life = 3
  Fallback = 2
SYMMETRY Symmetry
INVARIANTS
  TypeOK
  AwaitingIsTrue
  PublishedIsReal
  LockHolderMints
PROPERTIES
  HandedOutFresh
