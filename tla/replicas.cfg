\* Two replicas of one goroutine each, one request.
SPECIFICATION Spec
CONSTANTS
  Charts = {c1, c2}
  Ids = {i1}
  Replicas = {r1, r2}
  Slots = {s1}
  MaxCreates = 1
  MaxFaults = 1
  None = None
  Base = Base
INVARIANTS
  StoredIsResumable
  CompletedWasHealthy
  EffectsFirst
  HalfWayIsDriven
SYMMETRY Symmetry
