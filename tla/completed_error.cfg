\* One failed save.
SPECIFICATION Spec
CONSTANTS
  Charts = {c1}
  Ids = {i1}
  Replicas = {r1}
  Slots = {s1}
  MaxCreates = 1
  MaxFaults = 1
  None = None
  Base = Base
INVARIANTS
  CompletedHasNoError
