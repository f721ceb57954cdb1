\* No fault at all, a second request with the same identity.
SPECIFICATION Spec
CONSTANTS
  Charts = {c1}
  Ids = {i1}
  Replicas = {r1}
  Slots = {s1}
  MaxCreates = 2
  MaxFaults = 0
  None = None
  Base = Base
PROPERTIES
  TerminalIsFinal
