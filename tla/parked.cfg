\* One crash at the wrong moment, redeploys for ever after.
SPECIFICATION FairSpec
CONSTANTS
  Charts = {c1}
  Ids = {i1}
  Replicas = {r1}
  Slots = {s1}
  MaxCreates = 1
  MaxFaults = 1
  None = None
  Base = Base
PROPERTIES
  RedriveSettles
