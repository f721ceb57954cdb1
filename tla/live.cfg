\* One replica, two goroutines, two requests; no symmetry with liveness.
SPECIFICATION FairSpec
CONSTANTS
  Charts = {c1, c2}
  Ids = {i1}
  Replicas = {r1}
  Slots = {s1, s2}
  MaxCreates = 2
  MaxFaults = 2
  None = None
  Base = Base
INVARIANTS
  TypeOK
  OneDriver
  InflightIsDriven
  TargetIsRecorded
PROPERTIES
  OnlyRequestsReopen
  LifecycleKept
  DriveEnds
  SettlesUnlessParked
