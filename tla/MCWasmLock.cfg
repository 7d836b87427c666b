SPECIFICATION ScopedSpec
CONSTANTS
  v1 = v1  v2 = v2
  Absent = Absent  Torn = Torn  None = None
  BxId = {1, 2}
  Url = {1, 2, 3}
  Accepted = {1, 2}
  Version = {v1, v2}
  Flags <- Every
  MaxRuns = 3
  MaxFaults = 1
INVARIANTS FullLockAgrees PinsAreOfOneRelease PublishableDir
PROPERTIES PinsFollowTheRun NothingIsForgotten
SYMMETRY Symmetry
CHECK_DEADLOCK FALSE
