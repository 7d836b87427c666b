SPECIFICATION ScopedSpec
CONSTANTS
  v1 = v1  v2 = v2
  Absent = Absent  Torn = Torn  None = None
  BxId = {1}
  Url = {1, 2}
  Accepted = {1, 2}
  Version = {v1}
  Flags <- Every
  MaxRuns = 2
  MaxFaults = 0
INVARIANTS LockAgrees
CHECK_DEADLOCK FALSE
