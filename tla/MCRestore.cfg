SPECIFICATION ScopedSpec
CONSTANTS
  v1 = v1  v2 = v2  c1 = c1  c2 = c2  n1 = n1  n2 = n2  u1 = u1  u2 = u2
  NoUrl = NoUrl  Absent = Absent  Torn = Torn
  Content = {c1, c2}
  Name = {n1, n2}
  Url = {u1, u2}
  Version = {v1, v2}
  MaxEntries = 2
  MaxRuns = 2
  MaxFaults = 1
  MaxPins = 2  MaxFiles = 2  MaxAssets = 2  MaxCalls = 2
SYMMETRY Symmetry
INVARIANTS DirIsTheLockedSet PayloadsHaveTheirNames CacheIsOfOneRelease CapturesAreInPlace NothingOfferedIsMissed
PROPERTIES VerifyBeforeMutate OnlyPinnedBytesAreWritten
CHECK_DEADLOCK FALSE
