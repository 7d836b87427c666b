SPECIFICATION Spec
CONSTANTS
  v1 = v1  v2 = v2  x = x  y = y  b1 = b1  b2 = b2  b3 = b3  o1 = o1  o2 = o2
  Absent = Absent  Torn = Torn
  Actor = {"workflow", "person"}
  Crashers = {"workflow", "person"}
  Version = {v1, v2}
  Bundle = {b1, b2, b3}
  Domain = {x, y}
  DomainOf <- Three
  Shard = {o1, o2}
  CutUploads = FALSE
  KeepDir = FALSE
  MaxRuns = 3
  MaxFaults = 1
SYMMETRY Symmetry
INVARIANTS EveryCommitPassesTheGate
PROPERTIES MainNeverShrinks ImplementsPinnedSets
CHECK_DEADLOCK FALSE
