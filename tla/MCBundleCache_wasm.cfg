SPECIFICATION BoundedSpec
CONSTANTS
  p1 = p1  p2 = p2  v1 = v1  v2 = v2  j1 = j1  j2 = j2  w1 = w1
  a = a  b = b  x1 = x1
  Absent = Absent  Torn = Torn  Tmp = Tmp
  Proc = {p1, p2}
  Version = {v1, v2}
  JsUrl = {j1, j2}
  WasmUrl = {w1}
  Bytes = {a, b}
  BxId = {x1}
  MaxCalls = 3
  MaxFaults = 2
INVARIANTS CommittedWasmIsWholeInTurn
SYMMETRY Symmetry
CHECK_DEADLOCK FALSE
