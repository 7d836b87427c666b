\* The same with an if/else, every arm of which writes, under another if.
SPECIFICATION Spec
CONSTANTS
  Name = {"x", "y"}
  MAX_DEPTH = 12
  MAX_PASSES = 6
  Dialects = {"branches"}
  MaxLeaves = 3
  MaxForms = 2
  Nested = TRUE
INVARIANT AlwaysIsAlways
CHECK_DEADLOCK FALSE
