\* The presence pass on every body of a few statements and every small object literal.
SPECIFICATION Spec
CONSTANTS
  Name = {"x", "y"}
  MAX_DEPTH = 12
  MAX_PASSES = 6
  Dialects = {"branches", "loops", "cases", "tries", "copies", "aliases", "scopes", "objects"}
  MaxLeaves = 3
  MaxForms = 2
  Nested = FALSE
INVARIANTS AlwaysIsAlways ConditionalIsWitnessed GivenUpIsNotAlways
CHECK_DEADLOCK FALSE
