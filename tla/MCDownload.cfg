SPECIFICATION FairSaveSpec
CONSTANTS
  a = a  b = b
  Failed = Failed  None = None
  Urls <- MCUrls
  MaxWorkers = 3
  Body = {a, b}
  x = x  long = long
  Segment <- MCSegment
  TooLong = {long}
  Extension = {"js", "bin"}
  Carried = {"js"}
INVARIANTS TypeOK EveryUrlOnce OutcomeIsSequential EveryBundleHasItsFile
PROPERTIES EndsIfAnswered SlowUrlHoldsUpNoOther
CHECK_DEADLOCK FALSE
