SPECIFICATION Spec
CONSTANTS
  None = None
  BxId = {1, 2}
  Url = {1, 2}
  Accepted = {1}
  max_rounds = 2
  max_components = 1
  MaxDeferred = 2
INVARIANTS FirstBindingWins RequestsAreBounded NothingIsSilent OutcomeOfLoadWasm
CHECK_DEADLOCK FALSE
