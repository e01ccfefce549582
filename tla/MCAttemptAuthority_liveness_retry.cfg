SPECIFICATION FairSpec
CONSTANTS
  MaxDispatch = 3
  MaxLosses = 2
  MaxPauses = 1
  MaxQuestions = 0
  Workers = {w1}
  Lanes = {l1}
  Payloads = {"timed_out"}
  RetryBackoff = TRUE
CHECK_DEADLOCK FALSE
PROPERTIES
  StopTerminates
  PauseDrains
  UnpausedSettles
