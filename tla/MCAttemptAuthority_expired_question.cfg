SPECIFICATION FairSpec
CONSTANTS
  MaxDispatch = 2
  MaxLosses = 1
  MaxPauses = 0
  MaxQuestions = 1
  Workers = {w1}
  Lanes = {l1}
  Payloads = {"ok", "blocked_user"}
  RetryBackoff = FALSE
CHECK_DEADLOCK FALSE
PROPERTY ExpiredQuestionTerminates
