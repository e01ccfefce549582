SPECIFICATION Spec
CONSTANTS
  MaxDispatch = 2
  MaxLosses = 1
  MaxPauses = 1
  MaxQuestions = 1
  Workers = {w1, w2}
  Lanes = {l1, l2}
  Payloads = {"ok", "failed", "timed_out", "invalid", "unknown_outcome", "blocked_user"}
  RetryBackoff = FALSE
SYMMETRY AlikeProcesses
CHECK_DEADLOCK FALSE
INVARIANTS
  TypeOK
  NeverSuperseded
  FrozenAnswerIsAccepted
  SingleExecution
  VerdictIsExplained
PROPERTIES
  ContractSpec
  PauseAdmitsNothing
