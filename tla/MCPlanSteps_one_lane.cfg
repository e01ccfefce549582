SPECIFICATION FairSpec
CONSTANTS
  PlanLength = 3
  MaxChains = 2
  Lanes = {l1}
  Answers = {"ok", "partial", "failed", "blocked_user", "blocked_approval"}
  MaxLosses = 2
  MaxPauses = 1
  MaxQuestions = 1
CHECK_DEADLOCK FALSE
INVARIANTS
  VerdictEarned
PROPERTIES
  PromiseSpec
  PlanSettles
