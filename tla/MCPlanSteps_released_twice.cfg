SPECIFICATION Spec
CONSTANTS
  PlanLength = 2
  MaxChains = 1
  Lanes = {l1}
  Answers = {"ok", "blocked_external"}
  MaxLosses = 1
  MaxPauses = 1
  MaxQuestions = 1
CHECK_DEADLOCK FALSE
PROPERTIES
  ReleasedOnce
