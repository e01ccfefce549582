SPECIFICATION Spec
CONSTANTS
  PlanLength = 2
  MaxChains = 2
  Lanes = {l1, l2}
  Answers = {"ok"}
  MaxLosses = 1
  MaxPauses = 0
  MaxQuestions = 0
CHECK_DEADLOCK FALSE
INVARIANTS
  MaterializedOnce
