SPECIFICATION FairSpec
CONSTANTS
  PlanLength = 2
  MaxChains = 1
  Lanes = {l1}
  Answers = {"ok"}
  MaxLosses = 1
  MaxPauses = 0
  MaxQuestions = 0
CHECK_DEADLOCK FALSE
PROPERTIES
  CancelledPlanTerminates
