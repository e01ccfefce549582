SPECIFICATION Spec
CONSTANTS
  PlanLength = 2
  MaxChains = 2
  Lanes = {l1, l2}
  Answers = {"ok", "failed", "blocked_approval"}
  MaxLosses = 1
  MaxPauses = 1
  MaxQuestions = 1
SYMMETRY LaneProcesses
CHECK_DEADLOCK FALSE
INVARIANTS
  TypeOK
  OrderedSteps
  ParentSettlesLast
PROPERTIES
  PauseFreezesPlan
