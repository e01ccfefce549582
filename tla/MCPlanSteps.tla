----------------------------- MODULE MCPlanSteps -----------------------------
(* Model-checking instances of PlanSteps.                                  *)
EXTENDS PlanSteps, TLC

LaneProcesses == Permutations(Lanes)
=============================================================================
