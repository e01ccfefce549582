------------------------- MODULE MCAttemptAuthority -------------------------
(* Model-checking instances of AttemptAuthority.                           *)
EXTENDS AttemptAuthority, TLC

WorkerSlots == Permutations(Workers)
LaneProcesses == Permutations(Lanes)
AlikeProcesses == WorkerSlots \cup LaneProcesses
=============================================================================
