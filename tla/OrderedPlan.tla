----------------------------- MODULE OrderedPlan -----------------------------
(***************************************************************************)
(* What a frozen plan promises, with no lanes, wakes, edges or attempts:   *)
(* its steps are executed one at a time and in order, each one only after  *)
(* the one before it delivered; only the last may deliver in part; a step  *)
(* that fails, blocks or is given up ends the plan; a paused plan executes *)
(* nothing new; and it is complete only when every step delivered.         *)
(*                                                                         *)
(* One lane process that runs PlanSteps implements it (Promise there).     *)
(***************************************************************************)
EXTENDS Integers

CONSTANT PlanLength

Nobody == 0

VARIABLES
  delivered,  \* steps that delivered
  executing,  \* the step that may have effects, or Nobody
  broken,     \* whether a step ended without delivering
  mode        \* "open", "paused", "stopping", "complete" or "ended"

ovars == <<delivered, executing, broken, mode>>

TypeOK ==
  /\ delivered \in 0 .. PlanLength
  /\ executing \in 0 .. PlanLength
  /\ broken \in BOOLEAN
  /\ mode \in {"open", "paused", "stopping", "complete", "ended"}

Init == delivered = 0 /\ executing = Nobody /\ ~broken /\ mode = "open"

\* The next step in order, first try or retry.
Execute ==
  /\ mode = "open" /\ executing = Nobody /\ ~broken /\ delivered < PlanLength
  /\ executing' = delivered + 1
  /\ UNCHANGED <<delivered, broken, mode>>

\* A pause admits nothing, but what already executes may finish.
Deliver ==
  /\ executing # Nobody /\ mode \in {"open", "paused"}
  /\ delivered' = executing
  /\ executing' = Nobody
  /\ UNCHANGED <<broken, mode>>

\* An execution ends without delivering; the step may be tried again, or not.
Fall ==
  /\ executing # Nobody
  /\ executing' = Nobody
  /\ broken' \in BOOLEAN
  /\ UNCHANGED <<delivered, mode>>

\* A step that waits for its turn, a question or a retry is given up.
GiveUp ==
  /\ mode \in {"open", "paused"} /\ executing = Nobody /\ delivered < PlanLength
  /\ broken' = TRUE
  /\ UNCHANGED <<delivered, executing, mode>>

\* The owner pauses, resumes or stops; what was only admitted is recalled.
Command ==
  /\ \/ mode = "open" /\ mode' \in {"paused", "stopping"}
     \/ mode = "paused" /\ mode' \in {"open", "stopping"}
  /\ executing' \in {executing, Nobody}
  /\ broken' \in {broken, TRUE}
  /\ UNCHANGED delivered

\* The verdict, once, when nothing executes: complete only if all was delivered.
Close ==
  /\ executing = Nobody
  /\ \/ mode \in {"open", "paused"} /\ delivered = PlanLength /\ mode' = "complete"
     \/ mode \in {"open", "paused"} /\ broken /\ mode' = "ended"
     \/ mode = "stopping" /\ mode' = "ended"
  /\ UNCHANGED <<delivered, executing, broken>>

Next == Execute \/ Deliver \/ Fall \/ GiveUp \/ Command \/ Close

Spec == Init /\ [][Next]_ovars
=============================================================================
