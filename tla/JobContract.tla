---------------------------- MODULE JobContract ----------------------------
(***************************************************************************)
(* What the owner of a flat job is promised, with no stores, leases, lanes *)
(* or reconcilers: the job's work is executed by one attempt at a time and *)
(* never again by an attempt that ended; at most one answer is ever        *)
(* accepted; nothing is admitted or accepted while a stop is pending; and  *)
(* the one verdict is given when nothing executes.                         *)
(*                                                                         *)
(* AttemptAuthority implements it (its refinement mapping is Contract).    *)
(***************************************************************************)
EXTENDS Integers

CONSTANTS
  Tries,    \* numbers of the attempts
  Answers   \* producer answers that end the work

Nobody == 0
Silent == "none"

VARIABLES
  executing,  \* the attempt that may have effects, or Nobody
  ended,      \* attempts that may never have effects again
  answer,     \* the accepted answer
  verdict     \* "open", "stopping", "decided" (by the work) or "stopped"

cvars == <<executing, ended, answer, verdict>>

TypeOK ==
  /\ executing \in Tries \cup {Nobody}
  /\ ended \subseteq Tries
  /\ answer \in Answers \cup {Silent}
  /\ verdict \in {"open", "stopping", "decided", "stopped"}

Init == executing = Nobody /\ ended = {} /\ answer = Silent /\ verdict = "open"

\* A fresh attempt is admitted when nothing executes and nothing was answered.
Admit(a) ==
  /\ verdict = "open" /\ executing = Nobody /\ answer = Silent
  /\ a \notin ended
  /\ executing' = a
  /\ UNCHANGED <<ended, answer, verdict>>

\* The executing attempt ends: lost, recalled, asking, or failed without answer.
End ==
  /\ executing # Nobody
  /\ executing' = Nobody
  /\ ended' = ended \cup {executing}
  /\ UNCHANGED <<answer, verdict>>

\* The executing attempt delivers, and ends with it.
Accept(p) ==
  /\ verdict = "open" /\ executing # Nobody /\ answer = Silent
  /\ executing' = Nobody
  /\ ended' = ended \cup {executing}
  /\ answer' = p
  /\ UNCHANGED verdict

\* The owner stops the job.  What was only admitted is recalled with it.
Stop ==
  /\ verdict = "open"
  /\ verdict' = "stopping"
  /\ \/ UNCHANGED <<executing, ended>>
     \/ executing # Nobody /\ executing' = Nobody /\ ended' = ended \cup {executing}
  /\ UNCHANGED answer

\* The job closes, once, when nothing executes.
Close ==
  /\ executing = Nobody
  /\ \/ verdict = "open" /\ verdict' = "decided"
     \/ verdict = "stopping" /\ verdict' = "stopped"
  /\ UNCHANGED <<executing, ended, answer>>

Next ==
  \/ \E a \in Tries : Admit(a)
  \/ \E p \in Answers : Accept(p)
  \/ End \/ Stop \/ Close

Spec == Init /\ [][Next]_cvars
=============================================================================
