------------------------- MODULE JobContract_proofs -------------------------
(***************************************************************************)
(* AttemptAuthority implements JobContract, and its verdict is explained   *)
(* by what happened, for every number of attempts, losses, pauses,         *)
(* questions, workers and lane processes.                                  *)
(*                                                                         *)
(* StepKinds reduces the store's thirty actions to eight kinds of step, by *)
(* what they do to attempts as the owner sees them (Class), the task's     *)
(* phase, the results and the job's verdict.  Both arguments, the second   *)
(* inductive invariant (History) and the refinement, go by these kinds.    *)
(***************************************************************************)
EXTENDS AttemptAuthority_proofs, FiniteSetTheorems

\* An attempt as the owner sees it.
Class(a) ==
  IF att[a].lifecycle \in {"ABSENT", "FINISHED"} THEN att[a].lifecycle ELSE "LIVE"
Stopping == job.control = "STOP_REQUESTED"

SameAttempt(b) == Class(b)' = Class(b) /\ att'[b].outcome = att[b].outcome
SameAttempts == \A b \in Attempts : SameAttempt(b)
SameVerdict == job'.outcome = job.outcome /\ Stopping' = Stopping

-----------------------------------------------------------------------------
(* The kinds of step.                                                       *)

Quiet ==
  /\ SameAttempts /\ result' = result /\ task'.phase = task.phase
  /\ SameVerdict /\ job'.pending = job.pending

Mints(a) ==
  /\ \A b \in Attempts : Class(b) = "ABSENT" <=> b >= a
  /\ Class(a)' = "LIVE" /\ att'[a].outcome = None
  /\ \A b \in Attempts \ {a} : SameAttempt(b)
  /\ result' = result
  /\ Open /\ ~Stopping /\ job' = job
  /\ task.phase \in {"READY", "RETRY_PENDING"} /\ task'.phase = "DISPATCHED"

\* a ends with the outcome o, and the job stays open.
Ends(a, o) ==
  /\ Class(a) = "LIVE" /\ Class(a)' = "FINISHED" /\ att'[a].outcome = o
  /\ \A b \in Attempts \ {a} : SameAttempt(b)
  /\ Open /\ SameVerdict

EndsUnanswered(a) ==
  /\ result' = result
  /\ \/ /\ Ends(a, "FAILED")
        /\ task.phase = "DISPATCHED" /\ task'.phase = "FAILED"
        /\ job'.pending = job.pending
     \/ /\ Ends(a, "WORKER_LOST")
        /\ task.phase = "DISPATCHED"
        /\ task'.phase = IF LossesAfter(a) >= MaxLosses THEN "FAILED" ELSE "RETRY_PENDING"
        /\ job'.pending = job.pending
     \/ /\ Ends(a, "UNKNOWN_OUTCOME")
        /\ task.phase = "RECONCILING" /\ task'.phase = "RECONCILING"
     \/ /\ Ends(a, "CANCELLED")
        /\ task.phase = "DISPATCHED" /\ task'.phase = "READY"
        /\ job'.pending = job.pending

Delivers(a, p) ==
  /\ Ends(a, AttemptOutcomeOf[p])
  /\ ~Stopping
  /\ task.phase = "DISPATCHED" /\ task'.phase = TaskPhaseOf[p]
  /\ result' = IF p = "invalid" THEN result ELSE [result EXCEPT ![a] = p]
  /\ job'.pending = job.pending

\* The task moves without an attempt: its question is answered or expires.
Turns ==
  /\ SameAttempts /\ result' = result
  /\ task.phase = "WAITING_INPUT" /\ task'.phase \in {"TIMED_OUT", "RETRY_PENDING"}
  /\ Open /\ SameVerdict /\ job'.pending = job.pending

Stops ==
  /\ Open /\ ~Stopping /\ Stopping' /\ job'.outcome = None
  /\ \A b \in Attempts :
       \/ SameAttempt(b)
       \/ /\ Class(b) = "LIVE" /\ Class(b)' = "FINISHED" /\ att'[b].outcome = "CANCELLED"
          /\ task.phase = "DISPATCHED"
  /\ result' = result
  /\ job'.pending = IF UnknownAttempts = {} THEN "CANCELLED" ELSE "UNKNOWN_OUTCOME"
  /\ IF TaskTerminal THEN task'.phase = task.phase
     ELSE IF UnknownAttempts # {} THEN task'.phase = "RECONCILING"
     ELSE task'.phase \in {"RECONCILING", "CANCELLED", task.phase}

ClosesByWork ==
  /\ Open /\ ~Stopping /\ ~Stopping' /\ TaskTerminal
  /\ \A b \in Attempts : ~Live(b)
  /\ SameAttempts /\ result' = result /\ task' = task
  /\ job'.outcome = OutcomeOfTask

ClosesStopped ==
  /\ Open /\ Stopping /\ Stopping'
  /\ \A b \in Attempts : ~Live(b)
  /\ SameAttempts /\ result' = result
  /\ job'.outcome = IF Uncertain THEN "UNKNOWN_OUTCOME" ELSE "CANCELLED"
  /\ task'.phase = IF TaskTerminal THEN task.phase
                   ELSE IF Uncertain THEN "UNKNOWN_OUTCOME" ELSE "CANCELLED"

AnyKind ==
  \/ Quiet \/ Turns \/ Stops \/ ClosesByWork \/ ClosesStopped
  \/ \E a \in Attempts : Mints(a) \/ EndsUnanswered(a) \/ \E p \in Payloads : Delivers(a, p)

-----------------------------------------------------------------------------
(* Attempts.                                                                *)

LEMMA ClassOfLive ==
  ASSUME TypeOK, NEW a \in Attempts
  PROVE  Live(a) <=> Class(a) = "LIVE"
  BY DEF TypeOK, AttemptDocs, Lifecycles, Live, LiveAttempt, Class

LEMMA SameIfUntouched == att' = att => SameAttempts
  BY DEF SameAttempts, SameAttempt, Class

\* A step that writes one attempt.
LEMMA OthersSame ==
  ASSUME TypeOK, NEW a \in Attempts, NEW row, att' = [att EXCEPT ![a] = row]
  PROVE  att'[a] = row /\ \A b \in Attempts \ {a} : SameAttempt(b)
  BY DEF TypeOK, SameAttempt, Class

\* A step that writes one attempt and neither ends it nor begins it.
LEMMA SameIfAlive ==
  ASSUME TypeOK, NEW a \in Attempts, NEW row, att' = [att EXCEPT ![a] = row],
         row.outcome = att[a].outcome,
         \/ row.lifecycle = att[a].lifecycle
         \/ {row.lifecycle, att[a].lifecycle} \subseteq LiveAttempt
  PROVE  SameAttempts
<1>1. att'[a] = row /\ \A b \in Attempts \ {a} : SameAttempt(b)
  BY OthersSame
<1>2. SameAttempt(a)
  BY <1>1 DEF SameAttempt, Class, LiveAttempt
<1> QED
  BY <1>1, <1>2 DEF SameAttempts

\* A step that finishes one attempt.
LEMMA EndsByFinish ==
  ASSUME Inductive, NEW a \in Attempts, Live(a), NEW o, NEW f,
         att' = [att EXCEPT ![a] = Finish(a, o, f)], SameVerdict
  PROVE  Ends(a, o)
<1>1. TypeOK /\ Authority
  BY DEF Inductive
<1>2. Open /\ Class(a) = "LIVE"
  BY <1>1, AloneWhenLive, ClassOfLive
<1>3. att'[a] = Finish(a, o, f) /\ \A b \in Attempts \ {a} : SameAttempt(b)
  BY <1>1, OthersSame
<1>4. att'[a].lifecycle = "FINISHED" /\ att'[a].outcome = o
  BY <1>1, <1>3, FinishEnds
<1> QED
  BY <1>2, <1>3, <1>4 DEF Ends, Class

-----------------------------------------------------------------------------
(* Every step is of one of the kinds.                                       *)

LEMMA QuietKind ==
  ASSUME Inductive,
         \/ \E l \in Lanes : LaneClaimsWake(l) \/ LaneReads(l) \/ LaneLosesDispatch(l)
                             \/ LaneCrashes(l)
         \/ \E w \in Workers : (\E p \in Payloads : WorkReturns(w, p)) \/ NoMarkerNeeded(w)
                               \/ Abandon(w)
         \/ GraceExpires \/ BackoffElapses \/ RequestDeadlinePasses \/ FireRetryTimer
         \/ ReWake \/ Resume \/ UNCHANGED vars
  PROVE  Quiet
<1>1. TypeOK
  BY DEF Inductive
<1>2. att' = att /\ result' = result
  BY DEF LaneClaimsWake, LaneReads, LaneLosesDispatch, LaneCrashes, WorkReturns,
     NoMarkerNeeded, Abandon, GraceExpires, BackoffElapses, RequestDeadlinePasses,
     FireRetryTimer, ReWake, Resume, vars
<1>3. task'.phase = task.phase
  BY <1>1 DEF LaneClaimsWake, LaneReads, LaneLosesDispatch, LaneCrashes, WorkReturns,
     NoMarkerNeeded, Abandon, GraceExpires, BackoffElapses, RequestDeadlinePasses,
     FireRetryTimer, ReWake, Resume, vars, TypeOK, TaskDocs
<1>4. SameVerdict /\ job'.pending = job.pending
  BY <1>1 DEF LaneClaimsWake, LaneReads, LaneLosesDispatch, LaneCrashes, WorkReturns,
     NoMarkerNeeded, Abandon, GraceExpires, BackoffElapses, RequestDeadlinePasses,
     FireRetryTimer, ReWake, Resume, vars, TypeOK, JobDocs, SameVerdict, Stopping
<1> QED
  BY <1>2, <1>3, <1>4, SameIfUntouched DEF Quiet

\* Claim, start, heartbeat, marker, lease and deadlines: the attempt lives on.
LEMMA LifeKind ==
  ASSUME Inductive, NEW a \in Attempts,
         \/ \E w \in Workers :
              \/ Claim(w, a)
              \/ held[w].att = a /\ (Start(w) \/ RenewLease(w) \/ MarkPayloadReady(w))
         \/ LeaseExpires(a) \/ DeadlinePasses(a)
  PROVE  Quiet
<1>1. TypeOK /\ att[a] \in AttemptDocs
  BY DEF Inductive, TypeOK
<1> DEFINE Lives ==
      /\ att' = [att EXCEPT ![a] = att'[a]] /\ att'[a].outcome = att[a].outcome
      /\ \/ att'[a].lifecycle = att[a].lifecycle
         \/ {att'[a].lifecycle, att[a].lifecycle} \subseteq LiveAttempt
<1>2. Lives
  <2>1. ASSUME NEW w \in Workers, Claim(w, a) PROVE Lives
    BY <1>1, <2>1 DEF Claim, TypeOK, AttemptDocs, LiveAttempt
  <2>2. ASSUME NEW w \in Workers, held[w].att = a, Start(w) PROVE Lives
    BY <1>1, <2>2 DEF Start, Owns, TypeOK, AttemptDocs, LiveAttempt
  <2>3. ASSUME NEW w \in Workers, held[w].att = a, RenewLease(w) \/ MarkPayloadReady(w)
        PROVE  Lives
    BY <1>1, <2>3 DEF RenewLease, MarkPayloadReady, TypeOK, AttemptDocs
  <2>4. CASE LeaseExpires(a) \/ DeadlinePasses(a)
    BY <1>1, <2>4 DEF LeaseExpires, DeadlinePasses, TypeOK, AttemptDocs
  <2> QED
    BY <2>1, <2>2, <2>3, <2>4
<1>3. SameAttempts
  BY <1>1, <1>2, SameIfAlive
<1>4. task'.phase = task.phase /\ result' = result
  BY <1>1 DEF Claim, Start, RenewLease, MarkPayloadReady, LeaseExpires, DeadlinePasses,
     TypeOK, TaskDocs
<1>5. SameVerdict /\ job'.pending = job.pending
  BY <1>1 DEF Claim, Start, RenewLease, MarkPayloadReady, LeaseExpires, DeadlinePasses,
     TypeOK, JobDocs, SameVerdict, Stopping
<1> QED
  BY <1>3, <1>4, <1>5 DEF Quiet

\* The next attempt number is that of the first absent attempt.
LEMMA NextIsFirstAbsent ==
  ASSUME MintedInOrder, NextAttempt \in Attempts
  PROVE  \A b \in Attempts : att[b].lifecycle = "ABSENT" <=> b >= NextAttempt
<1>1. PICK n \in 0 .. MaxDispatch : \A a \in Attempts : att[a].lifecycle # "ABSENT" <=> a <= n
  BY DEF MintedInOrder
<1>2. {a \in Attempts : att[a].lifecycle # "ABSENT"} = 1 .. n
  BY <1>1, BoundsAssumption DEF Attempts
<1>3. Cardinality(1 .. n) = n
  BY <1>1, BoundsAssumption, FS_Interval
<1>4. NextAttempt = n + 1
  BY <1>2, <1>3 DEF NextAttempt
<1> QED
  BY <1>1, <1>4 DEF Attempts

LEMMA MintKind ==
  ASSUME Inductive, MintedInOrder, NEW l \in Lanes, LaneDispatches(l)
  PROVE  \E n \in Attempts : Mints(n)
<1>1. TypeOK /\ NextAttempt \in Attempts /\ job' = job /\ result' = result
  BY DEF Inductive, LaneDispatches
<1>2. PICK n \in Attempts : n = NextAttempt
  BY <1>1
<1> DEFINE row == [AbsentAttempt EXCEPT !.lifecycle = "QUEUED", !.pauseGen = job.pauseGen,
                     !.jobStopGen = job.stopGen, !.taskStopGen = task.stopGen]
<1>3. att' = [att EXCEPT ![n] = row]
  BY <1>2 DEF LaneDispatches
<1>4. row.lifecycle = "QUEUED" /\ row.outcome = None
  BY DEF AbsentAttempt
<1>5. /\ Open /\ ~Stopping /\ task.phase \in {"READY", "RETRY_PENDING"}
      /\ task'.phase = "DISPATCHED"
  BY <1>1 DEF LaneDispatches, DispatchGranted, Stopping, TypeOK, TaskDocs
<1> HIDE DEF row
<1>6. att'[n] = row /\ \A b \in Attempts \ {n} : SameAttempt(b)
  BY <1>1, <1>3, OthersSame
<1>7. Class(n)' = "LIVE" /\ att'[n].outcome = None
  BY <1>4, <1>6 DEF Class
<1>8. \A b \in Attempts : Class(b) = "ABSENT" <=> b >= n
  BY <1>1, <1>2, NextIsFirstAbsent DEF Class
<1> QED
  BY <1>1, <1>5, <1>6, <1>7, <1>8 DEF Mints

LEMMA DeliverKind ==
  ASSUME Inductive, NEW w \in Workers, SubmitResult(w)
  PROVE  Delivers(held[w].att, held[w].payload)
         /\ held[w].att \in Attempts /\ held[w].payload \in Payloads
<1> DEFINE a == held[w].att
           p == held[w].payload
<1>1. /\ TypeOK /\ Authority /\ a \in Attempts /\ p \in Payloads
      /\ att[a].lifecycle = "RUNNING"
  BY DEF Inductive, SubmitResult, Owns, HeldMemory
<1>2. /\ att' = [att EXCEPT ![a] = Finish(a, AttemptOutcomeOf[p], att[a].fence)]
      /\ result' = IF p = "invalid" THEN result ELSE [result EXCEPT ![a] = p]
      /\ task' = [task EXCEPT !.phase = TaskPhaseOf[p], !.active = NoAttempt]
      /\ job' = job \/ job' = [job EXCEPT !.phase = JobPhaseOf[p]]
      /\ job.control \in {"NONE", "PAUSE_REQUESTED"} /\ task.phase = "DISPATCHED"
  BY DEF SubmitResult, JobTakesResult, TaskTakesResult, TaskGrants
<1> HIDE DEF a, p
<1>3. SameVerdict /\ job'.pending = job.pending /\ ~Stopping /\ task'.phase = TaskPhaseOf[p]
  BY <1>1, <1>2 DEF SameVerdict, Stopping, TypeOK, JobDocs, TaskDocs
<1>4. Live(a)
  BY <1>1 DEF Live, LiveAttempt
<1>5. Ends(a, AttemptOutcomeOf[p])
  BY <1>1, <1>2, <1>3, <1>4, EndsByFinish
<1>6. Delivers(a, p)
  BY <1>2, <1>3, <1>5 DEF Delivers
<1> QED
  BY <1>1, <1>6 DEF a, p

LEMMA ExpireKind ==
  ASSUME Inductive, NEW a \in Attempts, ExpireQueued(a)
  PROVE  EndsUnanswered(a)
<1>1. TypeOK /\ Authority /\ att[a].lifecycle = "QUEUED" /\ Live(a)
  BY DEF Inductive, ExpireQueued, Live, LiveAttempt
<1>2. /\ Open /\ ~TaskTerminal /\ task.phase = "DISPATCHED" /\ task.active = NoAttempt
      /\ JobGrants(a)
  BY <1>1, AloneWhenLive DEF Authority, PreStartUnderCurrentAuthority
<1>3. /\ task'.phase = "FAILED" /\ SameVerdict /\ job'.pending = job.pending
      /\ result' = result
  BY <1>1, <1>2 DEF ExpireQueued, JobGrants, Unbind, SameVerdict, Stopping, TypeOK, TaskDocs
<1>4. att' = [att EXCEPT ![a] = Finish(a, "FAILED", att[a].fence + 1)]
  BY DEF ExpireQueued
<1>5. Ends(a, "FAILED")
  BY <1>1, <1>3, <1>4, EndsByFinish
<1> QED
  BY <1>2, <1>3, <1>5 DEF EndsUnanswered

LEMMA LossKind ==
  ASSUME Inductive, NEW a \in Attempts, ReapLostWorker(a)
  PROVE  EndsUnanswered(a)
<1>1. TypeOK /\ Authority /\ att[a].lifecycle \in {"LEASED", "RUNNING"} /\ Live(a)
  BY DEF Inductive, ReapLostWorker, Reapable, Live, LiveAttempt
<1>2. /\ Open /\ ~TaskTerminal /\ task.phase = "DISPATCHED" /\ task.active = a
      /\ RetryAuthority(a)
  BY <1>1, AloneWhenLive DEF Authority, UnderOnePause
<1>3. task'.phase = IF LossesAfter(a) >= MaxLosses THEN "FAILED" ELSE "RETRY_PENDING"
  <2> DEFINE over == LossesAfter(a) >= MaxLosses
  <2> HIDE DEF over
  <2>1. \/ over /\ task' = Unbind("FAILED")
        \/ ~over /\ task' = [Unbind("RETRY_PENDING") EXCEPT !.backoff = "future"]
        \/ ~over /\ task' = Unbind("RETRY_PENDING")
    BY <1>2 DEF ReapLostWorker, over
  <2>2. task'.phase = IF over THEN "FAILED" ELSE "RETRY_PENDING"
    BY <1>1, <2>1 DEF Unbind, TypeOK, TaskDocs
  <2> QED
    BY <2>2 DEF over
<1>4. SameVerdict /\ job'.pending = job.pending /\ result' = result
  BY DEF ReapLostWorker, SameVerdict, Stopping
<1>5. att' = [att EXCEPT ![a] = Finish(a, "WORKER_LOST", att[a].fence + 1)]
  BY DEF ReapLostWorker
<1>6. Ends(a, "WORKER_LOST")
  BY <1>1, <1>4, <1>5, EndsByFinish
<1> QED
  BY <1>2, <1>3, <1>4, <1>6 DEF EndsUnanswered

LEMMA UnknownKind ==
  ASSUME Inductive, NEW a \in Attempts, ReapUnconfirmed(a) \/ FireStopGrace(a)
  PROVE  EndsUnanswered(a)
<1>1. TypeOK /\ Authority /\ att[a].lifecycle = "STOP_REQUESTED" /\ Live(a)
  BY DEF Inductive, ReapUnconfirmed, FireStopGrace, Live, LiveAttempt
<1>2. task.phase = "RECONCILING" /\ ~TaskTerminal /\ task.active = a
  BY <1>1, AloneWhenLive
<1>3. task' = Unbind("RECONCILING") \/ task' = task
  BY <1>2 DEF ReapUnconfirmed, FireStopGrace
<1>4. task'.phase = "RECONCILING" /\ result' = result
  BY <1>1, <1>2, <1>3 DEF ReapUnconfirmed, FireStopGrace, Unbind, TypeOK, TaskDocs
<1>5. SameVerdict
  BY <1>1 DEF ReapUnconfirmed, FireStopGrace, SameVerdict, Stopping, TypeOK, JobDocs
<1>6. att' = [att EXCEPT ![a] = Finish(a, "UNKNOWN_OUTCOME", att[a].fence + 1)]
  BY DEF ReapUnconfirmed, FireStopGrace
<1>7. Ends(a, "UNKNOWN_OUTCOME")
  BY <1>1, <1>5, <1>6, EndsByFinish
<1> QED
  BY <1>2, <1>4, <1>7 DEF EndsUnanswered

LEMMA TurnKind == ASSUME Inductive, ExpireRequest \/ Answer PROVE Turns
<1>1. TypeOK /\ att' = att /\ result' = result /\ task.phase = "WAITING_INPUT" /\ Open
  BY DEF Inductive, ExpireRequest, Answer
<1>2. task'.phase \in {"TIMED_OUT", "RETRY_PENDING"}
  BY <1>1 DEF ExpireRequest, Answer, TypeOK, TaskDocs
<1>3. SameVerdict /\ job'.pending = job.pending
  BY <1>1 DEF ExpireRequest, Answer, SameVerdict, Stopping, TypeOK, JobDocs
<1> QED
  BY <1>1, <1>2, <1>3, SameIfUntouched DEF Turns

LEMMA CloseKind ==
  ASSUME Inductive, NEW l \in Lanes, LaneAdvances(l)
  PROVE  Quiet \/ ClosesByWork
<1>1. TypeOK /\ Authority /\ UNCHANGED <<task, att, result>>
  BY DEF Inductive, LaneAdvances
<1>2. CASE job' = job
  BY <1>1, <1>2, SameIfUntouched DEF Quiet, SameVerdict, Stopping
<1>3. CASE /\ AdvanceGranted(l)
           /\ job' = [job EXCEPT !.phase = "TERMINAL", !.outcome = OutcomeOfTask,
                                 !.gen = @ + 1, !.stopGen = @ + 1]
  <2>1. /\ Open /\ TaskTerminal /\ ~Stopping /\ ~Stopping'
        /\ job'.outcome = OutcomeOfTask
    BY <1>1, <1>3 DEF AdvanceGranted, Stopping, TypeOK, JobDocs
  <2>2. \A b \in Attempts : ~Live(b)
    BY <1>1, <2>1, IdleByPhase DEF TaskTerminal, TerminalTaskPhases
  <2> QED
    BY <1>1, <2>1, <2>2, SameIfUntouched DEF ClosesByWork
<1> QED
  BY <1>2, <1>3 DEF LaneAdvances

LEMMA ReduceKind == ASSUME Inductive, ReduceFlatTerminal PROVE ClosesStopped
<1>1. TypeOK /\ UNCHANGED <<att, result>> /\ Open /\ Stopping
  BY DEF Inductive, ReduceFlatTerminal, Stopping
<1>2. \A b \in Attempts : ~Live(b)
  BY DEF ReduceFlatTerminal, Settled, Live, LiveAttempt
<1> DEFINE u == Uncertain
<1>3. job' = [job EXCEPT !.phase = "TERMINAL",
                         !.outcome = IF u THEN "UNKNOWN_OUTCOME" ELSE job.pending,
                         !.pending = None, !.grace = "none"]
  BY DEF ReduceFlatTerminal
<1>4. ~u => job.pending = "CANCELLED"
  BY <1>1 DEF ReduceFlatTerminal, Uncertain, TypeOK, JobDocs
<1>5. task' = IF TaskTerminal
              THEN [Unbind(task.phase) EXCEPT !.control = task.control]
              ELSE [Unbind(IF u THEN "UNKNOWN_OUTCOME" ELSE "CANCELLED")
                      EXCEPT !.control = "STOP_REQUESTED",
                             !.stopGen = IF task.control = "STOP_REQUESTED" THEN @ ELSE @ + 1]
  BY DEF ReduceFlatTerminal
<1> HIDE DEF u
<1>6. /\ job'.outcome = IF u THEN "UNKNOWN_OUTCOME" ELSE "CANCELLED"
      /\ Stopping'
  BY <1>1, <1>3, <1>4 DEF Stopping, TypeOK, JobDocs
<1>7. task'.phase = IF TaskTerminal THEN task.phase
                    ELSE IF u THEN "UNKNOWN_OUTCOME" ELSE "CANCELLED"
  BY <1>1, <1>5 DEF Unbind, TypeOK, TaskDocs
<1> QED
  BY <1>1, <1>2, <1>6, <1>7, SameIfUntouched DEF ClosesStopped, u

\* Of a pause, at most one admission is settled.
LEMMA PauseKind ==
  ASSUME Inductive, Pause
  PROVE  Quiet \/ \E a \in Attempts : EndsUnanswered(a)
<1>1. TypeOK /\ Authority /\ result' = result
  BY DEF Inductive, Pause
<1>2. SameVerdict /\ job'.pending = job.pending
  BY <1>1 DEF Pause, SameVerdict, Stopping, TypeOK, JobDocs
<1>3. \A b \in Attempts \ PreStart : SameAttempt(b)
  <2> SUFFICES ASSUME NEW b \in Attempts \ PreStart PROVE SameAttempt(b)
    OBVIOUS
  <2>1. att'[b] = att[b] \/ att'[b] = [att[b] EXCEPT !.finishCurrent = job.pauseGen + 1]
    BY DEF Pause
  <2>2. att[b] \in AttemptDocs
    BY <1>1 DEF TypeOK
  <2>3. att'[b].lifecycle = att[b].lifecycle /\ att'[b].outcome = att[b].outcome
    BY <2>1, <2>2 DEF AttemptDocs
  <2> QED
    BY <2>3 DEF SameAttempt, Class
<1>4. CASE PreStart = {}
  <2>1. task' = task
    BY <1>4 DEF Pause
  <2> QED
    BY <1>1, <1>2, <1>3, <1>4, <2>1 DEF Quiet, SameAttempts
<1>5. ASSUME NEW a \in PreStart PROVE EndsUnanswered(a)
  <2>1. a \in Attempts /\ att[a].lifecycle \in {"QUEUED", "LEASED"} /\ Live(a)
    BY <1>5 DEF PreStart, Live, LiveAttempt
  <2>2. /\ Open /\ task.phase = "DISPATCHED" /\ \A b \in Attempts \ {a} : ~Live(b)
        /\ Class(a) = "LIVE"
    BY <1>1, <2>1, AloneWhenLive, ClassOfLive
  <2>3. PreStart = {a}
    BY <1>5, <2>2 DEF PreStart, Live, LiveAttempt
  <2> DEFINE o == IF att[a].clock = "open" THEN "CANCELLED" ELSE "FAILED"
  <2>4. att'[a] = Finish(a, o, att[a].fence + 1)
    BY <1>5, <2>1 DEF Pause
  <2>5. task' = Unbind(IF att[a].clock = "open" THEN "READY" ELSE "FAILED")
    BY <2>3 DEF Pause
  <2>6. task'.phase = IF att[a].clock = "open" THEN "READY" ELSE "FAILED"
    BY <1>1, <2>5 DEF Unbind, TypeOK, TaskDocs
  <2>7. att'[a].lifecycle = "FINISHED" /\ att'[a].outcome = o
    BY <1>1, <2>1, <2>4, FinishEnds
  <2>8. \A b \in Attempts \ {a} : SameAttempt(b)
    BY <1>3, <2>3
  <2>9. Ends(a, o)
    BY <1>2, <2>2, <2>7, <2>8 DEF Ends, Class
  <2> QED
    BY <1>1, <1>2, <2>2, <2>6, <2>9 DEF EndsUnanswered
<1> QED
  BY <1>4, <1>5 DEF PreStart

LEMMA StopKind == ASSUME Inductive, Cancel PROVE Stops
<1>1. TypeOK /\ Authority /\ Open /\ ~Stopping /\ result' = result
  BY DEF Inductive, Cancel, Stopping
<1>2. /\ Stopping' /\ job'.outcome = None
      /\ job'.pending = IF UnknownAttempts = {} THEN "CANCELLED" ELSE "UNKNOWN_OUTCOME"
  <2> DEFINE pending == IF UnknownAttempts = {} THEN "CANCELLED" ELSE "UNKNOWN_OUTCOME"
             grace == GraceAfterStop
  <2>1. job' = [job EXCEPT !.control = "STOP_REQUESTED", !.phase = "RECONCILING",
                  !.pending = pending, !.stopGen = @ + 1, !.gen = @ + 1, !.grace = grace]
    BY DEF Cancel
  <2> HIDE DEF pending, grace
  <2>2. /\ job'.control = "STOP_REQUESTED" /\ job'.outcome = job.outcome
        /\ job'.pending = pending
    BY <1>1, <2>1 DEF TypeOK, JobDocs
  <2> QED
    BY <1>1, <2>2 DEF Stopping, Open, pending
<1>3. ASSUME NEW b \in Attempts
      PROVE  \/ SameAttempt(b)
             \/ /\ Class(b) = "LIVE" /\ Class(b)' = "FINISHED"
                /\ att'[b].outcome = "CANCELLED" /\ task.phase = "DISPATCHED"
  <2>1. att[b] \in AttemptDocs
    BY <1>1 DEF TypeOK
  <2>2. CASE att[b].lifecycle \in {"QUEUED", "LEASED"}
    <3>1. att'[b] = Finish(b, "CANCELLED", att[b].fence + 1)
      BY <2>2 DEF Cancel
    <3>2. task.phase = "DISPATCHED"
      BY <1>1, <2>2 DEF Authority, SingleExecution
    <3>3. att'[b].lifecycle = "FINISHED" /\ att'[b].outcome = "CANCELLED"
      BY <1>1, <3>1, FinishEnds
    <3> QED
      BY <2>2, <3>2, <3>3 DEF Class
  <2>3. CASE att[b].lifecycle = "RUNNING"
    <3>1. att'[b] = [att[b] EXCEPT !.lifecycle = "STOP_REQUESTED", !.stopGen = @ + 1,
                                   !.jobStopGenAtStop = job.stopGen + 1]
      BY <2>3 DEF Cancel
    <3>2. att'[b].lifecycle = "STOP_REQUESTED" /\ att'[b].outcome = att[b].outcome
      BY <2>1, <3>1 DEF AttemptDocs
    <3> QED
      BY <2>3, <3>2 DEF SameAttempt, Class
  <2>4. CASE att[b].lifecycle \notin {"QUEUED", "LEASED", "RUNNING"}
    <3>1. att'[b] = att[b]
      BY <2>4 DEF Cancel
    <3> QED
      BY <3>1 DEF SameAttempt, Class
  <2> QED
    BY <2>2, <2>3, <2>4
<1>4. IF TaskTerminal THEN task'.phase = task.phase
      ELSE IF UnknownAttempts # {} THEN task'.phase = "RECONCILING"
      ELSE task'.phase \in {"RECONCILING", "CANCELLED", task.phase}
  <2> DEFINE n == task.stopGen + 1
             unknown == UnknownAttempts # {}
  <2>1. \/ TaskTerminal /\ task' = task
        \/ ~TaskTerminal /\ unknown
             /\ task' = [Unbind("RECONCILING") EXCEPT !.control = "STOP_REQUESTED",
                                                      !.stopGen = @ + 1]
        \/ ~TaskTerminal /\ ~unknown /\ task' = Unbind("CANCELLED")
        \/ ~TaskTerminal /\ ~unknown
             /\ task' = [Unbind("RECONCILING") EXCEPT !.active = task.active,
                           !.control = "STOP_REQUESTED", !.stopGen = @ + 1]
        \/ ~TaskTerminal /\ ~unknown /\ task' = task
    BY DEF Cancel
  <2> HIDE DEF unknown
  <2>2. /\ TaskTerminal => task'.phase = task.phase
        /\ ~TaskTerminal /\ unknown => task'.phase = "RECONCILING"
        /\ ~TaskTerminal /\ ~unknown => task'.phase \in {"RECONCILING", "CANCELLED", task.phase}
    BY <1>1, <2>1 DEF Unbind, TypeOK, TaskDocs
  <2> QED
    BY <2>2 DEF unknown
<1> QED
  BY <1>1, <1>2, <1>3, <1>4 DEF Stops

\* Whatever the store, its lanes, workers, reconciler or owner do, it is one of these.
LEMMA StepKinds == ASSUME Inductive, MintedInOrder, [Next]_vars PROVE AnyKind
<1>1. ASSUME NEW l \in Lanes,
             LaneClaimsWake(l) \/ LaneReads(l) \/ LaneAdvances(l) \/ LaneDispatches(l)
               \/ LaneLosesDispatch(l) \/ LaneCrashes(l)
      PROVE  AnyKind
  <2>1. CASE LaneDispatches(l)
    BY <2>1, MintKind DEF AnyKind
  <2>2. CASE LaneAdvances(l)
    BY <2>2, CloseKind DEF AnyKind
  <2> QED
    BY <1>1, <2>1, <2>2, QuietKind DEF AnyKind
<1>2. ASSUME NEW w \in Workers,
             \/ \E a \in Attempts : Claim(w, a)
             \/ Start(w) \/ (\E p \in Payloads : WorkReturns(w, p))
             \/ RenewLease(w) \/ MarkPayloadReady(w) \/ NoMarkerNeeded(w)
             \/ SubmitResult(w) \/ Abandon(w)
      PROVE  AnyKind
  <2>1. CASE \E a \in Attempts : Claim(w, a)
    BY <2>1, LifeKind DEF AnyKind
  <2>2. CASE Start(w) \/ RenewLease(w) \/ MarkPayloadReady(w)
    <3>1. held[w].att \in Attempts
      BY <2>2 DEF Start, RenewLease, MarkPayloadReady, MarkerGranted, Owns
    <3> QED
      BY <2>2, <3>1, LifeKind DEF AnyKind
  <2>3. CASE SubmitResult(w)
    BY <2>3, DeliverKind DEF AnyKind
  <2>4. CASE (\E p \in Payloads : WorkReturns(w, p)) \/ NoMarkerNeeded(w) \/ Abandon(w)
    BY <2>4, QuietKind DEF AnyKind
  <2> QED
    BY <1>2, <2>1, <2>2, <2>3, <2>4
<1>3. ASSUME NEW a \in Attempts,
             \/ LeaseExpires(a) \/ DeadlinePasses(a) \/ ExpireQueued(a)
             \/ ReapLostWorker(a) \/ ReapUnconfirmed(a) \/ FireStopGrace(a)
      PROVE  AnyKind
  BY <1>3, LifeKind, ExpireKind, LossKind, UnknownKind DEF AnyKind
<1>4. CASE \/ GraceExpires \/ BackoffElapses \/ RequestDeadlinePasses \/ FireRetryTimer
           \/ ReWake \/ Resume \/ UNCHANGED vars
  BY <1>4, QuietKind DEF AnyKind
<1>5. CASE ExpireRequest \/ Answer \/ ReduceFlatTerminal \/ Pause \/ Cancel
  BY <1>5, TurnKind, ReduceKind, PauseKind, StopKind DEF AnyKind
<1> QED
  BY <1>1, <1>2, <1>3, <1>4, <1>5 DEF Next

-----------------------------------------------------------------------------
(* What the documents remember.                                             *)

LEMMA LostIsFinite ==
  ASSUME NEW L, L \subseteq Attempts
  PROVE  IsFiniteSet(L) /\ Cardinality(L) \in Nat
<1>1. IsFiniteSet(Attempts)
  BY BoundsAssumption, FS_Interval DEF Attempts
<1> QED
  BY <1>1, FS_Subset, FS_CardinalityType

\* Attempts that stay as they are keep their numbers and their fates.
LEMMA FatesKept ==
  ASSUME SameAttempts
  PROVE  /\ MintedInOrder => MintedInOrder'
         /\ UnknownAttempts' = UnknownAttempts /\ Lost' = Lost
         /\ (\E a \in Attempts : att[a].outcome = "FAILED") =>
              \E a \in Attempts : att'[a].outcome = "FAILED"
<1>1. \A a \in Attempts : att'[a].lifecycle = "ABSENT" <=> att[a].lifecycle = "ABSENT"
  BY DEF SameAttempts, SameAttempt, Class
<1>2. MintedInOrder => MintedInOrder'
  BY <1>1 DEF MintedInOrder
<1> QED
  BY <1>2 DEF SameAttempts, SameAttempt, UnknownAttempts, Lost

LEMMA AnswersKept ==
  ASSUME result' = result
  PROVE  /\ BusinessAnswers' = BusinessAnswers
         /\ \A a \in Attempts : result'[a] = result[a]
  BY DEF BusinessAnswers

\* What an end leaves of the others' fates.
LEMMA FatesAfterEnd ==
  ASSUME NEW a \in Attempts, NEW o, Ends(a, o)
  PROVE  /\ MintedInOrder => MintedInOrder'
         /\ UnknownAttempts' = IF o = "UNKNOWN_OUTCOME" THEN UnknownAttempts \cup {a}
                               ELSE UnknownAttempts \ {a}
         /\ Lost' = IF o = "WORKER_LOST" THEN Lost \cup {a} ELSE Lost \ {a}
         /\ VerdictIsExplained'
<1>1. \A b \in Attempts : att'[b].lifecycle = "ABSENT" <=> att[b].lifecycle = "ABSENT"
  BY DEF Ends, SameAttempt, Class
<1>2. MintedInOrder => MintedInOrder'
  BY <1>1 DEF MintedInOrder
<1>3. VerdictIsExplained'
  BY DEF Ends, Open, SameVerdict, VerdictIsExplained
<1> QED
  BY <1>2, <1>3 DEF Ends, SameAttempt, UnknownAttempts, Lost

\* Before the last loss a task in work has budget left.
LEMMA BudgetLeft ==
  ASSUME LossesAreCounted, task.phase # "FAILED"
  PROVE  /\ Cardinality(Lost) < MaxLosses
         /\ Lost' \subseteq Lost => Cardinality(Lost') < MaxLosses
<1>1. IsFiniteSet(Lost) /\ Cardinality(Lost) \in Nat
  BY LostIsFinite DEF Lost
<1>2. Cardinality(Lost) < MaxLosses
  BY <1>1, BoundsAssumption DEF LossesAreCounted
<1>3. Lost' \subseteq Lost => Cardinality(Lost') \in Nat /\ Cardinality(Lost') <= Cardinality(Lost)
  BY <1>1, FS_Subset, FS_CardinalityType
<1> QED
  BY <1>1, <1>2, <1>3, BoundsAssumption

LEMMA HistoryInit == Init => History
<1> SUFFICES ASSUME Init PROVE History
  OBVIOUS
<1>1. \A a \in Attempts : att[a] = AbsentAttempt /\ result[a] = None
  BY DEF Init
<1>2. MintedInOrder
  <2>1. \A a \in Attempts : att[a].lifecycle # "ABSENT" <=> a <= 0
    BY <1>1, BoundsAssumption DEF AbsentAttempt, Attempts
  <2> QED
    BY <2>1, BoundsAssumption DEF MintedInOrder
<1>3. UnknownAttempts = {} /\ Lost = {} /\ BusinessAnswers = {}
  BY <1>1 DEF UnknownAttempts, Lost, BusinessAnswers, AbsentAttempt, None
<1>4. task.phase = "READY" /\ Open /\ job.pending = None
  BY DEF Init, Open
<1>5. AnswersEndWork /\ UnknownIsKept /\ VerdictIsExplained
  BY <1>1, <1>3, <1>4 DEF AnswersEndWork, UnknownIsKept, VerdictIsExplained, None
<1>6. LossesAreCounted
  BY <1>3, <1>4, FS_EmptySet, BoundsAssumption DEF LossesAreCounted
<1> QED
  BY <1>2, <1>5, <1>6 DEF History

\* A step that changes no attempt's fate and no answer.
LEMMA HistoryKept ==
  ASSUME History, SameAttempts, result' = result, job'.pending = job.pending,
         \/ task'.phase = task.phase /\ SameVerdict
         \/ Turns
  PROVE  History'
<1>1. /\ MintedInOrder' /\ UnknownAttempts' = UnknownAttempts /\ Lost' = Lost
      /\ BusinessAnswers' = BusinessAnswers
      /\ \A a \in Attempts : result'[a] = result[a]
  BY FatesKept, AnswersKept DEF History
<1>2. Open' <=> Open
  BY DEF Turns, SameVerdict, Open
<1>3. AnswersEndWork'
  BY <1>1 DEF History, AnswersEndWork, Turns, TaskTerminal, TerminalTaskPhases
<1>4. UnknownIsKept'
  BY <1>1, <1>2 DEF History, UnknownIsKept, Turns
<1>5. LossesAreCounted'
  BY <1>1, FatesKept DEF History, LossesAreCounted, Turns
<1>6. VerdictIsExplained'
  BY <1>1, <1>2, FatesKept DEF History, VerdictIsExplained, Turns, SameVerdict
<1> QED
  BY <1>1, <1>3, <1>4, <1>5, <1>6 DEF History

LEMMA HistoryMint ==
  ASSUME History, NEW a \in Attempts, Mints(a)
  PROVE  History'
<1>1. MintedInOrder'
  <2>1. \A b \in Attempts : att[b].lifecycle = "ABSENT" <=> b >= a
    BY DEF Mints, Class
  <2>2. \A b \in Attempts \ {a} : att'[b].lifecycle = "ABSENT" <=> att[b].lifecycle = "ABSENT"
    BY DEF Mints, SameAttempt, Class
  <2>3. att'[a].lifecycle # "ABSENT"
    BY DEF Mints, Class
  <2>4. \A b \in Attempts : att'[b].lifecycle # "ABSENT" <=> b <= a
    BY <2>1, <2>2, <2>3, BoundsAssumption DEF Attempts
  <2> QED
    BY <2>4, BoundsAssumption DEF MintedInOrder, Attempts
<1>2. UnknownAttempts = {}
  BY DEF History, UnknownIsKept, Mints
<1>3. UnknownAttempts' = {} /\ Lost' \subseteq Lost
  BY <1>2 DEF Mints, SameAttempt, UnknownAttempts, Lost, None
<1>4. BusinessAnswers' = BusinessAnswers /\ \A b \in Attempts : result'[b] = result[b]
  BY AnswersKept DEF Mints
<1>5. Open' /\ task'.phase = "DISPATCHED" /\ job' = job
  BY DEF Mints, Open
<1>6. AnswersEndWork'
  BY <1>4, <1>5 DEF History, AnswersEndWork, Mints, TaskTerminal, TerminalTaskPhases
<1>7. UnknownIsKept' /\ VerdictIsExplained'
  BY <1>2, <1>3, <1>5 DEF History, UnknownIsKept, VerdictIsExplained, Mints
<1>8. LossesAreCounted'
  <2>1. task.phase # "FAILED"
    BY DEF Mints
  <2>2. Cardinality(Lost') < MaxLosses /\ Cardinality(Lost') \in Nat
    BY <1>3, <2>1, BudgetLeft, LostIsFinite DEF History, Lost
  <2> QED
    BY <1>5, <2>2, BoundsAssumption DEF LossesAreCounted
<1> QED
  BY <1>1, <1>6, <1>7, <1>8 DEF History

LEMMA HistoryEnd ==
  ASSUME History, NEW a \in Attempts, EndsUnanswered(a)
  PROVE  History'
<1>1. BusinessAnswers' = BusinessAnswers /\ \A b \in Attempts : result'[b] = result[b]
  BY AnswersKept DEF EndsUnanswered
<1>2. /\ task.phase \in {"DISPATCHED", "RECONCILING"}
      /\ task'.phase \in {"FAILED", "RETRY_PENDING", "RECONCILING", "READY"}
  BY DEF EndsUnanswered
<1>3. AnswersEndWork'
  BY <1>1, <1>2 DEF History, AnswersEndWork, TaskTerminal, TerminalTaskPhases
<1>4. PICK o \in {"FAILED", "WORKER_LOST", "UNKNOWN_OUTCOME", "CANCELLED"} : Ends(a, o)
  BY DEF EndsUnanswered
<1>5. MintedInOrder' /\ VerdictIsExplained'
  BY <1>4, FatesAfterEnd DEF History
<1>6. Open /\ Open' /\ att'[a].outcome = o
  BY <1>4 DEF Ends, Open, SameVerdict
<1>7. UnknownIsKept'
  <2>1. CASE o = "UNKNOWN_OUTCOME"
    <3>1. a \in UnknownAttempts' /\ task'.phase = "RECONCILING"
      BY <1>6, <2>1 DEF UnknownAttempts, EndsUnanswered, Ends
    <3> QED
      BY <3>1 DEF UnknownIsKept
  <2>2. CASE o # "UNKNOWN_OUTCOME"
    <3>1. task.phase = "DISPATCHED" /\ job'.pending = job.pending
          /\ task'.phase # "UNKNOWN_OUTCOME"
      BY <1>2, <1>6, <2>2 DEF EndsUnanswered, Ends
    <3>2. UnknownAttempts = {} /\ job.pending # "UNKNOWN_OUTCOME"
      BY <1>6, <3>1 DEF History, UnknownIsKept
    <3>3. UnknownAttempts' = {}
      BY <1>4, <2>2, <3>2, FatesAfterEnd
    <3> QED
      BY <3>1, <3>2, <3>3 DEF UnknownIsKept
  <2> QED
    BY <2>1, <2>2
<1>8. LossesAreCounted'
  <2>1. IsFiniteSet(Lost) /\ Cardinality(Lost) \in Nat /\ Cardinality(Lost) < MaxLosses
    BY <1>2, BudgetLeft, LostIsFinite DEF History, Lost
  <2>2. CASE o = "WORKER_LOST"
    <3>1. Lost' = Lost \cup {a}
      BY <1>4, <2>2, FatesAfterEnd
    <3>2. Cardinality(Lost') \in Nat /\ Cardinality(Lost') <= MaxLosses
      BY <2>1, <3>1, FS_AddElement, BoundsAssumption
    <3>3. LossesAfter(a) = Cardinality(Lost')
      BY <3>1 DEF LossesAfter, Lost
    <3>4. task'.phase = IF LossesAfter(a) >= MaxLosses THEN "FAILED" ELSE "RETRY_PENDING"
      BY <1>6, <2>2 DEF EndsUnanswered, Ends
    <3> QED
      BY <3>2, <3>3, <3>4, BoundsAssumption DEF LossesAreCounted
  <2>3. CASE o # "WORKER_LOST"
    <3>1. Lost' \subseteq Lost
      BY <1>4, <2>3, FatesAfterEnd
    <3>2. Cardinality(Lost') < MaxLosses /\ Cardinality(Lost') \in Nat
      BY <1>2, <3>1, BudgetLeft, LostIsFinite DEF History, Lost
    <3>3. task'.phase = "FAILED" => att'[a].outcome = "FAILED"
      BY <1>6, <2>3 DEF EndsUnanswered, Ends
    <3> QED
      BY <3>2, <3>3, BoundsAssumption DEF LossesAreCounted
  <2> QED
    BY <2>2, <2>3
<1> QED
  BY <1>3, <1>5, <1>7, <1>8 DEF History

LEMMA HistoryDelivery ==
  ASSUME TypeOK, History, NEW a \in Attempts, NEW p \in Payloads, Delivers(a, p)
  PROVE  History'
<1> DEFINE o == AttemptOutcomeOf[p]
<1>1. /\ task.phase = "DISPATCHED" /\ task'.phase = TaskPhaseOf[p]
      /\ job'.pending = job.pending /\ Ends(a, o)
      /\ result' = IF p = "invalid" THEN result ELSE [result EXCEPT ![a] = p]
  BY DEF Delivers
<1>2. p \in AllPayloads
  BY PayloadsAssumption
<1>3. /\ o = "UNKNOWN_OUTCOME" <=> p = "unknown_outcome"
      /\ o = "FAILED" <=> TaskPhaseOf[p] = "FAILED"
      /\ o # "WORKER_LOST"
      /\ TaskPhaseOf[p] = "UNKNOWN_OUTCOME" <=> p = "unknown_outcome"
      /\ TaskPhaseOf[p] = "SUCCEEDED" <=> p = "ok"
      /\ Blocked(p) \/ TaskPhaseOf[p] \in TerminalTaskPhases
  BY <1>2 DEF AllPayloads, AttemptOutcomeOf, TaskPhaseOf, Blocked, TerminalTaskPhases
<1> HIDE DEF o
<1>4. MintedInOrder' /\ VerdictIsExplained'
  BY <1>1, FatesAfterEnd DEF History
<1>5. BusinessAnswers = {} /\ UnknownAttempts = {} /\ Open /\ job.pending # "UNKNOWN_OUTCOME"
  BY <1>1 DEF History, AnswersEndWork, UnknownIsKept, TaskTerminal, TerminalTaskPhases, Ends
<1>6. Open' /\ att'[a].outcome = o
  BY <1>1 DEF Ends, Open, SameVerdict
<1>7. /\ \A b \in Attempts \ {a} : result'[b] = result[b]
      /\ result'[a] = IF p = "invalid" THEN result[a] ELSE p
  BY <1>1 DEF TypeOK
<1>8. BusinessAnswers' \subseteq {a}
  BY <1>5, <1>7 DEF BusinessAnswers
<1>9. a \in BusinessAnswers' <=> p # "invalid" /\ ~Blocked(p)
  BY <1>2, <1>5, <1>7 DEF BusinessAnswers, AllPayloads, None
<1>10. AnswersEndWork'
  BY <1>1, <1>3, <1>7, <1>8, <1>9 DEF History, AnswersEndWork, TaskTerminal, Blocked
<1>11. UnknownIsKept'
  <2>1. UnknownAttempts' = IF p = "unknown_outcome" THEN {a} ELSE {}
    BY <1>1, <1>3, <1>5, FatesAfterEnd
  <2> QED
    BY <1>1, <1>3, <1>5, <2>1 DEF UnknownIsKept
<1>12. LossesAreCounted'
  <2>1. Lost' \subseteq Lost
    BY <1>1, <1>3, FatesAfterEnd
  <2>2. Cardinality(Lost') < MaxLosses /\ Cardinality(Lost') \in Nat
    BY <1>1, <2>1, BudgetLeft, LostIsFinite DEF History, Lost
  <2> QED
    BY <1>1, <1>3, <1>6, <2>2, BoundsAssumption DEF LossesAreCounted
<1> QED
  BY <1>4, <1>10, <1>11, <1>12 DEF History

LEMMA HistoryStop == ASSUME History, Stops PROVE History'
<1>1. /\ BusinessAnswers' = BusinessAnswers /\ \A b \in Attempts : result'[b] = result[b]
      /\ Open /\ Open'
  BY AnswersKept DEF Stops, Open
<1>2. \A b \in Attempts :
        \/ att'[b].outcome = att[b].outcome
        \/ att'[b].outcome = "CANCELLED" /\ task.phase = "DISPATCHED"
  BY DEF Stops, SameAttempt
<1>3. MintedInOrder'
  <2>1. \A b \in Attempts : att'[b].lifecycle = "ABSENT" <=> att[b].lifecycle = "ABSENT"
    BY DEF Stops, SameAttempt, Class
  <2> QED
    BY <2>1 DEF History, MintedInOrder
<1>4. UnknownAttempts' = UnknownAttempts
  <2>1. task.phase = "DISPATCHED" => UnknownAttempts = {}
    BY DEF History, UnknownIsKept
  <2> QED
    BY <1>2, <2>1 DEF UnknownAttempts
<1>5. TaskTerminal => task'.phase = task.phase
  BY DEF Stops
<1>6. ~TaskTerminal => /\ task'.phase \in {"RECONCILING", "CANCELLED", task.phase}
                       /\ UnknownAttempts # {} => task'.phase = "RECONCILING"
  BY DEF Stops
<1>7. AnswersEndWork'
  BY <1>1, <1>5, <1>6 DEF History, AnswersEndWork, TaskTerminal, TerminalTaskPhases
<1>8. UnknownIsKept'
  BY <1>1, <1>4, <1>5, <1>6 DEF History, UnknownIsKept, Stops, TaskTerminal, TerminalTaskPhases
<1>9. LossesAreCounted'
  <2>1. CASE task.phase = "FAILED"
    <3>1. \A b \in Attempts : att'[b].outcome = att[b].outcome
      BY <1>2, <2>1
    <3>2. Lost' = Lost /\ task'.phase = "FAILED"
      BY <1>5, <2>1, <3>1 DEF Lost, TaskTerminal, TerminalTaskPhases
    <3> QED
      BY <2>1, <3>1, <3>2 DEF History, LossesAreCounted
  <2>2. CASE task.phase # "FAILED"
    <3>1. Lost' \subseteq Lost
      BY <1>2 DEF Lost
    <3>2. Cardinality(Lost') < MaxLosses /\ Cardinality(Lost') \in Nat
      BY <2>2, <3>1, BudgetLeft, LostIsFinite DEF History, Lost
    <3>3. task'.phase # "FAILED"
      BY <1>5, <1>6, <2>2
    <3> QED
      BY <3>2, <3>3, BoundsAssumption DEF LossesAreCounted
  <2> QED
    BY <2>1, <2>2
<1>10. VerdictIsExplained'
  BY <1>1 DEF VerdictIsExplained
<1> QED
  BY <1>3, <1>7, <1>8, <1>9, <1>10 DEF History

LEMMA HistoryClose ==
  ASSUME Inductive, History, ClosesByWork \/ ClosesStopped
  PROVE  History'
<1>1. SameAttempts /\ result' = result /\ Open
  BY DEF ClosesByWork, ClosesStopped
<1>2. /\ MintedInOrder' /\ UnknownAttempts' = UnknownAttempts /\ Lost' = Lost
      /\ BusinessAnswers' = BusinessAnswers
      /\ \A a \in Attempts : result'[a] = result[a]
  BY <1>1, FatesKept, AnswersKept DEF History
<1>3. /\ TaskTerminal => task'.phase = task.phase
      /\ ~TaskTerminal => task'.phase \in {"UNKNOWN_OUTCOME", "CANCELLED"}
      /\ task'.phase = "UNKNOWN_OUTCOME" <=> UnknownAttempts # {}
      /\ job'.outcome = "UNKNOWN_OUTCOME" <=> UnknownAttempts # {}
      /\ job'.outcome = "COMPLETED" => task'.phase = "SUCCEEDED"
      /\ job'.outcome # None
  <2>1. CASE ClosesByWork
    <3>1. TaskTerminal /\ task'.phase = task.phase /\ job'.outcome = OutcomeOfTask
      BY <2>1 DEF ClosesByWork
    <3>2. task.phase = "UNKNOWN_OUTCOME" <=> UnknownAttempts # {}
      BY <1>1, <3>1 DEF History, UnknownIsKept, TaskTerminal, TerminalTaskPhases
    <3>3. task.phase # "SUPERSEDED"
      BY <1>1 DEF Inductive, Authority, NeverSuperseded
    <3>4. /\ OutcomeOfTask = "UNKNOWN_OUTCOME" <=> task.phase = "UNKNOWN_OUTCOME"
          /\ OutcomeOfTask = "COMPLETED" => task.phase = "SUCCEEDED"
          /\ OutcomeOfTask # None
      BY <3>1, <3>3 DEF OutcomeOfTask, TaskTerminal, TerminalTaskPhases, None
    <3> QED
      BY <3>1, <3>2, <3>4
  <2>2. CASE ClosesStopped
    <3>1. Uncertain <=> UnknownAttempts # {}
      BY <1>1 DEF History, UnknownIsKept, Uncertain, UnknownAttempts
    <3>2. TaskTerminal => (task.phase = "UNKNOWN_OUTCOME" <=> UnknownAttempts # {})
      BY <1>1 DEF History, UnknownIsKept, TaskTerminal, TerminalTaskPhases
    <3> QED
      BY <2>2, <3>1, <3>2 DEF ClosesStopped, None
  <2> QED
    BY <2>1, <2>2
<1>4. AnswersEndWork'
  BY <1>2, <1>3 DEF History, AnswersEndWork, TaskTerminal, TerminalTaskPhases
<1>5. UnknownIsKept'
  BY <1>2, <1>3 DEF UnknownIsKept, Open
<1>6. LossesAreCounted'
  BY <1>1, <1>2, <1>3, FatesKept
     DEF History, LossesAreCounted, TaskTerminal, TerminalTaskPhases
<1>7. VerdictIsExplained'
  BY <1>2, <1>3, <1>4, <1>6 DEF VerdictIsExplained, AnswersEndWork, LossesAreCounted
<1> QED
  BY <1>2, <1>4, <1>5, <1>6, <1>7 DEF History

LEMMA HistoryStep == Inductive /\ History /\ [Next]_vars => History'
<1> SUFFICES ASSUME Inductive, History, [Next]_vars PROVE History'
  OBVIOUS
<1>1. AnyKind
  BY StepKinds DEF History
<1>2. CASE Quiet \/ Turns
  BY <1>2, HistoryKept DEF Quiet, Turns
<1>3. CASE Stops
  BY <1>3, HistoryStop
<1>4. CASE ClosesByWork \/ ClosesStopped
  BY <1>4, HistoryClose
<1>5. ASSUME NEW a \in Attempts, Mints(a) \/ EndsUnanswered(a) PROVE History'
  BY <1>5, HistoryMint, HistoryEnd
<1>6. ASSUME NEW a \in Attempts, NEW p \in Payloads, Delivers(a, p) PROVE History'
  BY <1>6, HistoryDelivery DEF Inductive
<1> QED
  BY <1>1, <1>2, <1>3, <1>4, <1>5, <1>6 DEF AnyKind

\* What the documents remember of ended attempts explains phases and budget at
\* every moment: attempts are numbered in order, an accepted answer ends the work,
\* an unknown fate is never dispatched away, and only the last loss fails the task.
THEOREM HistoryIsKept == Spec => []History
<1>1. Init /\ []Inductive /\ [][Next]_vars => []History
  BY HistoryInit, HistoryStep, PTL
<1> QED
  BY <1>1, Safety, PTL DEF Spec

\* The verdict of a closed job is what happened, whoever closed it: the lane that
\* advanced it (advanceJobFromTasks) or the reduction of a stop.
THEOREM VerdictsAreExplained == Spec => []VerdictIsExplained
<1>1. History => VerdictIsExplained
  BY DEF History
<1> QED
  BY <1>1, HistoryIsKept, PTL

-----------------------------------------------------------------------------
(* The refinement mapping, before and after a step.                         *)

LEMMA ExecutingNow ==
  ASSUME TypeOK, SingleExecution
  PROVE  /\ \A a \in Attempts : Class(a) = "LIVE" => Executing = a
         /\ (\A a \in Attempts : Class(a) # "LIVE") => Executing = NoAttempt
<1>1. \A a \in Attempts : Live(a) <=> Class(a) = "LIVE"
  BY ClassOfLive
<1>2. \A a, b \in Attempts : Live(a) /\ Live(b) => a = b
  BY DEF SingleExecution
<1>3. ASSUME NEW a \in Attempts, Live(a) PROVE Executing = a
  BY <1>2, <1>3 DEF Executing
<1> QED
  BY <1>1, <1>3 DEF Executing

LEMMA ExecutingNext ==
  ASSUME TypeOK', SingleExecution'
  PROVE  /\ \A a \in Attempts : Class(a)' = "LIVE" => Executing' = a
         /\ (\A a \in Attempts : Class(a)' # "LIVE") => Executing' = NoAttempt
<1>1. \A a \in Attempts : Live(a)' <=> Class(a)' = "LIVE"
  BY DEF TypeOK, AttemptDocs, Lifecycles, Live, LiveAttempt, Class
<1>2. \A a, b \in Attempts : Live(a)' /\ Live(b)' => a = b
  BY DEF SingleExecution
<1>3. ASSUME NEW a \in Attempts, Live(a)' PROVE Executing' = a
  BY <1>2, <1>3 DEF Executing
<1> QED
  BY <1>1, <1>3 DEF Executing

LEMMA AcceptedKept == result' = result => Accepted' = Accepted
<1>1. result' = result => BusinessAnswers' = BusinessAnswers
  BY AnswersKept
<1> QED
  BY <1>1 DEF Accepted

LEMMA MappingKept ==
  ASSUME TypeOK, TypeOK', SingleExecution, SingleExecution', SameAttempts
  PROVE  Executing' = Executing /\ Ended' = Ended
<1>1. \A a \in Attempts : Class(a)' = Class(a)
  BY DEF SameAttempts, SameAttempt
<1>2. Executing' = Executing
  BY <1>1, ExecutingNow, ExecutingNext
<1>3. Ended' = Ended
  BY <1>1 DEF Ended, Class
<1> QED
  BY <1>2, <1>3

\* The one executing attempt ends.
LEMMA MappingAfterEnd ==
  ASSUME TypeOK, TypeOK', SingleExecution, SingleExecution', NEW a \in Attempts,
         Class(a) = "LIVE", Class(a)' = "FINISHED",
         \A b \in Attempts \ {a} : Class(b) # "LIVE" => Class(b)' = Class(b)
  PROVE  /\ Executing = a /\ Executing # NoAttempt /\ Executing' = NoAttempt
         /\ Ended' = Ended \cup {a}
<1>1. Executing = a /\ Executing # NoAttempt
  BY ExecutingNow, BoundsAssumption DEF Attempts, NoAttempt
<1>2. \A b \in Attempts \ {a} : Class(b)' = Class(b) /\ Class(b)' # "LIVE"
  BY <1>1, ExecutingNow
<1>3. Executing' = NoAttempt
  BY <1>2, ExecutingNext
<1>4. Ended' = Ended \cup {a}
  BY <1>2 DEF Ended, Class
<1> QED
  BY <1>1, <1>3, <1>4

LEMMA VerdictKept == SameVerdict => Verdict' = Verdict
  BY DEF SameVerdict, Verdict, Open, Stopping

LEMMA Unanswered == AnswersEndWork /\ ~TaskTerminal => BusinessAnswers = {} /\ Accepted = None
  BY DEF AnswersEndWork, Accepted

-----------------------------------------------------------------------------
(* Every step of the store is a step of the contract, or none.              *)

ContractStep == [Contract!Next]_(Contract!cvars)

LEMMA StutterStep ==
  ASSUME Inductive, Inductive', Quiet \/ Turns
  PROVE  ContractStep
<1>1. SameAttempts /\ result' = result /\ SameVerdict
  BY DEF Quiet, Turns
<1>2. Executing' = Executing /\ Ended' = Ended
  BY <1>1, MappingKept DEF Inductive, Authority
<1>3. Accepted' = Accepted /\ Verdict' = Verdict
  BY <1>1, AcceptedKept, VerdictKept
<1> QED
  BY <1>2, <1>3 DEF ContractStep, Contract!cvars

LEMMA AdmitStep ==
  ASSUME Inductive, Inductive', History, NEW a \in Attempts, Mints(a)
  PROVE  Contract!Admit(a)
<1>1. /\ TypeOK /\ TypeOK' /\ SingleExecution /\ SingleExecution' /\ Authority
      /\ Open /\ ~Stopping /\ job' = job /\ result' = result
      /\ task.phase \in {"READY", "RETRY_PENDING"}
  BY DEF Inductive, Authority, Mints
<1>2. \A b \in Attempts : Class(b) # "LIVE"
  BY <1>1, IdleByPhase, ClassOfLive
<1>3. Executing = NoAttempt
  BY <1>1, <1>2, ExecutingNow
<1>4. Executing' = a
  BY <1>1, ExecutingNext DEF Mints
<1>5. a \notin Ended /\ Ended' = Ended
  <2>1. Class(a) = "ABSENT" /\ Class(a)' = "LIVE"
    BY BoundsAssumption DEF Mints, Attempts
  <2>2. \A b \in Attempts \ {a} : Class(b)' = Class(b)
    BY DEF Mints, SameAttempt
  <2> QED
    BY <2>1, <2>2 DEF Ended, Class
<1>6. Accepted = None /\ Accepted' = Accepted
  BY <1>1, Unanswered, AcceptedKept DEF History, TaskTerminal, TerminalTaskPhases
<1>7. Verdict = "open" /\ Verdict' = Verdict
  BY <1>1 DEF Verdict, Open, Stopping
<1> QED
  BY <1>3, <1>4, <1>5, <1>6, <1>7 DEF Contract!Admit, Contract!Nobody, Contract!Silent,
     NoAttempt, None

\* An attempt that ends, and what the mapping makes of it.
LEMMA EndsMapped ==
  ASSUME Inductive, Inductive', NEW a \in Attempts, NEW o, Ends(a, o)
  PROVE  /\ Executing = a /\ Executing # NoAttempt /\ Executing' = NoAttempt
         /\ Ended' = Ended \cup {a}
         /\ Verdict' = Verdict
<1>1. \A b \in Attempts \ {a} : Class(b)' = Class(b)
  BY DEF Ends, SameAttempt
<1>2. Class(a) = "LIVE" /\ Class(a)' = "FINISHED" /\ SameVerdict
  BY DEF Ends
<1> QED
  BY <1>1, <1>2, MappingAfterEnd, VerdictKept DEF Inductive, Authority

LEMMA EndStep ==
  ASSUME Inductive, Inductive', NEW a \in Attempts, NEW o, Ends(a, o), Accepted' = Accepted
  PROVE  Contract!End
  BY EndsMapped DEF Contract!End, Contract!Nobody, NoAttempt

LEMMA AcceptStep ==
  ASSUME Inductive, Inductive', History, NEW a \in Attempts, NEW p \in Payloads,
         Delivers(a, p)
  PROVE  Contract!End \/ \E q \in Deliveries : Contract!Accept(q)
<1>1. Ends(a, AttemptOutcomeOf[p]) /\ ~Stopping /\ Open /\ task.phase = "DISPATCHED"
  BY DEF Delivers, Ends
<1>2. BusinessAnswers = {} /\ Accepted = None
  BY <1>1, Unanswered DEF History, TaskTerminal, TerminalTaskPhases
<1>3. p \in AllPayloads
  BY PayloadsAssumption
<1>4. /\ \A b \in Attempts \ {a} : result'[b] = result[b]
      /\ result'[a] = IF p = "invalid" THEN result[a] ELSE p
  BY DEF Delivers, Inductive, TypeOK
<1>5. BusinessAnswers' \subseteq {a}
  BY <1>2, <1>4 DEF BusinessAnswers
<1>6. CASE p \in Deliveries
  <2>1. result'[a] = p /\ p # None /\ ~Blocked(p)
    BY <1>4, <1>6 DEF Deliveries, None, Blocked
  <2>2. BusinessAnswers' = {a}
    BY <1>5, <2>1 DEF BusinessAnswers
  <2>3. Accepted' = p
    BY <2>1, <2>2 DEF Accepted
  <2>4. Verdict = "open"
    BY <1>1 DEF Verdict, Stopping
  <2>5. Contract!Accept(p)
    BY <1>1, <1>2, <2>3, <2>4, EndsMapped
       DEF Contract!Accept, Contract!Nobody, Contract!Silent, NoAttempt, None
  <2> QED
    BY <1>6, <2>5
<1>7. CASE p \notin Deliveries
  <2>1. p = "invalid" \/ Blocked(p)
    BY <1>3, <1>7 DEF AllPayloads, Deliveries, Blocked
  <2>2. BusinessAnswers' = {}
    BY <1>2, <1>4, <1>5, <2>1 DEF BusinessAnswers
  <2>3. Accepted' = Accepted
    BY <1>2, <2>2 DEF Accepted
  <2> QED
    BY <1>1, <2>3, EndStep
<1> QED
  BY <1>6, <1>7

LEMMA StopStep == ASSUME Inductive, Inductive', Stops PROVE Contract!Stop
<1>1. TypeOK /\ TypeOK' /\ SingleExecution /\ SingleExecution'
  BY DEF Inductive, Authority
<1>2. Verdict = "open" /\ Verdict' = "stopping" /\ Accepted' = Accepted
  BY AcceptedKept DEF Stops, Verdict, Open, Stopping
<1>3. CASE SameAttempts
  BY <1>1, <1>2, <1>3, MappingKept DEF Contract!Stop
<1>4. CASE ~SameAttempts
  <2>1. PICK a \in Attempts : Class(a) = "LIVE" /\ Class(a)' = "FINISHED"
    BY <1>4 DEF Stops, SameAttempts
  <2>2. \A b \in Attempts \ {a} : Class(b) # "LIVE" => Class(b)' = Class(b)
    BY DEF Stops, SameAttempt
  <2>3. Executing = a /\ Executing # NoAttempt /\ Executing' = NoAttempt
        /\ Ended' = Ended \cup {a}
    BY <1>1, <2>1, <2>2, MappingAfterEnd
  <2> QED
    BY <1>2, <2>3 DEF Contract!Stop, Contract!Nobody, NoAttempt
<1> QED
  BY <1>3, <1>4

LEMMA CloseStep ==
  ASSUME Inductive, Inductive', ClosesByWork \/ ClosesStopped
  PROVE  Contract!Close
<1>1. /\ TypeOK /\ TypeOK' /\ SingleExecution /\ SingleExecution'
      /\ SameAttempts /\ result' = result /\ Open /\ \A b \in Attempts : ~Live(b)
  BY DEF Inductive, Authority, ClosesByWork, ClosesStopped
<1>2. Executing = NoAttempt
  BY <1>1, ClassOfLive, ExecutingNow
<1>3. Executing' = Executing /\ Ended' = Ended /\ Accepted' = Accepted
  BY <1>1, MappingKept, AcceptedKept
<1>4. ~Open'
  BY DEF ClosesByWork, ClosesStopped, OutcomeOfTask, TaskTerminal, TerminalTaskPhases, Open,
     None
<1>5. \/ Verdict = "open" /\ Verdict' = "decided"
      \/ Verdict = "stopping" /\ Verdict' = "stopped"
  BY <1>1, <1>4 DEF ClosesByWork, ClosesStopped, Stopping, Verdict
<1> QED
  BY <1>2, <1>3, <1>5 DEF Contract!Close, Contract!Nobody, NoAttempt

LEMMA ContractInit == Init => Contract!Init
<1> SUFFICES ASSUME Init PROVE Contract!Init
  OBVIOUS
<1>1. \A a \in Attempts : att[a].lifecycle = "ABSENT" /\ result[a] = None
  BY DEF Init, AbsentAttempt
<1>2. Executing = NoAttempt /\ Ended = {} /\ Accepted = None
  BY <1>1 DEF Executing, Live, LiveAttempt, Ended, BusinessAnswers, Accepted
<1>3. Verdict = "open"
  BY DEF Init, Verdict, Open
<1> QED
  BY <1>2, <1>3 DEF Contract!Init, Contract!Nobody, Contract!Silent, NoAttempt, None

LEMMA ContractKeptByStep ==
  Inductive /\ Inductive' /\ History /\ [Next]_vars => ContractStep
<1> SUFFICES ASSUME Inductive, Inductive', History, [Next]_vars PROVE ContractStep
  OBVIOUS
<1>1. AnyKind
  BY StepKinds DEF History
<1>2. CASE Quiet \/ Turns
  BY <1>2, StutterStep
<1>3. CASE Stops
  BY <1>3, StopStep DEF ContractStep, Contract!Next
<1>4. CASE ClosesByWork \/ ClosesStopped
  BY <1>4, CloseStep DEF ContractStep, Contract!Next
<1>5. ASSUME NEW a \in Attempts, Mints(a) PROVE ContractStep
  BY <1>5, AdmitStep DEF ContractStep, Contract!Next
<1>6. ASSUME NEW a \in Attempts, EndsUnanswered(a) PROVE ContractStep
  <2>1. Accepted' = Accepted /\ \E o \in AttemptOutcomes : Ends(a, o)
    BY <1>6, AcceptedKept DEF EndsUnanswered, AttemptOutcomes
  <2> QED
    BY <2>1, EndStep DEF ContractStep, Contract!Next
<1>7. ASSUME NEW a \in Attempts, NEW p \in Payloads, Delivers(a, p) PROVE ContractStep
  BY <1>7, AcceptStep DEF ContractStep, Contract!Next
<1> QED
  BY <1>1, <1>2, <1>3, <1>4, <1>5, <1>6, <1>7 DEF AnyKind

\* The store, its lanes, workers, reapers, timers and the owner's commands together
\* keep the owner's contract: work runs in one attempt at a time and never again in
\* an ended one, one answer at most is accepted, nothing is admitted or accepted
\* behind a stop, and the one verdict is given when nothing executes.
THEOREM ContractKept == Spec => ContractSpec
<1>1. []Inductive /\ []History /\ [][Next]_vars => [][Contract!Next]_(Contract!cvars)
  BY ContractKeptByStep, PTL DEF ContractStep
<1> QED
  BY <1>1, ContractInit, Safety, HistoryIsKept, PTL
     DEF Spec, ContractSpec, Contract!Spec
=============================================================================
