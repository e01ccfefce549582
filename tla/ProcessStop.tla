---------------------------- MODULE ProcessStop ----------------------------
(* Supervised subprocess work: one task whose attempts run in process       *)
(* groups of their own.                                                     *)
(*                                                                          *)
(* A worker spawns a wrapper, registers its identity (startAttemptOperation)*)
(* and releases the workload (authorizeAttemptProcessRelease); the wrapper  *)
(* starts it only on START.  Stops are durable first (STOP_REQUESTED with a *)
(* grace timer), then climb the ladder abort, TERM, KILL; the store accepts *)
(* that a process is gone only by a receipt that its whole tree is empty.   *)
(* Worker, supervisor, lease reaper, grace timer, cancel and the terminal   *)
(* barrier work on the same rows; workers, hosts and acknowledgements fail. *)
(*                                                                          *)
(* Abstractions: deadlines are flags that only ever become TRUE; a queued   *)
(* and a leased admission are one state (AttemptAuthority tells them apart);*)
(* markers and results of the worker's answer are one commit; pauses are    *)
(* left to AttemptAuthority.  /proc scans are instantaneous.                *)
EXTENDS Integers, FiniteSets

CONSTANTS
  MaxAttempts,  \* bound: attempts of the task
  Limits        \* bound: pairs of opts.maxAttempts of the reaper and of the worker
                \* deaths, reboots and reused pids to come

ASSUME BoundsAssumption ==
  /\ MaxAttempts \in Nat \ {0}
  /\ Limits \subseteq [attempts : 1 .. MaxAttempts, faults : Nat]

Attempts == 1 .. MaxAttempts
NoAttempt == 0

VARIABLES
  job,    \* control state, pending and final outcome, policy of the stop
  task,   \* phase and binding
  att,    \* the attempt documents
  os,     \* the processes of each attempt, and its wrapper's channel to the worker
  wk,     \* where the worker of each attempt is
  sup,    \* the stop the supervisor is climbing
  limits  \* opts.maxAttempts, and the faults still to come

vars == <<job, task, att, os, wk, sup, limits>>
store == <<job, task, att>>

Absent ==
  [life |-> "ABSENT", outcome |-> "none", fenced |-> FALSE, state |-> "NONE",
   confirmed |-> "null", owner |-> FALSE, released |-> FALSE, stop |-> 0, jobStop |-> 0,
   timer |-> "none", stopReceipt |-> FALSE, exitReceipt |-> "none",
   leaseOver |-> FALSE, graceOver |-> FALSE]
NoProcess ==
  [wrapper |-> "none", target |-> "none", kid |-> "none", told |-> FALSE,
   ordered |-> FALSE, result |-> FALSE, conn |-> FALSE, place |-> "here"]
Idle == [att |-> NoAttempt, rung |-> "idle"]

Init ==
  /\ job = [control |-> "NONE", pending |-> "none", due |-> "none", stop |-> 0,
            blocked |-> FALSE, outcome |-> "none"]
  /\ task = [phase |-> "READY", active |-> NoAttempt]
  /\ att = [a \in Attempts |-> Absent]
  /\ os = [a \in Attempts |-> NoProcess]
  /\ wk = [a \in Attempts |-> "none"]
  /\ sup = Idle
  /\ limits \in Limits

-----------------------------------------------------------------------------
(* What /proc shows of an owned tree (inspectOwnedProcessTree).             *)

InGroup(a) ==
  \/ os[a].wrapper \in {"inert", "started"}
  \/ os[a].target = "alive"
  \/ os[a].kid = "group"
Alive(a) == InGroup(a) \/ os[a].kid = "stray"

\* The program itself, as opposed to the wrapper: it runs, or START is on its way.
Workload(a) ==
  \/ os[a].target = "alive"
  \/ os[a].kid # "none"
  \/ os[a].wrapper = "inert" /\ os[a].ordered

\* A tree can be judged only on the boot that started it, and while its leader's
\* pid is not somebody else's.
\* Mutants: the leader alone, or its group alone, is looked at.
LeaderGone(a) == os[a].place = "here" /\ os[a].wrapper = "gone"
GroupEmpty(a) == os[a].place = "here" /\ ~InGroup(a)

TreeEmpty(a) == os[a].place = "here" /\ ~Alive(a)
SignalSafe(a) == os[a].place = "here" /\ InGroup(a)
Verifiable(a) == os[a].place = "here" /\ os[a].kid # "stray"
Reachable(a) == Verifiable(a) \/ SignalSafe(a)

-----------------------------------------------------------------------------
(* The store.                                                               *)

Open == job.outcome = "none"
InProgress(a) == att[a].life \in {"LEASED", "RUNNING", "STOP_REQUESTED"}
Unconfirmed(a) == att[a].confirmed # "yes"
TaskTerminal == task.phase \in {"DONE", "CANCELLED", "SUPERSEDED", "UNKNOWN_OUTCOME"}

\* dispatchAttempt and the worker's claim.
Dispatch(a) ==
  /\ Open /\ job.control = "NONE"
  /\ task.phase \in {"READY", "RETRY_PENDING"}
  /\ \A b \in Attempts : att[b].life = "ABSENT" <=> b >= a
  /\ att' = [att EXCEPT ![a].life = "LEASED"]
  /\ task' = [phase |-> "DISPATCHED", active |-> a]
  /\ wk' = [wk EXCEPT ![a] = "claimed"]
  /\ UNCHANGED <<job, os, sup, limits>>

\* The authority that start, release and A demand of job and task.
Granted(a) ==
  /\ Open /\ job.control = "NONE"
  /\ task.phase = "DISPATCHED" /\ task.active = a

\* startAttemptOperation with a processOwner.
Register(a) ==
  /\ att[a].life = "LEASED" /\ Granted(a) /\ ~att[a].leaseOver
  /\ att' = [att EXCEPT ![a].life = "RUNNING", ![a].owner = TRUE, ![a].state = "OWNED"]

\* authorizeAttemptProcessRelease.
Release(a) ==
  /\ att[a].life = "RUNNING" /\ att[a].stop = 0 /\ Granted(a)
  /\ ~att[a].leaseOver
  /\ att' = [att EXCEPT ![a].released = TRUE]

\* requestAttemptStopInSession on a RUNNING attempt.
Stopped(row, jobStop) ==
  [row EXCEPT !.life = "STOP_REQUESTED", !.stop = 1, !.jobStop = jobStop,
              !.state = "STOP_REQUESTED", !.confirmed = "null", !.timer = "PENDING"]

\* observeAttemptStopRequest: the stop addressed to this owner, still open.
StopObserved(a) == att[a].life = "STOP_REQUESTED"

\* moveTaskAndJobToReconciling, under the aggregate the stop was asked for.
MoveToReconciling(a, unknown) ==
  IF /\ Open
     /\ job.stop = att[a].jobStop
     /\ task.active = a /\ ~TaskTerminal
  THEN /\ task' = [phase |-> "RECONCILING", active |-> NoAttempt]
       /\ job' = IF unknown /\ job.control = "STOP_REQUESTED"
                 THEN [job EXCEPT !.pending = "UNKNOWN_OUTCOME"]
                 ELSE job
  ELSE UNCHANGED <<job, task>>

\* recordAttemptStopReceipt: only before the grace is over.  The outcome is the one
\* its cause stands for, never UNKNOWN.
RecordStopReceipt(a) ==
  IF StopObserved(a) /\ ~att[a].graceOver
  THEN /\ att' = [att EXCEPT ![a].life = "FINISHED", ![a].outcome = "STOPPED",
                             ![a].fenced = TRUE, ![a].state = "EXITED",
                             ![a].confirmed = "yes", ![a].stopReceipt = TRUE,
                             ![a].timer = "CANCELLED"]
       /\ MoveToReconciling(a, FALSE)
  ELSE UNCHANGED store

\* fireDueAttemptStopTimers: no receipt in time is not success.
GraceFires(a) ==
  /\ att[a].timer = "PENDING" /\ att[a].graceOver
  /\ StopObserved(a)
  /\ att' = [att EXCEPT ![a].life = "FINISHED", ![a].outcome = "UNKNOWN_OUTCOME",
                        ![a].fenced = TRUE, ![a].state = "UNKNOWN",
                        ![a].confirmed = "no", ![a].timer = "FIRED"]
  /\ MoveToReconciling(a, TRUE)
  /\ UNCHANGED <<os, wk, sup, limits>>

\* recordAttemptProcessExitReceipt and recordPostStopUnknownProcessExitReceipt.
\* Mutant: the kind of the receipt is taken for the state.
ExitRecordedByKind(row, kind) ==
  [row EXCEPT !.state = kind, !.confirmed = "yes", !.exitReceipt = kind]

ExitRecorded(row, kind) ==
  [row EXCEPT !.state = "EXITED", !.confirmed = "yes", !.exitReceipt = kind]

NormalExitAdmitted(a) ==
  /\ att[a].life \in {"RUNNING", "FINISHED"}
  /\ ~att[a].fenced /\ att[a].stop = 0
  /\ att[a].exitReceipt = "none" /\ ~att[a].stopReceipt

PostStopExitAdmitted(a) ==
  /\ att[a].life = "FINISHED" /\ att[a].outcome = "UNKNOWN_OUTCOME"
  /\ att[a].state = "UNKNOWN" /\ att[a].confirmed = "no"
  /\ att[a].fenced /\ att[a].stop > 0
  /\ att[a].exitReceipt = "none" /\ ~att[a].stopReceipt

\* submitAttemptResult with the exit proof, or with the one already stored.
Submit(a) ==
  /\ att[a].life = "RUNNING" /\ ~att[a].leaseOver /\ Granted(a)
  /\ att' = [att EXCEPT ![a] = [ExitRecorded(@, "normal") EXCEPT
                                  !.life = "FINISHED", !.outcome = "ANSWERED"]]
  /\ task' = [phase |-> "DONE", active |-> NoAttempt]
  /\ UNCHANGED job

\* reapExpiredLeases.  A registered process without proof keeps its fence: only the
\* supervisor or the grace timer may end it.
Unproven(a) == att[a].owner /\ Unconfirmed(a)
Reap(a) ==
  LET unknown == att[a].life = "STOP_REQUESTED"
                   \/ (att[a].state \in {"OWNED", "STOP_REQUESTED"} /\ Unproven(a))
      row == [att[a] EXCEPT !.life = "FINISHED", !.fenced = TRUE]
      lost == [row EXCEPT !.outcome = "WORKER_LOST"]
      gone == [row EXCEPT !.outcome = "UNKNOWN_OUTCOME", !.state = "UNKNOWN",
                          !.confirmed = "no", !.stop = 1]
  IN  /\ InProgress(a) /\ att[a].leaseOver
      /\ ~Unproven(a)
      /\ att' = [att EXCEPT ![a] = IF unknown THEN gone ELSE lost]
      /\ task' = IF ~unknown /\ task.active = a /\ ~TaskTerminal
                 THEN [phase |-> IF job.control # "NONE" THEN "SUPERSEDED"
                                 ELSE IF a < limits.attempts THEN "RETRY_PENDING" ELSE "DONE",
                       active |-> NoAttempt]
                 ELSE IF unknown /\ task.active = a
                      THEN [phase |-> "RECONCILING", active |-> NoAttempt]
                      ELSE task
      /\ UNCHANGED <<job, os, wk, sup, limits>>

\* The lane closes a job whose task is done.
CloseJob ==
  /\ Open /\ job.control = "NONE" /\ task.phase = "DONE"
  /\ job' = [job EXCEPT !.outcome = "CLOSED"]
  /\ UNCHANGED <<task, att, os, wk, sup, limits>>

\* cancelJob: what has no process authority left ends at once, the rest is asked
\* to stop, and what is already unknown makes the verdict unknown.
CancelJob ==
  LET active == {a \in Attempts : /\ att[a].life \in {"RUNNING", "STOP_REQUESTED"}
                                  /\ Unconfirmed(a)}
      unresolved == {a \in Attempts : /\ att[a].life = "FINISHED" /\ Unproven(a)
                                      /\ ~att[a].stopReceipt}
      unknown == {a \in Attempts : att[a].outcome = "UNKNOWN_OUTCOME"}
      uncertain == unresolved \cup unknown # {}
      Cancelled(row) == [row EXCEPT !.life = "FINISHED", !.outcome = "CANCELLED",
                                    !.fenced = TRUE]
  IN  /\ Open /\ job.control = "NONE"
      /\ job' = [job EXCEPT !.control = "STOP_REQUESTED", !.stop = 1,
                            !.pending = IF uncertain THEN "UNKNOWN_OUTCOME" ELSE "CANCELLED",
                            !.due = IF uncertain THEN "now"
                                    ELSE IF active # {} THEN "grace" ELSE "none"]
      /\ att' = [a \in Attempts |->
                   IF att[a].life = "LEASED"
                   THEN [Cancelled(att[a]) EXCEPT !.confirmed = "yes"]
                   ELSE IF a \in active
                        THEN IF att[a].life = "RUNNING" THEN Stopped(att[a], 1) ELSE att[a]
                        ELSE IF att[a].life = "RUNNING" /\ att[a].exitReceipt # "none"
                             THEN Cancelled(att[a])
                             ELSE att[a]]
      /\ task' = IF TaskTerminal THEN task
                 ELSE IF unknown # {} THEN [phase |-> "RECONCILING", active |-> NoAttempt]
                 ELSE IF task.active \in active THEN [task EXCEPT !.phase = "RECONCILING"]
                 ELSE IF active \cup unresolved = {}
                      THEN [phase |-> "CANCELLED", active |-> NoAttempt]
                      ELSE task
      /\ UNCHANGED <<os, wk, sup, limits>>

\* Mutant: only the exits of before the stop are proofs.
ValidNormalReceipt(a) ==
  IF att[a].stopReceipt THEN att[a].fenced
  ELSE /\ att[a].exitReceipt = "normal"
       /\ att[a].fenced => att[a].outcome = "CANCELLED" /\ att[a].stop = 0

\* validStopReceipt, validExitReceipt and inspectAttemptSettlement.
ValidReceipt(a) ==
  IF att[a].stopReceipt THEN att[a].fenced
  ELSE \/ /\ att[a].exitReceipt = "normal"
          /\ att[a].fenced => att[a].outcome = "CANCELLED" /\ att[a].stop = 0
       \/ /\ att[a].exitReceipt = "post"
          /\ att[a].outcome = "UNKNOWN_OUTCOME" /\ att[a].stop > 0 /\ att[a].fenced

Settlement(a) ==
  IF att[a].life = "ABSENT" THEN "settled"
  ELSE IF att[a].life # "FINISHED" THEN "waiting"
  ELSE IF ~att[a].owner THEN "settled"
  ELSE IF att[a].stopReceipt /\ att[a].exitReceipt # "none" THEN "invalid"
  ELSE IF att[a].confirmed = "yes" THEN IF ValidReceipt(a) THEN "settled" ELSE "invalid"
  ELSE IF att[a].exitReceipt = "none" THEN "settled" ELSE "waiting"

\* Mutant: only an accepted answer without proof makes the verdict uncertain.
UncertainAnswer(a) ==
  att[a].life = "FINISHED" /\ Unproven(a) /\ att[a].outcome = "ANSWERED"

Uncertain(a) ==
  \/ att[a].outcome = "UNKNOWN_OUTCOME"
  \/ att[a].life = "FINISHED" /\ Unproven(a)

\* unknownPolicyIsDue: stopGraceDueAt is the earliest grace of the stops it found.
PolicyDue ==
  \/ job.due = "now"
  \/ job.due = "grace" /\ \E a \in Attempts : att[a].graceOver

\* reducePendingFlatTerminalOwnedInSession, attempt by attempt.
Reduce ==
  LET Before(a) == \A b \in 1 .. a - 1 : Settlement(b) = "settled"
      uncertain == job.pending = "UNKNOWN_OUTCOME" \/ \E a \in Attempts : Uncertain(a)
      verdict == IF uncertain THEN "UNKNOWN_OUTCOME" ELSE job.pending
  IN  /\ Open /\ job.control = "STOP_REQUESTED" /\ ~job.blocked
      /\ \A a \in Attempts : att[a].timer # "PENDING"
      /\ \/ /\ \E a \in Attempts : Before(a) /\ Settlement(a) = "invalid"
            /\ job' = [job EXCEPT !.blocked = TRUE]
            /\ UNCHANGED task
         \/ /\ \A a \in Attempts : Settlement(a) = "settled"
            /\ uncertain => PolicyDue
            /\ job' = [job EXCEPT !.outcome = verdict, !.pending = "none"]
            /\ task' = IF TaskTerminal THEN task
                       ELSE [phase |-> verdict, active |-> NoAttempt]
      /\ UNCHANGED <<att, os, wk, sup, limits>>

-----------------------------------------------------------------------------
(* The kernel, the wrapper (WRAPPER_BOOTSTRAP) and the workload.            *)

\* START is read: the target is spawned.
WrapperStarts(a) ==
  /\ os[a].wrapper = "inert" /\ os[a].ordered
  /\ os' = [os EXCEPT ![a].wrapper = "started", ![a].ordered = FALSE, ![a].target = "alive"]
  /\ UNCHANGED <<job, task, att, wk, sup, limits>>

\* Its startup timer, or the worker's disconnect, ends a wrapper that has not started.
InertExits(a) ==
  /\ os[a].wrapper = "inert"
  /\ os' = [os EXCEPT ![a].wrapper = "gone", ![a].ordered = FALSE]
  /\ UNCHANGED <<job, task, att, wk, sup, limits>>

\* finishTarget: the wrapper stays for FINALIZE unless it was told to stop or is alone.
TargetEnds(a) ==
  /\ os[a].target = "alive"
  /\ os' = [os EXCEPT ![a].target = "dead", ![a].result = os[a].conn,
                      ![a].wrapper = IF os[a].told \/ ~os[a].conn THEN "gone" ELSE @]
  /\ UNCHANGED <<job, task, att, wk, sup, limits>>

\* The workload forks; a child may leave the group and keep its execution tokens.
Forks(a) ==
  /\ os[a].target = "alive" /\ os[a].kid = "none"
  /\ \E where \in {"group", "stray"} : os' = [os EXCEPT ![a].kid = where]
  /\ UNCHANGED <<job, task, att, wk, sup, limits>>

KidEnds(a) ==
  /\ os[a].kid # "none"
  /\ os' = [os EXCEPT ![a].kid = "none"]
  /\ UNCHANGED <<job, task, att, wk, sup, limits>>

\* ABORT and TERM only tell: a wrapper without a target exits, a target may ignore
\* them.  A START that is still unread may come first.
Told(proc) ==
  IF proc.wrapper = "inert"
  THEN {[proc EXCEPT !.wrapper = "gone", !.told = TRUE, !.ordered = FALSE]}
         \cup IF proc.ordered
              THEN {[proc EXCEPT !.wrapper = "started", !.told = TRUE, !.ordered = FALSE,
                                 !.target = "alive"]}
              ELSE {}
  ELSE {[proc EXCEPT !.told = TRUE]}

\* KILL reaches the whole group, and nothing outside it.
Killed(proc) ==
  [proc EXCEPT !.wrapper = "gone", !.ordered = FALSE,
               !.target = IF @ = "alive" THEN "dead" ELSE @,
               !.kid = IF @ = "group" THEN "none" ELSE @]

\* The pid of a leader that is gone becomes another process's, and is freed again.
PidReused(a) ==
  /\ limits.faults > 0
  /\ Unproven(a)
  /\ os[a].wrapper = "gone" /\ os[a].place = "here" /\ ~InGroup(a)
  /\ os' = [os EXCEPT ![a].place = "reused"]
  /\ limits' = [limits EXCEPT !.faults = @ - 1]
  /\ UNCHANGED <<job, task, att, wk, sup>>
PidFreed(a) ==
  /\ os[a].place = "reused"
  /\ os' = [os EXCEPT ![a].place = "here"]
  /\ UNCHANGED <<job, task, att, wk, sup, limits>>

\* A reboot ends every process, and what was started before it can be judged no more.
Reboot ==
  /\ limits.faults > 0
  /\ os' = [a \in Attempts |->
              IF os[a].wrapper = "none" THEN os[a]
              ELSE [NoProcess EXCEPT !.wrapper = "gone", !.place = "elsewhere"]]
  /\ wk' = [a \in Attempts |-> IF wk[a] = "none" THEN "none" ELSE "gone"]
  /\ sup' = Idle
  /\ limits' = [limits EXCEPT !.faults = @ - 1]
  /\ UNCHANGED store

-----------------------------------------------------------------------------
(* The escalation (stopSupervisedAttempt), by a worker or by the supervisor.*)
(* Every rung reads the durable stop again before it acts.                  *)

Rungs == {"look", "abort", "term", "kill", "confirm"}

\* One rung: a proof of emptiness is recorded wherever it is found.
Rung(a, from, to) ==
  \/ /\ ~StopObserved(a)
     /\ to = "done"
     /\ UNCHANGED <<job, task, att, os>>
  \/ /\ StopObserved(a) /\ TreeEmpty(a) /\ from # "abort"
     /\ to = "done"
     /\ RecordStopReceipt(a)
     /\ UNCHANGED os
  \/ /\ StopObserved(a) /\ ~TreeEmpty(a)
     /\ \/ from = "look" /\ to \in {"abort", "term"} /\ Reachable(a) /\ UNCHANGED os
        \/ from = "look" /\ to = "done" /\ ~Reachable(a) /\ UNCHANGED os
        \/ from = "term" /\ to = "kill" /\ SignalSafe(a)
             /\ \E proc \in Told(os[a]) : os' = [os EXCEPT ![a] = proc]
        \/ from = "kill" /\ to = "confirm" /\ SignalSafe(a)
             /\ os' = [os EXCEPT ![a] = Killed(@)]
        \/ from \in {"term", "kill"} /\ to = "done" /\ ~SignalSafe(a) /\ UNCHANGED os
        \/ from = "confirm" /\ to = "done" /\ UNCHANGED os
     /\ UNCHANGED store
  \/ /\ StopObserved(a)
     /\ from = "abort" /\ to = "term"
     /\ IF os[a].conn /\ os[a].wrapper # "gone"
        THEN \E proc \in Told(os[a]) : os' = [os EXCEPT ![a] = proc]
        ELSE UNCHANGED os
     /\ UNCHANGED store

-----------------------------------------------------------------------------
(* The worker (runSupervisedProcessWorkerOnce).                             *)

At(a, pc) == wk[a] = pc
Goto(a, pc) == wk' = [wk EXCEPT ![a] = pc]

\* prepareSupervisedProcess: the wrapper is up, or it failed and was killed.
Prepare(a) ==
  /\ At(a, "claimed")
  /\ \/ /\ os' = [os EXCEPT ![a].wrapper = "inert", ![a].conn = TRUE]
        /\ Goto(a, "prepared")
     \/ os' = [os EXCEPT ![a].wrapper = "gone"] /\ Goto(a, "cleanup")
  /\ UNCHANGED <<job, task, att, sup, limits>>

\* The two durable steps of start; each may be refused, and each may commit while its
\* acknowledgement is lost.
Commits(a, step, next, otherwise) ==
  \/ step /\ \E pc \in {next, otherwise} : Goto(a, pc)
  \/ Goto(a, otherwise) /\ UNCHANGED att

RegisterOwner(a) ==
  /\ At(a, "prepared")
  /\ Commits(a, Register(a), "registered", "cleanup")
  /\ UNCHANGED <<job, task, os, sup, limits>>

\* The owner is read back, which may fail, and the release asked for under a fresh CAS.
ReleaseWorkload(a) ==
  /\ At(a, "registered")
  /\ \/ Goto(a, "cleanup") /\ UNCHANGED att
     \/ Commits(a, Release(a), "released", "stopping")
  /\ UNCHANGED <<job, task, os, sup, limits>>

\* A last look for a stop, which may still come before sendIpc(START); a callback that
\* failed says nothing about delivery.
SendStart(a) ==
  /\ At(a, "released")
  /\ \/ StopObserved(a) /\ Goto(a, "stopping") /\ UNCHANGED os
     \/ os[a].wrapper # "inert" /\ Goto(a, "stopping") /\ UNCHANGED os
     \/ /\ os[a].wrapper = "inert"
        /\ os' = [os EXCEPT ![a].ordered = TRUE]
        /\ \E pc \in {"running", "stopping"} : Goto(a, pc)
  /\ UNCHANGED <<job, task, att, sup, limits>>

\* The loop ends without an answer: a stop is observed, the process shuts down, the
\* lease or the time is lost, or the wrapper closed or failed before its RESULT.
GiveUp(a) ==
  /\ At(a, "running")
  /\ Goto(a, "stopping")
  /\ UNCHANGED <<job, task, att, os, sup, limits>>

\* ensureAttemptStop, which may fail.
EnsureStop(a) ==
  /\ At(a, "stopping")
  /\ \/ att[a].life = "RUNNING" /\ Goto(a, "look")
        /\ att' = [att EXCEPT ![a] = Stopped(@, job.stop)]
     \/ StopObserved(a) /\ Goto(a, "look") /\ UNCHANGED att
     \/ Goto(a, "cleanup") /\ UNCHANGED att
  /\ UNCHANGED <<job, task, os, sup, limits>>

WorkerClimbs(a) ==
  /\ wk[a] \in Rungs
  /\ \E to \in Rungs \cup {"done"} :
       /\ Rung(a, wk[a], to)
       /\ wk[a] = "look" => to # "term"
       /\ Goto(a, IF to = "done" THEN "cleanup" ELSE to)
  /\ UNCHANGED <<sup, limits>>

\* RESULT came and the answer is marked ready: FINALIZE, when it arrives, lets the
\* wrapper go.
Finalize(a) ==
  /\ At(a, "running") /\ os[a].result
  /\ \E left \in {os[a].wrapper, "gone"} : os' = [os EXCEPT ![a].wrapper = left]
  /\ Goto(a, "waiting")
  /\ UNCHANGED <<job, task, att, sup, limits>>

\* waitForOwnedProcessTreeEmpty: what the answer left running ends it as a failure.
AwaitTree(a) ==
  /\ At(a, "waiting")
  /\ Goto(a, IF TreeEmpty(a) THEN "proven" ELSE "stopping")
  /\ UNCHANGED <<job, task, att, os, sup, limits>>

\* A commits, is refused, or fails.
SubmitAnswer(a) ==
  /\ At(a, "proven")
  /\ \/ Submit(a) /\ Goto(a, "cleanup")
     \/ Goto(a, IF StopObserved(a) THEN "look" ELSE "cleanup") /\ UNCHANGED store
     \/ Goto(a, "stopping") /\ UNCHANGED store
  /\ UNCHANGED <<os, sup, limits>>

\* cleanup kills only a wrapper that was never sent START, and sends FINALIZE to one
\* that answered; everything else it leaves to the supervisor.
Cleanup(a) ==
  /\ At(a, "cleanup")
  /\ \/ /\ (os[a].wrapper = "inert" /\ ~os[a].ordered) \/ os[a].result
        /\ os' = [os EXCEPT ![a].wrapper = "gone"]
     \/ ~(os[a].wrapper = "inert" /\ ~os[a].ordered) /\ UNCHANGED os
  /\ Goto(a, "ended")
  /\ UNCHANGED <<job, task, att, sup, limits>>

\* A wrapper that lost its worker has nothing to wait for once its target is dead.
WorkerDies(a) ==
  /\ limits.faults > 0
  /\ wk[a] \notin {"none", "gone"}
  /\ wk[a] = "ended" => os[a].wrapper # "gone"
  /\ Goto(a, "gone")
  /\ os' = [os EXCEPT ![a].conn = FALSE,
                      ![a].wrapper = IF @ = "started" /\ os[a].target = "dead" THEN "gone" ELSE @]
  /\ limits' = [limits EXCEPT !.faults = @ - 1]
  /\ UNCHANGED <<job, task, att, sup>>

Worker(a) ==
  \/ Prepare(a) \/ RegisterOwner(a) \/ ReleaseWorkload(a) \/ SendStart(a)
  \/ GiveUp(a) \/ EnsureStop(a) \/ WorkerClimbs(a)
  \/ Finalize(a) \/ AwaitTree(a) \/ SubmitAnswer(a) \/ Cleanup(a)

-----------------------------------------------------------------------------
(* The supervisor (reconcileSupervisedProcesses), before the reaper each    *)
(* tick and before a service takes traffic.                                 *)

Watched(a) == sup = Idle /\ Unproven(a)

FindStop(a) ==
  /\ Watched(a) /\ StopObserved(a) /\ Reachable(a)
  /\ sup' = [att |-> a, rung |-> "look"]
  /\ UNCHANGED <<job, task, att, os, wk, limits>>

\* Mutant: a lost owner whose tree cannot be judged is left alone.
FindReachableOwner(a) ==
  /\ Watched(a) /\ att[a].life = "RUNNING" /\ att[a].leaseOver /\ ~TreeEmpty(a)
  /\ Reachable(a)
  /\ att' = [att EXCEPT ![a] = Stopped(@, job.stop)]
  /\ sup' = [att |-> a, rung |-> "look"]
  /\ UNCHANGED <<job, task, os, wk, limits>>

FindLostOwner(a) ==
  /\ Watched(a) /\ att[a].life = "RUNNING" /\ att[a].leaseOver /\ ~TreeEmpty(a)
  /\ att' = [att EXCEPT ![a] = Stopped(@, job.stop)]
  /\ sup' = IF Reachable(a) THEN [att |-> a, rung |-> "look"] ELSE Idle
  /\ UNCHANGED <<job, task, os, wk, limits>>

FindEmptyTree(a) ==
  /\ Watched(a) /\ TreeEmpty(a)
  /\ \/ NormalExitAdmitted(a) /\ att' = [att EXCEPT ![a] = ExitRecorded(@, "normal")]
     \/ PostStopExitAdmitted(a) /\ att' = [att EXCEPT ![a] = ExitRecorded(@, "post")]
  /\ UNCHANGED <<job, task, os, wk, sup, limits>>

SupervisorClimbs ==
  /\ sup # Idle
  /\ \E to \in (Rungs \ {"abort"}) \cup {"done"} :
       /\ Rung(sup.att, sup.rung, to)
       /\ sup' = IF to = "done" THEN Idle ELSE [sup EXCEPT !.rung = to]
  /\ UNCHANGED <<wk, limits>>

Supervisor == SupervisorClimbs \/ \E a \in Attempts :
  FindStop(a) \/ FindLostOwner(a) \/ FindEmptyTree(a)

-----------------------------------------------------------------------------
(* Time: heartbeats stop at the hard deadline, a grace has an end.          *)

LeaseEnds(a) ==
  /\ InProgress(a) /\ ~att[a].leaseOver
  /\ att' = [att EXCEPT ![a].leaseOver = TRUE]
  /\ UNCHANGED <<job, task, os, wk, sup, limits>>
GraceEnds(a) ==
  /\ att[a].timer = "PENDING" /\ ~att[a].graceOver
  /\ att' = [att EXCEPT ![a].graceOver = TRUE]
  /\ UNCHANGED <<job, task, os, wk, sup, limits>>

Processes(a) ==
  \/ WrapperStarts(a) \/ InertExits(a) \/ TargetEnds(a) \/ Forks(a) \/ KidEnds(a)
  \/ PidReused(a) \/ PidFreed(a)

Next ==
  \/ \E a \in Attempts :
       Dispatch(a) \/ Worker(a) \/ WorkerDies(a) \/ Processes(a) \/ LeaseEnds(a)
         \/ GraceEnds(a) \/ GraceFires(a) \/ Reap(a)
  \/ Supervisor \/ CloseJob \/ CancelJob \/ Reduce \/ Reboot

Spec == Init /\ [][Next]_vars

\* Time passes and the reconciler ticks; nothing is asked of workers, workloads or owner.
Time == \E a \in Attempts : LeaseEnds(a) \/ GraceEnds(a)
Recovery == \E a \in Attempts :
  FindLostOwner(a) \/ FindEmptyTree(a) \/ GraceFires(a) \/ Reap(a)

FairSpec ==
  /\ Spec
  /\ WF_vars(Time) /\ WF_vars(Recovery)
  /\ WF_vars(SupervisorClimbs) /\ WF_vars(Reduce)

-----------------------------------------------------------------------------
(* Properties.                                                              *)

Lives == {"ABSENT", "LEASED", "RUNNING", "STOP_REQUESTED", "FINISHED"}
Outcomes == {"none", "ANSWERED", "STOPPED", "WORKER_LOST", "CANCELLED", "UNKNOWN_OUTCOME"}
AttemptRows ==
  [life : Lives, outcome : Outcomes, fenced : BOOLEAN,
   state : {"NONE", "OWNED", "STOP_REQUESTED", "EXITED", "UNKNOWN"},
   confirmed : {"null", "no", "yes"}, owner : BOOLEAN, released : BOOLEAN,
   stop : {0, 1}, jobStop : {0, 1}, timer : {"none", "PENDING", "FIRED", "CANCELLED"},
   stopReceipt : BOOLEAN, exitReceipt : {"none", "normal", "post"},
   leaseOver : BOOLEAN, graceOver : BOOLEAN]
ProcessRows ==
  [wrapper : {"none", "inert", "started", "gone"}, target : {"none", "alive", "dead"},
   kid : {"none", "group", "stray"}, told : BOOLEAN, ordered : BOOLEAN,
   result : BOOLEAN, conn : BOOLEAN, place : {"here", "reused", "elsewhere"}]
WorkerSteps ==
  {"none", "claimed", "prepared", "registered", "released", "running",
   "stopping", "waiting", "proven", "cleanup", "ended", "gone"} \cup Rungs

\* Every row, process, worker and rung has the shape the code gives it.
TypeOK ==
  /\ job \in [control : {"NONE", "STOP_REQUESTED"},
              pending : {"none", "CANCELLED", "UNKNOWN_OUTCOME"},
              due : {"none", "now", "grace"}, stop : {0, 1}, blocked : BOOLEAN,
              outcome : {"none", "CLOSED", "CANCELLED", "UNKNOWN_OUTCOME"}]
  /\ task \in [phase : {"READY", "DISPATCHED", "RETRY_PENDING", "DONE", "SUPERSEDED",
                        "RECONCILING", "CANCELLED", "UNKNOWN_OUTCOME"},
               active : Attempts \cup {NoAttempt}]
  /\ att \in [Attempts -> AttemptRows]
  /\ os \in [Attempts -> ProcessRows]
  /\ wk \in [Attempts -> WorkerSteps]
  /\ sup \in [att : Attempts \cup {NoAttempt}, rung : Rungs \cup {"idle"}]
  /\ limits \in [attempts : 1 .. MaxAttempts, faults : Nat]

\* A proof of termination is never false: once the store holds one for a registered
\* process, nothing of its tree runs, not even a child that left the group.
ProofIsTrue ==
  \A a \in Attempts : att[a].owner /\ att[a].confirmed = "yes" => ~Alive(a)

\* A retry never overlaps the process it replaces: at most one attempt's workload runs
\* or is about to, whatever lease expiry, lost acknowledgement or dead worker came before.
NoOverlap ==
  \A a, b \in Attempts : Workload(a) /\ Workload(b) => a = b

\* A job that ends other than as unknown leaves no program of its own behind.
EndedMeansDead ==
  job.outcome \in {"CLOSED", "CANCELLED"} => \A a \in Attempts : ~Workload(a)

\* A claimed attempt comes to an end, though its worker is dead, its tree lives on or
\* nobody can tell whether it does.
AttemptsEnd == []<>(\A a \in Attempts : ~InProgress(a))

\* Two proofs of exit that the barrier does not accept: the normal receipt of a process
\* that a later stop, or a later lease expiry, overtook.
Torn(a) ==
  /\ att[a].exitReceipt = "normal"
  /\ att[a].stop > 0 \/ (att[a].fenced /\ att[a].outcome = "WORKER_LOST")

\* A stopped job gets its verdict, unless such a proof stands in its way.
StopSettles ==
  job.control = "STOP_REQUESTED" ~> (~Open \/ \E a \in Attempts : Torn(a))

-----------------------------------------------------------------------------
(* The inductive invariant behind ProofIsTrue, NoOverlap, EndedMeansDead    *)
(* and ReleasedFirst.                                                       *)

\* No program runs that the store did not let go: its owner is registered and its
\* release committed before START leaves the worker.
ReleasedFirst == \A a \in Attempts : Workload(a) => att[a].owner /\ att[a].released

\* The row of an attempt and its owner.
RowAgrees(a) ==
  /\ att[a].life \in {"RUNNING", "STOP_REQUESTED"} => att[a].owner
  /\ att[a].life \in {"ABSENT", "LEASED"} => ~att[a].owner /\ att[a].confirmed = "null"
  /\ att[a].life = "ABSENT" => wk[a] = "none" /\ os[a] = NoProcess

\* What the worker knows of its row and of its processes.
WorkerAgrees(a) ==
  /\ wk[a] \in {"none", "claimed", "prepared"} => ~att[a].owner
  /\ wk[a] \in {"none", "claimed"} => os[a] = NoProcess
  /\ wk[a] \in {"registered", "released", "running", "stopping", "waiting", "proven"}
                \cup Rungs
       => att[a].owner
  /\ wk[a] = "prepared" => os[a].wrapper # "none"
  /\ wk[a] = "released" => att[a].released
  /\ wk[a] = "proven" => ~Alive(a)

\* Processes start in order: wrapper, owner, release, START, target, children.
ProcessAgrees(a) ==
  /\ att[a].owner => os[a].wrapper # "none"
  /\ os[a].wrapper = "none" => os[a] = NoProcess
  /\ os[a].wrapper = "started" \/ os[a].ordered \/ os[a].target # "none" \/ os[a].kid # "none"
       => att[a].owner /\ att[a].released
  /\ os[a].ordered => os[a].wrapper = "inert"
  /\ os[a].wrapper = "inert" => os[a].target = "none"
  /\ os[a].result => os[a].target = "dead"

\* An attempt that can have no process any more, as far as the store can tell.
Accounted(a) ==
  /\ att[a].life \in {"ABSENT", "FINISHED"}
  /\ att[a].owner => att[a].confirmed = "yes"

\* One attempt at a time is not accounted for, and none where a retry, or an end
\* of the job other than unknown, was granted.
AtMostOne == \A a, b \in Attempts : ~Accounted(a) /\ ~Accounted(b) => a = b
GrantsAreSafe ==
  task.phase \in {"READY", "RETRY_PENDING", "DONE"} \/ job.outcome \in {"CLOSED", "CANCELLED"}
    => \A a \in Attempts : Accounted(a)

\* A stopped job that is still open knows the verdict it is heading for.
VerdictPending == job.control = "STOP_REQUESTED" /\ Open => job.pending # "none"
Climbing == sup # Idle => sup.att \in Attempts /\ sup.rung \in Rungs

Inductive ==
  /\ TypeOK
  /\ \A a \in Attempts : RowAgrees(a) /\ WorkerAgrees(a) /\ ProcessAgrees(a)
  /\ ProofIsTrue
  /\ AtMostOne /\ GrantsAreSafe
  /\ VerdictPending /\ Climbing
=============================================================================
