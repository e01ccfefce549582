-------------------------- MODULE AttemptAuthority --------------------------
(***************************************************************************)
(* The execution authority of one flat job of Durable Orchestration V2:    *)
(* one job, its single SERIAL root task, the task's attempts, the workers  *)
(* that execute them and the lane, reconciler and control commands that    *)
(* race with them.  Source: src/src/mastra/orchestration/store/.           *)
(*                                                                         *)
(* Every store operation is one MongoDB snapshot transaction that touches  *)
(* the job's stateVersion, so each is one atomic action here.  What is NOT *)
(* atomic stays apart: a worker's claim, start, business work, marker and  *)
(* submit; a lane's wake, read and commit; every reconciler reducer.       *)
(*                                                                         *)
(* Time is abstracted to the comparisons the code makes.  A stored instant *)
(* is a flag saying whether $$NOW has passed it, and separate actions let  *)
(* it pass: att[a].clock is the last of an attempt's three deadlines that  *)
(* has passed (business < work < hard), att[a].lease the lease, job.grace  *)
(* the stop-grace instant, task.backoff retryNotBefore.                    *)
(*                                                                         *)
(* The job starts planned: its root task is READY and a wake is pending.   *)
(* planVersion never changes.  The task is in the direct-apply mode (no    *)
(* resultApplyMode), workers are in-process (processOwner is null), a      *)
(* question is for the user or an approval, and the STOP_TERMINAL          *)
(* activation that owns the flat reduction is abstracted to the atomicity  *)
(* of ReduceFlatTerminal.                                                  *)
(***************************************************************************)
EXTENDS Integers, FiniteSets, FiniteSetsExt

CONSTANTS
  MaxDispatch,   \* bound: attempts the store may mint for the task
  MaxLosses,     \* opts.maxAttempts of reapExpiredLeases
  MaxPauses,     \* bound: pause commands of the owner
  MaxQuestions,  \* bound: attempts whose producer answers `blocked`
  Workers,       \* worker slots, of any process
  Lanes,         \* processes that drain the lane
  Payloads,      \* producer answers a worker may return
  RetryBackoff   \* opts.retryBackoffMs > 0

AllPayloads ==
  {"ok", "partial", "failed", "timed_out", "cancelled", "unknown_outcome", "invalid",
   "blocked_user", "blocked_approval"}

ASSUME BoundsAssumption ==
  /\ MaxDispatch \in Nat \ {0}
  /\ MaxLosses \in Nat \ {0}
  /\ MaxPauses \in Nat
  /\ MaxQuestions \in Nat
ASSUME PayloadsAssumption == Payloads \subseteq AllPayloads
ASSUME BackoffAssumption == RetryBackoff \in BOOLEAN

Attempts == 1 .. MaxDispatch
NoAttempt == 0
None == "none"

Lifecycles == {"ABSENT", "QUEUED", "LEASED", "RUNNING", "STOP_REQUESTED", "FINISHED"}
LiveAttempt == {"QUEUED", "LEASED", "RUNNING", "STOP_REQUESTED"}
Controls == {"NONE", "PAUSE_REQUESTED", "STOP_REQUESTED"}
TerminalTaskPhases ==
  {"SUCCEEDED", "PARTIAL", "FAILED", "BLOCKED", "TIMED_OUT", "CANCELLED",
   "SUPERSEDED", "UNKNOWN_OUTCOME"}
TaskPhases == TerminalTaskPhases \cup
  {"READY", "DISPATCHED", "RETRY_PENDING", "WAITING_INPUT", "RECONCILING"}
JobOutcomes ==
  {"COMPLETED", "PARTIAL", "FAILED", "TIMED_OUT", "CANCELLED", "BLOCKED", "UNKNOWN_OUTCOME"}
JobPhases == {"READY", "AWAITING_USER", "AWAITING_APPROVAL", "RECONCILING", "TERMINAL"}
AttemptOutcomes ==
  {"OK", "PARTIAL", "FAILED", "TIMED_OUT", "BLOCKED", "CANCELLED", "WORKER_LOST",
   "UNKNOWN_OUTCOME"}
Stages == {"idle", "claimed", "working", "returned", "marked"}

VARIABLES
  job,      \* the job document
  task,     \* its root task document
  att,      \* the attempt documents, by attempt number
  result,   \* the results collection: one row at most per attempt
  request,  \* the control request: NONE, OPEN, or OPEN past its expiresAt
  timers,   \* PENDING retry timers, by whether fireAt has passed
  wakes,    \* generations of the PENDING LaneWakeRequested outbox rows
  held,     \* what each worker slot remembers of the attempt it claimed
  lane      \* what each lane process remembers of the wake it claimed

vars == <<job, task, att, result, request, timers, wakes, held, lane>>

Idle == [att |-> NoAttempt, fence |-> 0, stage |-> "idle", payload |-> None]
Asleep == [gen |-> 0, step |-> "asleep"]

AbsentAttempt ==
  [lifecycle |-> "ABSENT", outcome |-> None, fence |-> 0, owner |-> None,
   lease |-> "none", clock |-> "open", pauseGen |-> 0, jobStopGen |-> 0,
   taskStopGen |-> 0, finishCurrent |-> -1, readyPause |-> -1,
   stopGen |-> 0, jobStopGenAtStop |-> -1]

Init ==
  /\ job = [control |-> "NONE", phase |-> "READY", outcome |-> None, pending |-> None,
            pauseGen |-> 0, stopGen |-> 0, gen |-> 0, grace |-> "none"]
  /\ task = [phase |-> "READY", control |-> "NONE", active |-> NoAttempt,
             stopGen |-> 0, ready |-> NoAttempt, backoff |-> "none"]
  /\ att = [a \in Attempts |-> AbsentAttempt]
  /\ result = [a \in Attempts |-> None]
  /\ request = "NONE"
  /\ timers = {}
  /\ wakes = {0}
  /\ held = [w \in Workers |-> Idle]
  /\ lane = [l \in Lanes |-> Asleep]

-----------------------------------------------------------------------------
(* Authority the transactions re-establish before they write.              *)

Open == job.outcome = None
TaskTerminal == task.phase \in TerminalTaskPhases

\* The job filter of claim, start, marker: no control, no newer pause or stop.
JobGrants(a) ==
  /\ Open
  /\ job.control = "NONE"
  /\ job.pauseGen = att[a].pauseGen
  /\ job.stopGen = att[a].jobStopGen

\* The task filter, with the value activeAttemptId must have.
TaskGrants(a, active) ==
  /\ task.phase = "DISPATCHED"
  /\ task.control = "NONE"
  /\ task.stopGen = att[a].taskStopGen
  /\ task.active = active

\* The caller still owns the exact admission it claimed.
Owns(w, lifecycles) ==
  LET a == held[w].att IN
  /\ a \in Attempts
  /\ att[a].lifecycle \in lifecycles
  /\ att[a].owner = w
  /\ att[a].fence = held[w].fence

\* FINISHED drops the owner and the lease.
Finish(a, outcome, fence) ==
  [att[a] EXCEPT !.lifecycle = "FINISHED", !.outcome = outcome, !.fence = fence,
                 !.owner = None, !.lease = "none"]

\* The projection of the attempt in its task is cleared with the binding.
Unbind(phase) ==
  [task EXCEPT !.phase = phase, !.active = NoAttempt, !.ready = NoAttempt,
               !.backoff = "none"]

Wake(g) == wakes' = wakes \cup {g}

-----------------------------------------------------------------------------
(* The lane: claimNextWake, laneStep, advanceJobFromTasks, dispatchAttempt. *)

\* The oldest PENDING wake is published; only a current one becomes authority.
LaneClaimsWake(l) ==
  /\ lane[l].step = "asleep"
  /\ wakes # {}
  /\ LET g == Min(wakes) IN
     /\ wakes' = wakes \ {g}
     /\ lane' = IF g = job.gen THEN [lane EXCEPT ![l] = [gen |-> g, step |-> "read"]]
                               ELSE lane
  /\ UNCHANGED <<job, task, att, result, request, timers, held>>

\* Mutant: the lane looks at retryNotBefore as if the timer cleared it.
RetryIsDueIfCleared == task.phase = "RETRY_PENDING" /\ task.backoff = "none"

RetryIsDue == task.phase = "RETRY_PENDING" /\ task.backoff # "future"
SomeAttemptLive == \E a \in Attempts : att[a].lifecycle \in LiveAttempt

\* What laneStep decides from its reads outside any transaction.  The decision is
\* a hint: the transaction of the chosen step re-reads everything it relies on.
LaneDecision(l) ==
  IF job.gen # lane[l].gen \/ ~Open \/ job.control = "STOP_REQUESTED" THEN "asleep"
  ELSE IF TaskTerminal THEN "advance"
  ELSE IF job.control = "NONE" /\ (task.phase = "READY" \/ RetryIsDue) /\ ~SomeAttemptLive
       THEN "dispatch"
  ELSE "asleep"

LaneReads(l) ==
  /\ lane[l].step = "read"
  /\ lane' = [lane EXCEPT ![l].step = LaneDecision(l)]
  /\ UNCHANGED <<job, task, att, result, request, timers, wakes, held>>

OutcomeOfTask ==
  CASE task.phase = "SUCCEEDED"  -> "COMPLETED"
    [] task.phase = "SUPERSEDED" -> "UNKNOWN_OUTCOME"
    [] OTHER -> task.phase

AdvanceGranted(l) ==
  /\ job.gen = lane[l].gen
  /\ Open
  /\ job.control # "STOP_REQUESTED"
  /\ job.phase # "AWAITING_USER"
  /\ TaskTerminal

\* advanceJobFromTasks, re-checked in its transaction; otherwise the step waits.
LaneAdvances(l) ==
  /\ lane[l].step = "advance"
  /\ lane' = [lane EXCEPT ![l] = Asleep]
  /\ IF AdvanceGranted(l)
     THEN job' = [job EXCEPT !.phase = "TERMINAL", !.outcome = OutcomeOfTask,
                             !.gen = @ + 1, !.stopGen = @ + 1]
     ELSE job' = job
  /\ UNCHANGED <<task, att, result, request, timers, wakes, held>>

\* The next attempt number: one more than the last minted one.
NextAttempt == Cardinality({a \in Attempts : att[a].lifecycle # "ABSENT"}) + 1

\* Mutants: the transaction re-reads the job but not the task, or the reverse.
DispatchGrantedByJob(l) == Open /\ job.control = "NONE" /\ job.gen = lane[l].gen
DispatchGrantedByTask(l) ==
  /\ task.phase \in {"READY", "RETRY_PENDING"}
  /\ task.control = "NONE"
  /\ task.active = NoAttempt
  /\ Open

DispatchGranted(l) ==
  /\ task.phase \in {"READY", "RETRY_PENDING"}
  /\ task.control = "NONE"
  /\ task.active = NoAttempt
  /\ Open
  /\ job.control = "NONE"
  /\ job.gen = lane[l].gen

\* dispatchAttempt freezes the authority the attempt will be checked against.
LaneDispatches(l) ==
  /\ lane[l].step = "dispatch"
  /\ DispatchGranted(l)
  /\ NextAttempt \in Attempts
  /\ att' = [att EXCEPT ![NextAttempt] =
               [AbsentAttempt EXCEPT !.lifecycle = "QUEUED",
                                     !.pauseGen = job.pauseGen,
                                     !.jobStopGen = job.stopGen,
                                     !.taskStopGen = task.stopGen]]
  /\ task' = [task EXCEPT !.phase = "DISPATCHED", !.ready = NoAttempt]
  /\ lane' = [lane EXCEPT ![l].step = "read"]
  /\ UNCHANGED <<job, result, request, timers, wakes, held>>

\* AttemptDispatchAuthorityLostError: the step waits.
LaneLosesDispatch(l) ==
  /\ lane[l].step = "dispatch"
  /\ ~DispatchGranted(l)
  /\ lane' = [lane EXCEPT ![l] = Asleep]
  /\ UNCHANGED <<job, task, att, result, request, timers, wakes, held>>

\* The process dies between consuming the wake and finishing the step.
LaneCrashes(l) ==
  /\ lane[l].step # "asleep"
  /\ lane' = [lane EXCEPT ![l] = Asleep]
  /\ UNCHANGED <<job, task, att, result, request, timers, wakes, held>>

-----------------------------------------------------------------------------
(* The worker: runWorkerOnce around claim, start, heartbeat, marker and A.  *)

Claim(w, a) ==
  /\ held[w].stage = "idle"
  /\ att[a].lifecycle = "QUEUED"
  /\ JobGrants(a)
  /\ TaskGrants(a, NoAttempt)
  /\ att[a].clock = "open"
  /\ att' = [att EXCEPT ![a].lifecycle = "LEASED", ![a].owner = w,
                        ![a].fence = @ + 1, ![a].lease = "live"]
  /\ task' = [task EXCEPT !.active = a]
  /\ held' = [held EXCEPT ![w] = [att |-> a, fence |-> att[a].fence + 1,
                                  stage |-> "claimed", payload |-> None]]
  /\ UNCHANGED <<job, result, request, timers, wakes, lane>>

Start(w) ==
  LET a == held[w].att IN
  /\ held[w].stage = "claimed"
  /\ Owns(w, {"LEASED"})
  /\ JobGrants(a)
  /\ TaskGrants(a, a)
  /\ att[a].lease = "live"
  /\ att[a].clock = "open"
  /\ att' = [att EXCEPT ![a].lifecycle = "RUNNING"]
  /\ held' = [held EXCEPT ![w].stage = "working"]
  /\ UNCHANGED <<job, task, result, request, timers, wakes, lane>>

\* A heartbeat that lands: only a lease that is still live can be extended, so
\* what it does here is to postpone LeaseExpires.
RenewLease(w) ==
  LET a == held[w].att IN
  /\ Owns(w, {"LEASED", "RUNNING"})
  /\ att[a].lease = "live"
  /\ att[a].clock # "hard"
  /\ att' = [att EXCEPT ![a].lease = "live"]
  /\ UNCHANGED <<job, task, result, request, timers, wakes, held, lane>>

Blocked(p) == p \in {"blocked_user", "blocked_approval"}
QuestionsAsked == Cardinality({a \in Attempts : att[a].outcome = "BLOCKED"})

\* The business work ends with some producer answer.
WorkReturns(w, p) ==
  /\ held[w].stage = "working"
  /\ Blocked(p) => QuestionsAsked < MaxQuestions
  /\ held' = [held EXCEPT ![w].stage = "returned", ![w].payload = p]
  /\ UNCHANGED <<job, task, att, result, request, timers, wakes, lane>>

\* PAYLOAD_READY_STATUSES: the answers that need the marker before A.
RequiresPayloadReady(p) ==
  p \in {"ok", "partial", "failed", "blocked_user", "blocked_approval"}

MarkerGranted(w) ==
  LET a == held[w].att IN
  /\ Owns(w, {"RUNNING"})
  /\ JobGrants(a)
  /\ TaskGrants(a, a)
  /\ att[a].lease = "live"
  /\ att[a].clock = "open"

MarkPayloadReady(w) ==
  LET a == held[w].att IN
  /\ held[w].stage = "returned"
  /\ RequiresPayloadReady(held[w].payload)
  /\ att[a].readyPause = -1
  /\ MarkerGranted(w)
  /\ att' = [att EXCEPT ![a].readyPause = job.pauseGen]
  /\ task' = [task EXCEPT !.ready = a]
  /\ held' = [held EXCEPT ![w].stage = "marked"]
  /\ UNCHANGED <<job, result, request, timers, wakes, lane>>

\* An answer outside PAYLOAD_READY_STATUSES goes to A without a marker.
NoMarkerNeeded(w) ==
  /\ held[w].stage = "returned"
  /\ ~RequiresPayloadReady(held[w].payload)
  /\ held' = [held EXCEPT ![w].stage = "marked"]
  /\ UNCHANGED <<job, task, att, result, request, timers, wakes, lane>>

\* Mutant: one producer status reaches the attempt untranslated.
AttemptOutcomeUnmapped ==
  [ok |-> "OK", partial |-> "PARTIAL", failed |-> "FAILED", timed_out |-> "TIMED_OUT",
   cancelled |-> "CANCELLED", unknown_outcome |-> "unknown_outcome",
   invalid |-> "FAILED", blocked_user |-> "BLOCKED", blocked_approval |-> "BLOCKED"]

AttemptOutcomeOf ==
  [ok |-> "OK", partial |-> "PARTIAL", failed |-> "FAILED", timed_out |-> "TIMED_OUT",
   cancelled |-> "CANCELLED", unknown_outcome |-> "UNKNOWN_OUTCOME",
   invalid |-> "FAILED", blocked_user |-> "BLOCKED", blocked_approval |-> "BLOCKED"]

\* Mutant: a timed-out answer is taken as a reason to retry.
TaskPhaseRetryingTimeout ==
  [ok |-> "SUCCEEDED", partial |-> "PARTIAL", failed |-> "FAILED",
   timed_out |-> "RETRY_PENDING", cancelled |-> "CANCELLED",
   unknown_outcome |-> "UNKNOWN_OUTCOME", invalid |-> "FAILED",
   blocked_user |-> "WAITING_INPUT", blocked_approval |-> "WAITING_INPUT"]

TaskPhaseOf ==
  [ok |-> "SUCCEEDED", partial |-> "PARTIAL", failed |-> "FAILED",
   timed_out |-> "TIMED_OUT", cancelled |-> "CANCELLED",
   unknown_outcome |-> "UNKNOWN_OUTCOME", invalid |-> "FAILED",
   blocked_user |-> "WAITING_INPUT", blocked_approval |-> "WAITING_INPUT"]

JobPhaseOf == [blocked_user |-> "AWAITING_USER", blocked_approval |-> "AWAITING_APPROVAL"]

\* The job still takes a's result: unpaused since the marker (or the dispatch),
\* or under the very pause that captured the attempt as finish-current.
JobTakesResult(a) ==
  LET marked == att[a].readyPause >= 0 IN
  /\ Open
  /\ job.stopGen = att[a].jobStopGen
  /\ \/ /\ job.control = "NONE"
        /\ job.pauseGen = IF marked THEN att[a].readyPause ELSE att[a].pauseGen
     \/ /\ job.control = "PAUSE_REQUESTED"
        /\ job.pauseGen = att[a].finishCurrent

TaskTakesResult(a) ==
  /\ TaskGrants(a, a)
  /\ att[a].readyPause >= 0 => task.ready = a

\* A: finish the attempt, publish its result and move task and job in one commit.
SubmitResult(w) ==
  LET a == held[w].att
      p == held[w].payload IN
  /\ held[w].stage = "marked"
  /\ Owns(w, {"RUNNING"})
  /\ RequiresPayloadReady(p) => att[a].readyPause >= 0
  /\ JobTakesResult(a)
  /\ TaskTakesResult(a)
  /\ att[a].lease = "live"
  /\ att[a].clock \in {"open", "cutoff"}
  /\ att' = [att EXCEPT ![a] = Finish(a, AttemptOutcomeOf[p], @.fence)]
  /\ task' = [task EXCEPT !.phase = TaskPhaseOf[p], !.active = NoAttempt]
  /\ result' = IF p = "invalid" THEN result ELSE [result EXCEPT ![a] = p]
  /\ held' = [held EXCEPT ![w] = Idle]
  /\ IF Blocked(p)
     THEN /\ job' = [job EXCEPT !.phase = JobPhaseOf[p]]
          /\ request' = "OPEN"
          /\ wakes' = wakes
     ELSE /\ Wake(job.gen)
          /\ UNCHANGED <<job, request>>
  /\ UNCHANGED <<timers, lane>>

\* The worker stops: refused by a store operation, heartbeat lost, or crashed.
Abandon(w) ==
  /\ held[w].stage # "idle"
  /\ held' = [held EXCEPT ![w] = Idle]
  /\ UNCHANGED <<job, task, att, result, request, timers, wakes, lane>>

-----------------------------------------------------------------------------
(* The clock: stored instants pass.                                        *)

LeaseExpires(a) ==
  /\ att[a].lease = "live"
  /\ att' = [att EXCEPT ![a].lease = "expired"]
  /\ UNCHANGED <<job, task, result, request, timers, wakes, held, lane>>

NextDeadline == [open |-> "cutoff", cutoff |-> "work", work |-> "hard"]

\* Leases and the stop grace never outlive hardDeadlineAt.
DeadlinePasses(a) ==
  /\ att[a].lifecycle \in LiveAttempt
  /\ att[a].clock # "hard"
  /\ LET passed == NextDeadline[att[a].clock] IN
     /\ att' = [att EXCEPT ![a].clock = passed,
                           ![a].lease = IF passed = "hard" /\ @ = "live" THEN "expired" ELSE @]
     /\ job' = IF passed = "hard" /\ att[a].lifecycle = "STOP_REQUESTED"
               THEN [job EXCEPT !.grace = "due"] ELSE job
  /\ UNCHANGED <<task, result, request, timers, wakes, held, lane>>

GraceExpires ==
  /\ job.grace = "pending"
  /\ job' = [job EXCEPT !.grace = "due"]
  /\ UNCHANGED <<task, att, result, request, timers, wakes, held, lane>>

BackoffElapses ==
  /\ task.backoff = "future"
  /\ task' = [task EXCEPT !.backoff = "due"]
  /\ timers' = {"due" : t \in timers}
  /\ UNCHANGED <<job, att, result, request, wakes, held, lane>>

RequestDeadlinePasses ==
  /\ request = "OPEN"
  /\ request' = "OPEN_DUE"
  /\ UNCHANGED <<job, task, att, result, timers, wakes, held, lane>>

-----------------------------------------------------------------------------
(* The reconciler: one action per reducer transaction.                      *)

FireRetryTimer ==
  /\ "due" \in timers
  /\ timers' = timers \ {"due"}
  /\ IF Open THEN Wake(job.gen) ELSE UNCHANGED wakes
  /\ UNCHANGED <<job, task, att, result, request, held, lane>>

\* expireQueuedAttempts: the admission waited past its business cutoff.
ExpireQueued(a) ==
  /\ att[a].lifecycle = "QUEUED"
  /\ att[a].clock # "open"
  /\ att' = [att EXCEPT ![a] = Finish(a, "FAILED", @.fence + 1)]
  /\ IF TaskTerminal THEN UNCHANGED <<task, wakes>>
     ELSE IF Open /\ job.control = "NONE" /\ job.pauseGen = att[a].pauseGen
     THEN /\ task.phase = "DISPATCHED" /\ task.control = "NONE" /\ task.active = NoAttempt
          /\ task' = Unbind("FAILED")
          /\ Wake(job.gen)
     ELSE /\ task' = IF task.phase = "DISPATCHED" /\ task.active = NoAttempt
                     THEN Unbind(IF Open THEN "SUPERSEDED" ELSE "CANCELLED") ELSE task
          /\ wakes' = wakes
  /\ UNCHANGED <<job, result, request, timers, held, lane>>

LossesAfter(a) == Cardinality({b \in Attempts : att[b].outcome = "WORKER_LOST"} \cup {a})

\* Mutant: the pause that missed the attempt is forgotten.
RetryAuthorityUncaptured(a) ==
  /\ Open
  /\ \/ job.control = "NONE" /\ job.pauseGen = att[a].pauseGen
     \/ job.control = "PAUSE_REQUESTED" /\ att[a].finishCurrent = job.pauseGen

\* Whether the reaper may still retry the task: unpaused since the dispatch, the
\* pause that captured the attempt, or the one pause that missed capturing it.
RetryAuthority(a) ==
  /\ Open
  /\ \/ job.control = "NONE" /\ job.pauseGen = att[a].pauseGen
     \/ /\ job.control = "PAUSE_REQUESTED"
        /\ \/ att[a].finishCurrent = job.pauseGen
           \/ att[a].finishCurrent = -1 /\ job.pauseGen = att[a].pauseGen + 1

\* Mutant: a finish-current attempt is left to its worker.
ReapableUncaptured(a) ==
  /\ att[a].lifecycle \in {"LEASED", "RUNNING"}
  /\ att[a].lease = "expired"
  /\ att[a].finishCurrent = -1

Reapable(a) == att[a].lifecycle \in {"LEASED", "RUNNING"} /\ att[a].lease = "expired"

\* reapExpiredLeases on an owner nobody asked to stop: the worker is lost.
ReapLostWorker(a) ==
  /\ Reapable(a)
  /\ att' = [att EXCEPT ![a] = Finish(a, "WORKER_LOST", @.fence + 1)]
  /\ IF TaskTerminal \/ task.active # a THEN UNCHANGED <<task, timers, wakes>>
     ELSE IF ~RetryAuthority(a)
     THEN /\ task' = Unbind(IF Open THEN "SUPERSEDED" ELSE "CANCELLED")
          /\ UNCHANGED <<timers, wakes>>
     ELSE IF LossesAfter(a) >= MaxLosses
     THEN /\ task' = Unbind("FAILED")
          /\ Wake(job.gen)
          /\ timers' = timers
     ELSE IF RetryBackoff
     THEN /\ task' = [Unbind("RETRY_PENDING") EXCEPT !.backoff = "future"]
          /\ timers' = timers \cup {"future"}
          /\ wakes' = wakes
     ELSE /\ task' = Unbind("RETRY_PENDING")
          /\ Wake(job.gen)
          /\ timers' = timers
  /\ UNCHANGED <<job, result, request, held, lane>>

\* reapExpiredLeases on a stopping owner without proof: fail closed, no retry.
ReapUnconfirmed(a) ==
  /\ att[a].lifecycle = "STOP_REQUESTED"
  /\ att[a].lease = "expired"
  /\ att' = [att EXCEPT ![a] = Finish(a, "UNKNOWN_OUTCOME", @.fence + 1)]
  /\ task' = IF ~TaskTerminal /\ task.active = a THEN Unbind("RECONCILING") ELSE task
  /\ job' = IF Open
            THEN [job EXCEPT !.phase = "RECONCILING",
                             !.pending = IF job.control = "STOP_REQUESTED"
                                         THEN "UNKNOWN_OUTCOME" ELSE @]
            ELSE job
  /\ timers' = {}
  /\ UNCHANGED <<result, request, wakes, held, lane>>

\* The stop still owns task and job as it left them (moveTaskAndJobToReconciling).
StopOwnsAggregate(a) ==
  /\ Open
  /\ job.stopGen = att[a].jobStopGenAtStop
  /\ task.active = a
  /\ ~TaskTerminal
  /\ IF job.control = "STOP_REQUESTED"
     THEN task.control = "STOP_REQUESTED" /\ task.stopGen = att[a].taskStopGen + 1
     ELSE task.control = "NONE" /\ task.stopGen = att[a].taskStopGen

\* fireDueAttemptStopTimers: the grace ran out and no receipt arrived.
FireStopGrace(a) ==
  /\ att[a].lifecycle = "STOP_REQUESTED"
  /\ job.grace = "due"
  /\ att' = [att EXCEPT ![a] = Finish(a, "UNKNOWN_OUTCOME", @.fence + 1)]
  /\ IF StopOwnsAggregate(a)
     THEN /\ task' = Unbind("RECONCILING")
          /\ job' = [job EXCEPT !.phase = "RECONCILING",
                                !.pending = IF job.control = "STOP_REQUESTED"
                                            THEN "UNKNOWN_OUTCOME" ELSE @]
     ELSE UNCHANGED <<task, job>>
  /\ UNCHANGED <<result, request, timers, wakes, held, lane>>

\* expireStaleRequests: the question was not answered in time.
ExpireRequest ==
  /\ request = "OPEN_DUE"
  /\ Open
  /\ job.control # "STOP_REQUESTED"
  /\ task.phase = "WAITING_INPUT"
  /\ task.control = "NONE"
  /\ request' = "NONE"
  /\ task' = [task EXCEPT !.phase = "TIMED_OUT"]
  /\ Wake(job.gen)
  /\ UNCHANGED <<job, att, result, timers, held, lane>>

\* reWakeStuckJobs: nobody else holds the job's demand.
ReWake ==
  /\ Open
  /\ job.control = "NONE"
  /\ job.phase \in {"AWAITING_USER", "AWAITING_APPROVAL"} => request = "NONE"
  /\ job.gen \notin wakes
  /\ ~SomeAttemptLive
  /\ job.phase # "RECONCILING"
  /\ timers = {}
  /\ Wake(job.gen)
  /\ UNCHANGED <<job, task, att, result, request, timers, held, lane>>

Settled(a) == att[a].lifecycle \in {"ABSENT", "FINISHED"}

\* inspectAttemptSettlement accepts an in-process attempt of unknown fate only when
\* a stop left it so.  Any other shape persists BLOCKED_UNSUPPORTED, and the job
\* stays where it is: the reduction below is then never enabled.
Accountable(a) == att[a].outcome = "UNKNOWN_OUTCOME" => att[a].stopGen > 0

\* Mutant: the reduction asks the task alone.
UncertainTask == task.phase = "UNKNOWN_OUTCOME"

Uncertain ==
  \/ job.pending = "UNKNOWN_OUTCOME"
  \/ task.phase = "UNKNOWN_OUTCOME"
  \/ \E a \in Attempts : att[a].outcome = "UNKNOWN_OUTCOME"

\* reducePendingFlatTerminalOwnedInSession: the last step of a stop.
ReduceFlatTerminal ==
  /\ Open
  /\ job.control = "STOP_REQUESTED"
  /\ job.phase = "RECONCILING"
  /\ job.pending # None
  /\ request = "NONE"
  /\ timers = {}
  /\ wakes = {}
  /\ \A a \in Attempts : Settled(a) /\ Accountable(a)
  /\ Uncertain => job.grace = "due"
  /\ LET outcome == IF Uncertain THEN "UNKNOWN_OUTCOME" ELSE job.pending IN
     /\ job' = [job EXCEPT !.phase = "TERMINAL", !.outcome = outcome,
                           !.pending = None, !.grace = "none"]
     /\ task' = IF TaskTerminal
                THEN [Unbind(task.phase) EXCEPT !.control = task.control]
                ELSE [Unbind(IF Uncertain THEN "UNKNOWN_OUTCOME" ELSE "CANCELLED")
                        EXCEPT !.control = "STOP_REQUESTED",
                               !.stopGen = IF task.control = "STOP_REQUESTED"
                                           THEN @ ELSE @ + 1]
  /\ UNCHANGED <<att, result, request, timers, wakes, held, lane>>

-----------------------------------------------------------------------------
(* The owner's commands: pauseJob, resumeJob, cancelJob, answerJobRequest.  *)

\* Mutant: the marker does not extend the capture past the business cutoff.
CapturableInTime(a) ==
  /\ att[a].lifecycle = "RUNNING"
  /\ att[a].pauseGen = job.pauseGen
  /\ att[a].lease = "live"
  /\ att[a].clock = "open"

\* A RUNNING attempt that can still finish is captured as finish-current.
Capturable(a) ==
  /\ att[a].lifecycle = "RUNNING"
  /\ att[a].pauseGen = job.pauseGen
  /\ att[a].lease = "live"
  /\ att[a].clock # "hard"
  /\ att[a].clock = "open" \/ att[a].readyPause >= 0

PreStart == {a \in Attempts : /\ att[a].lifecycle \in {"QUEUED", "LEASED"}
                              /\ att[a].pauseGen = job.pauseGen}

\* One transaction: new generations, capture, and pre-start admissions settled,
\* a typed queue expiry when their cutoff is already gone.
Pause ==
  /\ job.pauseGen < MaxPauses
  /\ Open
  /\ job.control = "NONE"
  /\ \A a \in PreStart : /\ task.phase = "DISPATCHED"
                         /\ task.control = "NONE"
                         /\ task.active \in {NoAttempt, a}
  /\ job' = [job EXCEPT !.control = "PAUSE_REQUESTED", !.gen = @ + 1, !.pauseGen = @ + 1]
  /\ att' = [a \in Attempts |->
               IF a \in PreStart
               THEN Finish(a, IF att[a].clock = "open" THEN "CANCELLED" ELSE "FAILED",
                           att[a].fence + 1)
               ELSE IF Capturable(a)
               THEN [att[a] EXCEPT !.finishCurrent = job.pauseGen + 1]
               ELSE att[a]]
  /\ task' = IF PreStart = {} THEN task
             ELSE Unbind(IF \E a \in PreStart : att[a].clock = "open"
                         THEN "READY" ELSE "FAILED")
  /\ Wake(job.gen + 1)
  /\ UNCHANGED <<result, request, timers, held, lane>>

\* Refused (PauseInProgressError) while an attempt is inside the pause barrier.
Resume ==
  /\ Open
  /\ job.control = "PAUSE_REQUESTED"
  /\ \A a \in Attempts : att[a].lifecycle # "RUNNING"
  /\ job' = [job EXCEPT !.control = "NONE", !.gen = @ + 1]
  /\ Wake(job.gen + 1)
  /\ UNCHANGED <<task, att, result, request, timers, held, lane>>

Stoppable == {a \in Attempts : att[a].lifecycle \in {"RUNNING", "STOP_REQUESTED"}}
UnknownAttempts == {a \in Attempts : att[a].outcome = "UNKNOWN_OUTCOME"}

\* Mutant: work past its hard deadline is given no grace instant at all.
GraceUnlessLate ==
  IF \E a \in Stoppable : att[a].clock # "hard" THEN "pending" ELSE "none"

GraceAfterStop ==
  IF \E a \in Stoppable : att[a].clock # "hard" THEN "pending"
  ELSE IF Stoppable \cup UnknownAttempts # {} THEN "due" ELSE "none"

\* The first stop: admissions settle, running work keeps its fence and gets a
\* grace, every other obligation of the job is closed in the same transaction.
Cancel ==
  /\ Open
  /\ job.control # "STOP_REQUESTED"
  /\ job' = [job EXCEPT
       !.control = "STOP_REQUESTED", !.phase = "RECONCILING",
       !.pending = IF UnknownAttempts = {} THEN "CANCELLED" ELSE "UNKNOWN_OUTCOME",
       !.stopGen = @ + 1, !.gen = @ + 1,
       !.grace = GraceAfterStop]
  /\ att' = [a \in Attempts |->
       CASE att[a].lifecycle \in {"QUEUED", "LEASED"} ->
              Finish(a, "CANCELLED", att[a].fence + 1)
         [] att[a].lifecycle = "RUNNING" ->
              [att[a] EXCEPT !.lifecycle = "STOP_REQUESTED", !.stopGen = @ + 1,
                             !.jobStopGenAtStop = job.stopGen + 1]
         [] OTHER -> att[a]]
  /\ task' = IF TaskTerminal THEN task
             ELSE IF UnknownAttempts # {}
             THEN [Unbind("RECONCILING") EXCEPT !.control = "STOP_REQUESTED", !.stopGen = @ + 1]
             ELSE IF Stoppable = {} THEN Unbind("CANCELLED")
             ELSE IF task.active \in Stoppable
             THEN [Unbind("RECONCILING") EXCEPT !.active = task.active,
                     !.control = "STOP_REQUESTED", !.stopGen = @ + 1]
             ELSE task
  /\ timers' = {}
  /\ request' = "NONE"
  /\ wakes' = {}
  /\ UNCHANGED <<result, held, lane>>

\* The owner answers in time: the task may run again, even while paused.
Answer ==
  /\ request = "OPEN"
  /\ Open
  /\ job.control # "STOP_REQUESTED"
  /\ task.phase = "WAITING_INPUT"
  /\ task.control = "NONE"
  /\ request' = "NONE"
  /\ task' = [task EXCEPT !.phase = "RETRY_PENDING", !.backoff = "none"]
  /\ job' = [job EXCEPT !.phase = "READY"]
  /\ Wake(job.gen)
  /\ UNCHANGED <<att, result, timers, held, lane>>

-----------------------------------------------------------------------------
Next ==
  \/ \E l \in Lanes : LaneClaimsWake(l) \/ LaneReads(l) \/ LaneAdvances(l)
                      \/ LaneDispatches(l) \/ LaneLosesDispatch(l) \/ LaneCrashes(l)
  \/ \E w \in Workers :
       \/ \E a \in Attempts : Claim(w, a)
       \/ Start(w) \/ (\E p \in Payloads : WorkReturns(w, p))
       \/ RenewLease(w) \/ MarkPayloadReady(w) \/ NoMarkerNeeded(w) \/ SubmitResult(w) \/ Abandon(w)
  \/ \E a \in Attempts :
       \/ LeaseExpires(a) \/ DeadlinePasses(a) \/ ExpireQueued(a)
       \/ ReapLostWorker(a) \/ ReapUnconfirmed(a) \/ FireStopGrace(a)
  \/ GraceExpires \/ BackoffElapses \/ RequestDeadlinePasses
  \/ FireRetryTimer \/ ExpireRequest \/ ReWake \/ ReduceFlatTerminal
  \/ Pause \/ Resume \/ Cancel \/ Answer

Spec == Init /\ [][Next]_vars

\* Time passes, the reconciler ticks (run-service.ts) and every lane process
\* drains what it claims, not crashing at the same point for ever.  Nothing is
\* asked of workers or owners.
Fairness ==
  /\ \A a \in Attempts : /\ WF_vars(LeaseExpires(a)) /\ WF_vars(DeadlinePasses(a))
                         /\ WF_vars(ExpireQueued(a)) /\ WF_vars(ReapLostWorker(a))
                         /\ WF_vars(ReapUnconfirmed(a)) /\ WF_vars(FireStopGrace(a))
  /\ WF_vars(GraceExpires) /\ WF_vars(BackoffElapses) /\ WF_vars(RequestDeadlinePasses)
  /\ WF_vars(FireRetryTimer) /\ WF_vars(ExpireRequest) /\ WF_vars(ReWake)
  /\ WF_vars(ReduceFlatTerminal)
  /\ \A l \in Lanes : /\ WF_vars(LaneClaimsWake(l)) /\ SF_vars(LaneReads(l))
                      /\ SF_vars(LaneAdvances(l))
                      /\ SF_vars(LaneDispatches(l) \/ LaneLosesDispatch(l))
FairSpec == Spec /\ Fairness

-----------------------------------------------------------------------------
(* Properties.                                                             *)

JobDocs ==
  [control : Controls, phase : JobPhases, outcome : JobOutcomes \cup {None},
   pending : {None, "CANCELLED", "UNKNOWN_OUTCOME"}, pauseGen : Nat, stopGen : Nat,
   gen : Nat, grace : {"none", "pending", "due"}]
TaskDocs ==
  [phase : TaskPhases, control : {"NONE", "STOP_REQUESTED"},
   active : Attempts \cup {NoAttempt}, stopGen : Nat, ready : Attempts \cup {NoAttempt},
   backoff : {"none", "future", "due"}]
AttemptDocs ==
  [lifecycle : Lifecycles, outcome : AttemptOutcomes \cup {None}, fence : Nat,
   owner : Workers \cup {None}, lease : {"none", "live", "expired"},
   clock : {"open", "cutoff", "work", "hard"}, pauseGen : Nat, jobStopGen : Nat,
   taskStopGen : Nat, finishCurrent : Nat \cup {-1}, readyPause : Nat \cup {-1},
   stopGen : Nat, jobStopGenAtStop : Nat \cup {-1}]
Memories ==
  [att : Attempts \cup {NoAttempt}, fence : Nat, stage : Stages, payload : Payloads \cup {None}]
LaneMemories == [gen : Nat, step : {"asleep", "read", "advance", "dispatch"}]

\* Every document, memory slot and queue holds values of its type.
TypeOK ==
  /\ job \in JobDocs
  /\ task \in TaskDocs
  /\ att \in [Attempts -> AttemptDocs]
  /\ result \in [Attempts -> Payloads \cup {None}]
  /\ request \in {"NONE", "OPEN", "OPEN_DUE"}
  /\ timers \subseteq {"future", "due"}
  /\ wakes \subseteq Nat
  /\ held \in [Workers -> Memories]
  /\ lane \in [Lanes -> LaneMemories]

Live(a) == att[a].lifecycle \in LiveAttempt

\* A task never has two live attempts, whatever lanes, workers and reapers race,
\* and the binding in the task names the one that may have effects.
SingleExecution ==
  /\ \A a, b \in Attempts : Live(a) /\ Live(b) => a = b
  /\ \A a \in Attempts :
       /\ att[a].lifecycle = "QUEUED" => task.phase = "DISPATCHED" /\ task.active = NoAttempt
       /\ att[a].lifecycle \in {"LEASED", "RUNNING"} =>
            task.phase = "DISPATCHED" /\ task.active = a
       /\ att[a].lifecycle = "STOP_REQUESTED" => task.phase = "RECONCILING" /\ task.active = a

\* Pause and stop settle, in their own commit, every admission that has not
\* started: one that is still waiting was dispatched under today's authority.
PreStartUnderCurrentAuthority ==
  \A a \in Attempts : att[a].lifecycle \in {"QUEUED", "LEASED"} => JobGrants(a)

\* The reaper and the queue expiry never take an open job's only task away as
\* SUPERSEDED: one pause, captured or missed, is always still retry authority.
NeverSuperseded == Open => task.phase # "SUPERSEDED"

BusinessAnswers == {a \in Attempts : result[a] # None /\ ~Blocked(result[a])}

Lost == {a \in Attempts : att[a].outcome = "WORKER_LOST"}

\* Frozen work is never stranded: once the marker is durable, a pause cannot make
\* A refuse it while its lease and work deadline hold (finish-current).
FrozenAnswerIsAccepted ==
  \A a \in Attempts :
    /\ att[a].lifecycle = "RUNNING"
    /\ att[a].readyPause >= 0
    /\ att[a].lease = "live"
    /\ att[a].clock \in {"open", "cutoff"}
    => JobTakesResult(a) /\ TaskTakesResult(a)

\* No orphan question and no task that waits for nobody: while the job is open,
\* a task waits for input exactly when a request is open.
QuestionMatchesTask == Open => (request # "NONE" <=> task.phase = "WAITING_INPUT")

\* A terminal job has nothing left that could act: no live attempt, no question,
\* no binding, and every attempt's slot is closed.
TerminalIsSilent ==
  ~Open => /\ \A a \in Attempts : ~Live(a)
           /\ request = "NONE"
           /\ task.active = NoAttempt
           /\ TaskTerminal

\* The verdict is what happened: unknown exactly when some attempt's fate is,
\* in job and task alike; success only for an accepted answer; failure only for a
\* failed one or a budget that lost workers alone have spent.
VerdictIsExplained ==
  ~Open =>
    /\ (job.outcome = "UNKNOWN_OUTCOME") <=> (UnknownAttempts # {})
    /\ (job.outcome = "UNKNOWN_OUTCOME") <=> (task.phase = "UNKNOWN_OUTCOME")
    /\ job.outcome = "COMPLETED" => task.phase = "SUCCEEDED" /\ BusinessAnswers # {}
    /\ task.phase = "FAILED" => \/ \E a \in Attempts : att[a].outcome = "FAILED"
                                \/ Cardinality(Lost) = MaxLosses

\* pause stops new execution: between the pause and the resume no attempt is
\* minted or starts, whatever a lane had already decided or a worker claimed.
PauseAdmitsNothing ==
  [][job.control = "PAUSE_REQUESTED" =>
       \A a \in Attempts :
         /\ att'[a].lifecycle = "QUEUED" => att[a].lifecycle = "QUEUED"
         /\ att'[a].lifecycle = "RUNNING" => att[a].lifecycle = "RUNNING"]_vars

\* Terminal is monotonic: a late lane, worker, reaper or timer changes nothing of
\* a closed job's verdict, its task, its attempts, its question or its results.
VerdictIsFinal ==
  [][~Open =>
       /\ UNCHANGED <<job.outcome, job.phase, job.control, job.gen>>
       /\ UNCHANGED <<task.phase, task.control, task.active, result, request>>
       /\ \A a \in Attempts : /\ att'[a].lifecycle = att[a].lifecycle
                              /\ att'[a].outcome = att[a].outcome
                              /\ att'[a].fence = att[a].fence]_vars

Deliveries == {"ok", "partial", "failed", "timed_out", "cancelled", "unknown_outcome"}
Executing ==
  IF \E a \in Attempts : Live(a) THEN CHOOSE a \in Attempts : Live(a) ELSE NoAttempt
Ended == {a \in Attempts : att[a].lifecycle = "FINISHED"}
Accepted ==
  IF BusinessAnswers = {} THEN None ELSE result[CHOOSE a \in BusinessAnswers : TRUE]
Verdict ==
  IF Open THEN IF job.control = "STOP_REQUESTED" THEN "stopping" ELSE "open"
  ELSE IF job.control = "STOP_REQUESTED" THEN "stopped" ELSE "decided"

\* The store, lanes, workers and reconciler together keep the owner's contract.
Contract == INSTANCE JobContract WITH
  Tries <- Attempts,
  Answers <- Deliveries,
  executing <- Executing,
  ended <- Ended,
  answer <- Accepted,
  verdict <- Verdict

ContractSpec == Contract!Spec

\* A stop always reaches its verdict, with or without the workers' help.
StopTerminates == (job.control = "STOP_REQUESTED") ~> ~Open

\* A job nobody pauses reaches its verdict, however its workers fail.
UnpausedSettles ==
  (Open /\ job.control = "NONE") ~> (~Open \/ job.control = "PAUSE_REQUESTED")

\* A pause barrier drains: the captured attempt ends, so resume is not refused
\* for ever.
PauseDrains ==
  (job.control = "PAUSE_REQUESTED") ~>
     (job.control # "PAUSE_REQUESTED" \/ \A a \in Attempts : att[a].lifecycle # "RUNNING")

\* A question nobody answers expires, and the expiry ends the job (a test of the
\* await path and request-boundary.ts say so).
ExpiredQuestionTerminates ==
  (task.phase = "TIMED_OUT" /\ Open) ~> (~Open \/ job.control # "NONE")

-----------------------------------------------------------------------------
(* The inductive strengthening that AttemptAuthority_proofs proves.        *)

\* A worker that has an answer to deliver remembers which.
HeldMemory ==
  \A w \in Workers : held[w].stage \in {"returned", "marked"} => held[w].payload \in Payloads

\* Only a job-wide stop asks attempts to stop, and only it or the producer's own
\* answer leaves an attempt's fate unknown.
StopIsJobWide ==
  \A a \in Attempts :
    /\ att[a].lifecycle = "STOP_REQUESTED" => job.control = "STOP_REQUESTED"
    /\ att[a].outcome = "UNKNOWN_OUTCOME" =>
         job.control = "STOP_REQUESTED" \/ task.phase = "UNKNOWN_OUTCOME"

BindingCleared == task.phase \notin {"DISPATCHED", "RECONCILING"} => task.active = NoAttempt

\* What an attempt that may still execute was promised by the store: at most one
\* pause has passed since its dispatch, and none is behind it.
UnderOnePause ==
  \A a \in Attempts :
    att[a].lifecycle \in {"QUEUED", "LEASED", "RUNNING"} =>
      /\ RetryAuthority(a)
      /\ job.stopGen = att[a].jobStopGen
      /\ task.control = "NONE"
      /\ task.stopGen = att[a].taskStopGen
      /\ job.control = "NONE" => att[a].finishCurrent = -1
      /\ att[a].lifecycle # "RUNNING" => att[a].readyPause = -1

\* The marker is the task's too, and a pause misses only what could not finish.
MarkerBound ==
  \A a \in Attempts :
    att[a].lifecycle = "RUNNING" =>
      /\ att[a].readyPause \in {-1, att[a].pauseGen}
      /\ att[a].readyPause # -1 => task.ready = a
      /\ job.control = "PAUSE_REQUESTED" /\ att[a].finishCurrent # job.pauseGen =>
           \/ att[a].lease # "live"
           \/ att[a].clock = "hard"
           \/ att[a].clock # "open" /\ att[a].readyPause = -1

Authority ==
  /\ SingleExecution
  /\ PreStartUnderCurrentAuthority
  /\ StopIsJobWide
  /\ BindingCleared
  /\ QuestionMatchesTask
  /\ TerminalIsSilent
  /\ UnderOnePause
  /\ MarkerBound
  /\ NeverSuperseded

\* Every conjunct together is preserved by every step.
Inductive == TypeOK /\ HeldMemory /\ Authority

-----------------------------------------------------------------------------
(* What the documents remember of ended attempts: the strengthening behind  *)
(* VerdictIsExplained and ContractSpec.                                     *)

\* Attempts are minted in the order of their numbers.
MintedInOrder ==
  \E n \in 0 .. MaxDispatch : \A a \in Attempts : att[a].lifecycle # "ABSENT" <=> a <= n

\* An accepted answer ends the work; success is nothing else.
AnswersEndWork ==
  /\ BusinessAnswers # {} => TaskTerminal
  /\ task.phase = "SUCCEEDED" => BusinessAnswers # {}
  /\ \A a \in Attempts : result[a] # "invalid"

\* An unknown fate is never dispatched away, and none is claimed without one.
UnknownIsKept ==
  /\ UnknownAttempts # {} => task.phase \in {"RECONCILING", "UNKNOWN_OUTCOME"}
  /\ Open /\ (task.phase = "UNKNOWN_OUTCOME" \/ job.pending = "UNKNOWN_OUTCOME") =>
       UnknownAttempts # {}

\* The budget of losses fails the task when, and only when, it is spent.
LossesAreCounted ==
  /\ Cardinality(Lost) <= MaxLosses
  /\ Cardinality(Lost) = MaxLosses => task.phase = "FAILED"
  /\ task.phase = "FAILED" => \/ \E a \in Attempts : att[a].outcome = "FAILED"
                              \/ Cardinality(Lost) = MaxLosses

History ==
  /\ MintedInOrder /\ AnswersEndWork /\ UnknownIsKept /\ LossesAreCounted
  /\ VerdictIsExplained
=============================================================================
