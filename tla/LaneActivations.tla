--------------------------- MODULE LaneActivations ---------------------------
(***************************************************************************)
(* The activations of one job: the BUSINESS activation that plans it, the  *)
(* RESULT_DRAIN activation that applies the result a worker delivered, and *)
(* the CONTROL_RECOVERY activation that follows a lost one, in the single  *)
(* slot job.activeActivationId; with the inbox and its retry timer, the    *)
(* wakes of the lane, its dispatch and the owner's commands.               *)
(* Source: src/src/mastra/orchestration/store/.                            *)
(*                                                                         *)
(* A transaction of the code is one action.  The process that runs an      *)
(* activation reads the activation again in each transaction, so it needs  *)
(* no memory and its death is a step never taken; only a planner that has  *)
(* been asked for a decision outlives its activation (`thinking').  What a *)
(* lane process reads and uses later is remembered in lane[l].             *)
(*                                                                         *)
(* Work is abstract: AttemptAuthority proves what an attempt may do, and   *)
(* PlanSteps models plans of several steps.  The wakes of one generation   *)
(* are one wake.  FinalDecision adds the judge and the specification.      *)
(***************************************************************************)
EXTENDS Integers, FiniteSets

CONSTANTS
  MaxLaneTasks,      \* maxLaneTasks(): attempts at the work before the judge must finish
  MaxLaneQuestions,  \* maxLaneQuestions(): questions before the judge must finish
  MaxRecoveries,     \* MAX_CONTROL_RECOVERY_ATTEMPTS
  MaxRetries,        \* MAX_AUTO_REDRIVE_ATTEMPTS
  Scenarios          \* what one execution may meet: records of the set below

\* document, prose and question are `ok' results: a stored artifact, a text, and
\* a text in which the specialist says that it needs input.
AllAnswers == {"document", "prose", "question", "partial", "failed", "timed_out"}

\* The deployment (a judge is configured, the capability owes a stored artifact,
\* the processes that drain the lane) and bounds: the answers of the work, and how
\* often the owner pauses, or steers and appends an instruction, a planner asks, the
\* linked rows of the result vanish, the operator redrives it, and a lane process dies.
IsScenario(s) ==
  /\ {s.judged, s.owes} \subseteq BOOLEAN /\ (s.owes => s.judged)
  /\ IsFiniteSet(s.lanes) /\ s.lanes # {}
  /\ s.answers \subseteq AllAnswers
  /\ {s.pauses, s.steers, s.questions, s.faults, s.redrives, s.crashes} \subseteq Nat
  /\ s.questions > 0 => s.judged

Lanes == UNION {s.lanes : s \in Scenarios}

ASSUME ScenarioAssumption == (\A s \in Scenarios : IsScenario(s)) /\ IsFiniteSet(Lanes)
ASSUME LimitAssumption ==
  MaxLaneTasks \in Nat \ {0} /\ {MaxLaneQuestions, MaxRecoveries, MaxRetries} \subseteq Nat

\* Bound: one task more per lane than the judge may order.
Tasks == 1 .. MaxLaneTasks + Cardinality(Lanes)
NoTask == 0
None == "none"

\* Mutant: a task whose result waits in the inbox counts as ended.
AwaitingIsTerminal ==
  {"SUCCEEDED", "PARTIAL", "FAILED", "TIMED_OUT", "CANCELLED", "AWAITING_RESULT"}

TerminalTask == {"SUCCEEDED", "PARTIAL", "FAILED", "TIMED_OUT", "CANCELLED"}
TaskPhases == TerminalTask \cup
  {"ABSENT", "READY", "DISPATCHED", "AWAITING_RESULT", "RECONCILING"}
TypedPhases == {"AWAITING_RESULTS", "RECONCILING"}
JobPhases == TypedPhases \cup {"READY", "AWAITING_USER", "DISPATCHING", "TERMINAL"}
ItemStates ==
  {None, "RECEIVED", "FAILED_RETRYABLE", "PENDING_REDRIVE", "QUARANTINED", "APPLIED",
   "REJECTED_STALE"}
Kinds == {"BUSINESS", "RESULT_DRAIN", "CONTROL_RECOVERY"}
LaneSteps ==
  {"asleep", "awake", "advance", "dispatch", "judge", "ask", "retry", "reopen", "finish"}

VARIABLES
  config,    \* the scenario of this execution
  job,       \* the job document
  task,      \* its task documents; only the first one is typed RESULT_DRAIN_V1
  slot,      \* the live activation document, the job's activeActivationId
  item,      \* the inbox item of the first task's result
  latest,    \* what the latest committed result holds (getJobResult)
  open,      \* the job has an OPEN question
  woken,     \* a LaneWakeRequested row of this generation is PENDING
  lane,      \* what each lane process remembers of the wake it claimed
  thinking,  \* planners that were asked for a decision
  settling,  \* planners that opened a question and have not settled yet
  env        \* whether linked rows are readable; faults, redrives, crashes and
             \* appended instructions so far

vars ==
  <<config, job, task, slot, item, latest, open, woken, lane, thinking, settling, env>>

NoSlot ==
  [kind |-> None, life |-> None, gen |-> 0, marked |-> FALSE, clock |-> "open",
   decision |-> None, plan |-> 0]
Asleep ==
  [step |-> "asleep", gen |-> 0, next |-> "asleep", pick |-> NoTask, boundary |-> FALSE]

Init ==
  /\ config \in Scenarios
  /\ job = [phase |-> "READY", control |-> "NONE", outcome |-> None, gen |-> 0, pauses |-> 0,
            tries |-> 0, root |-> None, high |-> 0, resolved |-> 0, asked |-> 0, starts |-> 0,
            plan |-> 0, planned |-> 0]
  /\ task = [t \in Tasks |-> [phase |-> "ABSENT", replaces |-> NoTask, captured |-> FALSE]]
  /\ slot = NoSlot
  /\ item = [state |-> None, retries |-> 0, captured |-> 0]
  /\ latest = None
  /\ open = FALSE
  /\ woken = TRUE
  /\ lane = [l \in Lanes |-> Asleep]
  /\ thinking = {}
  /\ settling = {}
  /\ env = [readable |-> TRUE, faults |-> 0, redrives |-> 0, crashes |-> 0, told |-> 0]

-----------------------------------------------------------------------------
Open == job.outcome = None
Existing == {t \in Tasks : task[t].phase # "ABSENT"}
AllTerminal == Existing # {} /\ \A t \in Existing : task[t].phase \in TerminalTask
Superseded == {task[t].replaces : t \in Existing}
Live == {t \in Tasks : task[t].phase = "DISPATCHED"}
Wake == woken' = TRUE
Sleep(l) == lane' = [lane EXCEPT ![l] = Asleep]
To(l, step) == lane' = [lane EXCEPT ![l].step = step]

-----------------------------------------------------------------------------
(* The inbox: what a drain would do with the item now.                      *)

\* Mutant: under a pause the drain takes whatever result it finds.
ControlAdmits == job.control # "STOP_REQUESTED"

\* resultDrainControlIsCurrent: under a pause, only what that pause let finish.
ResultControlIsCurrent ==
  \/ job.control = "NONE"
  \/ (job.control = "PAUSE_REQUESTED" /\ item.captured = job.pauses)

\* loadRootResultTask and the candidate filter: one task, waiting for this item.
Eligible ==
  /\ Open
  /\ job.phase \in TypedPhases
  /\ Existing = {1}
  /\ task[1].phase = "AWAITING_RESULT"
  /\ item.state \in {"RECEIVED", "PENDING_REDRIVE"}
  /\ ResultControlIsCurrent

\* buildResultDrainBatchPlan: a batch of one decision, or none.
Decision ==
  IF ~Eligible THEN None
  ELSE IF env.readable THEN "apply"
  ELSE IF item.retries < MaxRetries THEN "retry" ELSE "quarantine"

-----------------------------------------------------------------------------
(* The lane: one laneStep after another under one wake (runLaneForJob).     *)

\* isPlanningCandidate.
PlanningCandidate == Open /\ job.control = "NONE" /\ job.phase = "READY"

Activation(kind, gen, decision) ==
  [NoSlot EXCEPT !.kind = kind, !.life = "PENDING", !.gen = gen, !.decision = decision,
                  !.plan = job.plan]

\* What the transaction that publishes a wake materializes in a free slot.
Materialized ==
  IF slot # NoSlot THEN slot
  ELSE IF PlanningCandidate /\ Existing = {} THEN Activation("BUSINESS", job.gen, None)
  ELSE IF Decision # None THEN Activation("RESULT_DRAIN", job.gen, Decision)
  ELSE NoSlot

\* claimNextWake.  It publishes and skips a wake of an older generation, so that
\* wake is not kept.
LaneClaimsWake(l) ==
  /\ l \in config.lanes
  /\ lane[l].step = "asleep"
  /\ woken
  /\ woken' = FALSE
  /\ slot' = Materialized
  /\ lane' = [lane EXCEPT ![l].step = "awake", ![l].gen = job.gen]
  /\ UNCHANGED <<config, job, task, item, latest, open, thinking, settling, env>>

Ready == {t \in Tasks : task[t].phase = "READY"}
FirstReady == CHOOSE t \in Ready : \A u \in Ready : t <= u
Typed == job.phase \in TypedPhases /\ Existing # {}

\* Where this snapshot sends a laneStep once the judge has passed.  The drain and
\* the planner are the activations below: without one, laneStep waits.
AfterJudge ==
  IF Typed THEN "asleep"
  ELSE IF AllTerminal THEN "advance"
  ELSE IF job.control = "NONE" /\ Ready # {} THEN "dispatch" ELSE "asleep"

GoOn(l, next) == IF next = "asleep" THEN Sleep(l) ELSE To(l, next)

\* The snapshot a laneStep decides from.
LaneReads(l) ==
  /\ lane[l].step = "awake"
  /\ IF job.gen # lane[l].gen \/ ~Open \/ job.control = "STOP_REQUESTED"
     THEN Sleep(l)
     ELSE LET judge == config.judged /\ job.phase # "AWAITING_USER" IN
          IF ~judge /\ AfterJudge = "asleep" THEN Sleep(l)
          ELSE lane' = [lane EXCEPT ![l].next = AfterJudge,
                                    ![l].step = IF judge THEN "judge" ELSE AfterJudge,
                                    ![l].pick = IF AfterJudge = "dispatch"
                                                THEN FirstReady ELSE NoTask]
  /\ UNCHANGED <<config, job, task, slot, item, latest, open, woken, thinking, settling, env>>

Unsuperseded == Existing \ Superseded
Has(phase) == \E t \in Unsuperseded : task[t].phase = phase

\* advanceJobFromTasks: the first phase of this order that a root has.
OutcomeOfRoots ==
  IF Has("FAILED") THEN "FAILED"
  ELSE IF Has("TIMED_OUT") THEN "TIMED_OUT"
  ELSE IF Has("CANCELLED") THEN "CANCELLED"
  ELSE IF Has("PARTIAL") THEN "PARTIAL" ELSE "COMPLETED"

Terminate(outcome) ==
  /\ job' = [job EXCEPT !.phase = "TERMINAL", !.outcome = outcome, !.gen = @ + 1]
  /\ woken' = FALSE

\* Mutant: the terminalizer closes a job that waits for a human.
AdvanceOverQuestion(l) ==
  /\ Open
  /\ job.gen = lane[l].gen
  /\ job.control # "STOP_REQUESTED"
  /\ job.phase \notin TypedPhases
  /\ job.resolved = job.high
  /\ AllTerminal
  /\ slot = NoSlot

AdvanceGranted(l) ==
  /\ Open
  /\ job.gen = lane[l].gen
  /\ job.control # "STOP_REQUESTED"
  /\ job.phase \notin TypedPhases \cup {"AWAITING_USER"}
  /\ job.resolved = job.high
  /\ AllTerminal
  /\ slot = NoSlot

\* advanceJobFromTasks; refused, all tasks being terminal, the laneStep waits.
LaneAdvances(l) ==
  /\ lane[l].step = "advance"
  /\ IF AdvanceGranted(l) THEN Terminate(OutcomeOfRoots) ELSE UNCHANGED <<job, woken>>
  /\ Sleep(l)
  /\ UNCHANGED <<config, task, slot, item, latest, open, thinking, settling, env>>

DispatchGranted(l) ==
  /\ lane[l].pick \in Ready
  /\ Open
  /\ job.control = "NONE"
  /\ job.gen = lane[l].gen

\* dispatchAttempt; the laneStep that lost it waits.
LaneDispatches(l) ==
  /\ lane[l].step = "dispatch"
  /\ IF DispatchGranted(l)
     THEN /\ task' = [task EXCEPT ![lane[l].pick].phase = "DISPATCHED"]
          /\ lane' = [lane EXCEPT ![l] = [Asleep EXCEPT !.step = "awake", !.gen = lane[l].gen]]
     ELSE Sleep(l) /\ task' = task
  /\ UNCHANGED <<config, job, slot, item, latest, open, woken, thinking, settling, env>>

\* The process dies after the wake was consumed.
LaneDies(l) ==
  /\ lane[l].step # "asleep"
  /\ env.crashes < config.crashes
  /\ env' = [env EXCEPT !.crashes = @ + 1]
  /\ Sleep(l)
  /\ UNCHANGED <<config, job, task, slot, item, latest, open, woken, thinking, settling>>

-----------------------------------------------------------------------------
(* Activations.                                                             *)

\* What every transaction of an activation reads again.
Authorized ==
  CASE slot.kind = "BUSINESS" ->
         PlanningCandidate /\ Existing = {} /\ slot.gen = job.gen /\ slot.plan = job.plan
    [] slot.kind = "RESULT_DRAIN" ->
         Decision # None /\ Decision = slot.decision /\ slot.gen = job.gen
    [] slot.kind = "CONTROL_RECOVERY" -> slot.gen = job.gen
    [] OTHER -> FALSE

ActivationClaims ==
  /\ slot.life = "PENDING"
  /\ slot.clock = "open"
  /\ Authorized
  /\ slot' = [slot EXCEPT !.life = "LEASED"]
  /\ UNCHANGED <<config, job, task, item, latest, open, woken, lane, thinking, settling, env>>

\* A planning activation that has started asks its decider.
ActivationStarts ==
  /\ slot.life = "LEASED"
  /\ slot.clock = "open"
  /\ Authorized
  /\ slot' = [slot EXCEPT !.life = "RUNNING"]
  /\ IF slot.kind = "BUSINESS"
     THEN /\ thinking' = thinking \cup {slot.gen}
          /\ job' = [job EXCEPT !.starts = @ + 1]
     ELSE UNCHANGED <<thinking, job>>
  /\ UNCHANGED <<config, task, item, latest, open, woken, lane, settling, env>>

\* markPlanningActivationPayloadReady: the decision to work is frozen in time.
PlannerProposes(p) ==
  /\ p \in thinking
  /\ slot.kind = "BUSINESS" /\ slot.gen = p /\ slot.life = "RUNNING"
  /\ slot.clock = "open"
  /\ Authorized
  /\ slot' = [slot EXCEPT !.marked = TRUE]
  /\ thinking' = thinking \ {p}
  /\ UNCHANGED <<config, job, task, item, latest, open, woken, lane, settling, env>>

\* commitPlanningActivation: one serial task.
PlanningCommits ==
  /\ slot.kind = "BUSINESS" /\ slot.life = "RUNNING" /\ slot.marked
  /\ slot.clock # "over"
  /\ Authorized
  /\ task' = [task EXCEPT ![1].phase = "READY"]
  /\ job' = [job EXCEPT !.phase = "DISPATCHING", !.tries = 0, !.root = None,
                        !.starts = 0, !.planned = slot.plan]
  /\ slot' = NoSlot
  /\ Wake
  /\ UNCHANGED <<config, item, latest, open, lane, thinking, settling, env>>

\* openLaneUserRequest looks at the job only: an OPEN question is reused.
AskGranted == Open /\ job.control = "NONE"
OpenQuestion ==
  IF open THEN UNCHANGED <<open, job>>
  ELSE open' = TRUE /\ job' = [job EXCEPT !.phase = "AWAITING_USER", !.asked = @ + 1]

\* The planner wants to ask, whatever has become of its activation meanwhile.
PlannerAsks(p) ==
  /\ p \in thinking
  /\ AskGranted
  /\ open \/ job.asked < config.questions
  /\ OpenQuestion
  /\ thinking' = thinking \ {p}
  /\ settling' = settling \cup {p}
  /\ UNCHANGED <<config, task, slot, item, latest, woken, lane, env>>

\* The planner decides to wait, is refused, or dies.
PlannerEnds(p) ==
  /\ p \in thinking
  /\ thinking' = thinking \ {p}
  /\ UNCHANGED <<config, job, task, slot, item, latest, open, woken, lane, settling, env>>

\* settleActivationAsAsked: the slot is free again, if it is still this one's.
PlannerSettles(p) ==
  /\ p \in settling
  /\ settling' = settling \ {p}
  /\ slot' = IF slot.kind = "BUSINESS" /\ slot.gen = p THEN NoSlot ELSE slot
  /\ UNCHANGED <<config, job, task, item, latest, open, woken, lane, thinking, env>>

PlannerDies(p) ==
  /\ p \in settling
  /\ settling' = settling \ {p}
  /\ UNCHANGED <<config, job, task, slot, item, latest, open, woken, lane, thinking, env>>

TaskPhaseOf(a) ==
  CASE a = "partial" -> "PARTIAL" [] a = "failed" -> "FAILED" [] a = "timed_out" -> "TIMED_OUT"
    [] OTHER -> "SUCCEEDED"
OutcomeOf(phase) == IF phase = "SUCCEEDED" THEN "COMPLETED" ELSE phase

DrainGranted ==
  /\ slot.kind = "RESULT_DRAIN" /\ slot.life = "RUNNING"
  /\ slot.clock = "open"
  /\ Authorized

\* Mutant: the watermark counts the items that were settled.
CountedAsDrained == [job EXCEPT !.tries = 0, !.root = None, !.resolved = @ + 1]

Drained == [job EXCEPT !.tries = 0, !.root = None, !.resolved = job.high]

\* commitResultDrainActivation of an applied result: the task gets its verdict,
\* and the job its own, unless a judge is configured: then a wake for the judge.
DrainApplies ==
  /\ DrainGranted
  /\ slot.decision = "apply"
  /\ LET phase == TaskPhaseOf(latest) IN
     /\ task' = [task EXCEPT ![1].phase = phase]
     /\ IF config.judged
        THEN job' = [Drained EXCEPT !.phase = "AWAITING_RESULTS"] /\ Wake
        ELSE /\ job' = [Drained EXCEPT !.phase = "TERMINAL", !.outcome = OutcomeOf(phase),
                                       !.gen = @ + 1]
             /\ woken' = FALSE
  /\ item' = [item EXCEPT !.state = "APPLIED"]
  /\ slot' = NoSlot
  /\ UNCHANGED <<config, latest, open, lane, thinking, settling, env>>

\* The same of a result whose rows cannot be read: a timer, or the operator.
DrainPostpones ==
  /\ DrainGranted
  /\ slot.decision \in {"retry", "quarantine"}
  /\ item' = [item EXCEPT !.state = IF slot.decision = "retry"
                                    THEN "FAILED_RETRYABLE" ELSE "QUARANTINED"]
  /\ job' = [job EXCEPT !.tries = 0, !.root = None, !.phase = "RECONCILING",
                        !.resolved = IF slot.decision = "quarantine" THEN job.high ELSE @]
  /\ slot' = NoSlot
  /\ UNCHANGED <<config, task, latest, open, woken, lane, thinking, settling, env>>

\* commitControlRecoveryActivation: only demand that is still there is restored.
DemandRestored ==
  \/ (job.root = "BUSINESS" /\ PlanningCandidate /\ Existing = {})
  \/ (job.root = "RESULT_DRAIN" /\ Decision # None)

ControlCommits ==
  /\ slot.kind = "CONTROL_RECOVERY" /\ slot.life = "RUNNING"
  /\ slot.clock = "open"
  /\ Authorized
  /\ slot' = NoSlot
  /\ IF DemandRestored THEN Wake ELSE woken' = woken
  /\ UNCHANGED <<config, job, task, item, latest, open, lane, thinking, settling, env>>

ActiveLives == {"PENDING", "LEASED", "RUNNING"}

\* Cutoff, then work deadline or lease.  Drain and control windows have one end.
ActivationAges ==
  /\ slot.life \in ActiveLives
  /\ \E c \in {"cutoff", "over"} :
       /\ slot.clock # c /\ slot.clock # "over"
       /\ slot' = [slot EXCEPT !.clock = c]
  /\ UNCHANGED <<config, job, task, item, latest, open, woken, lane, thinking, settling, env>>

\* Mutant: a plan that was frozen in time is left to its planner.
ExpiredUnmarked ==
  /\ slot.life \in ActiveLives
  /\ slot.clock # "open"
  /\ ~slot.marked

\* expiredActivationFilter: a marked plan has until its work deadline.
Expired ==
  /\ slot.life \in ActiveLives
  /\ slot.clock = "over" \/ (slot.clock = "cutoff" /\ ~slot.marked)

\* Mutant: a planner that may have asked its model is started anew.
AmbiguousIfMarked == slot.kind = "BUSINESS" /\ slot.marked

\* A planner that started may have acted: it is not repeated but reported.
Ambiguous == slot.kind = "BUSINESS" /\ slot.life = "RUNNING"

\* R0, reapExpiredActivationsToControlRecovery.
ActivationReaped ==
  /\ Expired
  /\ IF slot.gen # job.gen \/ Ambiguous \/ job.tries >= MaxRecoveries
     THEN slot' = [slot EXCEPT !.life = "FAILED"] /\ UNCHANGED <<job, woken>>
     ELSE /\ slot' = Activation("CONTROL_RECOVERY", job.gen + 1, None)
          /\ job' = [job EXCEPT !.gen = @ + 1, !.tries = @ + 1,
                                !.root = IF slot.kind = "CONTROL_RECOVERY" THEN @ ELSE slot.kind]
          /\ woken' = FALSE
  /\ UNCHANGED <<config, task, item, latest, open, lane, thinking, settling, env>>

-----------------------------------------------------------------------------
(* Work, timers, the reconciler and linked rows that cannot be read.        *)

\* The first task's result goes through the inbox while it is the only task.
Inboxed(t, a) == t = 1 /\ Existing = {1} /\ a # "timed_out"

\* submitAttemptResult (A), or the end of an attempt without a result.
WorkerAnswers(t, a) ==
  /\ a \in config.answers
  /\ task[t].phase = "DISPATCHED"
  /\ Open
  /\ job.control = "NONE" \/ task[t].captured
  /\ task' = [task EXCEPT ![t].phase = IF Inboxed(t, a) THEN "AWAITING_RESULT" ELSE TaskPhaseOf(a),
                          ![t].captured = FALSE]
  /\ IF Inboxed(t, a)
     THEN /\ job' = [job EXCEPT !.phase = "AWAITING_RESULTS", !.high = @ + 1]
          /\ item' = [item EXCEPT !.state = "RECEIVED",
                                  !.captured = IF task[t].captured THEN job.pauses ELSE 0]
     ELSE UNCHANGED <<job, item>>
  /\ latest' = IF a = "timed_out" THEN latest ELSE a
  /\ Wake
  /\ UNCHANGED <<config, slot, open, lane, thinking, settling, env>>

\* A stopped attempt ends.
StoppedWorkEnds(t) ==
  /\ task[t].phase = "RECONCILING"
  /\ task' = [task EXCEPT ![t].phase = "CANCELLED"]
  /\ UNCHANGED <<config, job, slot, item, latest, open, woken, lane, thinking, settling, env>>

Redriven(retries) ==
  /\ item' = [item EXCEPT !.state = "PENDING_REDRIVE", !.retries = retries]
  /\ job' = [job EXCEPT !.phase = "RECONCILING"]
  /\ Wake

\* fireDueInboxResultRetryTimers: a due timer waits for the slot and for a pause.
RetryTimerFires ==
  /\ item.state = "FAILED_RETRYABLE"
  /\ Open
  /\ slot = NoSlot
  /\ job.phase \in TypedPhases
  /\ ResultControlIsCurrent
  /\ Redriven(item.retries + 1)
  /\ UNCHANGED <<config, task, slot, latest, open, lane, thinking, settling, env>>

\* requestInboxRedrive: the operator says the rows are repaired, and they are;
\* a result whose timer is pending is merely tried early.
OperatorRedrives ==
  /\ item.state \in {"QUARANTINED", "FAILED_RETRYABLE"}
  /\ Open
  /\ slot = NoSlot
  /\ job.phase \in TypedPhases
  /\ Existing = {1}
  /\ ResultControlIsCurrent
  /\ item.state = "QUARANTINED" => env.readable
  /\ env.redrives < config.redrives
  /\ env' = [env EXCEPT !.redrives = @ + 1]
  /\ Redriven(item.retries)
  /\ UNCHANGED <<config, task, slot, latest, open, lane, thinking, settling>>

\* Mutant: the tick cares for results only.
DemandOfResults == job.phase \in TypedPhases /\ Decision # None

\* In the phases of the drain the tick looks for a result, elsewhere for a timer.
DemandWithoutWake ==
  IF job.phase \in TypedPhases THEN Decision # None ELSE item.state # "FAILED_RETRYABLE"

\* reWakeStuckJobs.
ReWake ==
  /\ Open
  /\ job.control = "NONE"
  /\ ~(job.phase = "AWAITING_USER" /\ open)
  /\ ~woken
  /\ slot = NoSlot
  /\ Live = {}
  /\ DemandWithoutWake
  /\ Wake
  /\ UNCHANGED <<config, job, task, slot, item, latest, open, lane, thinking, settling, env>>

RowsVanish ==
  /\ env.readable
  /\ env.faults < config.faults
  /\ env' = [env EXCEPT !.readable = FALSE, !.faults = @ + 1]
  /\ UNCHANGED <<config, job, task, slot, item, latest, open, woken, lane, thinking, settling>>

RowsReturn ==
  /\ ~env.readable
  /\ env' = [env EXCEPT !.readable = TRUE]
  /\ UNCHANGED <<config, job, task, slot, item, latest, open, woken, lane, thinking, settling>>

-----------------------------------------------------------------------------
(* The owner.                                                               *)

\* Every command takes the slot, whatever is in it, and starts a generation.
Command ==
  [job EXCEPT !.gen = @ + 1, !.tries = 0, !.root = None, !.starts = 0]

\* pauseJob: work that has not started is recalled, work that runs may finish.
Pause ==
  /\ Open
  /\ job.control = "NONE"
  /\ job.pauses < config.pauses
  /\ job' = [Command EXCEPT !.control = "PAUSE_REQUESTED", !.pauses = @ + 1]
  /\ slot' = NoSlot
  /\ \E running \in SUBSET Live :
       task' = [t \in Tasks |->
                  IF t \in running THEN [task[t] EXCEPT !.captured = TRUE]
                  ELSE IF t \in Live THEN [task[t] EXCEPT !.phase = "READY"] ELSE task[t]]
  /\ Wake
  /\ UNCHANGED <<config, item, latest, open, lane, thinking, settling, env>>

\* resumeJob: PauseInProgressError while work runs.
Resume ==
  /\ Open
  /\ job.control = "PAUSE_REQUESTED"
  /\ Live = {}
  /\ job' = [Command EXCEPT !.control = "NONE"]
  /\ slot' = NoSlot
  /\ Wake
  /\ UNCHANGED <<config, task, item, latest, open, lane, thinking, settling, env>>

SteerGranted ==
  /\ Open
  /\ job.control # "STOP_REQUESTED"
  /\ job.phase = "READY"
  /\ Existing = {}

\* steerJob: the plan is made anew, or SteerPlanAuthorityUnavailableError.
Steer ==
  /\ SteerGranted
  /\ job.plan < config.steers
  /\ job' = [Command EXCEPT !.plan = @ + 1]
  /\ slot' = NoSlot
  /\ Wake
  /\ UNCHANGED <<config, task, item, latest, open, lane, thinking, settling, env>>

\* appendInstruction: read by attempts that start later; here, one more wake.
AppendInstruction ==
  /\ Open
  /\ job.control # "STOP_REQUESTED"
  /\ env.told < config.steers
  /\ env' = [env EXCEPT !.told = @ + 1]
  /\ Wake
  /\ UNCHANGED <<config, job, task, slot, item, latest, open, lane, thinking, settling>>

\* cancelJob: no work is left but what runs, no question, no wake, no item to drain.
Cancel ==
  /\ Open
  /\ job.control # "STOP_REQUESTED"
  /\ job' = [Command EXCEPT !.control = "STOP_REQUESTED", !.phase = "RECONCILING",
                            !.resolved = job.high]
  /\ slot' = NoSlot
  /\ task' = [t \in Tasks |->
                [task[t] EXCEPT !.captured = FALSE,
                                !.phase = IF t \in Live THEN "RECONCILING"
                                          ELSE IF @ \in TerminalTask \cup {"ABSENT"} THEN @
                                          ELSE "CANCELLED"]]
  /\ item' = [item EXCEPT !.state =
                IF @ \in {"RECEIVED", "FAILED_RETRYABLE", "PENDING_REDRIVE"}
                THEN "REJECTED_STALE" ELSE @]
  /\ open' = FALSE
  /\ woken' = FALSE
  /\ UNCHANGED <<config, latest, lane, thinking, settling, env>>

\* The flat terminal barrier supports one task and a settled inbox; anything
\* else it reports to the operator and leaves as it is.
BarrierBlocked == Cardinality(Existing) > 1 \/ item.state = "QUARANTINED"

\* commitPendingFlatTerminalWithControlInSession.
StopCommits ==
  /\ Open
  /\ job.control = "STOP_REQUESTED"
  /\ ~BarrierBlocked
  /\ Existing # {} => AllTerminal
  /\ Terminate("CANCELLED")
  /\ UNCHANGED <<config, task, slot, item, latest, open, lane, thinking, settling, env>>

\* answerJobRequest, also under a pause.
AnswerQuestion ==
  /\ open
  /\ Open
  /\ job.control # "STOP_REQUESTED"
  /\ open' = FALSE
  /\ job' = [job EXCEPT !.phase = "READY", !.starts = 0]
  /\ Wake
  /\ UNCHANGED <<config, task, slot, item, latest, lane, thinking, settling, env>>

\* expireStaleRequests: the question is closed, the phase of the job stays.
ExpireQuestion ==
  /\ open
  /\ Open
  /\ job.control # "STOP_REQUESTED"
  /\ open' = FALSE
  /\ Wake
  /\ UNCHANGED <<config, job, task, slot, item, latest, lane, thinking, settling, env>>
=============================================================================
