------------------------------ MODULE PlanSteps ------------------------------
(***************************************************************************)
(* A job whose planning committed a frozen plan: a parent task that waits  *)
(* for its children, and the lane processes that turn the plan into tasks  *)
(* (materializePlannedSteps), release or block the next step               *)
(* (promoteSequencedSteps), settle the parent (resolveParentTask) and      *)
(* close the job, against workers, the reconciler and the owner.           *)
(* Source: src/src/mastra/orchestration/store/.                            *)
(*                                                                         *)
(* A transaction of the code is one action.  What a laneStep reads before  *)
(* a transaction and uses in a later one is remembered in lane[l].         *)
(*                                                                         *)
(* AttemptAuthority proves that a task has one live attempt at a time and  *)
(* what its fences admit; here a task only knows whether that attempt is   *)
(* pre-start (QUEUED or LEASED), RUNNING or STOP_REQUESTED.  Deadlines,    *)
(* leases and expiries are choices, the retry backoff is zero, and the     *)
(* wakes of one generation are one wake.  Workers are in-process.  The     *)
(* judge of the final decision (opts.decide) is not configured.            *)
(***************************************************************************)
EXTENDS Integers, FiniteSets

CONSTANTS
  PlanLength,    \* plannedSteps.length
  MaxChains,     \* bound: times the plan may be turned into tasks
  Lanes,         \* processes that drain the lane
  Answers,       \* producer answers a worker may return
  MaxLosses,     \* opts.maxAttempts of reapExpiredLeases
  MaxPauses,     \* bound: pause commands of the owner
  MaxQuestions   \* bound: attempts whose producer answers `blocked`

AllAnswers ==
  {"ok", "partial", "failed", "blocked_user", "blocked_approval", "blocked_external"}

ASSUME PlanAssumption ==
  /\ PlanLength \in Nat \ {0}
  /\ MaxChains \in Nat \ {0}
  /\ MaxLosses \in Nat \ {0}
  /\ MaxPauses \in Nat
  /\ MaxQuestions \in Nat
ASSUME AnswersAssumption == Answers \subseteq AllAnswers

Chains == 1 .. MaxChains
Steps == Chains \X (1 .. PlanLength)
Parent == <<0, 0>>
Tasks == Steps \cup {Parent}
NoTask == <<0, 1>>
None == "none"

\* awaitsTaskId: each step waits for the one before it, the first for nothing.
Awaits(t) == t \in Steps /\ t[2] > 1
Predecessor(t) == <<t[1], t[2] - 1>>
First(t) == <<t[1], 1>>

TerminalTask ==
  {"SUCCEEDED", "PARTIAL", "FAILED", "BLOCKED", "TIMED_OUT", "CANCELLED", "SUPERSEDED",
   "UNKNOWN_OUTCOME"}
\* Mutant: only a child that failed by itself fails the parent.
FailedItself == {"FAILED"}

FailedTask == {"FAILED", "TIMED_OUT", "CANCELLED", "BLOCKED", "UNKNOWN_OUTCOME"}
TaskPhases == TerminalTask \cup
  {"ABSENT", "READY", "DISPATCHED", "RETRY_PENDING", "WAITING_INPUT", "WAITING_DEPENDENCY",
   "RECONCILING"}
JobPhases ==
  {"DISPATCHING", "READY", "AWAITING_USER", "AWAITING_APPROVAL", "AWAITING_EXTERNAL",
   "RECONCILING", "TERMINAL"}
LaneSteps ==
  {"asleep", "read", "advance", "plan", "spawn", "promote", "fan_in", "dispatch"}

VARIABLES
  job,    \* the job document
  task,   \* its task documents: the parent and the steps of each chain
  edges,  \* children whose dispatch edge is ACTIVE
  open,   \* OPEN control requests, by task
  wakes,  \* generations of the PENDING LaneWakeRequested outbox rows
  lane    \* what each lane process remembers of the wake it claimed

vars == <<job, task, edges, open, wakes, lane>>

Asleep ==
  [gen |-> 0, step |-> "asleep", ready |-> NoTask, parent |-> FALSE, todo |-> {},
   moved |-> FALSE, unpaused |-> FALSE]

\* Planning committed: the parent carries the plan and waits (commitPlanning).
Init ==
  /\ job = [control |-> "NONE", phase |-> "DISPATCHING", outcome |-> None,
            pending |-> None, gen |-> 0, pauses |-> 0, asked |-> 0]
  /\ task = [t \in Tasks |->
               [phase |-> IF t = Parent THEN "WAITING_DEPENDENCY" ELSE "ABSENT",
                live |-> "none", losses |-> 0]]
  /\ edges = {}
  /\ open = [t \in Tasks |-> 0]
  /\ wakes = {0}
  /\ lane = [l \in Lanes |-> Asleep]

-----------------------------------------------------------------------------
Open == job.outcome = None
Exists(t) == task[t].phase # "ABSENT"
Terminal(t) == task[t].phase \in TerminalTask
Materialized == {t \in Steps : Exists(t)}
AllTerminal == \A t \in Tasks : Exists(t) => Terminal(t)
Wake == wakes' = wakes \cup {job.gen}
To(l, step) == lane' = [lane EXCEPT ![l].step = step]
Sleep(l) == lane' = [lane EXCEPT ![l] = Asleep]

-----------------------------------------------------------------------------
(* The lane: one laneStep after another under one wake (runLaneForJob).     *)

\* claimNextWake: a wake of another generation is published and skipped.
LaneClaimsWake(l) ==
  /\ lane[l].step = "asleep"
  /\ \E g \in wakes :
       /\ \A h \in wakes : g <= h
       /\ wakes' = wakes \ {g}
       /\ lane' = IF g = job.gen
                  THEN [lane EXCEPT ![l].gen = g, ![l].step = "read"] ELSE lane
  /\ UNCHANGED <<job, task, edges, open>>

Dispatchable == {t \in Tasks : task[t].phase \in {"READY", "RETRY_PENDING"}}

\* The snapshot a laneStep decides from: the job, its tasks, one ready task.
LaneReads(l) ==
  /\ lane[l].step = "read"
  /\ IF job.gen # lane[l].gen \/ ~Open \/ job.control = "STOP_REQUESTED"
     THEN Sleep(l)
     ELSE IF ~AllTerminal /\ job.control # "NONE"
     THEN Sleep(l)
     ELSE \E r \in IF Dispatchable = {} THEN {NoTask} ELSE Dispatchable :
            lane' = [lane EXCEPT ![l] =
                      [gen |-> lane[l].gen,
                       step |-> IF AllTerminal THEN "advance" ELSE "plan",
                       ready |-> r,
                       parent |-> task[Parent].phase = "WAITING_DEPENDENCY",
                       todo |-> {}, moved |-> FALSE,
                       unpaused |-> job.control = "NONE"]]
  /\ UNCHANGED <<job, task, edges, open, wakes>>

AdvanceGranted(l) ==
  /\ Open
  /\ job.control # "STOP_REQUESTED"
  /\ job.phase # "AWAITING_USER"
  /\ job.gen = lane[l].gen
  /\ AllTerminal

\* Mutant: the phase of the root is taken as it stands.
OutcomeUnmapped == task[Parent].phase

\* Steps roll up into their parent: it is the only root.
OutcomeOfRoot ==
  CASE task[Parent].phase = "SUCCEEDED" -> "COMPLETED"
    [] task[Parent].phase = "SUPERSEDED" -> "UNKNOWN_OUTCOME"
    [] OTHER -> task[Parent].phase

\* advanceJobFromTasks; refused, the same laneStep goes on unless it is paused.
LaneAdvances(l) ==
  /\ lane[l].step = "advance"
  /\ IF AdvanceGranted(l)
     THEN /\ job' = [job EXCEPT !.phase = "TERMINAL", !.outcome = OutcomeOfRoot,
                                !.gen = @ + 1]
          /\ Sleep(l)
     ELSE /\ IF lane[l].unpaused THEN To(l, "plan") ELSE Sleep(l)
          /\ job' = job
  /\ UNCHANGED <<task, edges, open, wakes>>

\* Where a laneStep goes when the sequence of steps did not move.
AfterSequence(l) ==
  IF lane[l].parent THEN "fan_in" ELSE IF lane[l].ready # NoTask THEN "dispatch" ELSE "asleep"

Continue(l, step) ==
  IF step = "asleep" THEN Sleep(l)
  ELSE lane' = [lane EXCEPT ![l].step = step, ![l].todo = {}]

Sequenced == {t \in Steps : task[t].phase = "WAITING_DEPENDENCY" /\ Awaits(t)}

\* A parent that waits with a plan and no edge yet.
Unmaterialized == task[Parent].phase = "WAITING_DEPENDENCY" /\ Materialized = {}

\* The reads of materializePlannedSteps and promoteSequencedSteps.
LanePlans(l) ==
  /\ lane[l].step = "plan"
  /\ IF Unmaterialized THEN To(l, "spawn")
     ELSE IF Sequenced # {}
     THEN lane' = [lane EXCEPT ![l].step = "promote", ![l].todo = Sequenced]
     ELSE Continue(l, AfterSequence(l))
  /\ UNCHANGED <<job, task, edges, open, wakes>>

SpawnGranted == Open /\ job.control = "NONE"

\* Mutant: every step comes up READY.
PhaseOfUnchainedStep(t) == "READY"

\* Only the first step is dispatchable at once.
PhaseOfNewStep(t) == IF Awaits(t) THEN "WAITING_DEPENDENCY" ELSE "READY"

\* spawnChildTasks: the children and their edges, and the parent waits for them.
\* Neither the parent's phase nor its edges are read again here.
LaneSpawns(l) ==
  /\ lane[l].step = "spawn"
  /\ SpawnGranted
  /\ \E c \in Chains :
       /\ \A d \in Chains : Exists(<<d, 1>>) <=> d < c
       /\ task' = [t \in Tasks |->
                     IF t = Parent THEN [task[t] EXCEPT !.phase = "WAITING_DEPENDENCY"]
                     ELSE IF t[1] = c THEN [task[t] EXCEPT !.phase = PhaseOfNewStep(t)]
                     ELSE task[t]]
       /\ edges' = edges \cup {t \in Steps : t[1] = c}
  /\ Wake
  /\ Sleep(l)
  /\ UNCHANGED <<job, open>>

\* The transaction throws; the wake is gone with the activation.
LaneLosesSpawn(l) ==
  /\ lane[l].step = "spawn"
  /\ ~SpawnGranted
  /\ Sleep(l)
  /\ UNCHANGED <<job, task, edges, open, wakes>>

\* Mutant: a predecessor that delivered in part releases the next step.
ReleasesUnlessFailed(p) == p \in {"SUCCEEDED", "PARTIAL"}

\* RELEASES_NEXT_STEP.
Releases(p) == p = "SUCCEEDED"

\* Mutant: the release does not look at the control of the job.
PromoteGrantedWhileOpen(t) ==
  /\ Terminal(Predecessor(t))
  /\ Open
  /\ task[t].phase = "WAITING_DEPENDENCY"

\* Mutant: a step whose predecessor did not deliver is left waiting.
PromoteGrantedOnSuccess(t) ==
  /\ Releases(task[Predecessor(t)].phase)
  /\ Open
  /\ job.control = "NONE"
  /\ task[t].phase = "WAITING_DEPENDENCY"

PromoteGranted(t) ==
  /\ Terminal(Predecessor(t))
  /\ Open
  /\ job.control = "NONE"
  /\ task[t].phase = "WAITING_DEPENDENCY"

\* One iteration of promoteSequencedSteps.  A settled predecessor stays settled,
\* so reading it and committing on it are one step.
LanePromotes(l, t) ==
  /\ lane[l].step = "promote"
  /\ t \in lane[l].todo
  /\ LET rest == lane[l].todo \ {t}
         moved == lane[l].moved \/ PromoteGranted(t) IN
     /\ IF PromoteGranted(t)
        THEN /\ task' = [task EXCEPT ![t].phase =
                           IF Releases(task[Predecessor(t)].phase) THEN "READY" ELSE "BLOCKED"]
             /\ Wake
        ELSE UNCHANGED <<task, wakes>>
     /\ IF rest # {}
        THEN lane' = [lane EXCEPT ![l].todo = rest, ![l].moved = moved]
        ELSE Continue(l, IF moved THEN "asleep" ELSE AfterSequence(l))
  /\ UNCHANGED <<job, edges, open>>

\* Mutant: the fan-in settles as soon as a child failed.
ChildrenSettledOrFailed ==
  \/ \A t \in edges : Terminal(t)
  \/ \E t \in edges : task[t].phase \in FailedTask

ChildrenSettled == \A t \in edges : Terminal(t)

ResolveGranted(l) ==
  /\ task[Parent].phase = "WAITING_DEPENDENCY"
  /\ Open
  /\ job.control = "NONE"
  /\ job.gen = lane[l].gen
  /\ edges # {}
  /\ ChildrenSettled

\* resolveParentTask: the verdict of the steps whose edge is ACTIVE.
LaneResolves(l) ==
  /\ lane[l].step = "fan_in"
  /\ IF ResolveGranted(l)
     THEN /\ task' = [task EXCEPT ![Parent].phase =
                        IF \E t \in edges : task[t].phase \in FailedTask
                        THEN "FAILED" ELSE "SUCCEEDED"]
          /\ edges' = {}
          /\ Wake
          /\ To(l, "read")
     ELSE /\ Continue(l, IF lane[l].ready # NoTask THEN "dispatch" ELSE "asleep")
          /\ UNCHANGED <<task, edges, wakes>>
  /\ UNCHANGED <<job, open>>

DispatchGranted(l) ==
  /\ task[lane[l].ready].phase \in {"READY", "RETRY_PENDING"}
  /\ Open
  /\ job.control = "NONE"
  /\ job.gen = lane[l].gen

\* dispatchAttempt; the laneStep that lost it waits.
LaneDispatches(l) ==
  /\ lane[l].step = "dispatch"
  /\ IF DispatchGranted(l)
     THEN /\ task' = [task EXCEPT ![lane[l].ready].phase = "DISPATCHED",
                                  ![lane[l].ready].live = "queued"]
          /\ To(l, "read")
     ELSE Sleep(l) /\ task' = task
  /\ UNCHANGED <<job, edges, open, wakes>>

\* The process dies after the wake was consumed.
LaneCrashes(l) ==
  /\ lane[l].step # "asleep"
  /\ Sleep(l)
  /\ UNCHANGED <<job, task, edges, open, wakes>>

-----------------------------------------------------------------------------
(* Workers and reconciler, as AttemptAuthority proves them for one task.    *)

Start(t) ==
  /\ task[t].live = "queued"
  /\ Open
  /\ job.control = "NONE"
  /\ task' = [task EXCEPT ![t].live = "running"]
  /\ UNCHANGED <<job, edges, open, wakes, lane>>

Blocks(p) == p \in {"blocked_user", "blocked_approval", "blocked_external"}

TaskPhaseOf ==
  [ok |-> "SUCCEEDED", partial |-> "PARTIAL", failed |-> "FAILED",
   blocked_user |-> "WAITING_INPUT", blocked_approval |-> "WAITING_INPUT",
   blocked_external |-> "WAITING_DEPENDENCY"]

\* BLOCKED_WAIT.
JobPhaseOf ==
  [blocked_user |-> "AWAITING_USER", blocked_approval |-> "AWAITING_APPROVAL",
   blocked_external |-> "AWAITING_EXTERNAL"]

\* A: the step has siblings, so its result is applied by the same transaction.  A
\* pause takes the answer of the attempt it captured.
SubmitResult(t, p) ==
  /\ task[t].live = "running"
  /\ Open
  /\ job.control # "STOP_REQUESTED"
  /\ task' = [task EXCEPT ![t].phase = TaskPhaseOf[p], ![t].live = "none"]
  /\ IF Blocks(p)
     THEN /\ job.asked < MaxQuestions
          /\ job' = [job EXCEPT !.phase = JobPhaseOf[p], !.asked = @ + 1]
          /\ open' = [open EXCEPT ![t] = @ + 1]
          /\ wakes' = wakes
     ELSE Wake /\ UNCHANGED <<job, open>>
  /\ UNCHANGED <<edges, lane>>

\* expireQueuedAttempts.
ExpireQueued(t) ==
  /\ task[t].live = "queued"
  /\ task' = [task EXCEPT ![t].phase = "FAILED", ![t].live = "none"]
  /\ Wake
  /\ UNCHANGED <<job, edges, open, lane>>

\* reapExpiredLeases: retry, or fail when the losses spent the budget.
ReapLostWorker(t) ==
  /\ task[t].live \in {"queued", "running"}
  /\ task' = [task EXCEPT
       ![t] = [phase |-> IF @.losses + 1 >= MaxLosses THEN "FAILED" ELSE "RETRY_PENDING",
               live |-> "none", losses |-> @.losses + 1]]
  /\ Wake
  /\ UNCHANGED <<job, edges, open, lane>>

\* fireDueAttemptStopTimers: the fate of the work is unknown, the step reconciles.
FireStopGrace(t) ==
  /\ task[t].live = "stopping"
  /\ task' = [task EXCEPT ![t].live = "none"]
  /\ job' = [job EXCEPT !.pending = "UNKNOWN_OUTCOME"]
  /\ UNCHANGED <<edges, open, wakes, lane>>

Waits(t) == task[t].phase \in {"WAITING_INPUT", "WAITING_DEPENDENCY"}

\* expireStaleRequests: skipped when the task no longer waits.
ExpireRequest(t) ==
  /\ open[t] > 0
  /\ Open
  /\ job.control # "STOP_REQUESTED"
  /\ Waits(t)
  /\ open' = [open EXCEPT ![t] = @ - 1]
  /\ task' = [task EXCEPT ![t].phase = "TIMED_OUT"]
  /\ Wake
  /\ UNCHANGED <<job, edges, lane>>

\* reWakeStuckJobs.
ReWake ==
  /\ Open
  /\ job.control = "NONE"
  /\ job.phase \in {"AWAITING_USER", "AWAITING_APPROVAL", "AWAITING_EXTERNAL"} =>
       \A t \in Tasks : open[t] = 0
  /\ job.gen \notin wakes
  /\ \A t \in Tasks : task[t].live = "none"
  /\ Wake
  /\ UNCHANGED <<job, task, edges, open, lane>>

EdgesAfterStop == {}

\* classifyFlatStopScopeInSession with edges: every task of the plan is terminal.
PlanSettled == AllTerminal

\* The reduction of a stopped plan.
ReduceTerminal ==
  /\ Open
  /\ job.control = "STOP_REQUESTED"
  /\ PlanSettled
  /\ \A t \in Tasks : open[t] = 0 /\ task[t].live = "none"
  /\ wakes = {}
  /\ job' = [job EXCEPT !.phase = "TERMINAL", !.outcome = job.pending, !.pending = None]
  /\ edges' = EdgesAfterStop
  /\ UNCHANGED <<task, open, wakes, lane>>

-----------------------------------------------------------------------------
(* The owner: pauseJob, resumeJob, cancelJob, answerJobRequest.             *)

\* A pre-start admission goes back to READY, or fails if its cutoff is gone.
Pause ==
  /\ job.pauses < MaxPauses
  /\ Open
  /\ job.control = "NONE"
  /\ job' = [job EXCEPT !.control = "PAUSE_REQUESTED", !.gen = @ + 1, !.pauses = @ + 1]
  /\ \E late \in SUBSET {t \in Tasks : task[t].live = "queued"} :
       task' = [t \in Tasks |->
                  IF task[t].live = "queued"
                  THEN [task[t] EXCEPT !.live = "none",
                                       !.phase = IF t \in late THEN "FAILED" ELSE "READY"]
                  ELSE task[t]]
  /\ wakes' = wakes \cup {job.gen + 1}
  /\ UNCHANGED <<edges, open, lane>>

Resume ==
  /\ Open
  /\ job.control = "PAUSE_REQUESTED"
  /\ \A t \in Tasks : task[t].live # "running"
  /\ job' = [job EXCEPT !.control = "NONE", !.gen = @ + 1]
  /\ wakes' = wakes \cup {job.gen + 1}
  /\ UNCHANGED <<task, edges, open, lane>>

\* Every task of the job that is not terminal is cancelled, but one whose attempt
\* runs: that one reconciles while its worker is asked to stop.
Cancel ==
  /\ Open
  /\ job.control # "STOP_REQUESTED"
  /\ job' = [job EXCEPT !.control = "STOP_REQUESTED", !.phase = "RECONCILING",
                        !.pending = "CANCELLED", !.gen = @ + 1]
  /\ task' = [t \in Tasks |->
                IF ~Exists(t) \/ Terminal(t) THEN task[t]
                ELSE IF task[t].live = "running"
                THEN [task[t] EXCEPT !.phase = "RECONCILING", !.live = "stopping"]
                ELSE [task[t] EXCEPT !.phase = "CANCELLED", !.live = "none"]]
  /\ open' = [t \in Tasks |-> 0]
  /\ wakes' = {}
  /\ UNCHANGED <<edges, lane>>

\* RequestNotOpenError, and nothing changes, when the task does not wait.
Answer(t) ==
  /\ open[t] > 0
  /\ Open
  /\ job.control # "STOP_REQUESTED"
  /\ Waits(t)
  /\ open' = [open EXCEPT ![t] = @ - 1]
  /\ task' = [task EXCEPT ![t].phase = "RETRY_PENDING"]
  /\ job' = [job EXCEPT !.phase = "READY"]
  /\ Wake
  /\ UNCHANGED <<edges, lane>>

-----------------------------------------------------------------------------
Next ==
  \/ \E l \in Lanes :
       \/ LaneClaimsWake(l) \/ LaneReads(l) \/ LaneAdvances(l) \/ LanePlans(l)
       \/ LaneSpawns(l) \/ LaneLosesSpawn(l) \/ (\E t \in Steps : LanePromotes(l, t))
       \/ LaneResolves(l) \/ LaneDispatches(l) \/ LaneCrashes(l)
  \/ \E t \in Tasks :
       \/ Start(t) \/ (\E p \in Answers : SubmitResult(t, p)) \/ ExpireQueued(t)
       \/ ReapLostWorker(t) \/ FireStopGrace(t) \/ ExpireRequest(t) \/ Answer(t)
  \/ ReWake \/ ReduceTerminal \/ Pause \/ Resume \/ Cancel

Spec == Init /\ [][Next]_vars

\* Leases, admissions, graces and questions run out, the reconciler ticks, and
\* lane processes finish what they claim.  Nothing is asked of workers or owners.
Fairness ==
  /\ \A t \in Tasks : /\ WF_vars(ExpireQueued(t)) /\ WF_vars(ReapLostWorker(t))
                      /\ WF_vars(FireStopGrace(t)) /\ WF_vars(ExpireRequest(t))
  /\ WF_vars(ReWake) /\ WF_vars(ReduceTerminal)
  /\ \A l \in Lanes : /\ WF_vars(LaneClaimsWake(l)) /\ SF_vars(LaneReads(l))
                      /\ SF_vars(LaneAdvances(l)) /\ SF_vars(LanePlans(l))
                      /\ SF_vars(LaneSpawns(l) \/ LaneLosesSpawn(l))
                      /\ SF_vars(\E t \in Steps : LanePromotes(l, t))
                      /\ SF_vars(LaneResolves(l)) /\ SF_vars(LaneDispatches(l))

\* What takes a lane process to sleep by its own code.
LaneGoesOn(l) ==
  \/ LaneReads(l) \/ LaneAdvances(l) \/ LanePlans(l) \/ LaneLosesSpawn(l)
  \/ (\E t \in Steps : LanePromotes(l, t)) \/ LaneResolves(l) \/ LaneDispatches(l)

\* Crashes cease, at any time and in any place: from then on a lane process goes to
\* sleep only where its code does (a step that is also a crash is not ruled out).
CrashesCease == <>[][\A l \in Lanes : LaneCrashes(l) => LaneGoesOn(l)]_vars

FairSpec == Spec /\ Fairness /\ CrashesCease

-----------------------------------------------------------------------------
(* Properties.                                                             *)

JobOutcomes ==
  {"COMPLETED", "PARTIAL", "FAILED", "TIMED_OUT", "CANCELLED", "BLOCKED", "UNKNOWN_OUTCOME"}
JobDocs ==
  [control : {"NONE", "PAUSE_REQUESTED", "STOP_REQUESTED"}, phase : JobPhases,
   outcome : JobOutcomes \cup {None}, pending : {None, "CANCELLED", "UNKNOWN_OUTCOME"},
   gen : Nat, pauses : 0 .. MaxPauses, asked : 0 .. MaxQuestions]
TaskDocs ==
  [phase : TaskPhases, live : {"none", "queued", "running", "stopping"}, losses : 0 .. MaxLosses]
LaneMemories ==
  [gen : Nat, step : LaneSteps, ready : Tasks \cup {NoTask}, parent : BOOLEAN,
   todo : SUBSET Steps, moved : BOOLEAN, unpaused : BOOLEAN]

\* Every document, queue and lane memory holds values of its type.
TypeOK ==
  /\ job \in JobDocs
  /\ task \in [Tasks -> TaskDocs]
  /\ edges \subseteq Steps
  /\ open \in [Tasks -> 0 .. MaxQuestions]
  /\ wakes \subseteq Nat
  /\ lane \in [Lanes -> LaneMemories]

Untouched == {"ABSENT", "WAITING_DEPENDENCY", "BLOCKED", "CANCELLED"}

\* However many processes drain the lane, and however often the plan was turned
\* into tasks, a step has run or may run only if the one before it delivered in
\* full, and is BLOCKED only if that one ended otherwise.
OrderedSteps ==
  \A t \in Steps :
    Awaits(t) =>
      /\ task[t].phase \notin Untouched \/ task[t].live # "none" \/ task[t].losses > 0
           => task[Predecessor(t)].phase = "SUCCEEDED"
      /\ task[t].phase = "BLOCKED" =>
           Terminal(Predecessor(t)) /\ task[Predecessor(t)].phase # "SUCCEEDED"

\* The parent settles last: once it has a verdict of its own no step is left, no
\* edge is left, and a failure among the steps explains a failed parent.
ParentSettlesLast ==
  task[Parent].phase \in {"SUCCEEDED", "FAILED"} =>
    /\ \A t \in Steps : Exists(t) => Terminal(t)
    /\ edges = {}
    /\ task[Parent].phase = "FAILED" => \E t \in Steps : task[t].phase \in FailedTask

\* A closed job leaves nothing of its plan behind: no task that could still move,
\* no ACTIVE edge, no attempt and no question.
TerminalIsSilent ==
  ~Open => /\ AllTerminal
           /\ edges = {}
           /\ \A t \in Tasks : task[t].live = "none" /\ open[t] = 0

\* A pause freezes the plan: whatever a lane had read before it, no step is
\* created, released, blocked or dispatched and the parent gets no verdict.
PauseFreezesPlan ==
  [][job.control = "PAUSE_REQUESTED" /\ job'.control = "PAUSE_REQUESTED" =>
       /\ UNCHANGED <<edges, task[Parent]>>
       /\ \A t \in Steps :
            /\ ~Exists(t) => task'[t] = task[t]
            /\ t \in Sequenced => task'[t].phase \notin {"READY", "BLOCKED"}
            /\ task'[t].live = "queued" => task[t].live = "queued"]_vars

\* A late lane changes nothing of the plan of a closed job.
PlanIsFinal == [][~Open => UNCHANGED <<job, task, edges, open>>]_vars

\* "Idempotent by construction ... a second lane tick finds the edges already
\* present and does nothing" (child-tasks.ts): the plan becomes tasks once.
MaterializedOnce == Cardinality({c \in Chains : Exists(<<c, 1>>)}) <= 1

\* One lane process: the verdict says what the steps did.  Complete means that
\* every step delivered, the last one perhaps in part; failed, that one did not.
VerdictEarned ==
  /\ job.outcome = "COMPLETED" =>
       /\ \A t \in Materialized : task[t].phase \in {"SUCCEEDED", "PARTIAL"}
       /\ \A t \in Materialized : Awaits(t) => task[Predecessor(t)].phase = "SUCCEEDED"
       /\ Materialized # {}
  /\ job.outcome = "FAILED" => \E t \in Materialized : task[t].phase \in FailedTask
  /\ job.outcome = "CANCELLED" => job.control = "STOP_REQUESTED"

Delivered(t) ==
  task[t].phase = "SUCCEEDED" \/ (task[t].phase = "PARTIAL" /\ t[2] = PlanLength)
Executing == {t \in Steps : task[t].live # "none"}

DeliveredSteps == {t \in Steps : Delivered(t)}
ExecutingStep == IF Executing = {} THEN 0 ELSE (CHOOSE t \in Executing : TRUE)[2]
Broken == \E t \in Steps : Terminal(t) /\ ~Delivered(t)
Mode ==
  IF Open
  THEN CASE job.control = "NONE" -> "open"
         [] job.control = "PAUSE_REQUESTED" -> "paused"
         [] OTHER -> "stopping"
  ELSE IF job.outcome = "COMPLETED" THEN "complete" ELSE "ended"

\* One lane process implements the ordered plan its owner was promised.
Promise == INSTANCE OrderedPlan WITH
  delivered <- Cardinality(DeliveredSteps),
  executing <- ExecutingStep,
  broken <- Broken,
  mode <- Mode

PromiseSpec == Promise!Spec

\* A plan nobody pauses reaches its verdict, whatever its workers do; but one whose
\* question to the user ran out may settle every task and stay open, awaiting a user
\* nobody asks any more (advanceJobFromTasks).
PlanSettles ==
  (Open /\ job.control = "NONE")
    ~> \/ ~Open \/ job.control # "NONE"
       \/ AllTerminal /\ job.phase = "AWAITING_USER"

\* "Cancelling a plan closes the job" (docs/ORCHESTRATION-V2.md).
CancelledPlanTerminates == (job.control = "STOP_REQUESTED") ~> ~Open

\* "a step some other tick already released must not be released twice"
\* (child-tasks.ts): a step that ran and asked a question is not sent off again.
ReleasedOnce ==
  [][\A t \in Steps : open[t] > 0 /\ t \in Sequenced => task'[t].phase # "READY"]_vars

-----------------------------------------------------------------------------
(* The inductive strengthening that PlanSteps_proofs proves.               *)

\* The parent is never executed, and only a stop takes its plan away.
ParentWaits ==
  /\ task[Parent].phase \in {"WAITING_DEPENDENCY", "SUCCEEDED", "FAILED", "CANCELLED"}
  /\ task[Parent].phase = "CANCELLED" => job.control = "STOP_REQUESTED"
  /\ task[Parent].live = "none"
  /\ open[Parent] = 0

\* A chain comes into being as a whole, and no sooner has anything of its steps.
ChainsAreWhole ==
  \A t \in Steps :
    /\ Exists(t) <=> Exists(First(t))
    /\ ~Exists(t) => task[t].live = "none" /\ task[t].losses = 0 /\ open[t] = 0 /\ t \notin edges

\* What executes holds its step, and a step that is not terminal may lose again.
LiveMatchesPhase ==
  \A t \in Steps :
    /\ task[t].live \in {"queued", "running"} =>
         task[t].phase = "DISPATCHED" /\ Open /\ job.control # "STOP_REQUESTED"
    /\ task[t].live = "queued" => job.control = "NONE"
    /\ task[t].live = "stopping" => task[t].phase = "RECONCILING"
    /\ task[t].phase = "RECONCILING" => job.control = "STOP_REQUESTED"
    /\ ~Terminal(t) => task[t].losses < MaxLosses

\* A step that is not terminal still has its edge.
EdgesCover == \A t \in Steps : Exists(t) /\ t \notin edges => Terminal(t)

\* Only a step that ran has a question; without external waits it has one and waits for it.
QuestionsWait ==
  \A t \in Steps :
    /\ open[t] <= job.asked
    /\ Awaits(t) /\ open[t] > 0 => task[Predecessor(t)].phase = "SUCCEEDED"
    /\ "blocked_external" \notin Answers /\ open[t] > 0 =>
         task[t].phase = "WAITING_INPUT" /\ open[t] = 1

\* A lane dispatches a step, and nothing but a stop or a verdict ends its control.
LaneKnows ==
  /\ \A l \in Lanes :
       /\ lane[l].step = "dispatch" => lane[l].ready # NoTask
       /\ lane[l].ready # Parent
  /\ job.control = "STOP_REQUESTED" /\ Open => job.pending # None

SilentPlan == ~Open => AllTerminal /\ edges = {}

Inductive ==
  /\ TypeOK
  /\ ParentWaits
  /\ ChainsAreWhole
  /\ LiveMatchesPhase
  /\ EdgesCover
  /\ QuestionsWait
  /\ LaneKnows
  /\ OrderedSteps
  /\ ParentSettlesLast
  /\ SilentPlan

-----------------------------------------------------------------------------
(* One lane process: the strengthening behind VerdictEarned and PromiseSpec *)
(* that OrderedPlan_proofs proves.  Two of them may turn the plan into      *)
(* tasks twice (MaterializedOnce), and neither holds.                       *)

OneLane == \A l, m \in Lanes : l = m

\* The plan became tasks once, its parent answers for every one of them, and only
\* the owner's stop takes a step away.
SinglePlan ==
  /\ \A t \in Steps : Exists(t) => t[1] = 1
  /\ \A l \in Lanes :
       /\ lane[l].step = "spawn" => Materialized = {}
       /\ \A t \in lane[l].todo : Awaits(t)
  /\ task[Parent].phase = "WAITING_DEPENDENCY" => edges = Materialized
  /\ task[Parent].phase = "SUCCEEDED" =>
       /\ Materialized # {}
       /\ \A t \in Materialized : task[t].phase \in {"SUCCEEDED", "PARTIAL"}
  /\ \A t \in Steps : /\ task[t].phase # "SUPERSEDED"
                      /\ task[t].phase = "CANCELLED" => job.control = "STOP_REQUESTED"

\* The first n steps delivered and no other; the next one may be at work, and until
\* it ends those behind it have not moved.
Frontier(n) ==
  /\ \A t \in Steps : Delivered(t) <=> t[1] = 1 /\ t[2] <= n
  /\ Cardinality(DeliveredSteps) = n
  /\ \A t \in Steps :
       t[2] > n + 1 /\ task[t].phase \notin {"ABSENT", "WAITING_DEPENDENCY", "CANCELLED"} =>
         Terminal(<<1, n + 1>>)
DeliveredInOrder == \E n \in 0 .. PlanLength : Frontier(n)

Earned == SinglePlan /\ DeliveredInOrder /\ VerdictEarned
=============================================================================
