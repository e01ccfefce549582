# Verification of SPLOT OS: Durable Orchestration V2

TLA+ modules, TLC configurations and TLAPS proofs about the part of SPLOT OS
that decides *who may do work, for how long, and what the answer was*: the
durable orchestration store (`src/src/mastra/orchestration/`). Paths below are
relative to the repository's `src/`, and `store/x.ts` is short for
`src/mastra/orchestration/store/x.ts`.

Contents: [the system](#1-the-system) · [modules](#2-modules) ·
[runs](#3-runs-bounds-and-what-they-show) · [fairness](#4-fairness) ·
[proofs](#5-proofs) · [divergences found](#6-where-code-and-documentation-differ) ·
[not modelled](#7-what-is-not-modelled) · [plan](#8-plan)

## 1. The system

SPLOT OS runs agents. A user's request becomes a **job**; a job holds **tasks**;
a task is executed by **attempts**, one after another; an attempt is executed by
a **worker** in some process, through a **gateway** around a model call. All of
it is stored in MongoDB (replica set, snapshot transactions) and any number of
processes work on it at the same time. No process owns a job: every operation
re-establishes its authority from the documents, in one transaction, and CASes
the job's `stateVersion`.

| part | state it keeps | operations | how it meets the others |
|---|---|---|---|
| Attempts (`store/attempts.ts`) | attempt: lifecycle, fence, lease owner and expiry, three deadlines, frozen generations; task: phase, `activeAttemptId`, marker | dispatch, claim, start, renew, progress, marker, submit (A), queue expiry, lease reaping | lanes dispatch; workers claim/start/submit; the reconciler expires and reaps |
| Lane (`store/lane-orchestrator.ts`, `job-advance.ts`) | wakes in the outbox; the process's own memory of the wake it claimed | claim wake, `laneStep`, close the job | reads outside a transaction, commits in one; many processes |
| Control (`store/control-boundary.ts`, `attempt-stop.ts`) | job: control state, pause/stop/activation generations, pending outcome, grace | pause, resume, cancel; stop timers | recalls admissions, captures running work, cancels timers, requests and wakes |
| Terminal barrier (`store/flat-terminal-barrier.ts`) | barrier mode, pending outcome | reduce a stopped job to its verdict | run by the reconciler |
| Requests (`store/request-boundary.ts`) | control requests, their expiry | answer, expire | opened by A when an attempt blocks |
| Reconciler (`store/reconcile.ts`, `timers.ts`) | none | every reducer above, re-wake of stuck jobs | interval tick of `service/run-service.ts` |
| Earned deadlines (`store/attempts.ts`, `execution/gateway.ts`, `execution/harness-agent-caller.ts`) | deadlines, prints, extension count; two watchdogs in the worker's process | report a milestone, extend, re-arm; a reflector deepens the run | reports and replies cross time; the harness's cap has a second writer that asks no store |
| Plans (`store/child-tasks.ts`) | dispatch edges, `awaitsTaskId`, `plannedSteps` | materialize, release, fan-in | steps of the lane |
| Activations (`store/activations.ts`) | activation: kind, lifecycle, generation, marker, cutoff and deadlines; `job.activeActivationId`, the one slot | materialize, claim, start, mark, commit, settle as asked, abandon | created in the transaction that consumes a wake; every command of the owner takes the slot away |
| Result drain (`store/result-drain.ts`) | inbox item, retry count and timer, two watermarks | plan a batch, claim, commit; timer; redrive | fed by A of a task with `resultApplyMode = RESULT_DRAIN_V1`; closes the job or wakes the judge |
| Control recovery (`store/control-recovery.ts`) | recovery activation, attempts, root | reap a lost activation, restore its demand | takes the slot of what it recovers, under a new generation |
| Final decision (`store/final-decision.ts`) | lane questions, replan tasks | judge, ask, replan, close | a step of the lane, in several transactions |
| Process supervision (`execution/process-supervisor.ts`, `process-worker.ts`, `linux-process-tree.ts`, `store/process-supervision.ts`, `attempt-stop.ts`) | process owner, process state and receipts of an attempt; stop timers; outside the store, wrappers and process groups | register, release, START, the stop ladder (abort, TERM, KILL), receipts that a tree is empty, lost owners | worker and supervisor climb the same ladder; the reaper and the terminal barrier wait for the receipts |
| Stop-control recovery, conversation writer, worker pool | repair budgets; entries; capacity | see `PROJECT.json` | not modelled |
| Services (`src/mastra/services/`, `src/mastra/lib/`) | permits, locks, breakers, queues, ledgers, run budgets | see `PROJECT.json` | the run budget's cap and its depth upgrade are in `ProgressLease`; the rest is not modelled |

`PROJECT.json` lists all parts with their files and status, and under `hazards`
every place of the code that is hard to test, with the property that watches it.

What makes the core hard:

- **Interleaving.** Two lane processes may hold wakes of the same job and decide
  from the same stale read. A worker claims, starts, marks and submits in separate
  transactions, and pause, resume, cancel, lease expiry and two deadlines fit
  between any two of them.
- **Generations.** A dispatch freezes the pause, job-stop and task-stop
  generations; each later operation compares them. Whether the comparisons
  together admit exactly the right histories cannot be seen in any one operation.
- **Crash and loss.** Wakes are consumed before the work they announce; workers
  vanish; replies are lost; timers fire late.
- **Two styles of ownership.** Planning, draining and recovering are owned by a
  leased activation, so their loss is noticed; judging, asking, replanning and
  closing are plain steps of the lane, so theirs is not. One job passes between the
  two styles several times, through `job.phase`.
- **Time.** A deadline may pass while a report about it is in flight, and three
  deadlines, a lease and two process-local watchdogs must stay ordered.

What makes it correct, by part, is stated as properties in the modules and listed
in section 3.

## 2. Modules

| module | models | lines of code it stands for |
|---|---|---|
| `JobContract` | what the owner of a job is promised: one attempt executes at a time, an ended one never again, at most one accepted answer, one verdict given when nothing executes | abstract |
| `AttemptAuthority` | one job with one SERIAL task: lanes, workers, reconciler, control, requests, barrier | `store/attempts.ts`, `worker.ts`, `lane-orchestrator.ts`, `job-advance.ts`, `control-boundary.ts`, `attempt-stop.ts`, `flat-terminal-barrier.ts`, `request-boundary.ts`, `reconcile.ts`, `timers.ts` |
| `ProgressLease` | earned deadlines of progressive attempts, and the two watchdogs of the worker's process | `recordAttemptProgressAndExtend` and everything that reads or writes a deadline; `execution/gateway.ts`, `harness-agent-caller.ts`, `services/run-budget.ts`, and the depth upgrade of `services/depth-controller.ts` |
| `OrderedPlan` | what the owner of a plan is promised: steps executed one at a time, in order, each after the one before delivered; nothing admitted in a pause; complete only when all delivered | abstract |
| `PlanSteps` | one job with a frozen plan: parent, steps, edges, lanes, control | `store/child-tasks.ts`, and what `lane-orchestrator.ts`, `job-advance.ts`, `flat-terminal-barrier.ts`, `control-boundary.ts`, `attempts.ts`, `request-boundary.ts`, `reconcile.ts` do to a job with edges |
| `LaneActivations` | one job with an inbox: the slot, planner, drain, recovery, lane, commands | `store/activations.ts`, `result-drain.ts`, `control-recovery.ts`, and what `lane-orchestrator.ts`, `job-advance.ts`, `control-boundary.ts`, `request-boundary.ts`, `flat-terminal-barrier.ts`, `reconcile.ts`, `attempts.ts` do to such a job |
| `ProcessStop` | one task whose attempts run in process groups: worker, wrapper and workload, supervisor, reaper, cancel, barrier, reboots | `execution/process-worker.ts`, `process-supervisor.ts`, `linux-process-tree.ts`, `store/process-supervision.ts`; the operations on process owners in `store/attempts.ts`, `attempt-stop.ts`, `control-boundary.ts`, `flat-terminal-barrier.ts` |
| `FinalDecision` | the judge, on top of `LaneActivations` (EXTENDS), with the specification of both | `store/final-decision.ts` |
| `*_proofs` | the theorems | |
| `MC*` | symmetry sets for TLC | |

### 2.1 AttemptAuthority

State ↔ code. `job`, `task`, `att[a]` are the documents of the collections, with
the fields the guards read; `result` is the results collection; `request` the
open control request; `timers` the PENDING retry timers; `wakes` the
`activationDispatchGeneration`s of the PENDING `LaneWakeRequested` rows. `held[w]`
and `lane[l]` are *memory of a process*: what a worker slot remembers of the
attempt it claimed (with the fence), and how far a lane process is in the step it
runs. They are what makes stale decisions possible.

Steps ↔ code. One store operation is one MongoDB transaction, so it is one action
and contains every write of that transaction. What the code does in several
transactions, or decides outside one, is several actions:

- the lane: `LaneClaimsWake` (`claimNextWake`), `LaneReads` (the reads of
  `laneStep`, no transaction), then `LaneDispatches` / `LaneLosesDispatch`
  (`dispatchAttempt` with its authority check) or `LaneAdvances`
  (`advanceJobFromTasks`); `LaneCrashes` between any two of them;
- the worker (`runWorkerOnce`): `Claim`, `Start`, `RenewLease`, `WorkReturns`,
  `MarkPayloadReady` or `NoMarkerNeeded`, `SubmitResult`; `Abandon` at any point;
- the reconciler: one action per reducer (`ExpireQueued`, `ReapLostWorker`,
  `ReapUnconfirmed`, `FireStopGrace`, `FireRetryTimer`, `ExpireRequest`, `ReWake`,
  `ReduceFlatTerminal`);
- the owner: `Pause`, `Resume`, `Cancel`, `Answer`.

Time is reduced to comparisons: a stored instant is a flag that says whether it
has passed, and a separate action lets it pass. The three deadlines of an attempt
are ordered (`business < work < hard`, `deriveAttemptDeadlines`), so one value
`clock` says which was the last to pass.

Abstracted: payload contents (a producer status stands for the answer), hashes,
events, notification rows (nothing reads them back), and the STOP_TERMINAL
activation that owns the reduction (its effect is the atomicity of
`ReduceFlatTerminal`). A question of kind `external` or `dependency` is modelled
in `PlanSteps`, where the phase it leaves behind means something else too.

### 2.2 ProgressLease

Here time is a number, because the properties are about its arithmetic. `att[a]`
holds the three deadlines and the lease as instants, the extension count and the
prints; `gw[a]` is the model call in the worker's process with the gateway's
belief (`earned`, `work`), the harness's cap (`inner`, `maxInner`, `innerWork`), its
idle timeout and the run's depth; `reports` are milestone reports on their way to the store or
replies on theirs back. `RecordProgress` follows the order of the early returns
of `recordAttemptProgressAndExtend`; `Report`, `ReplyArrives`, `ReplyLost`,
`DeadlineFires` and `HarnessCuts` are the process. The harness's cap has two writers.
`RaiseInner` (`setRunLivenessHardCapAt`) follows the store's replies and the loan for a
report; `UpgradeRunDepth` is the run's own reflector, which on an anomaly takes a `fast`
run to `standard` and a `standard` one to `deep` (`strategy-reflector.ts:1640-1646`) and
gives it that profile's cap, ceiling and idle timeout from the start of the run
(`upgradeRunDeadline`), without looking at the attempt. Which level a run starts at is
the classifier's choice (any of `Classified`), whether and when it is deepened the reflector's. What the attempt's life needs
besides (dispatch, claim, start, heartbeat, marker, A, reaper, pause) is repeated
only as far as it moves or reads an instant; the rest is `AttemptAuthority`'s.

### 2.3 PlanSteps

State ↔ code. `task` holds the parent and the steps; a step is a pair of the chain
(the set of children one `spawnChildTasks` created) and its place in
`plannedSteps`, and its predecessor is its `awaitsTaskId`. `edges` are the children
whose dispatch edge is ACTIVE, `open` counts OPEN control requests per task,
`wakes` are as above. `lane[l]` is what one `laneStep` read and still uses later:
the ready task, whether the parent waited, the steps it will try to release
(`todo`), whether one of them moved, and whether the job was unpaused.

Steps ↔ code. A `laneStep` is many transactions: `LaneReads` (its snapshot),
`LaneAdvances` (`advanceJobFromTasks`), `LanePlans` (the reads of
`materializePlannedSteps` and `promoteSequencedSteps`), `LaneSpawns` or
`LaneLosesSpawn` (`spawnChildTasks`), one `LanePromotes` per step of the loop,
`LaneResolves` (`resolveParentTask`), `LaneDispatches` (`dispatchAttempt`), with
`LaneCrashes` between any two. Where a step ends and the next begins follows the
early returns of `laneStep`.

Abstracted: an attempt is *pre-start*, *running* or *asked to stop*, since
`AttemptAuthority` proves that a task has one at a time and what its fences admit;
deadlines and expiries are choices; the retry backoff is zero; the wakes of one
generation are one wake; edges are REQUIRED ones, the only kind
`materializePlannedSteps` creates; no judge is configured.

`Promise` maps the documents to `OrderedPlan`: `DeliveredSteps` (a step that succeeded, or the
last one in part) to how far the plan has come, `ExecutingStep` to the step at work, `Broken` to a
step that ended otherwise, and `Mode` to what owner and verdict say.

### 2.4 LaneActivations and FinalDecision

State ↔ code. `job` has the fields the guards read, with `gen` for
`activationDispatchGeneration`, `high` and `resolved` for the inbox watermarks,
`tries` and `root` for the recovery lineage, `plan` for `planVersion`; `starts`,
`asked`, `pauses`, `planned` are counters for properties and bounds. `slot` is the activation that
`job.activeActivationId` names; an activation that lost the slot can do nothing
more, because every transaction begins with the slot, so older ones are not kept.
`item` is the inbox item of the first task, the only one that is ever applied
through the inbox (`loadRootResultTask` wants a single task; a replanned task
is applied by A). `latest` is what `getJobResult` would return. `lane[l]` is the memory of a
lane process: the generation of the wake it claimed, what its snapshot said to do next
(`next`, `pick`), and what the judge decided. `thinking` and `settling` are the
planners that are between two transactions.

`config` chooses the *scenario*: which deployment this is (judge or none, an owed
document or none, one or two lane processes) and how much of each disturbance it
may meet. It never changes, so one run explores several instances.

Steps ↔ code. The transaction that consumes a wake also materializes the activation
(`LaneClaimsWake`); then `ActivationClaims`, `ActivationStarts`, and by kind
`PlannerProposes` and `PlanningCommits`, or `DrainApplies` / `DrainPostpones`, or
`ControlCommits`. Whoever runs an activation reads it again in every transaction, so the
process needs no memory, and its death is the step it never takes. The exception
is the planner: `runPlanningActivation` calls the decider for minutes and, when the
answer is a question, calls `openLaneUserRequest`, which looks at the job and not at the
activation. So a planner outlives its activation (`thinking`, `PlannerAsks`), and
`settleActivationAsAsked` is one more transaction (`settling`).

The judge reads (`JudgeReads`), and then acts in transactions of their own:
`JudgeAsks`, `JudgeReplans` then `JudgeReopens`, `JudgeFinishes`, with `LaneDies`
between any two. What a model may answer is a choice; what the code decides without a
model (text where a document was owed, a specialist that needs input, exhausted
attempts) is not.

Abstracted: the judge's several reads are one; an older generation's wake is dropped
when a newer one is claimed (the code publishes and skips it); an attempt is
*dispatched* until it answers (`AttemptAuthority`, `ProgressLease`); an activation's
deadlines are one clock with the values *open*, *cutoff*, *over*; that the rows linked
to a result can be read is one flag; rejections that only damaged or foreign
rows produce are left out, and so is the hand-over of a commit from one lane to
another that has the same authority.

### 2.5 ProcessStop

State ↔ code. `att[a]` is an attempt row with the fields that process authority reads:
`owner` (`processOwner` is set), `released`, `state` (`processState`), `confirmed`
(`terminationConfirmed`), the two receipts, the stop and its grace timer. `os[a]` is what
the machine does: the wrapper, its target, a child that may leave the process group, the
channel to the worker, and `place`, which says whether the tree can be judged from here
(same boot, leader's pid not reused). `wk[a]` is where the worker is in
`runSupervisedProcessWorkerOnce`, `sup` the stop the supervisor is climbing.

Steps ↔ code. The worker's steps are the durable ones of `runSupervisedProcessWorkerOnce`
with the messages between them; every store call of theirs may be refused, and may
commit while its acknowledgement is lost (`Commits`). `Rung` is one rung of
`stopSupervisedAttempt`, used by worker and supervisor alike: it reads the stop again,
inspects the tree, records a receipt or sends a signal. `FindStop`,
`FindLostOwner` and `FindEmptyTree` are the supervisor's scan; `Reap`, `GraceFires`,
`CancelJob` and `Reduce` the store operations that meet them. `limits` holds how many
attempts there may be and the *faults* to come: a worker's death, a reboot, a reused pid.

Abstracted: deadlines are flags that only become TRUE; a queued and a leased admission
are one state, and marker and answer are one commit (`AttemptAuthority` tells them
apart); pauses are `AttemptAuthority`'s; a `/proc` scan is instantaneous (section 6); the
bookkeeping of signal stages, the probe's back-off and the scan's limits are left out.

## 3. Runs, bounds and what they show

All runs finish exhaustively. Symmetry is used for worker slots, lane processes
and prints, which the code treats alike; never in a run with a liveness property.

| run | instance | shows |
|---|---|---|
| `races` | 2 workers, 2 lanes, 2 dispatches, budget of 1 loss, 1 pause, cancel, 1 question to the user, unknown outcomes (390,677 states) | `TypeOK`, `NeverSuperseded`, `FrozenAnswerIsAccepted`, `SingleExecution`, `VerdictIsExplained`, `PauseAdmitsNothing`, and that the store implements `JobContract` (`ContractSpec`) |
| `liveness_retry` | 1 worker, 1 lane, 3 dispatches, 2 losses, backoff, 1 pause, cancel, fair | `StopTerminates`, `PauseDrains`, `UnpausedSettles` |
| `expired_question` (violation) | a question to the user, fair | `ExpiredQuestionTerminates` is violated, see section 6 |
| `earning` | 2 attempts that report the same 2 prints, 2 extensions, cap that clips the second | `ReservesSurvive`, `WindowIsEarned`, `PrintsEarnOnce` |
| `replies` | 1 attempt whose run starts `fast` and may be deepened twice, 2 reports in flight, 1 pause, fair clock, timer, reconciler (699,445 states) | `WatchdogsTrailTheStore`, `NoStockpile`, `NoResurrection`, `AttemptsEnd` |
| `plan_lanes` | 2 lanes, 2 steps, 2 chains, 1 loss, 1 pause, 1 approval (2.2 million states) | `TypeOK`, `OrderedSteps`, `ParentSettlesLast`, `PauseFreezesPlan` |
| `one_lane` | 3 steps, every answer but an external wait, 2 losses, a question, 1 pause, crashes, fair | `VerdictEarned`, `PlanSettles`, and that one lane implements `OrderedPlan` (`PromiseSpec`) |
| `judged` | ten scenarios of one job from its first wake to its verdict, fair | `TypeOK`, `ClosedOnAppliedResult`, `CompletedMeansDelivered`, `ReplansAreBounded`, `PlannedOnce`, `QuestionIsHonoured`, `OnlyLossesForsake`, `NothingBehindAPause`, `Settles`, `ActivationsEnd` |
| `supervised` | 1 attempt with 2 faults, or 2 attempts with none, cancel, fair (444,452 states) | `TypeOK`, `ProofIsTrue`, `NoOverlap`, `EndedMeansDead`, `AttemptsEnd`, `StopSettles` |
| `two_tasksets`, `cancelled_plan`, `released_twice` (violations) | 2 steps | `MaterializedOnce`, `CancelledPlanTerminates`, `ReleasedOnce` are violated |

Why these bounds reach the interesting cases:

- *Attempts.* In `races` the budget is one loss, so a second attempt comes from a
  recall by a pause or from a question, and the loss count and the attempt number
  differ; a retry after a loss, and a loss at the budget, are in `liveness_retry`
  (three attempts, two losses). There the worker answers only `timed_out`: which answer
  it is decides the verdict, not whether there is one. The theorems of section 5
  hold for all of these bounds together.
- *Processes.* The code's races are pairwise (two lanes on one decision, a worker
  and its successor on one task); a third adds no new pair of operations, and all
  operations are symmetric in them. The theorems hold for any number.
- *Pauses.* `UnderOnePause` is the fact that no attempt outlives two pauses; one
  pause plus its resume exercises captured, missed and recalled attempts. The
  proofs are for any number.
- *Plans.* Three steps are the least with a step that is both released and
  releasing; the order of a longer plan is that of its neighbouring pairs. Each lane
  can spawn at most once from a stale read, so two lanes need two chains.
- *Time.* In `earning` the window is 3, an extension 2, the cap 6: the second
  extension is clipped by the cap to 1, which is what distinguishes moving every deadline by the
  clipped amount from moving them by the full one. A lease lasts two instants, so a
  worker can live through one without a heartbeat and still be lost. In `replies` an
  extension is 1, so that two of them at once would be a stockpile.
- *Depth.* In `replies` a run starts `fast`: the cap of `standard` (3) outlasts the
  initial window's work deadline (2), the one of `deep` (6) the whole attempt (5), so each
  upgrade takes the harness past the attempt, before and after replies. In `earning`
  a run is `critical`, which nothing deepens: its properties are the store's.
- *Scenarios of `judged`* (`MCScenarios`). Two attempts, one question, one recovery and
  one retry are each the least with a *last* one that differs from the first. Two lanes are
  given where both can judge; a crash and a pause where the judge acts in several
  transactions; a pause, and a steer, where a planner asks; unreadable rows, a
  redrive and a pause with and without a judge. Larger combinations (a pause with two
  judging lanes, crashes with a steer; up to 1.3 million states each) were run
  once and satisfy the same properties; they are left out for time.
- *Faults of `supervised`.* Two faults are a dead worker and then a reboot or a reused
  pid, the case in which nobody is left who could tell; two attempts without faults are
  a retry after a lost lease whose process still runs. So TLC sees `NoOverlap` only
  without faults: a worker that dies, or a host that reboots, *before* a retry is covered by
  the theorem `RetriesDoNotOverlap` alone, which holds for any number of both.
- *Questions.* `UnpausedSettles` is checked with losses and a pause, and
  `PlanSettles` with questions that may stay unanswered. A question to the user is left
  out of the first, because there the code does not terminate (`expired_question`);
  the second excuses a plan by name that this happens to (all tasks terminal, the job
  still `AWAITING_USER`), and an external wait is left out of it: released twice (item 4 of section 6), such a step
  is READY while its question keeps the job in `AWAITING_EXTERNAL`, where a lane
  that dies after the wake is not replaced.

`CHECK_DEADLOCK FALSE` throughout: a terminal job, or one whose bound of attempts
is used up, really has nothing more to do.

Each property of a passing run has a mutant in `PROJECT.json`: a definition of the
module replaced by one with a plausible mistake, under which TLC finds the
property violated.

## 4. Fairness

`FairSpec` of `AttemptAuthority`, `ProgressLease`, `PlanSteps`, `ProcessStop` and `FinalDecision`
assume, as far as each has the actions:

- *stored instants pass*, and the clock ticks;
- *the reconciler runs*: `service/run-service.ts` calls `reconcile()` from an
  interval, and `store/reconcile.ts:151-190` runs every reducer in every tick, so
  a reducer that stays enabled is taken: weak fairness per reducer;
- *every lane drains*: the same service drains the lane from an interval; its
  reads and commits get strong fairness in `AttemptAuthority` because `LaneCrashes` may
  interrupt them: the process may crash, but not at the same point for ever. In
  `PlanSteps` the same is said by `CrashesCease` (from some point on a lane goes to
  sleep only where its own code does), and in `FinalDecision` by a bound on
  crashes;
- *a worker's attempt ends* (`FinalDecision` only; `AttemptsEnd` shows it), and an
  activation that is neither committed nor lost is claimed, started, and committed;
- *the supervisor climbs* (`ProcessStop`): the reconciler calls
  `reconcileSupervisedProcesses` before the reaper in every tick, and a ladder it started
  is run to its end (`SupervisorClimbs`);
- *the gateway's timer fires* (`setTimeout` in `execution/gateway.ts`).

Nothing is assumed of workers, models, replies and owners: a worker may stop at
any point or heartbeat for ever, a question need never be answered, a pause need
never be resumed, an operator need never redrive, rows that vanished need never
return, an activation may lose its deadline every time, and a workload may ignore
every signal but KILL, which a dead or reborn host may keep from reaching it. That is why `Settles`
names who is waited for, why `UnpausedSettles` excuses a pause and why
`AttemptsEnd` holds against a worker that renews and reports without end. In
`PlanSteps` a running attempt ends through `ReapLostWorker` (its lease or its
deadline runs out, `AttemptsEnd`), which is why that action is fair.

## 5. Proofs

The proof modules extend the module they are about; all steps are checked by
TLAPS (SMT, Zenon, PTL).

**`AttemptAuthority_proofs`.** Assumptions: the named assumptions on the constants
(bounds are naturals, payloads are producer statuses). Theorem `Safety`:
`Spec => []Inductive`. Why a strengthening is needed: `SingleExecution` is not
inductive, because a claim is granted by comparing generations, and nothing in
`SingleExecution` says that a queued attempt's generations are *the job's*.
`Inductive` adds

- `HeldMemory`: a worker that has an answer remembers which;
- `StopIsJobWide`: an attempt is asked to stop only by a job-wide stop;
- `BindingCleared`: a task outside DISPATCHED/RECONCILING is bound to no attempt;
- `UnderOnePause`: an attempt that may still execute was dispatched at most one
  pause ago, and at no older stop generation. From it follows that the reaper
  always has retry authority, i.e. `NeverSuperseded`;
- `MarkerBound`: the marker is the task's too, and a pause leaves an attempt
  uncaptured only when it could not have finished anyway. From it and
  `UnderOnePause` follows `FrozenAnswerIsAccepted`.

Each action has a lemma or step of its own, and a general lemma for steps that
leave the documents alone. `PauseAdmitsNothing` and `VerdictIsFinal` are proved as
action properties from the same invariant.

**`JobContract_proofs`.** Two results that look at the history of all attempts, so that
no single step shows them.

- `VerdictsAreExplained` (`VerdictIsExplained`): a closed job is COMPLETED only on an
  accepted answer, UNKNOWN_OUTCOME if and only if an attempt is, and its task FAILED only
  if an attempt answered so or as many were lost as the budget allows. The proof needs a
  second inductive invariant, `History`, on top of `Inductive` (`HistoryIsKept`): attempts are
  minted in order, an accepted answer ends the work, an unknown outcome is never
  dispatched away, and the lost attempts (counted as a finite set) never exceed the
  budget and fail the task exactly when they reach it (`LossesAreCounted`).
- `ContractKept`: `Spec => ContractSpec`, the refinement of `JobContract`. The mapping
  reads `Executing`, `Ended`, `Accepted` and `Verdict` off the documents. One lemma,
  `StepKinds`, sorts every step of the detailed specification into a few kinds (nothing
  the owner sees, mints an attempt, ends one unanswered, delivers, turns down,
  stops, closes by the work, closes after a stop); then each kind is an `Admit`, `End`,
  `Accept`, `Stop`, `Close` or a stutter of the contract. "One executes at a time" and
  "an ended one never again" come from `Inductive`, "no verdict over running work" from
  `SilentJob` there.

**`ProcessStop_proofs`.** Assumption: `BoundsAssumption`. Theorem `InductiveHolds`:
`Spec => []Inductive`, and from it `TypeCorrect`, `ProofsAreTrue`, `StartIsAuthorized`
(`ReleasedFirst`: no program runs that the store did not release),
`RetriesDoNotOverlap` and `EndsAreClean`. `NoOverlap` and `EndedMeansDead` speak of
processes, and the operations that grant a retry or a verdict read only rows. So the
invariant has a *local* part, per attempt, that ties row, worker and processes together
(`RowAgrees`, `WorkerAgrees`, `ProcessAgrees`, `ProofIsTrue`), and a *counting* part over
all of them: at most one attempt is not accounted for (`AtMostOne`), none where a retry
or a known end was granted (`GrantsAreSafe`). The two need each other: a receipt is
believed because the tree was seen empty, and an empty tree stays empty because a
process starts only by START, which needs a release that no accounted attempt gets.
Every step is first shown to be *quieter* or not for each attempt (`Quieter`: it starts
nothing that the row did not allow), then the local part is one lemma per action and the
counting part one per kind of row change. The theorems hold for any number of attempts,
deaths, reboots and reused pids.

**`ProgressLease_proofs`.** Assumptions: `PolicyAssumption` (what
`isProgressiveAttemptPolicy` and `dispatchAttempt` check), `HarnessAssumption`,
`BoundsAssumption`. Theorem `LeaseSafety`: `Spec => []Inductive`, where
`Inductive` joins the four invariants about deadlines and watchdogs with
`BlankUntilMinted`, `PrintsAreFinite` and `MessagesTrailTheStore` (no reply in
flight and no loan of the harness names more time than the store has given
since: without it a late reply could raise a watchdog past the store).
`HarnessAssumption` asks of the profiles only that their times are numbers.
`WatchdogsTrailTheStore` bounds the gateway's belief and timer by the store, whatever the
harness does; the harness's cap it bounds by the attempt only as long as the run is not
deepened, and after that by the attempt or exactly the cap of a profile it was given
(`CapAccounted`). Nothing else in the module rests on a bound of the harness's
cap: attempts and calls end by the gateway's timer and the reaper. The
argument goes through one lemma, `DocumentSteps`: whatever the step, an attempt's
instants are either kept, minted, or earned by one accepted report; each conjunct
is then shown for these three cases, in a lemma per conjunct.

**`PlanSteps_proofs`.** Assumptions: `PlanAssumption`, `AnswersAssumption`. Theorem
`InductiveHolds`: `Spec => []Inductive`. `OrderedSteps` needs more than itself: a
step may be set READY from a stale `todo`, so the argument has to say that a
settled predecessor stays settled, that a chain comes into being as a whole
(`ChainsAreWhole`), that only a dispatched step has an attempt
(`LiveMatchesPhase`), and that only a step that ran can have a question whose
answer makes it dispatchable (`QuestionsWait`). `ParentSettlesLast` needs that a
step which is not terminal still has its ACTIVE edge (`EdgesCover`), and
`PlanIsFinal` that a closed job has neither a step that could move nor an edge
(`SilentPlan`). The lemmas `LiveStep`, `AskingStep` and `QuietMove` say once what a
step of one task may do to the invariant; each action cites one of them. The
theorems hold for any number of lanes, chains and steps, so the order is kept even
when a plan was turned into tasks twice. `ClosedPlanIsSilent` assumes that no worker
answers `blocked_external`: with that answer a closed job can keep an OPEN
question, see item 4 of section 6.

**`FinalDecision_proofs`.** Assumptions: `ScenarioAssumption` and `LimitAssumption`; the
theorems hold for any set of scenarios, that is for any number of lanes, pauses, steers,
questions, crashes, faults and redrives. Three invariants, each proved with those before it:

- *Documents*: types, and `Delivery`: before the first task has been worked on there is
  no result, and until a stop a result that is not applied has that task waiting
  for it. From it follows `ClosesOnAppliedResult`, because whoever closes the job needs
  all tasks terminal. `PauseIsRespected` uses the types only.
- *Ownership*: while there are no tasks, a planner of this generation still has its
  slot (`Held`), and when the one demand was asked and is still there, its planner has not
  settled. `PlannedOnce` alone says nothing of the slot, so it cannot exclude that a
  second activation starts; with `Ownership`, `AsksThePlannerOnce` follows,
  because the generation moves past every planner whenever the slot is taken away.
- *Budget*: tasks, and lanes that have decided to add one, together
  stay within the bound. `ReplansAreBounded` alone cannot be kept by `JudgeReplans`, which
  does not look at the number of tasks again.

Steps that disturb nothing of an invariant are collected in one lemma each
(`UndisturbedDelivery`, `CalmOwnership`, `FreshOwnership`, `ThriftyBudget`); the remaining
actions have steps of their own.

**`FinalVerdict_proofs`** continues that chain with five more invariants, up to what the
verdict means. Assumptions as before.

- *Succession*: tasks are made one after another, each replacing an earlier one, and none
  next to the first before that has ended. So the last task stands (`LastStands`), and a
  lane that found all tasks ended has one to read a verdict from.
- *Verdict*: where one lane judges (`Sole`), every task replaces the one just before it,
  and what the judge remembers is still so when it acts (`Sure`). With two lanes neither
  holds: that is the exception for a second lane in the properties.
- *Unjudged*: with one lane, a lane goes past the judge to `advanceJobFromTasks` only over
  a pause or once a question was asked. With Succession and Verdict,
  `CompletedIsDelivered` follows.
- *Questions*: while the owner neither pauses nor steers nor cancels (`LeftAlone`), a planner
  asks only before there is work, the judge only when all work has ended, and a judge
  who is alone waits for the answer. That needs the planner's slot (*Ownership*) and that a
  frozen plan has no planner left (`PlanFrozen`). `QuestionsAreHonoured` follows.
- *Provision*: an applied result has somebody to look at it (a wake, an open
  question, or a lane whose judge has it, `Engaged`), unless a lane died or the owner
  paused; and a result waits behind a phase no drain looks at only if a planner asked over
  a pause or a steer. `OnlyLossesLeaveBehind` follows: the ways in which a job is
  forsaken or a result orphaned (section 6) have no other cause.

The proofs go by how the parts of the state move, one lemma for each of tasks, lanes, job,
phase, slot, item, wakes and questions (`TasksMove`, `LanesMove`, `JobStep`, `PhaseMoves`, `OutcomeStep`, ...),
so that an invariant is argued over a handful of moves and not over forty actions.
The attempt to prove the last one corrected the module: with
`MaxLaneQuestions` = 2 a judge whose question meets one that a planner had left open reuses it
(`openLaneUserRequest`) and goes to sleep in a typed phase. Nobody but the owner moves that job, but the owner
*was* asked; so `Forsaken` says that no question is open, and `AwaitsOwner` counts a
question next to work that has ended. TLC had not seen it, because the run `judged` allows
one question only.

**`OrderedPlan_proofs`.** Assumptions: `PlanAssumption`, `AnswersAssumption`, and in every theorem the
hypothesis `OneLane`: two lanes can turn one plan into two sets of tasks
(item 2 of section 6), and TLC refutes `VerdictEarned` and `PromiseSpec` with two.

- `EarnedHolds`: `Earned`, on top of `Inductive`, says that there is a single set of
  tasks (`SinglePlan`), that a prefix of its steps has delivered and nothing beyond the next one
  has moved (`DeliveredInOrder`, with `Frontier(n)`), and `VerdictEarned`. From it
  `VerdictsAreEarned`.
- `PromiseKept`: `Spec => PromiseSpec`, the refinement of `OrderedPlan`. As for
  the contract, a lemma `StepKinds` sorts every step into kinds (a step of the plan is dispatched, falls
  back, delivers, turns out otherwise or asks; the plan is spawned, its parent resolved; the owner
  pauses, resumes, stops; the job closes), and each kind is an `Execute`, `Fall`, `Deliver`,
  `GiveUp`, `Command` or `Close` of `OrderedPlan`, or a stutter. Blocking the steps behind a failed
  one is a stutter, because the plan was broken already.

**Only model-checked.** Every safety invariant, action property and refinement that a passing
run checks is proved. With TLC stay the liveness properties (`StopTerminates`, `PauseDrains`,
`UnpausedSettles`, `AttemptsEnd`, `PlanSettles`, `Settles`, `ActivationsEnd`, `StopSettles`), because fairness is
stated with ENABLED, which the prover does not reason about; and the four
violations, which are traces.

## 6. Where code and documentation differ

The first four are runs that TLC ends with a trace; the quotations are in
`PROJECT.json`.

1. `ExpiredQuestionTerminates`: an expired question times the task out but leaves
   the job `AWAITING_USER`, which no reducer will close.
2. `MaterializedOnce`: "no edges yet" is read outside the transaction that creates
   the edges, so two lanes can turn one plan into two sets of tasks.
3. `CancelledPlanTerminates`: a plan cancelled while a step runs waits for that step
   to be terminal; it stays RECONCILING and nothing makes it so.
4. `ReleasedOnce`: a step that ran and waits on something external has the phase of
   a step not yet released, and is released again over its own OPEN request.

The modules also show the following, which no run states as a property:

- `retryNotBefore` ("Earliest a RETRY_PENDING task may be re-dispatched",
  `store/collections.ts:310`) is compared only in the lane's read. A lane that
  decided before a loss dispatches inside the backoff of that loss: in `LaneReads`
  the guard is there, in `DispatchGranted` it is not.
- A report that crosses its own deadline ends a task `CANCELLED` that would have
  been `TIMED_OUT` without it; the header of `execution/gateway.ts` names
  `cancelled` for a parent's abort only.
- The loan the harness takes before a report is never given back, so the reserve
  that should keep two watchdogs from racing (`harness-agent-caller.ts:174`) is
  gone after one report.
- *A deepened run outlives its window.* `maxHardCapMs` is declared as an "Immutable absolute
  ceiling" (`services/run-budget.ts:52`), and `harness-agent-caller.ts:164` calls the
  attempt's absolute bound a hard cap; `upgradeRunDeadline` raises both the cap and the ceiling
  (`:116-118`) to the deeper profile's (15 or 30 minutes from the start), whatever is left of
  the attempt, and even when the old cap has already passed. From then on the harness
  no longer cuts inside the attempt: the gateway's timer does (`TimerDeadline`).
- *A judged job can be forsaken.* `store/reconcile.ts:4-11` says that "a periodic reconciler tick
  recovers every crash window", but in the phases AWAITING_RESULTS and RECONCILING
  `reWakeStuckJobs` looks only for inbox work (`:118-127`). A lane that dies after it
  consumed the judge's wake, or after `createTask` and before `reopenForReplan`, and a
  pause in that place (both transactions refuse, the caller takes it for lost), leave
  an open job that no wake, timer or tick ever moves. `Settles` excuses it by name
  (`Forsaken`) and `OnlyLossesForsake` shows that nothing else gets there.
- *A result can be orphaned.* A planner that thinks over a pause and a resume, or a
  steer, may ask its question when another planner has made the task; the answer sets the job
  READY (`store/request-boundary.ts:85`) while the result waits in the inbox, where
  no drain looks any more (`Orphaned`).
- *The lane's own question expires* as a task's does: the job stays AWAITING_USER with
  no question open (`Unanswerable`).
- *The planner does not hear the answer.* `store/request-boundary.ts:69-71` says that after
  an answer "the lane plans again with the answer in hand"; `runPlanningActivation`
  gives the decider the goal only (`store/activations.ts:1206-1230`), and the
  planner's prompt has no place for instructions (the judge's has:
  `execution/lane-decider.ts:102-111`). The worker does get them. In the model it shows as a planner that may
  ask again: only the bound `questions` ends it.
- *An answer can be ignored.* With a wake pending while the owner is being asked (an
  instruction, a resume, a second lane), a laneStep reads AWAITING_USER with all tasks
  terminal and goes on to `advanceJobFromTasks`; if the answer arrives just before
  that transaction, the job is closed without a judgement.
- *Two terminalizers.* Under a pause the judge declines and `advanceJobFromTasks`
  closes the job instead, over prose where a document was owed; and a job whose only
  work timed out is TIMED_OUT in one and FAILED in the other.
- *Some stops wait for an operator for ever:* the barrier supports one task and a
  settled inbox, so a replanned job that is cancelled stays `STOP_REQUESTED`
  (`BarrierBlocked`).
- *Two proofs of exit are too many.* A process that exits by itself leaves a NORMAL receipt
  on a RUNNING row. If its lease then runs out, the attempt is WORKER_LOST under a new
  fence, and if instead a stop is asked for, `terminationConfirmed` is set back to
  null (`store/attempts.ts`, `requestAttemptStopInSession`). In both cases the barrier
  later refuses the receipt (`invalid_process_receipt`, `flat-terminal-barrier.ts:489-496`)
  or waits for one that cannot be written, and a cancelled job is blocked for ever. `StopSettles`
  excuses such an attempt by name (`Torn`).
- *After the grace nobody signals.* When the grace is over the attempt is UNKNOWN, which ends
  the ladder; a tree that is alive then is only watched. `README.md:121`
  promises "zero orphaned child processes"; what is proved is that such a job never ends as
  anything but UNKNOWN_OUTCOME (`EndedMeansDead`).
- *A `/proc` scan is not atomic.* A process that forks and exits behind the scan's cursor can
  be missed; the modules take one scan for one instant. They also take the workload for
  what `process-supervisor.ts:10` says it is, trusted and non-daemonizing: a child may leave
  the process group, but keeps the tokens it is found by.
- A confirmed stop that is not a cancel leaves task and job RECONCILING until someone cancels.
- A last step that delivered in part makes the job COMPLETED, where
  `job-advance.ts:84` has "PARTIAL (any PARTIAL)"; `VerdictEarned` states what does
  hold.

## 7. What is not modelled

- *MongoDB.* A transaction is atomic and isolated; `runTxn` retries transient
  errors. That a snapshot transaction which touches the job's `stateVersion` is
  serializable with the others that do is assumed, and is why the modules take
  one action per operation.
- *Process groups* are in `ProcessStop` only; in the other modules `processOwner` is null
  (in-process workers), and in `ProcessStop` nothing is paused.
- *Batches of the inbox, stale rejection, lineage checks, the operator's repair of a failed
  activation, control budgets*: only rows the code itself never writes, or several
  typed tasks in one job, reach them; the drain accepts one task.
- *Plans with a judge.* `PlanSteps` has no judge and `FinalDecision` no plan; the judge leaves
  the parent of a plan out of what it counts.
- *OPTIONAL edges and follow-up tasks*: no caller creates them in the store.
- *The services of `src/mastra/services/` and `lib/`* (permits, locks, breakers, GPU arbiter,
  ledgers, queues), *stop-control recovery, worker pool, conversation writer*: not
  modelled. Of the state that the modules keep, the services write one thing, the run
  budget: the harness's cap on a model call, which `ProgressLease` has with both its writers
  (section 2.2, `UpgradeRunDepth`). The rest of the depth controller (classification, thread depth)
  and of the reflector (which signal triggers) are choices of the model.
- *Models, tools, prompts, dashboards, video*: no protocol, or outside the system.
- *Liveness of a paused job*: the owner decides.

## 8. Plan

| # | module | composes | abstract specification | theorems |
|---|---|---|---|---|
| 1 | `AttemptAuthority` (done) | worker, lane, reconciler, control | `JobContract` | safety, explained verdicts, refinement (done) |
| 2 | `ProgressLease` (done) | store deadlines, gateway, harness | | all safety (done) |
| 3 | `PlanSteps` (done) | lane steps of a multi-step job, control | `OrderedPlan` | order, fan-in, pause, finality; earned verdicts and refinement of one lane (done) |
| 4 | `LaneActivations`, `FinalDecision` (done) | planner, drain, recovery, judge, control | | types, closing, pause, planner, bound, what COMPLETED means, questions, who is left behind (done) |
| 5 | `ProcessStop` (done) | supervisor, stop ladder, receipts | | true proofs, no overlap, clean ends (done) |
| 6 | `StopControlRecovery`, `WorkerPool`, `ConversationWriter` | repair budgets, capacity, entries | exactly-once effect | idempotency |
| 7 | services: permits, idempotency, locks, breakers, GPU arbiter, pending queue, ledgers | | lock, queue | mutual exclusion |
