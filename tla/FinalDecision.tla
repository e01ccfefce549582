---------------------------- MODULE FinalDecision ----------------------------
(***************************************************************************)
(* FINAL_DECISION: when the work of a job has ended and a judge is         *)
(* configured, the lane asks the judge before the job closes.  The judge   *)
(* may order another attempt at the work, ask the owner, or finish.  It    *)
(* reads in one place and acts in transactions of their own, in a process  *)
(* that may die between any two of them, next to other lanes, the owner    *)
(* and the activations of LaneActivations.                                 *)
(* Source: src/src/mastra/orchestration/store/final-decision.ts.           *)
(***************************************************************************)
EXTENDS LaneActivations

Last == CHOOSE t \in Existing : \A u \in Existing : u <= t

\* Mutant: once the attempts are used up the text passes for the document.
ProseWhileRetriesLast ==
  /\ config.owes /\ task[Last].phase = "SUCCEEDED" /\ latest # "document"
  /\ Cardinality(Existing) < MaxLaneTasks

\* The specialist owed a stored document and delivered a text.
ProsePassedOff == config.owes /\ task[Last].phase = "SUCCEEDED" /\ latest # "document"

\* Mutant: the bound is noticed one attempt late.
ExhaustedLate == Cardinality(Existing) > MaxLaneTasks

Exhausted == Cardinality(Existing) >= MaxLaneTasks
MayAsk == job.asked < MaxLaneQuestions

\* What runFinalDecisionActivation settles by itself, or what a model may say.  A
\* model that fails, or says what cannot be done here, finishes.
JudgeChoices ==
  IF ProsePassedOff THEN {IF Exhausted THEN "finish" ELSE "retry"}
  ELSE IF latest = "question" /\ MayAsk THEN {"ask"}
  ELSE IF Exhausted THEN {"finish"}
  ELSE {"retry", "finish"} \cup (IF MayAsk THEN {"ask"} ELSE {})

\* The judge reads the job, its tasks, its questions and its latest result.
JudgeReads(l) ==
  /\ lane[l].step = "judge"
  /\ IF Open /\ job.control = "NONE" /\ AllTerminal
     THEN \E choice \in JudgeChoices :
            lane' = [lane EXCEPT ![l].step = choice, ![l].pick = Last,
                                 ![l].boundary = ProsePassedOff]
     ELSE GoOn(l, lane[l].next)
  /\ UNCHANGED <<config, job, task, slot, item, latest, open, woken, thinking, settling, env>>

\* openLaneUserRequest on behalf of the judge; refused, the job is finished.
JudgeAsks(l) ==
  /\ lane[l].step = "ask"
  /\ IF AskGranted
     THEN OpenQuestion /\ Sleep(l)
     ELSE To(l, "finish") /\ UNCHANGED <<open, job>>
  /\ UNCHANGED <<config, task, slot, item, latest, woken, thinking, settling, env>>

ReplanGranted == Open /\ job.control = "NONE"

\* createTask: one more attempt, that replaces the last one the judge saw.
JudgeReplans(l) ==
  /\ lane[l].step = "retry"
  /\ IF ReplanGranted
     THEN \E t \in Tasks \ Existing :
            /\ Existing = 1 .. t - 1
            /\ task' = [task EXCEPT ![t].phase = "READY", ![t].replaces = lane[l].pick]
            /\ To(l, "reopen")
     ELSE To(l, "finish") /\ task' = task
  /\ UNCHANGED <<config, job, slot, item, latest, open, woken, thinking, settling, env>>

\* Mutant: the job is woken for the new task but stays where the drain looks.
JudgeWakesOnly(l) ==
  /\ lane[l].step = "reopen"
  /\ IF ReplanGranted THEN Wake ELSE woken' = woken
  /\ Sleep(l)
  /\ UNCHANGED <<config, job, task, slot, item, latest, open, thinking, settling, env>>

\* reopenForReplan: the job leaves the typed phases, whatever its phase is now.
JudgeReopens(l) ==
  /\ lane[l].step = "reopen"
  /\ IF ReplanGranted
     THEN job' = [job EXCEPT !.phase = "READY"] /\ Wake
     ELSE UNCHANGED <<job, woken>>
  /\ Sleep(l)
  /\ UNCHANGED <<config, task, slot, item, latest, open, thinking, settling, env>>

FinishGranted ==
  /\ Open
  /\ job.control = "NONE"
  /\ job.phase # "AWAITING_USER"
  /\ AllTerminal

\* The judge chooses whether to finish, the tasks how it finished.
FinalOutcome(boundary) ==
  IF boundary \/ Has("FAILED") THEN "FAILED"
  ELSE IF Has("PARTIAL") THEN "PARTIAL"
  ELSE IF Has("SUCCEEDED") THEN "COMPLETED" ELSE "FAILED"

\* commitFinalTerminal; declined, the laneStep goes on from its snapshot.
JudgeFinishes(l) ==
  /\ lane[l].step = "finish"
  /\ IF FinishGranted
     THEN Terminate(FinalOutcome(lane[l].boundary)) /\ slot' = NoSlot /\ Sleep(l)
     ELSE UNCHANGED <<job, slot, woken>> /\ GoOn(l, lane[l].next)
  /\ UNCHANGED <<config, task, item, latest, open, thinking, settling, env>>

-----------------------------------------------------------------------------
Lane(l) ==
  \/ LaneClaimsWake(l) \/ LaneReads(l) \/ LaneAdvances(l) \/ LaneDispatches(l)
  \/ JudgeReads(l) \/ JudgeAsks(l) \/ JudgeReplans(l) \/ JudgeReopens(l) \/ JudgeFinishes(l)

Planner(p) == PlannerProposes(p) \/ PlannerAsks(p) \/ PlannerEnds(p) \/ PlannerSettles(p)

Generations == 0 .. job.gen

Next ==
  \/ \E l \in Lanes : Lane(l) \/ LaneDies(l)
  \/ ActivationClaims \/ ActivationStarts \/ PlanningCommits
  \/ \E p \in Generations : Planner(p) \/ PlannerDies(p)
  \/ DrainApplies \/ DrainPostpones \/ ControlCommits \/ ActivationAges \/ ActivationReaped
  \/ \E t \in Tasks : StoppedWorkEnds(t) \/ \E a \in AllAnswers : WorkerAnswers(t, a)
  \/ RetryTimerFires \/ OperatorRedrives \/ ReWake \/ RowsVanish \/ RowsReturn
  \/ Pause \/ Resume \/ Steer \/ AppendInstruction \/ Cancel \/ StopCommits \/ AnswerQuestion \/ ExpireQuestion

Spec == Init /\ [][Next]_vars

\* Lanes, timers, the tick and the workers go on; attempts end (AttemptAuthority and
\* ProgressLease) and clocks advance.  Nothing is assumed of the owner, of the
\* operator, of rows that vanished and of how often an activation is in time.
Fairness ==
  /\ \A l \in Lanes : WF_vars(Lane(l))
  /\ WF_vars(ActivationClaims) /\ WF_vars(ActivationStarts)
  /\ WF_vars(PlanningCommits) /\ WF_vars(DrainApplies \/ DrainPostpones \/ ControlCommits)
  /\ WF_vars(\E p \in Generations : Planner(p))
  /\ WF_vars(ActivationAges) /\ WF_vars(ActivationReaped)
  /\ WF_vars(\E t \in Tasks : StoppedWorkEnds(t) \/ \E a \in AllAnswers : WorkerAnswers(t, a))
  /\ WF_vars(RetryTimerFires) /\ WF_vars(ReWake) /\ WF_vars(StopCommits)

FairSpec == Spec /\ Fairness

-----------------------------------------------------------------------------
(* Properties.                                                              *)

JobDocs ==
  [phase : JobPhases, control : {"NONE", "PAUSE_REQUESTED", "STOP_REQUESTED"},
   outcome : {None, "COMPLETED", "PARTIAL", "FAILED", "TIMED_OUT", "CANCELLED"},
   gen : Nat, pauses : Nat, tries : 0 .. MaxRecoveries,
   root : {None, "BUSINESS", "RESULT_DRAIN"}, high : 0 .. 1, resolved : 0 .. 1,
   asked : Nat, starts : Nat, plan : Nat, planned : Nat]
TaskDocs == [phase : TaskPhases, replaces : Tasks \cup {NoTask}, captured : BOOLEAN]
SlotDocs ==
  [kind : Kinds \cup {None}, life : {None, "PENDING", "LEASED", "RUNNING", "FAILED"},
   gen : Nat, marked : BOOLEAN, clock : {"open", "cutoff", "over"},
   decision : {None, "apply", "retry", "quarantine"}, plan : Nat]
ItemDocs == [state : ItemStates, retries : 0 .. MaxRetries, captured : Nat]
LaneMemories ==
  [step : LaneSteps, gen : Nat, next : LaneSteps, pick : Tasks \cup {NoTask},
   boundary : BOOLEAN]
Environments ==
  [readable : BOOLEAN, faults : Nat, redrives : Nat, crashes : Nat, told : Nat]

\* The type of every variable.
TypeOK ==
  /\ config \in Scenarios
  /\ job \in JobDocs
  /\ task \in [Tasks -> TaskDocs]
  /\ slot \in SlotDocs
  /\ item \in ItemDocs
  /\ latest \in AllAnswers \cup {None}
  /\ open \in BOOLEAN /\ woken \in BOOLEAN
  /\ lane \in [Lanes -> LaneMemories]
  /\ thinking \subseteq Generations /\ settling \subseteq Generations
  /\ env \in Environments

ByWork == ~Open /\ job.outcome # "CANCELLED"

\* A job that is not cancelled closes on a result that was applied: never on one that
\* is still in the inbox, on its timer, or with the operator.
ClosedOnAppliedResult == ByWork => item.state \in {None, "APPLIED"}

\* COMPLETED means that work nobody replaced succeeded, and that a capability that
\* owes a document stored one; except when the lane closed a paused job, unjudged, or
\* one whose question was answered just then, or when a second lane finished on what it
\* had read before another attempt was made.
CompletedMeansDelivered ==
  job.outcome = "COMPLETED" =>
    /\ Has("SUCCEEDED")
    /\ config.owes /\ latest # "document" =>
         job.control = "PAUSE_REQUESTED" \/ job.asked > 0 \/ Cardinality(config.lanes) > 1

\* The judge is bounded: MaxLaneTasks attempts at the work, and one more for every
\* further lane that was judging at the same time.
ReplansAreBounded ==
  Cardinality(Existing) <= MaxLaneTasks + Cardinality(config.lanes) - 1

\* The decider is asked once for one demand of the owner, so that what it did before
\* its process was lost is not repeated, whatever recovery does; and no work is done
\* under a plan that the owner replaced.
PlannedOnce == job.starts <= 1 /\ (Existing # {} => job.planned = job.plan)

\* An open question is answered before the work decides the job; except when two
\* lanes judged at once, or a planner asked over a pause or a steer it did not notice.
QuestionIsHonoured ==
  ByWork /\ open => Cardinality(config.lanes) > 1 \/ job.pauses > 0 \/ job.plan > 0

\* Nothing new happens behind a pause: no task, no dispatch, no question; and only a
\* result which that pause let finish is applied.
NothingBehindAPause ==
  [][job.control = "PAUSE_REQUESTED" /\ job'.control = "PAUSE_REQUESTED" =>
       /\ Existing' = Existing
       /\ Live' \subseteq Live
       /\ open' => open
       /\ item.state # "APPLIED" /\ item'.state = "APPLIED" => item.captured = job.pauses]_vars

Idle ==
  /\ \A l \in Lanes : lane[l].step = "asleep"
  /\ ~woken /\ slot = NoSlot /\ Live = {} /\ thinking = {} /\ settling = {}
AwaitsOperator == slot.life = "FAILED" \/ item.state = "QUARANTINED"
\* The owner is asked.  A question that was opened while the work ran stays open, and
\* the judge, who is content with it, leaves the phase as it is.
AwaitsOwner ==
  \/ job.control = "PAUSE_REQUESTED"
  \/ open /\ (job.phase = "AWAITING_USER" \/ AllTerminal)

\* No lane, wake, activation, timer or attempt is left, nobody was asked, and the tick
\* passes the job over because its phase belongs to the drain.
Forsaken ==
  /\ Open /\ job.control = "NONE" /\ Idle /\ ~open
  /\ job.phase \in TypedPhases /\ Decision = None
  /\ item.state \notin {"FAILED_RETRYABLE", "QUARANTINED"}

\* A result waits in the inbox and the phase no longer lets a drain see it: the tick
\* wakes the lane for ever, and the lane finds nothing to do.
Orphaned ==
  Open /\ job.control = "NONE" /\ task[1].phase = "AWAITING_RESULT" /\ job.phase = "READY"

\* The question expired and its phase stayed: every lane refuses to go on.
Unanswerable == Open /\ job.phase = "AWAITING_USER" /\ ~open

\* Only a lane process that died, or a pause, leaves a job forsaken; only a planner
\* that asked without noticing a pause or a steer leaves a result orphaned.
OnlyLossesForsake ==
  /\ Forsaken => env.crashes > 0 \/ job.pauses > 0
  /\ Orphaned => (job.pauses > 0 \/ job.plan > 0) /\ job.asked > 0

\* A job settles: it closes, or waits for its owner or the operator; or it is one of
\* those that nothing moves any more.
Settles ==
  <>[](\/ ~Open \/ AwaitsOwner \/ AwaitsOperator \/ Forsaken \/ Orphaned \/ Unanswerable
       \/ (job.control = "STOP_REQUESTED" /\ BarrierBlocked))

\* No activation holds the slot for ever, however often it is lost: the slot is free
\* in the end, or an operator is told.
ActivationsEnd == []<>(slot.life \notin ActiveLives)

-----------------------------------------------------------------------------
(* The inductive strengthenings that FinalDecision_proofs proves.           *)

Unfinished == {"ABSENT", "READY", "DISPATCHED"}

\* A result has come in only when the first task has been worked on, and waits for its
\* timer only while it has retries left.  Until the owner stops the job no result is
\* rejected, and one that is not applied has the first task waiting for it.
Delivery ==
  /\ task[1].phase \in Unfinished => job.high = 0 /\ item.state = None
  /\ item.state = "FAILED_RETRYABLE" => item.retries < MaxRetries
  /\ Open /\ job.control # "STOP_REQUESTED" =>
       /\ item.state # "REJECTED_STALE"
       /\ item.state \notin {None, "APPLIED"} => task[1].phase = "AWAITING_RESULT"
  /\ ClosedOnAppliedResult

\* The slot of a planner that was asked for its decision.
Held == slot.kind = "BUSINESS" /\ slot.life \in {"RUNNING", "FAILED"}

\* What a lane does on behalf of the judge, who has seen tasks.
Judging == {"ask", "retry", "reopen"}

\* A planner of this generation still has its slot, and one whose demand is still there
\* has not asked the owner: no second planner can be started next to it.
Ownership ==
  /\ PlannedOnce
  /\ thinking \cap settling = {}
  /\ \A l \in Lanes :
       /\ lane[l].step \in Judging => Existing # {}
       /\ lane[l].next \notin Judging
  /\ Open /\ Existing = {} =>
       /\ open => job.phase = "AWAITING_USER"
       /\ job.gen \in thinking \cup settling => Held /\ slot.gen = job.gen
       /\ PlanningCandidate /\ job.starts = 1 => Held /\ slot.gen \notin settling

Retrying == {l \in config.lanes : lane[l].step = "retry"}

\* Tasks, and lanes that have decided to add one, together keep within the bound.
Budget ==
  /\ \A l \in Lanes : lane[l].step # "asleep" => l \in config.lanes
  /\ Cardinality(Existing) + Cardinality(Retrying)
       <= MaxLaneTasks + Cardinality(config.lanes) - 1

\* A lane judges work that exists, and replaces what it judged.
Orderly(l) ==
  /\ lane[l].next \in {"asleep", "advance", "dispatch"}
  /\ lane[l].step \in Judging \cup {"finish"} => task[1].phase \in TerminalTask
  /\ lane[l].step = "retry" => lane[l].pick \in Existing

\* Tasks are made one after another, each replacing an earlier one, and none next to the
\* first one before that has ended.
Succession ==
  /\ \A t \in Existing : 1 .. t \subseteq Existing /\ task[t].replaces < t
  /\ \A t \in Tasks \ Existing : task[t].replaces = NoTask
  /\ Existing \subseteq {1} \/ task[1].phase \in TerminalTask
  /\ \A l \in Lanes : Orderly(l)

\* A lane that is not alone may find that another one judged before it.
Sole == Cardinality(config.lanes) = 1

\* The judge of this lane finds the work as it read it.
Sure(l) ==
  /\ lane[l].step \in {"ask", "retry", "finish"} =>
       AllTerminal /\ lane[l].pick = Last /\ lane[l].boundary = ProsePassedOff
  /\ lane[l].step = "judge" /\ lane[l].next = "advance" => AllTerminal

\* For a judge who is alone every task replaces the one before it, and nothing moves
\* while it makes up its mind.
Verdict ==
  Sole => (\A t \in Existing : task[t].replaces = t - 1) /\ (\A l \in Lanes : Sure(l))

\* A lane goes past its judge only over a pause, or over a question that was answered.
Unjudged ==
  /\ job.phase = "AWAITING_USER" \/ open => job.asked > 0
  /\ \A l \in Lanes : lane[l].gen <= job.gen
  /\ config.owes /\ Sole /\ job.asked = 0 /\ Open =>
       \A l \in Lanes :
         lane[l].step = "advance" /\ lane[l].gen = job.gen => job.control # "NONE"

\* The owner has neither paused, nor steered, nor cancelled.
LeftAlone == job.pauses = 0 /\ job.plan = 0 /\ job.control # "STOP_REQUESTED"

\* A plan is frozen only while it runs, by a planner that is done.
PlanFrozen ==
  slot.marked => slot.life \in {"RUNNING", "FAILED"} /\ slot.gen \notin thinking

\* An owner who leaves the job alone is asked by a planner before there is work, or by the
\* judge; and if that judge is alone, once all work has ended, and it waits for the answer.
Questions ==
  /\ PlanFrozen
  /\ job.control = "PAUSE_REQUESTED" => job.pauses > 0
  /\ Open /\ LeftAlone =>
       /\ thinking # {} => thinking = {job.gen} /\ Existing = {}
       /\ open => Existing = {} \/ task[1].phase \in TerminalTask
       /\ Sole /\ open =>
            /\ job.phase = "AWAITING_USER"
            /\ \/ Existing = {}
               \/ AllTerminal /\ \A l \in Lanes : lane[l].step \notin Judging \cup {"judge", "finish"}
  /\ QuestionIsHonoured

\* A lane whose judge has a result to decide on, and may decide.
Engaged(l) ==
  \/ lane[l].step \in Judging \cup {"judge", "finish"}
  \/ lane[l].step = "awake" /\ lane[l].gen = job.gen

\* Applied results wait for a judge, who has a wake or a lane, or for what it ordered.
Provision ==
  /\ Open /\ job.control # "STOP_REQUESTED" =>
       /\ job.phase \in TypedPhases => item.state # None
       /\ item.state = "APPLIED" => config.judged /\ slot = NoSlot
       /\ job.phase = "READY" /\ task[1].phase = "AWAITING_RESULT" => ~LeftAlone /\ job.asked > 0
       /\ /\ job.phase \in TypedPhases /\ item.state = "APPLIED"
          /\ env.crashes = 0 /\ job.pauses = 0
          => /\ woken \/ open \/ \E l \in Lanes : Engaged(l)
             /\ AllTerminal \/ \E l \in Lanes : lane[l].step = "reopen"
=============================================================================
