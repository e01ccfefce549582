------------------------- MODULE OrderedPlan_proofs -------------------------
(***************************************************************************)
(* With one lane process, PlanSteps implements OrderedPlan and its verdict *)
(* is earned, for every length of the plan and every number of losses,     *)
(* pauses, questions and chains.                                           *)
(*                                                                         *)
(* The actions are reduced to kinds of step, by what they do to steps as   *)
(* the owner sees them (phase, and whether anything executes), to the      *)
(* parent and to the job's control and verdict.                            *)
(***************************************************************************)
EXTENDS PlanSteps_proofs, FiniteSetTheorems

Works(t) == task[t].live # "none"
Same(t) == task'[t].phase = task[t].phase /\ (Works(t)' <=> Works(t))
SameSteps == \A t \in Steps : Same(t)
OthersSame(t) == \A u \in Steps \ {t} : Same(u)
SameParent == task'[Parent].phase = task[Parent].phase
SameJob == job'.outcome = job.outcome /\ job'.control = job.control
SamePlan == SameParent /\ edges' = edges

-----------------------------------------------------------------------------
(* The kinds of step.                                                       *)

Idles == SameSteps /\ SamePlan /\ SameJob

Resolves ==
  /\ SameSteps /\ SameJob /\ Open /\ edges' = {}
  /\ task[Parent].phase = "WAITING_DEPENDENCY" /\ edges # {}
  /\ \A t \in edges : Terminal(t)
  /\ task'[Parent].phase =
       IF \E t \in edges : task[t].phase \in FailedTask THEN "FAILED" ELSE "SUCCEEDED"

Spawns ==
  /\ SameJob /\ Open /\ Materialized = {}
  /\ \A t \in Steps : IF t[1] = 1
                      THEN task'[t].phase = PhaseOfNewStep(t) /\ ~Works(t)'
                      ELSE Same(t)
  /\ task'[Parent].phase = "WAITING_DEPENDENCY"
  /\ edges' = edges \cup {t \in Steps : t[1] = 1}
  /\ \A l \in Lanes : lane'[l].step # "spawn"

Dispatches(t) ==
  /\ OthersSame(t) /\ SamePlan /\ SameJob
  /\ Open /\ job.control = "NONE"
  /\ task[t].phase \in {"READY", "RETRY_PENDING"}
  /\ task'[t].phase = "DISPATCHED" /\ Works(t)'

\* What t executed is over and did not deliver it.
Falls(t) ==
  /\ OthersSame(t) /\ SamePlan /\ SameJob
  /\ Works(t) /\ ~Works(t)'
  /\ task'[t].phase \in
       {"PARTIAL", "FAILED", "WAITING_INPUT", "WAITING_DEPENDENCY", "RETRY_PENDING",
        "RECONCILING"}
  /\ ~Delivered(t)'

Delivers(t) ==
  /\ OthersSame(t) /\ SamePlan /\ SameJob
  /\ Open /\ job.control # "STOP_REQUESTED"
  /\ Works(t) /\ ~Works(t)' /\ task[t].phase = "DISPATCHED"
  /\ Delivered(t)'

\* The step before t ended: it is t's turn, or t is blocked.
Turns(t) ==
  /\ OthersSame(t) /\ SamePlan /\ SameJob
  /\ Open /\ job.control = "NONE"
  /\ Awaits(t) /\ task[t].phase = "WAITING_DEPENDENCY" /\ Terminal(Predecessor(t))
  /\ (Works(t)' <=> Works(t))
  /\ IF task[Predecessor(t)].phase = "SUCCEEDED"
     THEN task'[t].phase = "READY" ELSE task'[t].phase = "BLOCKED"

\* t's question is answered or expires.
Asked(t) ==
  /\ OthersSame(t) /\ SamePlan /\ SameJob
  /\ Open /\ job.control # "STOP_REQUESTED"
  /\ open[t] > 0 /\ Waits(t)
  /\ (Works(t)' <=> Works(t))
  /\ task'[t].phase \in {"TIMED_OUT", "RETRY_PENDING"}

Pauses ==
  /\ SamePlan /\ Open /\ job.control = "NONE"
  /\ job'.control = "PAUSE_REQUESTED" /\ job'.outcome = job.outcome
  /\ \A t \in Steps :
       \/ Same(t)
       \/ /\ Works(t) /\ ~Works(t)' /\ task[t].phase = "DISPATCHED"
          /\ task'[t].phase \in {"READY", "FAILED"}

Resumes ==
  /\ SameSteps /\ SamePlan /\ Open
  /\ job.control = "PAUSE_REQUESTED" /\ job'.control = "NONE" /\ job'.outcome = job.outcome

Stops ==
  /\ edges' = edges /\ Open /\ job.control # "STOP_REQUESTED"
  /\ job'.control = "STOP_REQUESTED" /\ job'.outcome = job.outcome
  /\ task'[Parent].phase =
       IF task[Parent].phase = "WAITING_DEPENDENCY" THEN "CANCELLED" ELSE task[Parent].phase
  /\ \A t \in Steps :
       \/ Same(t)
       \/ /\ Exists(t) /\ ~Terminal(t)
          /\ \/ task'[t].phase = "RECONCILING" /\ Works(t) /\ Works(t)'
             \/ task'[t].phase = "CANCELLED" /\ ~Works(t)'

Closes ==
  /\ SameSteps /\ SameParent /\ job'.control = job.control
  /\ Open /\ AllTerminal
  /\ \/ /\ job.control # "STOP_REQUESTED" /\ job'.outcome = OutcomeOfRoot
        /\ edges' = edges
     \/ /\ job.control = "STOP_REQUESTED" /\ job'.outcome = job.pending
        /\ edges' = {} /\ \A t \in Steps : ~Works(t)

StepKind(t) == Dispatches(t) \/ Falls(t) \/ Delivers(t) \/ Turns(t) \/ Asked(t)
AnyKind ==
  \/ Idles \/ Resolves \/ Spawns \/ Pauses \/ Resumes \/ Stops \/ Closes
  \/ \E t \in Steps : StepKind(t)

\* Only planning sends a lane to create the children, and only when there are none.
LanesPlan ==
  \A l \in Lanes :
    /\ lane'[l].step = "spawn" => lane[l].step = "spawn" \/ Unmaterialized
    /\ lane'[l].todo \subseteq lane[l].todo \cup Sequenced

-----------------------------------------------------------------------------
(* Tasks.                                                                   *)

LEMMA ParentApart == Parent \in Tasks /\ Steps \subseteq Tasks /\ \A t \in Steps : t # Parent
  BY ParentIsNoStep DEF Tasks

LEMMA SameTasks == task' = task => SameSteps /\ SameParent
  BY DEF SameSteps, Same, SameParent, Works

\* A step that writes one task.
LEMMA OneTask ==
  ASSUME TypeOK, NEW t \in Steps, NEW row, task' = [task EXCEPT ![t] = row]
  PROVE  task'[t] = row /\ OthersSame(t) /\ SameParent
  BY ParentApart DEF TypeOK, OthersSame, Same, SameParent, Works

LEMMA TupleOfStep ==
  ASSUME NEW t \in Steps
  PROVE  t = <<t[1], t[2]>> /\ t[1] \in Nat /\ t[2] \in 1 .. PlanLength
  BY DEF Steps, Chains

-----------------------------------------------------------------------------
(* Every step is of one of the kinds.                                       *)

LEMMA IdleKind ==
  ASSUME Inductive,
         \/ \E l \in Lanes : LaneClaimsWake(l) \/ LaneReads(l) \/ LanePlans(l)
                             \/ LaneLosesSpawn(l) \/ LaneCrashes(l)
         \/ ReWake \/ UNCHANGED vars
  PROVE  Idles
<1>1. UNCHANGED <<job, task, edges>>
  BY DEF LaneClaimsWake, LaneReads, LanePlans, LaneLosesSpawn, LaneCrashes, ReWake, vars
<1> QED
  BY <1>1, SameTasks DEF Idles, SamePlan, SameJob

LEMMA AdvanceKind ==
  ASSUME Inductive, NEW l \in Lanes, LaneAdvances(l)
  PROVE  Idles \/ Closes
<1>1. TypeOK /\ task' = task /\ edges' = edges
  BY DEF Inductive, LaneAdvances
<1>2. CASE job' = job
  BY <1>1, <1>2, SameTasks DEF Idles, SamePlan, SameJob
<1>3. CASE AdvanceGranted(l) /\ job' = [job EXCEPT !.phase = "TERMINAL",
                                          !.outcome = OutcomeOfRoot, !.gen = @ + 1]
  <2>1. job'.outcome = OutcomeOfRoot /\ job'.control = job.control
    BY <1>1, <1>3 DEF TypeOK, JobDocs
  <2> QED
    BY <1>1, <1>3, <2>1, SameTasks DEF AdvanceGranted, Closes
<1> QED
  BY <1>2, <1>3 DEF LaneAdvances

LEMMA SpawnKind ==
  ASSUME Inductive, SinglePlan, OneLane, NEW l \in Lanes, LaneSpawns(l)
  PROVE  Spawns
<1>1. TypeOK /\ Open /\ job' = job /\ Materialized = {}
  BY DEF Inductive, LaneSpawns, SpawnGranted, SinglePlan
<1>2. PICK c \in Chains :
        /\ \A d \in Chains : Exists(<<d, 1>>) <=> d < c
        /\ task' = [t \in Tasks |->
                      IF t = Parent THEN [task[t] EXCEPT !.phase = "WAITING_DEPENDENCY"]
                      ELSE IF t[1] = c THEN [task[t] EXCEPT !.phase = PhaseOfNewStep(t)]
                      ELSE task[t]]
        /\ edges' = edges \cup {t \in Steps : t[1] = c}
  BY DEF LaneSpawns
<1>3. c = 1
  <2>1. 1 \in Chains /\ <<1, 1>> \in Steps
    BY PlanAssumption DEF Chains, Steps
  <2>2. ~Exists(<<1, 1>>)
    BY <1>1, <2>1 DEF Materialized
  <2> QED
    BY <1>2, <2>1, <2>2 DEF Chains
<1>4. \A t \in Steps : IF t[1] = 1
                       THEN task'[t].phase = PhaseOfNewStep(t) /\ ~Works(t)'
                       ELSE Same(t)
  <2> SUFFICES ASSUME NEW t \in Steps
               PROVE  IF t[1] = 1
                      THEN task'[t].phase = PhaseOfNewStep(t) /\ ~Works(t)'
                      ELSE Same(t)
    OBVIOUS
  <2>1. task[t] \in TaskDocs /\ t # Parent /\ t \in Tasks
    BY <1>1, ParentApart DEF TypeOK
  <2>2. CASE t[1] = 1
    <3>1. task'[t] = [task[t] EXCEPT !.phase = PhaseOfNewStep(t)]
      BY <1>2, <1>3, <2>1, <2>2
    <3>2. task[t].live = "none"
      BY <1>1 DEF Materialized, Inductive, ChainsAreWhole
    <3>3. task'[t].live = "none" /\ task'[t].phase = PhaseOfNewStep(t)
      BY <2>1, <3>1, <3>2 DEF TaskDocs
    <3> QED
      BY <2>2, <3>3 DEF Works
  <2>3. CASE t[1] # 1
    BY <1>2, <1>3, <2>1, <2>3 DEF Same, Works
  <2> QED
    BY <2>2, <2>3
<1>5. task'[Parent].phase = "WAITING_DEPENDENCY"
  <2>1. task'[Parent] = [task[Parent] EXCEPT !.phase = "WAITING_DEPENDENCY"]
    BY <1>2, ParentApart
  <2> QED
    BY <1>1, <2>1, ParentApart DEF TypeOK, TaskDocs
<1>6. \A m \in Lanes : lane'[m].step # "spawn"
  BY <1>1 DEF OneLane, LaneSpawns, Sleep, Asleep, TypeOK
<1> QED
  BY <1>1, <1>2, <1>3, <1>4, <1>5, <1>6 DEF Spawns, SameJob

LEMMA PromoteKind ==
  ASSUME Inductive, SinglePlan, NEW l \in Lanes, NEW t \in Steps, LanePromotes(l, t)
  PROVE  Idles \/ Turns(t)
<1>1. TypeOK /\ job' = job /\ edges' = edges
  BY DEF Inductive, LanePromotes
<1>2. CASE ~PromoteGranted(t)
  <2>1. task' = task
    BY <1>2 DEF LanePromotes
  <2> QED
    BY <1>1, <2>1, SameTasks DEF Idles, SamePlan, SameJob
<1>3. CASE PromoteGranted(t)
  <2> DEFINE next == IF Releases(task[Predecessor(t)].phase) THEN "READY" ELSE "BLOCKED"
             row == [task[t] EXCEPT !.phase = next]
  <2>1. task' = [task EXCEPT ![t] = row]
    BY <1>3 DEF LanePromotes
  <2>2. row.phase = next /\ row.live = task[t].live
    BY <1>1, ParentApart DEF TypeOK, TaskDocs
  <2> HIDE DEF row
  <2>3. task'[t] = row /\ OthersSame(t) /\ SameParent
    BY <1>1, <2>1, OneTask
  <2>4. t \in lane[l].todo
    BY DEF LanePromotes
  <2>5. Awaits(t)
    BY <2>4 DEF SinglePlan
  <2> QED
    BY <1>1, <1>3, <2>2, <2>3, <2>5 DEF Turns, PromoteGranted, Releases, SamePlan, SameJob, Works
<1> QED
  BY <1>2, <1>3

LEMMA ResolveKind ==
  ASSUME Inductive, NEW l \in Lanes, LaneResolves(l)
  PROVE  Idles \/ Resolves
<1>1. TypeOK /\ job' = job
  BY DEF Inductive, LaneResolves
<1>2. CASE ~ResolveGranted(l)
  <2>1. task' = task /\ edges' = edges
    BY <1>2 DEF LaneResolves
  <2> QED
    BY <1>1, <2>1, SameTasks DEF Idles, SamePlan, SameJob
<1>3. CASE ResolveGranted(l)
  <2> DEFINE next == IF \E t \in edges : task[t].phase \in FailedTask
                     THEN "FAILED" ELSE "SUCCEEDED"
  <2>1. task' = [task EXCEPT ![Parent].phase = next] /\ edges' = {}
    BY <1>3 DEF LaneResolves
  <2> HIDE DEF next
  <2>2. task'[Parent].phase = next /\ SameSteps
    BY <1>1, <2>1, ParentApart DEF TypeOK, TaskDocs, SameSteps, Same, Works
  <2> QED
    BY <1>1, <1>3, <2>1, <2>2 DEF Resolves, ResolveGranted, ChildrenSettled, SameJob, next
<1> QED
  BY <1>2, <1>3

LEMMA DispatchKind ==
  ASSUME Inductive, NEW l \in Lanes, LaneDispatches(l)
  PROVE  Idles \/ \E t \in Steps : Dispatches(t)
<1>1. TypeOK /\ job' = job /\ edges' = edges /\ lane[l].step = "dispatch"
  BY DEF Inductive, LaneDispatches
<1>2. CASE ~DispatchGranted(l)
  <2>1. task' = task
    BY <1>2 DEF LaneDispatches
  <2> QED
    BY <1>1, <2>1, SameTasks DEF Idles, SamePlan, SameJob
<1>3. CASE DispatchGranted(l)
  <2>1. PICK t \in Steps : t = lane[l].ready
    BY <1>1 DEF Inductive, LaneKnows, TypeOK, LaneMemories, Tasks
  <2> DEFINE row == [task[t] EXCEPT !.phase = "DISPATCHED", !.live = "queued"]
  <2>2. task' = [task EXCEPT ![t] = row]
    BY <1>1, <1>3, <2>1, ParentApart DEF LaneDispatches, TypeOK
  <2>3. row.phase = "DISPATCHED" /\ row.live = "queued"
    BY <1>1, ParentApart DEF TypeOK, TaskDocs
  <2> HIDE DEF row
  <2>4. task'[t] = row /\ OthersSame(t) /\ SameParent
    BY <1>1, <2>2, OneTask
  <2>5. Dispatches(t)
    BY <1>1, <1>3, <2>1, <2>3, <2>4 DEF Dispatches, DispatchGranted, SamePlan, SameJob, Works
  <2> QED
    BY <2>5
<1> QED
  BY <1>2, <1>3

LEMMA StartKind == ASSUME Inductive, NEW t \in Steps, Start(t) PROVE Idles
<1>1. TypeOK /\ job' = job /\ edges' = edges
  BY DEF Inductive, Start
<1> DEFINE row == [task[t] EXCEPT !.live = "running"]
<1>2. task' = [task EXCEPT ![t] = row] /\ Works(t)
  BY DEF Start, Works
<1>3. row.phase = task[t].phase /\ row.live # "none"
  BY <1>1, ParentApart DEF TypeOK, TaskDocs
<1> HIDE DEF row
<1>4. task'[t] = row /\ OthersSame(t) /\ SameParent
  BY <1>1, <1>2, OneTask
<1>5. Same(t)
  BY <1>2, <1>3, <1>4 DEF Same, Works
<1> QED
  BY <1>1, <1>4, <1>5 DEF Idles, SameSteps, OthersSame, SamePlan, SameJob

\* A step of a running plan that ends its execution.
LEMMA FallKind ==
  ASSUME Inductive, NEW t \in Steps, NEW row, task' = [task EXCEPT ![t] = row],
         edges' = edges, SameJob, Works(t), row.live = "none",
         row.phase \in {"FAILED", "WAITING_INPUT", "WAITING_DEPENDENCY", "RETRY_PENDING",
                        "RECONCILING"}
  PROVE  Falls(t)
<1>1. task'[t] = row /\ OthersSame(t) /\ SameParent
  BY OneTask DEF Inductive
<1> QED
  BY <1>1 DEF Falls, SamePlan, Works, Delivered

LEMMA ResultKind ==
  ASSUME Inductive, NEW t \in Steps, NEW p \in Answers, SubmitResult(t, p)
  PROVE  Falls(t) \/ Delivers(t)
<1>1. TypeOK /\ task[t].live = "running" /\ Open /\ job.control # "STOP_REQUESTED"
      /\ edges' = edges
  BY DEF Inductive, SubmitResult
<1>2. SameJob
  BY <1>1 DEF SubmitResult, TypeOK, JobDocs, SameJob
<1>3. Works(t) /\ task[t].phase = "DISPATCHED"
  BY <1>1 DEF Works, Inductive, LiveMatchesPhase
<1> DEFINE row == [task[t] EXCEPT !.phase = TaskPhaseOf[p], !.live = "none"]
<1>4. task' = [task EXCEPT ![t] = row]
  BY <1>1, ParentApart DEF SubmitResult, TypeOK
<1>5. row.phase = TaskPhaseOf[p] /\ row.live = "none"
  BY <1>1, ParentApart DEF TypeOK, TaskDocs
<1> HIDE DEF row
<1>6. task'[t] = row /\ OthersSame(t) /\ SameParent
  BY <1>1, <1>4, OneTask
<1>7. TaskPhaseOf[p] \in
        {"SUCCEEDED", "PARTIAL", "FAILED", "WAITING_INPUT", "WAITING_DEPENDENCY"}
  BY AnswersAssumption DEF AllAnswers, TaskPhaseOf
<1>8. CASE Delivered(t)'
  BY <1>1, <1>2, <1>3, <1>5, <1>6, <1>8 DEF Delivers, SamePlan, Works
<1>9. CASE ~Delivered(t)'
  <2>1. task'[t].phase # "SUCCEEDED"
    BY <1>9 DEF Delivered
  <2> QED
    BY <1>1, <1>2, <1>3, <1>5, <1>6, <1>7, <1>9, <2>1 DEF Falls, SamePlan, Works
<1> QED
  BY <1>8, <1>9

LEMMA LossKind ==
  ASSUME Inductive, NEW t \in Steps, ExpireQueued(t) \/ ReapLostWorker(t) \/ FireStopGrace(t)
  PROVE  Falls(t)
<1>1. TypeOK /\ edges' = edges /\ Works(t) /\ task[t] \in TaskDocs
  BY ParentApart DEF Inductive, ExpireQueued, ReapLostWorker, FireStopGrace, Works, TypeOK
<1>2. SameJob
  BY <1>1 DEF ExpireQueued, ReapLostWorker, FireStopGrace, TypeOK, JobDocs, SameJob
<1>3. CASE ExpireQueued(t)
  <2> DEFINE row == [task[t] EXCEPT !.phase = "FAILED", !.live = "none"]
  <2>1. task' = [task EXCEPT ![t] = row]
    BY <1>1, <1>3, ParentApart DEF ExpireQueued, TypeOK
  <2>2. row.phase = "FAILED" /\ row.live = "none"
    BY <1>1 DEF TaskDocs
  <2> QED
    BY <1>1, <1>2, <2>1, <2>2, FallKind
<1>4. CASE ReapLostWorker(t)
  <2> DEFINE row == [phase |-> IF task[t].losses + 1 >= MaxLosses THEN "FAILED"
                               ELSE "RETRY_PENDING",
                     live |-> "none", losses |-> task[t].losses + 1]
  <2>1. task' = [task EXCEPT ![t] = row]
    BY <1>4 DEF ReapLostWorker
  <2>2. row.live = "none" /\ row.phase \in {"FAILED", "RETRY_PENDING"}
    OBVIOUS
  <2> HIDE DEF row
  <2> QED
    BY <1>1, <1>2, <2>1, <2>2, FallKind
<1>5. CASE FireStopGrace(t)
  <2> DEFINE row == [task[t] EXCEPT !.live = "none"]
  <2>1. task' = [task EXCEPT ![t] = row] /\ task[t].phase = "RECONCILING"
    BY <1>5 DEF FireStopGrace, Inductive, LiveMatchesPhase
  <2>2. row.phase = "RECONCILING" /\ row.live = "none"
    BY <1>1, <2>1 DEF TaskDocs
  <2> QED
    BY <1>1, <1>2, <2>1, <2>2, FallKind
<1> QED
  BY <1>3, <1>4, <1>5

LEMMA AskedKind ==
  ASSUME Inductive, NEW t \in Steps, ExpireRequest(t) \/ Answer(t)
  PROVE  Asked(t)
<1>1. /\ TypeOK /\ edges' = edges /\ task[t] \in TaskDocs /\ Open
      /\ job.control # "STOP_REQUESTED" /\ open[t] > 0 /\ Waits(t)
  BY ParentApart DEF Inductive, ExpireRequest, Answer, TypeOK
<1>2. SameJob
  BY <1>1 DEF ExpireRequest, Answer, TypeOK, JobDocs, SameJob
<1>3. PICK next \in {"TIMED_OUT", "RETRY_PENDING"} : task' = [task EXCEPT ![t].phase = next]
  BY DEF ExpireRequest, Answer
<1> DEFINE row == [task[t] EXCEPT !.phase = next]
<1>4. task' = [task EXCEPT ![t] = row]
  BY <1>3
<1>5. row.phase = next /\ row.live = task[t].live
  BY <1>1 DEF TaskDocs
<1> HIDE DEF row
<1>6. task'[t] = row /\ OthersSame(t) /\ SameParent
  BY <1>1, <1>4, OneTask
<1> QED
  BY <1>1, <1>2, <1>5, <1>6 DEF Asked, SamePlan, Works

\* Nothing is asked of the parent, and it never executes.
LEMMA ParentActs ==
  ASSUME Inductive, NEW t \in Tasks,
         \/ Start(t) \/ (\E p \in Answers : SubmitResult(t, p)) \/ ExpireQueued(t)
         \/ ReapLostWorker(t) \/ FireStopGrace(t) \/ ExpireRequest(t) \/ Answer(t)
  PROVE  t \in Steps
<1>1. task[Parent].live = "none" /\ open[Parent] = 0
  BY DEF Inductive, ParentWaits
<1>2. task[t].live # "none" \/ open[t] > 0
  BY DEF Start, SubmitResult, ExpireQueued, ReapLostWorker, FireStopGrace, ExpireRequest, Answer
<1>3. t # Parent
  BY <1>1, <1>2
<1> QED
  BY <1>3 DEF Tasks

LEMMA ReduceKind == ASSUME Inductive, ReduceTerminal PROVE Closes
<1>1. /\ TypeOK /\ task' = task /\ edges' = {} /\ Open /\ AllTerminal
      /\ job.control = "STOP_REQUESTED"
  BY DEF Inductive, ReduceTerminal, PlanSettled, EdgesAfterStop
<1>2. \A t \in Steps : ~Works(t)
  BY ParentApart DEF ReduceTerminal, Works
<1>3. job'.outcome = job.pending /\ job'.control = job.control
  BY <1>1 DEF ReduceTerminal, TypeOK, JobDocs
<1> QED
  BY <1>1, <1>2, <1>3, SameTasks DEF Closes

LEMMA PauseKind == ASSUME Inductive, Pause PROVE Pauses
<1>1. TypeOK /\ edges' = edges /\ Open /\ job.control = "NONE"
  BY DEF Inductive, Pause
<1>2. job'.control = "PAUSE_REQUESTED" /\ job'.outcome = job.outcome
  BY <1>1 DEF Pause, TypeOK, JobDocs
<1>3. ASSUME NEW t \in Tasks
      PROVE  \/ task'[t] = task[t] /\ task[t].live # "queued"
             \/ /\ task[t].live = "queued" /\ task'[t].live = "none"
                /\ task'[t].phase \in {"READY", "FAILED"}
  <2>1. task[t] \in TaskDocs
    BY <1>1 DEF TypeOK
  <2>2. CASE task[t].live # "queued"
    BY <2>2 DEF Pause
  <2>3. CASE task[t].live = "queued"
    <3>1. PICK next \in {"READY", "FAILED"} :
            task'[t] = [task[t] EXCEPT !.live = "none", !.phase = next]
      BY <2>3 DEF Pause
    <3> QED
      BY <2>1, <2>3, <3>1 DEF TaskDocs
  <2> QED
    BY <2>2, <2>3
<1>4. SameParent
  BY <1>3, ParentApart DEF SameParent, Inductive, ParentWaits
<1>5. ASSUME NEW t \in Steps
      PROVE  \/ Same(t)
             \/ /\ Works(t) /\ ~Works(t)' /\ task[t].phase = "DISPATCHED"
                /\ task'[t].phase \in {"READY", "FAILED"}
  BY <1>3, ParentApart DEF Same, Works, Inductive, LiveMatchesPhase
<1> QED
  BY <1>1, <1>2, <1>4, <1>5 DEF Pauses, SamePlan

LEMMA ResumeKind == ASSUME Inductive, Resume PROVE Resumes
<1>1. TypeOK /\ task' = task /\ edges' = edges /\ Open /\ job.control = "PAUSE_REQUESTED"
  BY DEF Inductive, Resume
<1>2. job'.control = "NONE" /\ job'.outcome = job.outcome
  BY <1>1 DEF Resume, TypeOK, JobDocs
<1> QED
  BY <1>1, <1>2, SameTasks DEF Resumes, SamePlan

LEMMA StopKind == ASSUME Inductive, Cancel PROVE Stops
<1>1. TypeOK /\ edges' = edges /\ Open /\ job.control # "STOP_REQUESTED"
  BY DEF Inductive, Cancel
<1>2. job'.control = "STOP_REQUESTED" /\ job'.outcome = job.outcome
  BY <1>1 DEF Cancel, TypeOK, JobDocs
<1>3. ASSUME NEW t \in Tasks
      PROVE  \/ task'[t] = task[t] /\ (~Exists(t) \/ Terminal(t))
             \/ /\ Exists(t) /\ ~Terminal(t) /\ task[t].live = "running"
                /\ task'[t].phase = "RECONCILING" /\ task'[t].live = "stopping"
             \/ /\ Exists(t) /\ ~Terminal(t) /\ task[t].live # "running"
                /\ task'[t].phase = "CANCELLED" /\ task'[t].live = "none"
  <2>1. task[t] \in TaskDocs
    BY <1>1 DEF TypeOK
  <2>2. CASE ~Exists(t) \/ Terminal(t)
    BY <2>2 DEF Cancel
  <2>3. CASE Exists(t) /\ ~Terminal(t) /\ task[t].live = "running"
    <3>1. task'[t] = [task[t] EXCEPT !.phase = "RECONCILING", !.live = "stopping"]
      BY <2>3 DEF Cancel
    <3> QED
      BY <2>1, <2>3, <3>1 DEF TaskDocs
  <2>4. CASE Exists(t) /\ ~Terminal(t) /\ task[t].live # "running"
    <3>1. task'[t] = [task[t] EXCEPT !.phase = "CANCELLED", !.live = "none"]
      BY <2>4 DEF Cancel
    <3> QED
      BY <2>1, <2>4, <3>1 DEF TaskDocs
  <2> QED
    BY <2>2, <2>3, <2>4
<1>4. task'[Parent].phase =
        IF task[Parent].phase = "WAITING_DEPENDENCY" THEN "CANCELLED" ELSE task[Parent].phase
  BY <1>3, ParentApart DEF Inductive, ParentWaits, Exists, Terminal, TerminalTask
<1>5. ASSUME NEW t \in Steps
      PROVE  \/ Same(t)
             \/ /\ Exists(t) /\ ~Terminal(t)
                /\ \/ task'[t].phase = "RECONCILING" /\ Works(t) /\ Works(t)'
                   \/ task'[t].phase = "CANCELLED" /\ ~Works(t)'
  BY <1>3, ParentApart DEF Same, Works
<1> QED
  BY <1>1, <1>2, <1>4, <1>5 DEF Stops

LEMMA StepKinds ==
  ASSUME Inductive, SinglePlan, OneLane, [Next]_vars
  PROVE  AnyKind
<1>1. ASSUME NEW l \in Lanes,
             \/ LaneClaimsWake(l) \/ LaneReads(l) \/ LaneAdvances(l) \/ LanePlans(l)
             \/ LaneSpawns(l) \/ LaneLosesSpawn(l) \/ (\E t \in Steps : LanePromotes(l, t))
             \/ LaneResolves(l) \/ LaneDispatches(l) \/ LaneCrashes(l)
      PROVE  AnyKind
  BY <1>1, IdleKind, AdvanceKind, SpawnKind, PromoteKind, ResolveKind, DispatchKind
     DEF AnyKind, StepKind
<1>2. ASSUME NEW t \in Tasks,
             \/ Start(t) \/ (\E p \in Answers : SubmitResult(t, p)) \/ ExpireQueued(t)
             \/ ReapLostWorker(t) \/ FireStopGrace(t) \/ ExpireRequest(t) \/ Answer(t)
      PROVE  AnyKind
  <2>1. t \in Steps
    BY <1>2, ParentActs
  <2> QED
    BY <1>2, <2>1, StartKind, ResultKind, LossKind, AskedKind DEF AnyKind, StepKind
<1>3. CASE ReWake \/ ReduceTerminal \/ Pause \/ Resume \/ Cancel \/ UNCHANGED vars
  BY <1>3, IdleKind, ReduceKind, PauseKind, ResumeKind, StopKind DEF AnyKind
<1> QED
  BY <1>1, <1>2, <1>3 DEF Next

LEMMA LanesPlanned == ASSUME Inductive, [Next]_vars PROVE LanesPlan
<1>1. CASE lane' = lane
  BY <1>1 DEF LanesPlan
<1>2. ASSUME NEW l \in Lanes, NEW m, lane' = [lane EXCEPT ![l] = m],
             m.step = "spawn" => lane[l].step = "spawn" \/ Unmaterialized,
             m.todo \subseteq lane[l].todo \cup Sequenced
      PROVE  LanesPlan
  BY <1>2 DEF LanesPlan, Inductive, TypeOK
<1>3. ASSUME NEW l \in Lanes, NEW step \in LaneSteps \ {"spawn"}, To(l, step)
      PROVE  LanesPlan
  <2> DEFINE m == [lane[l] EXCEPT !.step = step]
  <2>1. lane' = [lane EXCEPT ![l] = m] /\ lane[l] \in LaneMemories
    BY <1>3 DEF To, Inductive, TypeOK
  <2>2. m.step = step /\ m.todo = lane[l].todo
    BY <2>1 DEF LaneMemories
  <2> QED
    BY <1>2, <2>1, <2>2
<1>4. ASSUME NEW l \in Lanes, Sleep(l) PROVE LanesPlan
  <2>1. lane' = [lane EXCEPT ![l] = Asleep]
    BY <1>4 DEF Sleep
  <2>2. Asleep.step = "asleep" /\ Asleep.todo = {}
    BY DEF Asleep
  <2> QED
    BY <1>2, <2>1, <2>2
<1>5. ASSUME NEW l \in Lanes, NEW step \in LaneSteps \ {"spawn"}, Continue(l, step)
      PROVE  LanesPlan
  <2> DEFINE m == [lane[l] EXCEPT !.step = step, !.todo = {}]
  <2>1. CASE step = "asleep"
    BY <1>4, <1>5, <2>1 DEF Continue
  <2>2. CASE step # "asleep"
    <3>1. lane' = [lane EXCEPT ![l] = m] /\ lane[l] \in LaneMemories
      BY <1>5, <2>2 DEF Continue, Inductive, TypeOK
    <3>2. m.step = step /\ m.todo = {}
      BY <3>1 DEF LaneMemories
    <3> QED
      BY <1>2, <3>1, <3>2
  <2> QED
    BY <2>1, <2>2
<1>6. \A l \in Lanes : AfterSequence(l) \in LaneSteps \ {"spawn"}
  BY DEF AfterSequence, LaneSteps
<1>7. ASSUME NEW l \in Lanes, LaneClaimsWake(l) PROVE LanesPlan
  <2>1. CASE lane' = lane
    BY <1>1, <2>1
  <2>2. PICK g : lane' = lane \/ lane' = [lane EXCEPT ![l].gen = g, ![l].step = "read"]
    BY <1>7 DEF LaneClaimsWake
  <2> DEFINE m == [lane[l] EXCEPT !.gen = g, !.step = "read"]
  <2>3. lane[l] \in LaneMemories
    BY DEF Inductive, TypeOK
  <2>4. m.step = "read" /\ m.todo = lane[l].todo
    BY <2>3 DEF LaneMemories
  <2>5. lane' = lane \/ lane' = [lane EXCEPT ![l] = m]
    BY <2>2
  <2> HIDE DEF m
  <2>6. CASE lane' = [lane EXCEPT ![l] = m]
    BY <1>2, <2>4, <2>6
  <2> QED
    BY <2>1, <2>5, <2>6
<1>8. ASSUME NEW l \in Lanes, LaneReads(l) PROVE LanesPlan
  <2>1. CASE Sleep(l)
    BY <1>4, <2>1
  <2>2. CASE \E r \in Tasks \cup {NoTask} :
               lane' = [lane EXCEPT ![l] =
                          [gen |-> lane[l].gen,
                           step |-> IF AllTerminal THEN "advance" ELSE "plan",
                           ready |-> r,
                           parent |-> task[Parent].phase = "WAITING_DEPENDENCY",
                           todo |-> {}, moved |-> FALSE,
                           unpaused |-> job.control = "NONE"]]
    <3>1. PICK r \in Tasks \cup {NoTask} :
               lane' = [lane EXCEPT ![l] =
                          [gen |-> lane[l].gen,
                           step |-> IF AllTerminal THEN "advance" ELSE "plan",
                           ready |-> r,
                           parent |-> task[Parent].phase = "WAITING_DEPENDENCY",
                           todo |-> {}, moved |-> FALSE,
                           unpaused |-> job.control = "NONE"]]
      BY <2>2
    <3> DEFINE m == [gen |-> lane[l].gen,
                     step |-> IF AllTerminal THEN "advance" ELSE "plan",
                     ready |-> r,
                     parent |-> task[Parent].phase = "WAITING_DEPENDENCY",
                     todo |-> {}, moved |-> FALSE,
                     unpaused |-> job.control = "NONE"]
    <3>2. lane' = [lane EXCEPT ![l] = m]
      BY <3>1
    <3>3. m.step # "spawn" /\ m.todo = {}
      OBVIOUS
    <3> HIDE DEF m
    <3> QED
      BY <1>2, <3>2, <3>3
  <2> QED
    BY <1>8, <2>1, <2>2 DEF LaneReads, Dispatchable
<1>9. ASSUME NEW l \in Lanes, LanePlans(l) PROVE LanesPlan
  <2>0. lane[l] \in LaneMemories
    BY DEF Inductive, TypeOK
  <2>1. CASE Unmaterialized /\ To(l, "spawn")
    <3> DEFINE m == [lane[l] EXCEPT !.step = "spawn"]
    <3>1. lane' = [lane EXCEPT ![l] = m] /\ m.todo = lane[l].todo
      BY <2>0, <2>1 DEF To, LaneMemories
    <3> QED
      BY <1>2, <2>1, <3>1
  <2>2. CASE lane' = [lane EXCEPT ![l].step = "promote", ![l].todo = Sequenced]
    <3> DEFINE m == [lane[l] EXCEPT !.step = "promote", !.todo = Sequenced]
    <3>1. lane' = [lane EXCEPT ![l] = m] /\ m.step = "promote" /\ m.todo = Sequenced
      BY <2>0, <2>2 DEF LaneMemories
    <3> QED
      BY <1>2, <3>1
  <2>3. CASE Continue(l, AfterSequence(l))
    BY <1>5, <1>6, <2>3
  <2> QED
    BY <1>9, <2>1, <2>2, <2>3 DEF LanePlans
<1>10. ASSUME NEW l \in Lanes, NEW t \in Steps, LanePromotes(l, t) PROVE LanesPlan
  <2>0. lane[l] \in LaneMemories
    BY DEF Inductive, TypeOK
  <2>1. CASE \E moved : lane' = [lane EXCEPT ![l].todo = lane[l].todo \ {t}, ![l].moved = moved]
    <3>1. PICK moved : lane' = [lane EXCEPT ![l].todo = lane[l].todo \ {t}, ![l].moved = moved]
      BY <2>1
    <3> DEFINE m == [lane[l] EXCEPT !.todo = lane[l].todo \ {t}, !.moved = moved]
    <3>2. lane' = [lane EXCEPT ![l] = m] /\ m.step = lane[l].step /\ m.todo = lane[l].todo \ {t}
      BY <2>0, <3>1 DEF LaneMemories
    <3> QED
      BY <1>2, <3>2
  <2>2. CASE \E step \in LaneSteps \ {"spawn"} : Continue(l, step)
    BY <1>5, <2>2
  <2>3. \A b \in BOOLEAN : (IF b THEN "asleep" ELSE AfterSequence(l)) \in LaneSteps \ {"spawn"}
    BY <1>6 DEF LaneSteps
  <2> QED
    BY <1>10, <2>0, <2>1, <2>2, <2>3 DEF LanePromotes, LaneMemories
<1>11. ASSUME NEW l \in Lanes, LaneAdvances(l) \/ LaneResolves(l) \/ LaneDispatches(l)
       PROVE  LanesPlan
  <2>1. {"plan", "read", "dispatch", "asleep"} \subseteq LaneSteps \ {"spawn"}
    BY DEF LaneSteps
  <2>2. \/ Sleep(l)
        \/ \E step \in LaneSteps \ {"spawn"} : To(l, step) \/ Continue(l, step)
    BY <1>11, <2>1 DEF LaneAdvances, LaneResolves, LaneDispatches
  <2> QED
    BY <1>3, <1>4, <1>5, <2>2
<1>12. ASSUME NEW l \in Lanes, LaneSpawns(l) \/ LaneLosesSpawn(l) \/ LaneCrashes(l)
       PROVE  LanesPlan
  BY <1>4, <1>12 DEF LaneSpawns, LaneLosesSpawn, LaneCrashes
<1>13. ASSUME NEW t \in Tasks,
              \/ Start(t) \/ (\E p \in Answers : SubmitResult(t, p)) \/ ExpireQueued(t)
              \/ ReapLostWorker(t) \/ FireStopGrace(t) \/ ExpireRequest(t) \/ Answer(t)
       PROVE  LanesPlan
  BY <1>1, <1>13 DEF Start, SubmitResult, ExpireQueued, ReapLostWorker, FireStopGrace,
     ExpireRequest, Answer
<1>14. CASE ReWake \/ ReduceTerminal \/ Pause \/ Resume \/ Cancel \/ UNCHANGED vars
  BY <1>1, <1>14 DEF ReWake, ReduceTerminal, Pause, Resume, Cancel, vars
<1> QED
  BY <1>7, <1>8, <1>9, <1>10, <1>11, <1>12, <1>13, <1>14 DEF Next

-----------------------------------------------------------------------------
(* The plan stays single.                                                   *)

\* What executes is a step that is not terminal.
LEMMA WorkingStep ==
  ASSUME Inductive, NEW t \in Steps, Works(t)
  PROVE  task[t].phase \in {"DISPATCHED", "RECONCILING"} /\ Exists(t) /\ ~Terminal(t)
<1>1. task[t].live \in {"none", "queued", "running", "stopping"}
  BY ParentApart DEF Inductive, TypeOK, TaskDocs
<1>2. task[t].phase \in {"DISPATCHED", "RECONCILING"}
  BY <1>1 DEF Inductive, LiveMatchesPhase, Works
<1> QED
  BY <1>2 DEF Exists, Terminal, TerminalTask

\* What a step that writes t leaves of it: it was there and not over, and nobody but the
\* owner's stop cancels it.
Moves(t) ==
  /\ Exists(t) /\ ~Terminal(t)
  /\ task'[t].phase \notin {"ABSENT", "SUPERSEDED"}
  /\ task'[t].phase = "CANCELLED" => job'.control = "STOP_REQUESTED"

LEMMA StepKindMoves ==
  ASSUME Inductive, NEW t \in Steps, StepKind(t)
  PROVE  Moves(t) /\ OthersSame(t)
<1>1. CASE Dispatches(t)
  BY <1>1 DEF Dispatches, Moves, Exists, Terminal, TerminalTask
<1>2. CASE Falls(t)
  BY <1>2, WorkingStep DEF Falls, Moves
<1>3. CASE Delivers(t)
  BY <1>3, WorkingStep DEF Delivers, Delivered, Moves
<1>4. CASE Turns(t)
  BY <1>4 DEF Turns, Moves, Exists, Terminal, TerminalTask
<1>5. CASE Asked(t)
  BY <1>5 DEF Asked, Waits, Moves, Exists, Terminal, TerminalTask
<1> QED
  BY <1>1, <1>2, <1>3, <1>4, <1>5 DEF StepKind

LEMMA KindMoves ==
  ASSUME Inductive, AnyKind, ~Spawns, NEW t \in Steps
  PROVE  Same(t) \/ Moves(t)
<1>1. CASE Idles \/ Resolves \/ Resumes \/ Closes
  BY <1>1 DEF Idles, Resolves, Resumes, Closes, SameSteps
<1>2. CASE Pauses
  BY <1>2, WorkingStep DEF Pauses, Moves
<1>3. CASE Stops
  BY <1>3 DEF Stops, Moves
<1>4. ASSUME NEW u \in Steps, StepKind(u) PROVE Same(t) \/ Moves(t)
  BY <1>4, StepKindMoves DEF OthersSame
<1> QED
  BY <1>1, <1>2, <1>3, <1>4 DEF AnyKind

LEMMA StepKindKeeps ==
  ASSUME NEW t \in Steps, StepKind(t)
  PROVE  SamePlan /\ SameJob
  BY DEF StepKind, Dispatches, Falls, Delivers, Turns, Asked

\* A plan that was cancelled stays so.
LEMMA StopStays ==
  ASSUME AnyKind, job.control = "STOP_REQUESTED"
  PROVE  job'.control = "STOP_REQUESTED"
  BY StepKindKeeps DEF AnyKind, Idles, Resolves, Spawns, Pauses, Resumes, Stops, Closes, SameJob

LEMMA NothingBeforeSpawn ==
  ASSUME Inductive, Materialized = {}
  PROVE  edges = {}
  BY DEF Inductive, ChainsAreWhole, TypeOK, Materialized

LEMMA SinglePlanKept ==
  ASSUME Inductive, Inductive', SinglePlan, AnyKind, LanesPlan
  PROVE  SinglePlan'
<1>1. ASSUME ~Spawns PROVE Materialized' = Materialized
  <2>1. \A t \in Steps : Exists(t)' <=> Exists(t)
    BY <1>1, KindMoves DEF Same, Moves, Exists
  <2> QED
    BY <2>1 DEF Materialized
<1>2. ASSUME Spawns PROVE Materialized' = {t \in Steps : t[1] = 1} /\ Materialized = {}
  <2>1. ASSUME NEW t \in Steps PROVE Exists(t)' <=> t[1] = 1
    BY <1>2 DEF Spawns, PhaseOfNewStep, Same, Exists, Materialized
  <2> QED
    BY <1>2, <2>1 DEF Materialized, Spawns
<1>3. \A t \in Steps : Exists(t)' => t[1] = 1
  BY <1>1, <1>2 DEF SinglePlan, Materialized
<1>4. ASSUME NEW l \in Lanes PROVE lane'[l].step = "spawn" => Materialized' = {}
  <2>1. CASE Spawns
    BY <2>1 DEF Spawns
  <2>2. CASE ~Spawns
    BY <1>1, <2>2 DEF LanesPlan, SinglePlan, Unmaterialized
  <2> QED
    BY <2>1, <2>2
<1>5. ASSUME NEW l \in Lanes, NEW t \in lane'[l].todo PROVE Awaits(t)
  BY <1>5 DEF LanesPlan, SinglePlan, Sequenced
<1>6. task'[Parent].phase = "WAITING_DEPENDENCY" => edges' = Materialized'
  <2>1. CASE Spawns
    BY <1>2, <2>1, NothingBeforeSpawn DEF Spawns
  <2>2. CASE Idles \/ Pauses \/ Resumes \/ \E t \in Steps : StepKind(t)
    <3>1. SamePlan
      BY <2>2, StepKindKeeps DEF Idles, Pauses, Resumes
    <3> QED
      BY <1>1, <1>2, <2>1, <3>1 DEF SamePlan, SameParent, SinglePlan
  <2>3. CASE Resolves \/ Stops
    BY <2>3 DEF Resolves, Stops
  <2>4. CASE Closes
    <3>1. task'[Parent].phase # "WAITING_DEPENDENCY"
      BY <2>4, ParentApart DEF Closes, SameParent, AllTerminal, Exists, Terminal, TerminalTask
    <3> QED
      BY <3>1
  <2> QED
    BY <2>1, <2>2, <2>3, <2>4 DEF AnyKind
<1>7. ASSUME task'[Parent].phase = "SUCCEEDED"
      PROVE  /\ Materialized' # {}
             /\ \A t \in Materialized' : task'[t].phase \in {"SUCCEEDED", "PARTIAL"}
  <2>1. ~Spawns
    BY <1>7 DEF Spawns
  <2>2. CASE Resolves
    <3>1. edges = Materialized /\ edges # {} /\ SameSteps
      BY <2>2 DEF Resolves, SinglePlan
    <3>2. \A t \in Materialized : Terminal(t) /\ task[t].phase \notin FailedTask
      BY <1>7, <2>2, <3>1 DEF Resolves
    <3>3. \A t \in Materialized : task[t].phase \in {"SUCCEEDED", "PARTIAL"}
      BY <3>2 DEF Terminal, TerminalTask, FailedTask, SinglePlan, Materialized
    <3> QED
      BY <1>1, <2>1, <3>1, <3>3 DEF SameSteps, Same, Materialized
  <2>3. CASE task[Parent].phase = "SUCCEEDED"
    <3>1. \A t \in Materialized : task[t].phase \in {"SUCCEEDED", "PARTIAL"}
      BY <2>3 DEF SinglePlan
    <3>2. \A t \in Materialized : Same(t)
      BY <2>1, <3>1, KindMoves DEF Moves, Terminal, TerminalTask, Materialized
    <3> QED
      BY <1>1, <2>1, <2>3, <3>1, <3>2 DEF SinglePlan, Same
  <2>4. CASE ~Resolves /\ task[Parent].phase # "SUCCEEDED"
    <3>1. SameParent \/ Stops
      BY <2>1, <2>4, StepKindKeeps
         DEF AnyKind, Idles, Pauses, Resumes, Closes, SamePlan
    <3> QED
      BY <1>7, <2>4, <3>1 DEF SameParent, Stops
  <2> QED
    BY <2>2, <2>3, <2>4
<1>8. ASSUME NEW t \in Steps
      PROVE  /\ task'[t].phase # "SUPERSEDED"
             /\ task'[t].phase = "CANCELLED" => job'.control = "STOP_REQUESTED"
  <2>1. CASE Same(t)
    BY <2>1, StopStays DEF Same, SinglePlan
  <2>2. CASE Moves(t)
    BY <2>2 DEF Moves
  <2>3. CASE Spawns /\ ~Same(t)
    BY <2>3 DEF Spawns, PhaseOfNewStep
  <2> QED
    BY <2>1, <2>2, <2>3, KindMoves
<1> QED
  BY <1>3, <1>4, <1>5, <1>6, <1>7, <1>8 DEF SinglePlan

-----------------------------------------------------------------------------
(* The frontier: the next step to deliver.                                  *)

\* A step that may go on although those before it are over is the next one.
LEMMA AtFrontier ==
  ASSUME SinglePlan, NEW n \in 0 .. PlanLength, Frontier(n),
         NEW t \in Steps, Exists(t), ~Delivered(t),
         Awaits(t) => task[Predecessor(t)].phase = "SUCCEEDED"
  PROVE  t = <<1, n + 1>>
<1>1. t = <<t[1], t[2]>> /\ t[2] \in 1 .. PlanLength /\ t[1] = 1 /\ PlanLength \in Nat
  BY TupleOfStep, PlanAssumption DEF SinglePlan
<1>2. t[2] > n
  BY <1>1 DEF Frontier
<1>3. CASE t[2] = 1
  BY <1>1, <1>2, <1>3
<1>4. CASE t[2] > 1
  <2>1. Awaits(t) /\ Predecessor(t) \in Steps
    BY <1>1, <1>4, PlanAssumption DEF Awaits, Predecessor, Steps, Chains
  <2>2. Delivered(Predecessor(t))
    BY <2>1 DEF Delivered
  <2>3. Predecessor(t)[2] <= n /\ Predecessor(t)[2] = t[2] - 1
    BY <2>1, <2>2 DEF Frontier, Predecessor
  <2> QED
    BY <1>1, <1>2, <2>3
<1> QED
  BY <1>1, <1>3, <1>4

\* So is a step that executes, or ran and was not over.
LEMMA Reached ==
  ASSUME Inductive, SinglePlan, NEW n \in 0 .. PlanLength, Frontier(n),
         NEW t \in Steps, ~Terminal(t), task[t].phase \notin Untouched
  PROVE  t = <<1, n + 1>>
<1>1. Exists(t) /\ ~Delivered(t)
  BY DEF Exists, Untouched, Terminal, TerminalTask, Delivered
<1>2. Awaits(t) => task[Predecessor(t)].phase = "SUCCEEDED"
  BY DEF Inductive, OrderedSteps
<1> QED
  BY <1>1, <1>2, AtFrontier

LEMMA AtWork ==
  ASSUME Inductive, SinglePlan, NEW n \in 0 .. PlanLength, Frontier(n),
         NEW t \in Steps, Works(t)
  PROVE  t = <<1, n + 1>>
  BY WorkingStep, Reached DEF Untouched

\* The step of a kind that is not a refusal is the next one.
LEMMA ActsAtFrontier ==
  ASSUME Inductive, SinglePlan, NEW n \in 0 .. PlanLength, Frontier(n), NEW t \in Steps,
         \/ Dispatches(t) \/ Falls(t) \/ Delivers(t) \/ Asked(t)
         \/ Turns(t) /\ task[Predecessor(t)].phase = "SUCCEEDED"
  PROVE  t = <<1, n + 1>> /\ ~Terminal(t) /\ ~Delivered(t) /\ n < PlanLength
<1>1. ~Terminal(t) /\ Exists(t)
  BY StepKindMoves DEF StepKind, Moves
<1>2. ~Delivered(t)
  BY <1>1 DEF Terminal, TerminalTask, Delivered
<1>3. t = <<1, n + 1>>
  <2>1. CASE Dispatches(t)
    BY <1>1, <2>1, Reached DEF Dispatches, Untouched
  <2>2. CASE Falls(t) \/ Delivers(t)
    BY <2>2, AtWork DEF Falls, Delivers
  <2>3. CASE Asked(t)
    <3>1. Awaits(t) => task[Predecessor(t)].phase = "SUCCEEDED"
      BY <2>3 DEF Asked, Inductive, QuestionsWait
    <3> QED
      BY <1>1, <1>2, <3>1, AtFrontier
  <2>4. CASE Turns(t) /\ task[Predecessor(t)].phase = "SUCCEEDED"
    BY <1>1, <1>2, <2>4, AtFrontier
  <2> QED
    BY <2>1, <2>2, <2>3, <2>4
<1>4. n < PlanLength
  BY <1>3, TupleOfStep, PlanAssumption
<1> QED
  BY <1>1, <1>2, <1>3, <1>4

\* Nothing is delivered by this step, and what moves beyond the frontier moves over a
\* step that ended.
LEMMA FrontierStays ==
  ASSUME NEW n \in 0 .. PlanLength, Frontier(n),
         \A t \in Steps : Delivered(t)' <=> Delivered(t),
         \A t \in Steps :
           t[2] > n + 1 /\ task'[t].phase \notin {"ABSENT", "WAITING_DEPENDENCY", "CANCELLED"} =>
             Terminal(<<1, n + 1>>)'
  PROVE  Frontier(n)'
<1>1. DeliveredSteps' = DeliveredSteps
  BY DEF DeliveredSteps
<1> QED
  BY <1>1 DEF Frontier

LEMMA SameStepsKeep ==
  ASSUME NEW n \in 0 .. PlanLength, Frontier(n), SameSteps
  PROVE  Frontier(n)'
<1>1. \A t \in Steps : (Delivered(t)' <=> Delivered(t)) /\ (Terminal(t)' <=> Terminal(t))
  BY DEF SameSteps, Same, Delivered, Terminal
<1>2. ASSUME NEW t \in Steps, t[2] > n + 1,
             task'[t].phase \notin {"ABSENT", "WAITING_DEPENDENCY", "CANCELLED"}
      PROVE  Terminal(<<1, n + 1>>)'
  <2>1. <<1, n + 1>> \in Steps
    BY <1>2, TupleOfStep, PlanAssumption DEF Steps, Chains
  <2>2. Terminal(<<1, n + 1>>)
    BY <1>2 DEF Frontier, SameSteps, Same
  <2> QED
    BY <1>1, <2>1, <2>2
<1> QED
  BY <1>1, <1>2, FrontierStays

\* The next step goes on and no other step does.
LEMMA NextStepGoesOn ==
  ASSUME NEW n \in 0 .. PlanLength, Frontier(n), NEW t \in Steps, t = <<1, n + 1>>,
         ~Terminal(t), OthersSame(t), ~Delivered(t), ~Delivered(t)'
  PROVE  Frontier(n)'
<1>1. \A u \in Steps : Delivered(u)' <=> Delivered(u)
  BY DEF OthersSame, Same, Delivered
<1>2. ASSUME NEW u \in Steps, u[2] > n + 1
      PROVE  task'[u].phase \in {"ABSENT", "WAITING_DEPENDENCY", "CANCELLED"}
  <2>1. u # t
    BY <1>2
  <2> QED
    BY <1>2, <2>1 DEF OthersSame, Same, Frontier
<1> QED
  BY <1>1, <1>2, FrontierStays

LEMMA NextStepDelivers ==
  ASSUME TypeOK, NEW n \in 0 .. PlanLength, Frontier(n), NEW t \in Steps, t = <<1, n + 1>>,
         ~Terminal(t), OthersSame(t), ~Delivered(t), Delivered(t)'
  PROVE  n + 1 \in 0 .. PlanLength /\ Frontier(n + 1)'
<1>1. n + 1 \in 0 .. PlanLength /\ n \in Nat
  BY TupleOfStep, PlanAssumption
<1>2. \A u \in Steps : Delivered(u)' <=> Delivered(u) \/ u = t
  BY DEF OthersSame, Same, Delivered
<1>3. DeliveredSteps' = DeliveredSteps \cup {t} /\ t \notin DeliveredSteps
  BY <1>2 DEF DeliveredSteps
<1>4. IsFiniteSet(DeliveredSteps)
  <2>1. DeliveredSteps \subseteq {1} \X (1 .. n)
    BY TupleOfStep DEF DeliveredSteps, Frontier
  <2>2. IsFiniteSet(1 .. n)
    BY <1>1, FS_Interval
  <2>3. IsFiniteSet({1})
    BY FS_Singleton
  <2>4. IsFiniteSet({1} \X (1 .. n))
    BY <2>2, <2>3, FS_Product
  <2> QED
    BY <2>1, <2>4, FS_Subset
<1>5. Cardinality(DeliveredSteps') = n + 1
  BY <1>3, <1>4, FS_AddElement DEF Frontier
<1>6. \A u \in Steps : Delivered(u)' <=> u[1] = 1 /\ u[2] <= n + 1
  BY <1>1, <1>2, TupleOfStep DEF Frontier
<1>7. ASSUME NEW u \in Steps, u[2] > n + 1 + 1
      PROVE  task'[u].phase \in {"ABSENT", "WAITING_DEPENDENCY", "CANCELLED"}
  <2>1. u # t /\ u[2] > n + 1
    BY <1>1, <1>7, TupleOfStep
  <2> QED
    BY <2>1 DEF OthersSame, Same, Frontier
<1> QED
  BY <1>1, <1>5, <1>6, <1>7 DEF Frontier

\* A step that is blocked was behind a step that ended without delivering.
LEMMA BlockedBehind ==
  ASSUME SinglePlan, NEW n \in 0 .. PlanLength, Frontier(n), NEW t \in Steps, Turns(t),
         task[Predecessor(t)].phase # "SUCCEEDED"
  PROVE  /\ t[2] > n + 1 /\ t # <<1, n + 1>> /\ <<1, n + 1>> \in Steps
         /\ Terminal(<<1, n + 1>>)
         /\ Predecessor(t) \in Steps /\ Predecessor(t) # t
         /\ Terminal(Predecessor(t)) /\ ~Delivered(Predecessor(t))
<1> DEFINE p == Predecessor(t)
<1>1. /\ Awaits(t) /\ Terminal(p) /\ job.control = "NONE"
      /\ task[t].phase = "WAITING_DEPENDENCY"
  BY DEF Turns
<1>2. /\ t = <<t[1], t[2]>> /\ t[2] \in 1 .. PlanLength /\ t[1] = 1 /\ PlanLength \in Nat
      /\ p \in Steps /\ p = <<1, t[2] - 1>> /\ p # t
  BY <1>1, TupleOfStep, PredecessorIsStep, PlanAssumption
     DEF SinglePlan, Exists, Predecessor
<1>3. ~Delivered(p)
  BY <1>2 DEF Delivered
<1>4. t[2] - 1 > n
  BY <1>2, <1>3 DEF Frontier
<1>5. <<1, n + 1>> \in Steps
  BY <1>2, <1>4, PlanAssumption DEF Steps, Chains
<1>6. task[p].phase \notin {"ABSENT", "WAITING_DEPENDENCY", "CANCELLED"}
  BY <1>1, <1>2 DEF Terminal, TerminalTask, SinglePlan
<1>7. Terminal(<<1, n + 1>>)
  <2>1. CASE t[2] - 1 = n + 1
    BY <1>1, <1>2, <2>1
  <2>2. CASE t[2] - 1 > n + 1
    BY <1>2, <1>6, <2>2 DEF Frontier
  <2> QED
    BY <1>2, <1>4, <2>1, <2>2
<1> QED
  BY <1>1, <1>2, <1>3, <1>4, <1>5, <1>7

LEMMA TurnsKeep ==
  ASSUME Inductive, SinglePlan, NEW n \in 0 .. PlanLength, Frontier(n),
         NEW t \in Steps, Turns(t)
  PROVE  Frontier(n)'
<1>1. OthersSame(t) /\ ~Delivered(t) /\ ~Delivered(t)' /\ ~Terminal(t)
  BY DEF Turns, Delivered, Terminal, TerminalTask
<1>2. CASE task[Predecessor(t)].phase = "SUCCEEDED"
  BY <1>1, <1>2, ActsAtFrontier, NextStepGoesOn
<1>3. CASE task[Predecessor(t)].phase # "SUCCEEDED"
  <2>1. Terminal(<<1, n + 1>>)'
    BY <1>1, <1>3, BlockedBehind DEF OthersSame, Same, Terminal
  <2>2. \A u \in Steps : Delivered(u)' <=> Delivered(u)
    BY <1>1 DEF OthersSame, Same, Delivered
  <2> QED
    BY <2>1, <2>2, FrontierStays
<1> QED
  BY <1>2, <1>3

\* A command of the owner takes back steps, and no other than the next one, unless it
\* cancels them.
LEMMA CommandsKeep ==
  ASSUME Inductive, SinglePlan, NEW n \in 0 .. PlanLength, Frontier(n), Pauses \/ Stops
  PROVE  Frontier(n)'
<1>1. ASSUME NEW t \in Steps
      PROVE  \/ Same(t)
             \/ /\ ~Terminal(t) /\ Works(t) /\ ~Delivered(t)'
             \/ /\ ~Terminal(t) /\ task'[t].phase = "CANCELLED"
  BY WorkingStep DEF Pauses, Stops, Delivered
<1>2. \A t \in Steps : Delivered(t)' <=> Delivered(t)
  BY <1>1 DEF Same, Delivered, Terminal, TerminalTask
<1>3. ASSUME NEW t \in Steps, t[2] > n + 1,
             task'[t].phase \notin {"ABSENT", "WAITING_DEPENDENCY", "CANCELLED"}
      PROVE  Terminal(<<1, n + 1>>)'
  <2>1. <<1, n + 1>> \in Steps /\ t # <<1, n + 1>>
    BY <1>3, TupleOfStep, PlanAssumption DEF Steps, Chains
  <2>2. Same(t)
    BY <1>1, <1>3, <2>1, AtWork
  <2>3. Terminal(<<1, n + 1>>)
    BY <1>3, <2>2 DEF Frontier, Same
  <2> QED
    BY <1>1, <2>1, <2>3 DEF Same, Terminal
<1> QED
  BY <1>2, <1>3, FrontierStays

LEMMA SpawnsKeep ==
  ASSUME Inductive, NEW n \in 0 .. PlanLength, Frontier(n), Spawns
  PROVE  Frontier(n)'
<1>1. \A t \in Steps : ~Delivered(t)
  BY DEF Spawns, Materialized, Exists, Delivered
<1>2. ASSUME NEW t \in Steps
      PROVE  \/ task'[t].phase = PhaseOfNewStep(t)
             \/ task'[t].phase = "ABSENT"
  BY DEF Spawns, Same, Materialized, Exists
<1>3. \A t \in Steps : ~Delivered(t)'
  BY <1>2 DEF PhaseOfNewStep, Delivered
<1>4. ASSUME NEW t \in Steps, t[2] > n + 1
      PROVE  task'[t].phase \in {"ABSENT", "WAITING_DEPENDENCY"}
  <2>1. Awaits(t)
    BY <1>4, TupleOfStep, PlanAssumption DEF Awaits
  <2> QED
    BY <1>2, <2>1 DEF PhaseOfNewStep
<1> QED
  BY <1>1, <1>3, <1>4, FrontierStays

LEMMA StepKindKeepsFrontier ==
  ASSUME Inductive, SinglePlan, NEW n \in 0 .. PlanLength, Frontier(n),
         NEW t \in Steps, StepKind(t), ~Delivers(t)
  PROVE  Frontier(n)'
<1>1. CASE Turns(t)
  BY <1>1, TurnsKeep
<1>2. CASE Dispatches(t) \/ Falls(t) \/ Asked(t)
  <2>1. OthersSame(t) /\ ~Delivered(t)'
    BY <1>2 DEF Dispatches, Falls, Asked, Delivered
  <2> QED
    BY <1>2, <2>1, ActsAtFrontier, NextStepGoesOn
<1> QED
  BY <1>1, <1>2 DEF StepKind

LEMMA DeliveredInOrderKept ==
  ASSUME Inductive, SinglePlan, DeliveredInOrder, AnyKind
  PROVE  DeliveredInOrder'
<1>1. PICK n \in 0 .. PlanLength : Frontier(n)
  BY DEF DeliveredInOrder
<1>2. ASSUME NEW t \in Steps, Delivers(t)
      PROVE  n + 1 \in 0 .. PlanLength /\ Frontier(n + 1)'
  <2>1. OthersSame(t) /\ Delivered(t)'
    BY <1>2 DEF Delivers
  <2> QED
    BY <1>1, <1>2, <2>1, ActsAtFrontier, NextStepDelivers DEF Inductive
<1>3. ASSUME ~\E t \in Steps : Delivers(t) PROVE Frontier(n)'
  <2>1. CASE Idles \/ Resolves \/ Resumes \/ Closes
    BY <1>1, <2>1, SameStepsKeep DEF Idles, Resolves, Resumes, Closes
  <2>2. CASE Spawns
    BY <1>1, <2>2, SpawnsKeep
  <2>3. CASE Pauses \/ Stops
    BY <1>1, <2>3, CommandsKeep
  <2>4. ASSUME NEW t \in Steps, StepKind(t) PROVE Frontier(n)'
    BY <1>1, <1>3, <2>4, StepKindKeepsFrontier
  <2> QED
    BY <2>1, <2>2, <2>3, <2>4 DEF AnyKind
<1> QED
  BY <1>1, <1>2, <1>3 DEF DeliveredInOrder

-----------------------------------------------------------------------------
(* The verdict is earned.                                                   *)

LEMMA ClosedIsStill ==
  ASSUME Inductive, AnyKind, ~Open
  PROVE  Idles
<1>1. \A t \in Steps : ~Works(t)
  BY WorkingStep, ParentApart DEF Inductive, SilentPlan, AllTerminal
<1> QED
  BY <1>1 DEF AnyKind, StepKind, Resolves, Spawns, Pauses, Resumes, Stops, Closes, Dispatches,
     Falls, Delivers, Turns, Asked

\* The verdict of the lane is the parent's, and the parent speaks for its steps.
LEMMA ClosesEarned ==
  ASSUME Inductive, SinglePlan, Closes
  PROVE  VerdictEarned'
<1>1. SameSteps /\ SameParent /\ job'.control = job.control /\ AllTerminal /\ Open
  BY DEF Closes
<1>2. Materialized' = Materialized /\ \A t \in Materialized : task'[t].phase = task[t].phase
  BY <1>1 DEF SameSteps, Same, Materialized, Exists
<1>3. CASE job.control = "STOP_REQUESTED" /\ job'.outcome = job.pending
  <2>1. job.pending \in {"CANCELLED", "UNKNOWN_OUTCOME"}
    BY <1>1, <1>3 DEF Inductive, LaneKnows, TypeOK, JobDocs
  <2> QED
    BY <1>1, <1>3, <2>1 DEF VerdictEarned
<1>4. CASE job.control # "STOP_REQUESTED" /\ job'.outcome = OutcomeOfRoot
  <2>1. task[Parent].phase \in {"SUCCEEDED", "FAILED"}
    BY <1>1, <1>4, ParentApart
       DEF Inductive, ParentWaits, AllTerminal, Exists, Terminal, TerminalTask
  <2>2. job'.outcome = IF task[Parent].phase = "SUCCEEDED" THEN "COMPLETED" ELSE "FAILED"
    BY <1>4, <2>1 DEF OutcomeOfRoot
  <2>3. CASE task[Parent].phase = "SUCCEEDED"
    <3>1. /\ Materialized # {}
          /\ \A t \in Materialized : task[t].phase \in {"SUCCEEDED", "PARTIAL"}
      BY <2>3 DEF SinglePlan
    <3>2. ASSUME NEW t \in Materialized, Awaits(t)
          PROVE  task'[Predecessor(t)].phase = "SUCCEEDED"
      <4>1. t \in Steps /\ Predecessor(t) \in Steps
        BY <3>2, PredecessorIsStep DEF Materialized
      <4>2. task[Predecessor(t)].phase = "SUCCEEDED"
        BY <3>1, <3>2, <4>1 DEF Inductive, OrderedSteps, Untouched
      <4> QED
        BY <1>1, <4>1, <4>2 DEF SameSteps, Same
    <3> QED
      BY <1>2, <2>2, <2>3, <3>1, <3>2 DEF VerdictEarned
  <2>4. CASE task[Parent].phase = "FAILED"
    <3>1. PICK t \in Steps : task[t].phase \in FailedTask
      BY <2>4 DEF Inductive, ParentSettlesLast
    <3>2. t \in Materialized
      BY <3>1 DEF Materialized, Exists, FailedTask
    <3> QED
      BY <1>2, <2>2, <2>4, <3>1, <3>2 DEF VerdictEarned
  <2> QED
    BY <2>1, <2>3, <2>4
<1> QED
  BY <1>3, <1>4 DEF Closes

LEMMA VerdictEarnedKept ==
  ASSUME Inductive, SinglePlan, VerdictEarned, AnyKind
  PROVE  VerdictEarned'
<1>1. CASE Closes
  BY <1>1, ClosesEarned
<1>2. CASE ~Open
  <2>1. SameSteps /\ SameJob
    BY <1>2, ClosedIsStill DEF Idles
  <2>2. Materialized' = Materialized /\ \A t \in Steps : task'[t].phase = task[t].phase
    BY <2>1 DEF SameSteps, Same, Materialized, Exists
  <2>3. \A t \in Materialized : Awaits(t) => Predecessor(t) \in Steps
    BY PredecessorIsStep DEF Materialized
  <2>4. \A t \in Materialized : t \in Steps
    BY DEF Materialized
  <2> QED
    BY <2>1, <2>2, <2>3, <2>4 DEF VerdictEarned, SameJob
<1>3. CASE Open /\ ~Closes
  <2>1. job'.outcome = job.outcome
    BY <1>3, StepKindKeeps
       DEF AnyKind, Idles, Resolves, Spawns, Pauses, Resumes, Stops, SameJob
  <2> QED
    BY <1>3, <2>1 DEF VerdictEarned, Open, None
<1> QED
  BY <1>1, <1>2, <1>3

-----------------------------------------------------------------------------
(* The invariant.                                                           *)

LEMMA EarnedInit == Init => Earned
<1> SUFFICES ASSUME Init PROVE Earned
  OBVIOUS
<1>1. /\ \A t \in Steps : task[t].phase = "ABSENT"
      /\ task[Parent].phase = "WAITING_DEPENDENCY" /\ edges = {} /\ job.outcome = None
      /\ \A l \in Lanes : lane[l].step = "asleep" /\ lane[l].todo = {}
  BY ParentApart DEF Init, Asleep
<1>2. Materialized = {} /\ DeliveredSteps = {} /\ \A t \in Steps : ~Delivered(t)
  BY <1>1 DEF Materialized, Exists, DeliveredSteps, Delivered
<1>3. SinglePlan
  BY <1>1, <1>2 DEF SinglePlan, Exists
<1>4. Cardinality(DeliveredSteps) = 0 /\ 0 \in 0 .. PlanLength
  BY <1>2, FS_EmptySet, PlanAssumption
<1>5. Frontier(0)
  BY <1>1, <1>2, <1>4, TupleOfStep DEF Frontier
<1> QED
  BY <1>1, <1>3, <1>4, <1>5 DEF Earned, DeliveredInOrder, VerdictEarned, None

LEMMA EarnedNext ==
  ASSUME OneLane, Inductive, Inductive', Earned, [Next]_vars
  PROVE  Earned' /\ AnyKind
  BY StepKinds, LanesPlanned, SinglePlanKept, DeliveredInOrderKept, VerdictEarnedKept DEF Earned

\* With one lane process the plan is single, its steps deliver in order, and its verdict
\* is earned: together they are inductive, relative to Inductive.
THEOREM EarnedHolds ==
  ASSUME OneLane
  PROVE  Spec => []Earned
<1>1. Inductive /\ Inductive' /\ Earned /\ [Next]_vars => Earned'
  BY EarnedNext
<1> QED
  BY <1>1, EarnedInit, InductiveHolds, PTL DEF Spec

\* A plan that one lane process drains is COMPLETED only when every step delivered, in
\* order, and FAILED only when one did not.
THEOREM VerdictsAreEarned ==
  ASSUME OneLane
  PROVE  Spec => []VerdictEarned
<1>1. Earned => VerdictEarned
  BY DEF Earned
<1> QED
  BY <1>1, EarnedHolds, PTL

-----------------------------------------------------------------------------
(* OrderedPlan is implemented.                                              *)

PromiseStep == [Promise!Next]_(Promise!ovars)
Dead(t) == Terminal(t) /\ ~Delivered(t)

LEMMA ModeKept == ASSUME SameJob PROVE Mode' = Mode
  BY DEF SameJob, Mode, Open

LEMMA BrokenKept ==
  ASSUME \A t \in Steps : Dead(t)' <=> Dead(t)
  PROVE  Broken' = Broken
  BY DEF Broken, Dead

LEMMA NobodyExecutes == Executing = {} <=> ExecutingStep = 0
<1>1. ASSUME Executing # {} PROVE ExecutingStep # 0
  <2>1. (CHOOSE t \in Executing : TRUE) \in Steps
    BY <1>1 DEF Executing
  <2> QED
    BY <1>1, <2>1, TupleOfStep, PlanAssumption DEF ExecutingStep
<1> QED
  BY <1>1 DEF ExecutingStep

LEMMA ExecutingIs ==
  ASSUME NEW t \in Steps, Executing = {t}
  PROVE  ExecutingStep = t[2]
<1>1. (CHOOSE u \in {t} : TRUE) = t
  OBVIOUS
<1> QED
  BY <1>1 DEF ExecutingStep

LEMMA ExecutingBecomes ==
  ASSUME NEW t \in Steps, Executing' = {t}
  PROVE  ExecutingStep' = t[2]
<1>1. (CHOOSE u \in {t} : TRUE) = t
  OBVIOUS
<1> QED
  BY <1>1 DEF ExecutingStep

LEMMA ExecutingAtFrontier ==
  ASSUME Inductive, SinglePlan, NEW n \in 0 .. PlanLength, Frontier(n), NEW t \in Steps, Works(t)
  PROVE  Executing = {t} /\ ExecutingStep = n + 1 /\ n < PlanLength
<1>1. \A u \in Executing : u \in Steps /\ u = <<1, n + 1>>
  BY AtWork DEF Executing, Works
<1>2. t = <<1, n + 1>> /\ t \in Executing
  BY AtWork DEF Executing, Works
<1>3. Executing = {t}
  BY <1>1, <1>2
<1> QED
  BY <1>2, <1>3, ExecutingIs, TupleOfStep, PlanAssumption

\* Everything the owner sees stays.
LEMMA SameStepsSeen ==
  ASSUME SameSteps
  PROVE  /\ DeliveredSteps' = DeliveredSteps /\ Executing' = Executing
         /\ Broken' = Broken
<1>1. \A t \in Steps : /\ Delivered(t)' <=> Delivered(t)
                       /\ Dead(t)' <=> Dead(t)
  BY DEF SameSteps, Same, Delivered, Dead, Terminal
<1>2. \A t \in Steps : task'[t].live # "none" <=> task[t].live # "none"
  BY DEF SameSteps, Same, Works
<1> QED
  BY <1>1, <1>2, BrokenKept DEF DeliveredSteps, Executing

LEMMA Unseen ==
  ASSUME DeliveredSteps' = DeliveredSteps, Executing' = Executing, Broken' = Broken,
         Mode' = Mode
  PROVE  PromiseStep
<1>1. ExecutingStep' = ExecutingStep
  BY DEF ExecutingStep
<1> QED
  BY <1>1 DEF PromiseStep, Promise!ovars

LEMMA StillUnseen == ASSUME SameSteps, SameJob PROVE PromiseStep
  BY SameStepsSeen, ModeKept, Unseen

LEMMA SpawnUnseen == ASSUME Inductive, Spawns PROVE PromiseStep
<1>1. ASSUME NEW t \in Steps
      PROVE  /\ ~Delivered(t) /\ ~Delivered(t)' /\ ~Dead(t) /\ ~Dead(t)'
             /\ ~Works(t) /\ ~Works(t)'
  <2>1. task[t].phase = "ABSENT" /\ ~Works(t)
    BY WorkingStep DEF Spawns, Materialized, Exists
  <2>2. task'[t].phase \in {"ABSENT", "READY", "WAITING_DEPENDENCY"} /\ ~Works(t)'
    BY <2>1 DEF Spawns, Same, PhaseOfNewStep
  <2> QED
    BY <2>1, <2>2 DEF Delivered, Dead, Terminal, TerminalTask
<1>2. DeliveredSteps' = DeliveredSteps /\ Executing' = Executing
  BY <1>1 DEF DeliveredSteps, Executing, Works
<1>3. Broken' = Broken
  BY <1>1, BrokenKept
<1>4. Mode' = Mode
  BY ModeKept DEF Spawns
<1> QED
  BY <1>2, <1>3, <1>4, Unseen

\* A step of t alone.
LEMMA OneStepSeen ==
  ASSUME NEW t \in Steps, OthersSame(t)
  PROVE  /\ (Delivered(t)' <=> Delivered(t)) => DeliveredSteps' = DeliveredSteps
         /\ (Dead(t)' <=> Dead(t)) => Broken' = Broken
         /\ (Works(t)' <=> Works(t)) => Executing' = Executing
         /\ Executing = {t} /\ ~Works(t)' => Executing' = {}
         /\ Executing = {} /\ Works(t)' => Executing' = {t}
<1>1. \A u \in Steps \ {t} : /\ Delivered(u)' <=> Delivered(u)
                             /\ Dead(u)' <=> Dead(u)
                             /\ task'[u].live # "none" <=> task[u].live # "none"
  BY DEF OthersSame, Same, Delivered, Dead, Terminal, Works
<1>2. (Delivered(t)' <=> Delivered(t)) => DeliveredSteps' = DeliveredSteps
  BY <1>1 DEF DeliveredSteps
<1>3. ASSUME Dead(t)' <=> Dead(t) PROVE Broken' = Broken
  BY <1>1, <1>3, BrokenKept
<1>4. /\ (Works(t)' <=> Works(t)) => Executing' = Executing
      /\ Executing = {t} /\ ~Works(t)' => Executing' = {}
      /\ Executing = {} /\ Works(t)' => Executing' = {t}
  BY <1>1 DEF Executing, Works
<1> QED
  BY <1>2, <1>3, <1>4

\* The next step is sent off: none executes, none is broken, not all delivered.
LEMMA DispatchStep ==
  ASSUME Inductive, SinglePlan, NEW n \in 0 .. PlanLength, Frontier(n),
         NEW t \in Steps, Dispatches(t)
  PROVE  Promise!Execute
<1>1. t = <<1, n + 1>> /\ ~Terminal(t) /\ ~Delivered(t) /\ n < PlanLength /\ n \in Nat
  BY ActsAtFrontier, PlanAssumption
<1>2. ~Works(t)
  <2>1. task[t].live \in {"none", "queued", "running", "stopping"}
    BY ParentApart DEF Inductive, TypeOK, TaskDocs
  <2> QED
    BY <2>1 DEF Dispatches, Inductive, LiveMatchesPhase, Works
<1>3. Executing = {}
  BY <1>1, <1>2, AtWork DEF Executing, Works
<1>4. ~Delivered(t)' /\ ~Dead(t) /\ ~Dead(t)' /\ Works(t)' /\ OthersSame(t)
  BY <1>1 DEF Dispatches, Delivered, Dead, Terminal, TerminalTask
<1>5. DeliveredSteps' = DeliveredSteps /\ Broken' = Broken /\ Executing' = {t}
  BY <1>1, <1>3, <1>4, OneStepSeen
<1>6. ExecutingStep = 0 /\ ExecutingStep' = n + 1
  BY <1>1, <1>3, <1>5, NobodyExecutes, ExecutingBecomes
<1>7. Mode = "open" /\ Mode' = "open"
  BY DEF Dispatches, SameJob, Mode, Open
<1>8. ~Broken
  <2>1. ASSUME NEW u \in Steps, Terminal(u), ~Delivered(u) PROVE FALSE
    <3>1. u = <<u[1], u[2]>> /\ u[1] = 1 /\ u[2] \in 1 .. PlanLength
      BY <2>1, TupleOfStep DEF SinglePlan, Exists, Terminal, TerminalTask
    <3>2. u[2] > n /\ u # t
      BY <1>1, <2>1, <3>1, PlanAssumption DEF Frontier
    <3>3. u[2] > n + 1
      BY <1>1, <3>1, <3>2, PlanAssumption
    <3>4. task[u].phase \notin {"ABSENT", "WAITING_DEPENDENCY", "CANCELLED"}
      BY <2>1 DEF Terminal, TerminalTask, SinglePlan, Dispatches
    <3> QED
      BY <1>1, <3>3, <3>4 DEF Frontier
  <2> QED
    BY <2>1 DEF Broken
<1>9. Cardinality(DeliveredSteps) = n
  BY DEF Frontier
<1> QED
  BY <1>1, <1>5, <1>6, <1>7, <1>8, <1>9 DEF Promise!Execute, Promise!Nobody

LEMMA FallStep ==
  ASSUME Inductive, SinglePlan, NEW n \in 0 .. PlanLength, Frontier(n),
         NEW t \in Steps, Falls(t)
  PROVE  Promise!Fall
<1>1. OthersSame(t) /\ ~Delivered(t) /\ ~Delivered(t)' /\ Works(t) /\ ~Works(t)'
  BY ActsAtFrontier DEF Falls
<1>2. Executing = {t} /\ ExecutingStep = n + 1 /\ n \in Nat
  BY <1>1, ExecutingAtFrontier
<1>3. DeliveredSteps' = DeliveredSteps /\ Executing' = {}
  BY <1>1, <1>2, OneStepSeen
<1>4. ExecutingStep' = 0
  BY <1>3 DEF ExecutingStep
<1>5. Mode' = Mode
  BY ModeKept DEF Falls
<1>6. Broken' \in BOOLEAN
  BY DEF Broken
<1> QED
  BY <1>2, <1>3, <1>4, <1>5, <1>6 DEF Promise!Fall, Promise!Nobody

LEMMA DeliverStep ==
  ASSUME Inductive, SinglePlan, NEW n \in 0 .. PlanLength, Frontier(n),
         NEW t \in Steps, Delivers(t)
  PROVE  Promise!Deliver
<1>1. /\ OthersSame(t) /\ t = <<1, n + 1>> /\ ~Terminal(t) /\ ~Delivered(t) /\ Delivered(t)'
      /\ Works(t) /\ ~Works(t)' /\ n \in Nat
  BY ActsAtFrontier DEF Delivers
<1>2. Executing = {t} /\ ExecutingStep = n + 1
  BY <1>1, ExecutingAtFrontier
<1>3. Cardinality(DeliveredSteps)' = n + 1
  BY <1>1, NextStepDelivers DEF Inductive, Frontier
<1>4. Broken' = Broken /\ Executing' = {}
  BY <1>1, <1>2, OneStepSeen DEF Dead
<1>5. ExecutingStep' = 0
  BY <1>4 DEF ExecutingStep
<1>6. Mode' = Mode /\ Mode \in {"open", "paused"}
  <2>1. job.control \in {"NONE", "PAUSE_REQUESTED"}
    BY DEF Delivers, Inductive, TypeOK, JobDocs
  <2> QED
    BY <2>1, ModeKept DEF Delivers, Mode
<1> QED
  BY <1>1, <1>2, <1>3, <1>4, <1>5, <1>6 DEF Promise!Deliver, Promise!Nobody

\* A release is not seen; nor is a refusal, because the step before broke the plan.
LEMMA TurnStep ==
  ASSUME Inductive, SinglePlan, NEW n \in 0 .. PlanLength, Frontier(n),
         NEW t \in Steps, Turns(t)
  PROVE  PromiseStep
<1>1. /\ OthersSame(t) /\ ~Delivered(t) /\ ~Delivered(t)' /\ ~Dead(t) /\ (Works(t)' <=> Works(t))
      /\ SameJob
  BY DEF Turns, Delivered, Dead, Terminal, TerminalTask
<1>2. DeliveredSteps' = DeliveredSteps /\ Executing' = Executing /\ Mode' = Mode
  BY <1>1, OneStepSeen, ModeKept
<1>3. Broken' = Broken
  <2>1. CASE task[Predecessor(t)].phase = "SUCCEEDED"
    <3>1. ~Dead(t)'
      BY <2>1 DEF Turns, Dead, Terminal, TerminalTask
    <3> QED
      BY <1>1, <3>1, OneStepSeen
  <2>2. CASE task[Predecessor(t)].phase # "SUCCEEDED"
    <3>1. /\ Predecessor(t) \in Steps /\ Predecessor(t) # t
          /\ Terminal(Predecessor(t)) /\ ~Delivered(Predecessor(t))
      BY <2>2, BlockedBehind
    <3>2. Terminal(Predecessor(t))' /\ ~Delivered(Predecessor(t))'
      BY <1>1, <3>1 DEF OthersSame, Same, Terminal, Delivered
    <3> QED
      BY <3>1, <3>2 DEF Broken
  <2> QED
    BY <2>1, <2>2
<1> QED
  BY <1>2, <1>3, Unseen

LEMMA AskedStep ==
  ASSUME Inductive, SinglePlan, NEW n \in 0 .. PlanLength, Frontier(n),
         NEW t \in Steps, Asked(t)
  PROVE  PromiseStep
<1>1. /\ OthersSame(t) /\ t = <<1, n + 1>> /\ ~Terminal(t) /\ ~Delivered(t) /\ n < PlanLength
      /\ (Works(t)' <=> Works(t)) /\ SameJob
  BY ActsAtFrontier DEF Asked
<1>2. ~Delivered(t)' /\ ~Dead(t)
  BY <1>1 DEF Asked, Delivered, Dead
<1>3. DeliveredSteps' = DeliveredSteps /\ Executing' = Executing /\ Mode' = Mode
  BY <1>1, <1>2, OneStepSeen, ModeKept
<1>4. CASE task'[t].phase = "RETRY_PENDING"
  <2>1. ~Dead(t)'
    BY <1>4 DEF Dead, Terminal, TerminalTask
  <2>2. Broken' = Broken
    BY <1>1, <1>2, <2>1, OneStepSeen
  <2> QED
    BY <1>3, <2>2, Unseen
<1>5. CASE task'[t].phase = "TIMED_OUT"
  <2>1. Broken' = TRUE
    BY <1>2, <1>5 DEF Broken, Terminal, TerminalTask
  <2>2. Executing = {}
    <3>1. ~Works(t)
      BY WorkingStep DEF Asked, Waits
    <3> QED
      BY <1>1, <3>1, AtWork DEF Executing, Works
  <2>3. ExecutingStep = 0 /\ ExecutingStep' = 0
    BY <1>3, <2>2 DEF ExecutingStep
  <2>4. Mode \in {"open", "paused"}
    BY DEF Asked, Inductive, TypeOK, JobDocs, Mode
  <2>5. Cardinality(DeliveredSteps) = n /\ Cardinality(DeliveredSteps') = n
    BY <1>3 DEF Frontier
  <2>6. Promise!GiveUp
    BY <1>1, <1>3, <2>1, <2>3, <2>4, <2>5 DEF Promise!GiveUp, Promise!Nobody
  <2> QED
    BY <2>6 DEF PromiseStep, Promise!Next
<1> QED
  BY <1>4, <1>5 DEF Asked

\* A command: what was only admitted is recalled, what waits is given up.
LEMMA CommandStep ==
  ASSUME Inductive, SinglePlan, NEW n \in 0 .. PlanLength, Frontier(n), Pauses \/ Stops
  PROVE  Promise!Command
<1>1. ASSUME NEW t \in Steps
      PROVE  \/ Same(t)
             \/ ~Terminal(t) /\ ~Delivered(t)' /\ (Works(t)' => Works(t))
  BY WorkingStep DEF Pauses, Stops, Delivered
<1>2. ASSUME NEW t \in Steps
      PROVE  /\ Delivered(t)' <=> Delivered(t)
             /\ Dead(t) => Dead(t)'
             /\ Works(t)' => Works(t)
  BY <1>1 DEF Same, Dead, Delivered, Terminal, TerminalTask
<1>3. DeliveredSteps' = DeliveredSteps
  BY <1>2 DEF DeliveredSteps
<1>4. Broken' \in {Broken, TRUE}
  BY <1>2 DEF Broken, Dead
<1>5. Executing' \subseteq Executing
  BY <1>2 DEF Executing, Works
<1>6. ExecutingStep' \in {ExecutingStep, 0}
  <2>1. CASE Executing' = {}
    BY <2>1 DEF ExecutingStep
  <2>2. CASE Executing' # {}
    <3>1. PICK t \in Steps : t \in Executing' /\ Works(t)
      BY <1>5, <2>2 DEF Executing, Works
    <3>2. Executing = {t}
      BY <3>1, ExecutingAtFrontier
    <3>3. Executing' = {t}
      BY <1>5, <3>1, <3>2
    <3> QED
      BY <3>1, <3>2, <3>3, ExecutingIs, ExecutingBecomes
  <2> QED
    BY <2>1, <2>2
<1>7. \/ Mode = "open" /\ Mode' \in {"paused", "stopping"}
      \/ Mode = "paused" /\ Mode' \in {"open", "stopping"}
  BY DEF Pauses, Stops, Inductive, TypeOK, JobDocs, Mode, Open
<1> QED
  BY <1>3, <1>4, <1>6, <1>7 DEF Promise!Command, Promise!Nobody

LEMMA ResumeSeen ==
  ASSUME Resumes
  PROVE  Promise!Command
<1>1. DeliveredSteps' = DeliveredSteps /\ Executing' = Executing /\ Broken' = Broken
  BY SameStepsSeen DEF Resumes
<1>2. ExecutingStep' = ExecutingStep
  BY <1>1 DEF ExecutingStep
<1>3. Mode = "paused" /\ Mode' = "open"
  BY DEF Resumes, Mode, Open
<1> QED
  BY <1>1, <1>2, <1>3 DEF Promise!Command

\* The verdict: complete needs the whole plan, the lane's other verdict a broken one.
LEMMA CloseStep ==
  ASSUME Inductive, SinglePlan, NEW n \in 0 .. PlanLength, Frontier(n), Closes
  PROVE  Promise!Close
<1>1. SameSteps /\ SameParent /\ AllTerminal /\ Open
  BY DEF Closes
<1>2. DeliveredSteps' = DeliveredSteps /\ Executing' = Executing /\ Broken' = Broken
  BY <1>1, SameStepsSeen
<1>3. Executing = {}
  BY <1>1, WorkingStep, ParentApart DEF Executing, Works, AllTerminal
<1>4. ExecutingStep = 0 /\ ExecutingStep' = 0
  BY <1>2, <1>3 DEF ExecutingStep
<1>5. CASE job.control = "STOP_REQUESTED" /\ job'.outcome = job.pending
  <2>1. job.pending \in {"CANCELLED", "UNKNOWN_OUTCOME"}
    BY <1>1, <1>5 DEF Inductive, LaneKnows, TypeOK, JobDocs
  <2>2. Mode = "stopping" /\ Mode' = "ended"
    BY <1>1, <1>5, <2>1 DEF Mode, Open, None
  <2> QED
    BY <1>2, <1>4, <2>2 DEF Promise!Close, Promise!Nobody
<1>6. CASE job.control # "STOP_REQUESTED" /\ job'.outcome = OutcomeOfRoot
  <2>1. task[Parent].phase \in {"SUCCEEDED", "FAILED"}
    BY <1>1, <1>6, ParentApart
       DEF Inductive, ParentWaits, AllTerminal, Exists, Terminal, TerminalTask
  <2>2. Mode \in {"open", "paused"}
    BY <1>1, <1>6 DEF Inductive, TypeOK, JobDocs, Mode
  <2>3. CASE task[Parent].phase = "SUCCEEDED"
    <3>1. Mode' = "complete"
      BY <1>6, <2>3 DEF OutcomeOfRoot, Mode, Open, None
    <3>2. PICK t \in Steps : t \in Materialized
      BY <2>3 DEF SinglePlan, Materialized
    <3> DEFINE last == <<1, PlanLength>>
    <3>3. /\ last \in Steps /\ First(last) = <<1, 1>> /\ First(t) = <<1, 1>>
          /\ last[1] = 1 /\ last[2] = PlanLength
      BY <3>2, PlanAssumption DEF SinglePlan, Materialized, Steps, Chains, First
    <3>4. last \in Materialized
      BY <3>2, <3>3 DEF Inductive, ChainsAreWhole, Materialized
    <3>5. Delivered(last)
      BY <2>3, <3>3, <3>4 DEF SinglePlan, Delivered
    <3>6. n = PlanLength
      BY <3>3, <3>5, PlanAssumption DEF Frontier
    <3> QED
      BY <1>2, <1>4, <2>2, <3>1, <3>6 DEF Promise!Close, Promise!Nobody, Frontier
  <2>4. CASE task[Parent].phase = "FAILED"
    <3>1. Mode' = "ended"
      BY <1>6, <2>4 DEF OutcomeOfRoot, Mode, Open, None
    <3>2. PICK t \in Steps : task[t].phase \in FailedTask
      BY <2>4 DEF Inductive, ParentSettlesLast
    <3>3. Broken
      BY <3>2 DEF Broken, FailedTask, Terminal, TerminalTask, Delivered
    <3> QED
      BY <1>2, <1>4, <2>2, <3>1, <3>3 DEF Promise!Close, Promise!Nobody
  <2> QED
    BY <2>1, <2>3, <2>4
<1> QED
  BY <1>5, <1>6 DEF Closes

LEMMA PromiseKeptByStep ==
  ASSUME Inductive, Earned, AnyKind
  PROVE  PromiseStep
<1>1. PICK n \in 0 .. PlanLength : Frontier(n)
  BY DEF Earned, DeliveredInOrder
<1>2. SinglePlan
  BY DEF Earned
<1>3. CASE Idles \/ Resolves
  BY <1>3, StillUnseen DEF Idles, Resolves
<1>4. CASE Spawns
  BY <1>4, SpawnUnseen
<1>5. CASE Pauses \/ Resumes \/ Stops
  BY <1>1, <1>2, <1>5, CommandStep, ResumeSeen DEF PromiseStep, Promise!Next
<1>6. CASE Closes
  BY <1>1, <1>2, <1>6, CloseStep DEF PromiseStep, Promise!Next
<1>7. ASSUME NEW t \in Steps, StepKind(t) PROVE PromiseStep
  <2>1. CASE Dispatches(t)
    BY <1>1, <1>2, <2>1, DispatchStep DEF PromiseStep, Promise!Next
  <2>2. CASE Falls(t)
    BY <1>1, <1>2, <2>2, FallStep DEF PromiseStep, Promise!Next
  <2>3. CASE Delivers(t)
    BY <1>1, <1>2, <2>3, DeliverStep DEF PromiseStep, Promise!Next
  <2>4. CASE Turns(t) \/ Asked(t)
    BY <1>1, <1>2, <2>4, TurnStep, AskedStep
  <2> QED
    BY <1>7, <2>1, <2>2, <2>3, <2>4 DEF StepKind
<1> QED
  BY <1>3, <1>4, <1>5, <1>6, <1>7 DEF AnyKind

LEMMA PromiseInit == Init => Promise!Init
<1> SUFFICES ASSUME Init PROVE Promise!Init
  OBVIOUS
<1>1. \A t \in Steps : task[t].phase = "ABSENT" /\ task[t].live = "none"
  BY ParentApart DEF Init
<1>2. DeliveredSteps = {} /\ Executing = {} /\ ~Broken
  BY <1>1 DEF DeliveredSteps, Delivered, Executing, Broken, Terminal, TerminalTask
<1>3. Cardinality(DeliveredSteps) = 0 /\ ExecutingStep = 0
  BY <1>2, FS_EmptySet DEF ExecutingStep
<1>4. Mode = "open"
  BY DEF Init, Mode, Open
<1> QED
  BY <1>2, <1>3, <1>4 DEF Promise!Init, Promise!Nobody

\* One lane process that materializes, releases, dispatches, resolves and closes keeps the
\* promise of OrderedPlan to the owner of the plan: every step of PlanSteps is a step of
\* OrderedPlan or is not seen there.
THEOREM PromiseKept ==
  ASSUME OneLane
  PROVE  Spec => PromiseSpec
<1>1. Inductive /\ Inductive' /\ Earned /\ [Next]_vars => PromiseStep
  BY EarnedNext, PromiseKeptByStep
<1>2. []Inductive /\ []Earned /\ [][Next]_vars => [][Promise!Next]_(Promise!ovars)
  BY <1>1, PTL DEF PromiseStep
<1> QED
  BY <1>2, PromiseInit, InductiveHolds, EarnedHolds, PTL DEF Spec, PromiseSpec, Promise!Spec
=============================================================================
