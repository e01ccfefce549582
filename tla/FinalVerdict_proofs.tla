------------------------- MODULE FinalVerdict_proofs -------------------------
(***************************************************************************)
(* Theorems about how a job of FinalDecision closes: what COMPLETED means, *)
(* whether an open question holds it back, and what it takes for a job to  *)
(* be left behind.  As in FinalDecision_proofs the scenarios and the       *)
(* limits are any.                                                         *)
(*                                                                         *)
(* The chain of invariants goes on: after Documents, Ownership and Budget  *)
(* come Succession (in which order tasks are made), Verdict (what a judge  *)
(* who is alone remembers), Unjudged (who goes past the judge), Questions  *)
(* (when the owner is asked) and Provision (who will look at a result).    *)
(***************************************************************************)
EXTENDS FinalDecision_proofs

-----------------------------------------------------------------------------
(* How tasks, lanes and the job move.                                       *)

\* What the earlier invariants know.
Known == Documents /\ Ownership /\ Budget

\* The tasks in the types that the proofs compute with.
LEMMA TaskFields ==
  ASSUME Documents
  PROVE  /\ task \in [Tasks -> TaskDocs] /\ 1 \in Tasks /\ Tasks \subseteq Nat
         /\ \A t \in Tasks : task[t].replaces \in Nat /\ task[t].phase \in TaskPhases
         /\ lane \in [Lanes -> LaneMemories] /\ job \in JobDocs /\ slot \in SlotDocs
         /\ item \in ItemDocs
<1>1. task \in [Tasks -> TaskDocs] /\ lane \in [Lanes -> LaneMemories] /\ job \in JobDocs
      /\ slot \in SlotDocs /\ item \in ItemDocs
  BY DEF Documents, TypeOK
<1>2. ASSUME NEW t \in Tasks PROVE task[t].replaces \in Nat /\ task[t].phase \in TaskPhases
  <2>1. Tasks \cup {NoTask} \subseteq Nat
    BY TasksAreNumbered DEF NoTask
  <2>2. task[t].replaces \in Tasks \cup {NoTask} /\ task[t].phase \in TaskPhases
    BY <1>1 DEF TaskDocs
  <2> QED
    BY <2>1, <2>2
<1> QED
  BY <1>1, <1>2, TasksAreNumbered

\* Tasks move on: none is made or replaced, and what has ended stays as it is.
Progress ==
  \A t \in Tasks :
    /\ task'[t].replaces = task[t].replaces
    /\ task'[t].phase = "ABSENT" <=> task[t].phase = "ABSENT"
    /\ task[t].phase \in TerminalTask => task'[t].phase = task[t].phase

\* A task is made: the first one by a plan, a later one by a judge.
FirstTask ==
  /\ Existing = {}
  /\ task' = [task EXCEPT ![1].phase = "READY"]
LaterTask(l) ==
  /\ lane[l].step = "retry" /\ To(l, "reopen") /\ ReplanGranted
  /\ \E t \in Tasks \ Existing :
       /\ Existing = 1 .. t - 1
       /\ task' = [task EXCEPT ![t].phase = "READY", ![t].replaces = lane[l].pick]

LEMMA ProgressKeeps ==
  ASSUME Progress
  PROVE  /\ Existing' = Existing
         /\ Superseded' = Superseded
         /\ AllTerminal => AllTerminal'
         /\ \A x \in TerminalTask : Has(x) => Has(x)'
         /\ AllTerminal => \A x : Has(x)' <=> Has(x)
<1>1. Existing' = Existing
  BY DEF Progress, Existing
<1>2. Superseded' = Superseded
  BY <1>1 DEF Progress, Superseded, Existing
<1>3. AllTerminal => AllTerminal'
  BY <1>1 DEF Progress, AllTerminal, Existing
<1>4. \A x \in TerminalTask : Has(x) => Has(x)'
  BY <1>1, <1>2 DEF Progress, Has, Unsuperseded, Existing
<1>5. ASSUME AllTerminal, NEW x PROVE Has(x)' <=> Has(x)
  BY <1>1, <1>2, <1>5 DEF Progress, Has, Unsuperseded, AllTerminal, Existing
<1> QED
  BY <1>1, <1>2, <1>3, <1>4, <1>5

\* One task that has not ended moves on, and keeps what it replaces.
LEMMA OneMoves ==
  ASSUME Documents, NEW t \in Tasks, task[t].phase \notin TerminalTask \cup {"ABSENT"},
         NEW x \in TaskPhases \ {"ABSENT"}, NEW c \in BOOLEAN,
         \/ task' = [task EXCEPT ![t].phase = x]
         \/ task' = [task EXCEPT ![t].phase = x, ![t].captured = c]
  PROVE  Progress
<1>1. /\ task'[t].phase = x /\ task'[t].replaces = task[t].replaces
      /\ \A u \in Tasks \ {t} : task'[u] = task[u]
  BY TaskFields DEF TaskDocs
<1> QED
  BY <1>1 DEF Progress

\* How the tasks move in a step.
LEMMA TasksMove ==
  ASSUME Documents, Next
  PROVE  \/ Progress /\ (AllTerminal \/ ~Open => latest' = latest)
         \/ FirstTask /\ lane' = lane /\ latest' = latest /\ PlanningCommits
         \/ \E l \in Lanes : LaterTask(l) /\ latest' = latest
<1>same. ASSUME UNCHANGED <<task, latest>> PROVE Progress /\ latest' = latest
  BY <1>same DEF Progress
<1>1. ASSUME NEW l \in Lanes, Lane(l)
      PROVE  \/ Progress /\ latest' = latest
             \/ LaterTask(l) /\ latest' = latest
  <2>1. CASE UNCHANGED <<task, latest>>
    BY <1>same, <2>1
  <2>2. CASE LaneDispatches(l) /\ task' # task
    <3>1. /\ lane[l].pick \in Tasks /\ task[lane[l].pick].phase = "READY"
          /\ task' = [task EXCEPT ![lane[l].pick].phase = "DISPATCHED"] /\ latest' = latest
      BY <2>2 DEF LaneDispatches, DispatchGranted, Ready
    <3> QED
      BY <3>1, OneMoves DEF TaskPhases, TerminalTask
  <2>3. CASE JudgeReplans(l) /\ task' # task
    BY <2>3 DEF JudgeReplans, LaterTask
  <2>4. LaneDispatches(l) \/ JudgeReplans(l) \/ UNCHANGED <<task, latest>>
    BY <1>1 DEF Lane, LaneClaimsWake, LaneReads, LaneAdvances, JudgeReads, JudgeAsks, JudgeReopens,
                JudgeFinishes
  <2>5. LaneDispatches(l) \/ JudgeReplans(l) => latest' = latest
    BY DEF LaneDispatches, JudgeReplans
  <2> QED
    BY <2>1, <2>2, <2>3, <2>4, <2>5
<1>2. ASSUME PlanningCommits
      PROVE  FirstTask /\ lane' = lane /\ latest' = latest /\ PlanningCommits
  BY <1>2 DEF PlanningCommits, FirstTask, Authorized
<1>3. ASSUME DrainApplies PROVE Progress /\ latest' = latest
  <2>1. task[1].phase = "AWAITING_RESULT" /\ 1 \in Tasks
    BY <1>3, TasksAreNumbered DEF DrainApplies, DrainGranted, Authorized, Decision, Eligible, None
  <2>2. PICK x \in TerminalTask : x = TaskPhaseOf(latest)
    BY DEF TaskPhaseOf, TerminalTask
  <2>3. task' = [task EXCEPT ![1].phase = x] /\ latest' = latest
    BY <1>3, <2>2 DEF DrainApplies
  <2> QED
    BY <2>1, <2>3, OneMoves DEF TaskPhases, TerminalTask
<1>4. ASSUME NEW t \in Tasks, StoppedWorkEnds(t) PROVE Progress /\ latest' = latest
  BY <1>4, OneMoves DEF StoppedWorkEnds, TaskPhases, TerminalTask
<1>5. ASSUME NEW t \in Tasks, NEW a \in AllAnswers, WorkerAnswers(t, a)
      PROVE  Progress /\ Open /\ ~AllTerminal
  <2>1. PICK x \in TaskPhases \ {"ABSENT"} :
          task' = [task EXCEPT ![t].phase = x, ![t].captured = FALSE]
    BY <1>5 DEF WorkerAnswers, TaskPhaseOf, TaskPhases, TerminalTask
  <2>2. task[t].phase = "DISPATCHED" /\ Open
    BY <1>5 DEF WorkerAnswers
  <2> QED
    BY <2>1, <2>2, OneMoves DEF AllTerminal, Existing, TerminalTask
<1>6. ASSUME Pause PROVE Progress /\ latest' = latest
  <2>1. PICK running \in SUBSET Live :
          task' = [t \in Tasks |->
                     IF t \in running THEN [task[t] EXCEPT !.captured = TRUE]
                     ELSE IF t \in Live THEN [task[t] EXCEPT !.phase = "READY"] ELSE task[t]]
    BY <1>6 DEF Pause
  <2>2. ASSUME NEW t \in Tasks
        PROVE  /\ task'[t].replaces = task[t].replaces
               /\ task'[t].phase \in {task[t].phase, "READY"}
               /\ task'[t].phase # task[t].phase => task[t].phase = "DISPATCHED"
    BY <2>1, TaskFields DEF TaskDocs, Live
  <2> QED
    BY <1>6, <2>2 DEF Progress, Pause, TerminalTask
<1>7. ASSUME Cancel PROVE Progress /\ latest' = latest
  <2>1. ASSUME NEW t \in Tasks
        PROVE  /\ task'[t].replaces = task[t].replaces
               /\ task'[t].phase = IF t \in Live THEN "RECONCILING"
                                   ELSE IF task[t].phase \in TerminalTask \cup {"ABSENT"}
                                   THEN task[t].phase ELSE "CANCELLED"
    BY <1>7, TaskFields DEF Cancel, TaskDocs
  <2>2. ASSUME NEW t \in Tasks
        PROVE  /\ task'[t].phase = "ABSENT" <=> task[t].phase = "ABSENT"
               /\ task[t].phase \in TerminalTask => task'[t].phase = task[t].phase
    BY <2>1, <2>2 DEF TerminalTask, Live
  <2>3. latest' = latest
    BY <1>7 DEF Cancel
  <2> QED
    BY <2>1, <2>2, <2>3 DEF Progress
<1>8. ASSUME \/ ActivationClaims \/ ActivationStarts \/ \E p \in Generations : Planner(p) \/ PlannerDies(p)
             \/ \E l \in Lanes : LaneDies(l)
             \/ DrainPostpones \/ ControlCommits \/ ActivationAges \/ ActivationReaped
             \/ RetryTimerFires \/ OperatorRedrives \/ ReWake \/ RowsVanish \/ RowsReturn
             \/ Resume \/ Steer \/ AppendInstruction \/ StopCommits \/ AnswerQuestion
             \/ ExpireQuestion
      PROVE  UNCHANGED <<task, latest>>
  BY <1>8
  DEF ActivationClaims, ActivationStarts, Planner, PlannerProposes, PlannerAsks, PlannerEnds,
      PlannerSettles, PlannerDies, LaneDies, DrainPostpones, ControlCommits, ActivationAges,
      ActivationReaped, RetryTimerFires, OperatorRedrives, ReWake, RowsVanish, RowsReturn, Resume,
      Steer, AppendInstruction, StopCommits, AnswerQuestion, ExpireQuestion
<1> QED
  BY <1>same, <1>1, <1>2, <1>3, <1>4, <1>5, <1>6, <1>7, <1>8 DEF Next
-----------------------------------------------------------------------------
(* Lanes: one of them at a time, from a step to the next.                   *)

\* The lane goes to sleep and forgets.
Rests(l) == lane'[l] = Asleep

\* It wakes up, or looks again after a dispatch.
Rises(l) ==
  /\ lane'[l].step = "awake"
  /\ lane'[l].next \in {lane[l].next, "asleep"}
  /\ lane'[l].gen = job.gen \/ (lane[l].step = "dispatch" /\ lane'[l].gen = lane[l].gen)

\* It reads the job and knows where it will go, after the judge or at once.
Looks(l) ==
  /\ lane[l].step = "awake" /\ lane[l].gen = job.gen /\ Open
  /\ lane'[l].gen = lane[l].gen
  /\ lane'[l].next = AfterJudge
  /\ lane'[l].step = IF config.judged /\ job.phase # "AWAITING_USER" THEN "judge" ELSE AfterJudge

\* The judge chooses.
Chooses(l) ==
  /\ lane[l].step = "judge"
  /\ Open /\ job.control = "NONE" /\ AllTerminal
  /\ lane'[l].step \in {"ask", "retry", "finish"}
  /\ lane'[l].pick = Last /\ lane'[l].boundary = ProsePassedOff
  /\ lane'[l].next = lane[l].next /\ lane'[l].gen = lane[l].gen

\* The judge has nothing to choose, or is not granted the end.
Passes(l) ==
  /\ \/ lane[l].step = "judge" /\ ~(Open /\ job.control = "NONE" /\ AllTerminal)
     \/ lane[l].step = "finish" /\ ~FinishGranted
  /\ To(l, lane[l].next)

\* The question or the attempt is not granted: the judge finishes.
GivesUp(l) ==
  /\ \/ lane[l].step = "ask" /\ ~AskGranted
     \/ lane[l].step = "retry" /\ ~ReplanGranted
  /\ To(l, "finish")

LaneTurns(l) ==
  Rests(l) \/ Rises(l) \/ Looks(l) \/ Chooses(l) \/ Passes(l) \/ GivesUp(l) \/ LaterTask(l)

OthersKeep(l) == \A m \in Lanes \ {l} : lane'[m] = lane[m]

\* What To leaves alone.
LEMMA ToKeeps ==
  ASSUME Documents, NEW l \in Lanes, NEW s, To(l, s)
  PROVE  /\ OthersKeep(l)
         /\ lane'[l].step = s /\ lane'[l].next = lane[l].next /\ lane'[l].gen = lane[l].gen
         /\ lane'[l].pick = lane[l].pick /\ lane'[l].boundary = lane[l].boundary
  BY TaskFields DEF To, OthersKeep, LaneMemories

LEMMA SleepKeeps ==
  ASSUME Documents, NEW l \in Lanes, Sleep(l)
  PROVE  OthersKeep(l) /\ Rests(l)
  BY TaskFields DEF Sleep, OthersKeep, Rests, LaneMemories

LEMMA LanesMove ==
  ASSUME Documents, Next
  PROVE  lane' = lane \/ \E l \in Lanes : OthersKeep(l) /\ LaneTurns(l)
<1>lane. lane \in [Lanes -> LaneMemories]
  BY TaskFields
<1>to. ASSUME NEW l \in Lanes, NEW s, To(l, s) PROVE OthersKeep(l)
  BY <1>to, ToKeeps
<1>rest. ASSUME NEW l \in Lanes, Sleep(l) PROVE OthersKeep(l) /\ LaneTurns(l)
  BY <1>rest, SleepKeeps DEF LaneTurns
<1>1. ASSUME NEW l \in Lanes, Lane(l) \/ LaneDies(l) PROVE OthersKeep(l) /\ LaneTurns(l)
  <2>1. CASE LaneClaimsWake(l)
    <3>1. lane' = [lane EXCEPT ![l].step = "awake", ![l].gen = job.gen]
      BY <2>1 DEF LaneClaimsWake
    <3>2. /\ lane'[l].step = "awake" /\ lane'[l].gen = job.gen /\ lane'[l].next = lane[l].next
          /\ OthersKeep(l)
      BY <1>lane, <3>1 DEF LaneMemories, OthersKeep
    <3> QED
      BY <3>2 DEF LaneTurns, Rises
  <2>2. CASE LaneReads(l) /\ ~Sleep(l)
    <3>1. PICK n : n = AfterJudge
      OBVIOUS
    <3>2. PICK q : q = IF AfterJudge = "dispatch" THEN FirstReady ELSE NoTask
      OBVIOUS
    <3>3. PICK s : s = IF config.judged /\ job.phase # "AWAITING_USER" THEN "judge" ELSE AfterJudge
      OBVIOUS
    <3>4. /\ lane[l].step = "awake" /\ lane[l].gen = job.gen /\ Open
          /\ lane' = [lane EXCEPT ![l].next = n, ![l].step = s, ![l].pick = q]
      BY <2>2, <3>1, <3>2, <3>3 DEF LaneReads
    <3>5. /\ lane'[l].next = n /\ lane'[l].step = s /\ lane'[l].gen = lane[l].gen
          /\ OthersKeep(l)
      BY <1>lane, <3>4 DEF LaneMemories, OthersKeep
    <3> QED
      BY <3>1, <3>3, <3>4, <3>5 DEF LaneTurns, Looks
  <2>3. CASE LaneDispatches(l) /\ ~Sleep(l)
    <3>1. PICK g : g = lane[l].gen
      OBVIOUS
    <3>2. /\ lane[l].step = "dispatch"
          /\ lane' = [lane EXCEPT ![l] = [Asleep EXCEPT !.step = "awake", !.gen = g]]
      BY <2>3, <3>1 DEF LaneDispatches
    <3>3. /\ lane'[l].step = "awake" /\ lane'[l].next = "asleep" /\ lane'[l].gen = g
          /\ OthersKeep(l)
      BY <1>lane, <3>2 DEF Asleep, OthersKeep
    <3> QED
      BY <3>1, <3>2, <3>3 DEF LaneTurns, Rises
  <2>4. CASE JudgeReads(l) /\ ~Sleep(l)
    <3>1. CASE Open /\ job.control = "NONE" /\ AllTerminal
      <4>1. PICK choice \in JudgeChoices :
              lane' = [lane EXCEPT ![l].step = choice, ![l].pick = Last,
                                   ![l].boundary = ProsePassedOff]
        BY <2>4, <3>1 DEF JudgeReads
      <4>2. choice \in {"ask", "retry", "finish"}
        BY DEF JudgeChoices
      <4>3. PICK q : q = Last
        OBVIOUS
      <4>4. PICK b : b = ProsePassedOff
        OBVIOUS
      <4>5. lane' = [lane EXCEPT ![l].step = choice, ![l].pick = q, ![l].boundary = b]
        BY <4>1, <4>3, <4>4
      <4>6. /\ lane'[l].step = choice /\ lane'[l].pick = q /\ lane'[l].boundary = b
            /\ lane'[l].next = lane[l].next /\ lane'[l].gen = lane[l].gen
            /\ OthersKeep(l)
        BY <1>lane, <4>5 DEF LaneMemories, OthersKeep
      <4> QED
        BY <2>4, <3>1, <4>2, <4>3, <4>4, <4>6 DEF LaneTurns, Chooses, JudgeReads
    <3>2. CASE ~(Open /\ job.control = "NONE" /\ AllTerminal)
      <4>1. lane[l].step = "judge" /\ To(l, lane[l].next)
        BY <2>4, <3>2 DEF JudgeReads, GoOn
      <4> QED
        BY <1>to, <3>2, <4>1 DEF LaneTurns, Passes
    <3> QED
      BY <3>1, <3>2
  <2>5. CASE JudgeAsks(l) /\ ~Sleep(l)
    BY <1>to, <2>5 DEF JudgeAsks, LaneTurns, GivesUp
  <2>6. CASE JudgeReplans(l) /\ ~ReplanGranted
    BY <1>to, <2>6 DEF JudgeReplans, LaneTurns, GivesUp
  <2>7. CASE JudgeReplans(l) /\ ReplanGranted
    <3>1. LaterTask(l)
      BY <2>7 DEF JudgeReplans, LaterTask
    <3> QED
      BY <1>to, <3>1 DEF LaneTurns, LaterTask
  <2>8. CASE JudgeFinishes(l) /\ ~Sleep(l)
    <3>1. lane[l].step = "finish" /\ ~FinishGranted /\ To(l, lane[l].next)
      BY <2>8 DEF JudgeFinishes, GoOn
    <3> QED
      BY <1>to, <3>1 DEF LaneTurns, Passes
  <2>9. CASE Sleep(l)
    BY <1>rest, <2>9
  <2> QED
    BY <1>1, <2>1, <2>2, <2>3, <2>4, <2>5, <2>6, <2>7, <2>8, <2>9
    DEF Lane, LaneAdvances, JudgeReopens, LaneDies
<1>2. ASSUME \/ ActivationClaims \/ ActivationStarts \/ PlanningCommits
             \/ \E p \in Generations : Planner(p) \/ PlannerDies(p)
             \/ DrainApplies \/ DrainPostpones \/ ControlCommits \/ ActivationAges
             \/ ActivationReaped
             \/ \E t \in Tasks : StoppedWorkEnds(t) \/ \E a \in AllAnswers : WorkerAnswers(t, a)
             \/ RetryTimerFires \/ OperatorRedrives \/ ReWake \/ RowsVanish \/ RowsReturn
             \/ Pause \/ Resume \/ Steer \/ AppendInstruction \/ Cancel \/ StopCommits
             \/ AnswerQuestion \/ ExpireQuestion
      PROVE  lane' = lane
  BY <1>2
  DEF ActivationClaims, ActivationStarts, PlanningCommits, Planner, PlannerProposes, PlannerAsks,
      PlannerEnds, PlannerSettles, PlannerDies, DrainApplies, DrainPostpones, ControlCommits,
      ActivationAges, ActivationReaped, StoppedWorkEnds, WorkerAnswers, RetryTimerFires,
      OperatorRedrives, ReWake, RowsVanish, RowsReturn, Pause, Resume, Steer, AppendInstruction,
      Cancel, StopCommits, AnswerQuestion, ExpireQuestion
<1> QED
  BY <1>1, <1>2 DEF Next

-----------------------------------------------------------------------------
(* Succession.                                                              *)

LEMMA SuccessionKept == Documents /\ Ownership /\ Succession /\ Next => Succession'
<1> SUFFICES ASSUME Documents, Ownership, Succession, Next PROVE Succession'
  OBVIOUS
<1>f. /\ task \in [Tasks -> TaskDocs] /\ 1 \in Tasks /\ Tasks \subseteq Nat
      /\ \A t \in Tasks : task[t].replaces \in Nat /\ task[t].phase \in TaskPhases
  BY TaskFields
<1>e. Existing \subseteq Tasks
  BY DEF Existing
\* No lane judges before there is a task; the one it judges has ended.
<1>1. ASSUME AllTerminal PROVE task[1].phase \in TerminalTask
  <2>1. PICK t \in Existing : 1 .. t \subseteq Existing
    BY <1>1 DEF AllTerminal, Succession
  <2>2. t \in Nat /\ t # 0
    BY <1>e, <1>f, <2>1 DEF Tasks
  <2>3. 1 \in Existing
    BY <2>1, <2>2
  <2> QED
    BY <1>1, <2>3 DEF AllTerminal
<1>2. ASSUME NEW t \in Existing PROVE t \in Nat /\ t >= 1
  BY <1>e DEF Tasks
<1>3. /\ \A t \in Existing' : 1 .. t \subseteq Existing' /\ task'[t].replaces < t
      /\ \A t \in Tasks \ Existing' : task'[t].replaces = NoTask
      /\ Existing' \subseteq {1} \/ task'[1].phase \in TerminalTask
      /\ Existing \subseteq Existing'
      /\ task[1].phase \in TerminalTask => task'[1].phase \in TerminalTask
  <2>1. CASE Progress
    BY <1>f, <1>e, <2>1, ProgressKeeps DEF Progress, Succession
  <2>2. CASE FirstTask
    <3>1. /\ Existing' = {1} /\ task'[1].replaces = task[1].replaces
          /\ \A t \in Tasks \ {1} : task'[t] = task[t]
      BY <1>f, <2>2 DEF FirstTask, Existing, TaskDocs
    <3>2. \A t \in Tasks : task[t].replaces = 0 /\ task[t].phase = "ABSENT"
      BY <2>2 DEF FirstTask, Succession, NoTask, Existing
    <3> QED
      BY <1>f, <2>2, <3>1, <3>2 DEF NoTask, FirstTask, TerminalTask
  <2>3. ASSUME NEW l \in Lanes, LaterTask(l) PROVE <1>3!:
    <3>1. PICK t \in Tasks \ Existing :
            /\ Existing = 1 .. t - 1
            /\ task' = [task EXCEPT ![t].phase = "READY", ![t].replaces = lane[l].pick]
      BY <2>3 DEF LaterTask
    <3>2. PICK r \in Existing : r = lane[l].pick
      BY <2>3 DEF LaterTask, Succession, Orderly
    <3>3. /\ task'[t].replaces = r /\ task'[t].phase = "READY"
          /\ \A u \in Tasks \ {t} : task'[u] = task[u]
      BY <1>f, <3>1, <3>2 DEF TaskDocs
    <3>4. Existing' = Existing \cup {t}
      BY <3>1, <3>3 DEF Existing
    <3>5. t \in Nat /\ r \in Nat /\ r < t /\ Existing' = 1 .. t
      BY <1>f, <1>e, <3>1, <3>2, <3>4
    <3>6. task[1].phase \in TerminalTask /\ t # 1
      <4>1. task[1].phase \in TerminalTask
        BY <2>3 DEF LaterTask, Succession, Orderly, Judging
      <4> QED
        BY <1>f, <3>1, <4>1 DEF Existing, TerminalTask
    <3>7. \A u \in Existing' : 1 .. u \subseteq Existing' /\ task'[u].replaces < u
      BY <1>e, <3>2, <3>3, <3>4, <3>5 DEF Succession
    <3> QED
      BY <1>f, <3>3, <3>4, <3>6, <3>7 DEF Succession
  <2> QED
    BY <2>1, <2>2, <2>3, TasksMove
<1>4. ASSUME NEW m \in Lanes PROVE Orderly(m)'
  <2>1. CASE lane' = lane
    BY <1>3, <2>1 DEF Succession, Orderly
  <2>2. ASSUME NEW l \in Lanes, OthersKeep(l), LaneTurns(l) PROVE Orderly(m)'
    <3>1. CASE m # l
      BY <1>3, <2>2, <3>1 DEF OthersKeep, Succession, Orderly
    <3>2. CASE m = l /\ (Rests(l) \/ Rises(l))
      BY <3>2 DEF Succession, Orderly, Rests, Rises, Asleep, Judging
    <3>3. CASE m = l /\ Looks(l)
      BY <3>3 DEF Looks, Orderly, AfterJudge, Judging
    <3>4. CASE m = l /\ Chooses(l)
      <4>1. Last \in Existing
        <5>1. Existing \in SUBSET (1 .. (MaxLaneTasks + Cardinality(Lanes))) /\ Existing # {}
          BY <3>4 DEF Existing, Tasks, Chooses, AllTerminal
        <5> QED
          BY <5>1, FirstAndLast, TasksAreNumbered DEF Last
      <4> QED
        BY <1>1, <1>3, <3>4, <4>1 DEF Chooses, Succession, Orderly
    <3>5. CASE m = l /\ (Passes(l) \/ GivesUp(l) \/ LaterTask(l))
      <4>1. /\ lane'[l].next = lane[l].next
            /\ \/ lane'[l].step = lane[l].next
               \/ lane'[l].step \in {"finish", "reopen"} /\ lane[l].step \in {"ask", "retry"}
        BY <3>5, ToKeeps DEF Passes, GivesUp, LaterTask
      <4> QED
        BY <1>3, <3>5, <4>1 DEF Succession, Orderly, Judging
    <3> QED
      BY <2>2, <3>1, <3>2, <3>3, <3>4, <3>5 DEF LaneTurns
  <2> QED
    BY <2>1, <2>2, LanesMove
<1> QED
  BY <1>3, <1>4 DEF Succession

LEMMA SuccessionHolds == Spec => []Succession
<1>1. Init => Succession
  BY DEF Init, Succession, Orderly, Existing, Asleep, Judging
<1>2. Documents /\ Ownership /\ Succession /\ [Next]_vars => Succession'
  <2>1. Succession /\ UNCHANGED vars => Succession'
    BY DEF Succession, Orderly, Existing, vars
  <2> QED
    BY <2>1, SuccessionKept
<1> QED
  BY <1>1, <1>2, DocumentsHold, OwnershipHolds, PTL DEF Spec

-----------------------------------------------------------------------------
(* The judge who is alone.                                                  *)

\* An execution stays in its scenario.
LEMMA SameScenario == Next => config' = config
  BY DEF Next, Lane, LaneClaimsWake, LaneReads, LaneAdvances, LaneDispatches, JudgeReads, JudgeAsks,
         JudgeReplans, JudgeReopens, JudgeFinishes, LaneDies, ActivationClaims, ActivationStarts,
         PlanningCommits, Planner, PlannerProposes, PlannerAsks, PlannerEnds, PlannerSettles,
         PlannerDies, DrainApplies, DrainPostpones, ControlCommits, ActivationAges,
         ActivationReaped, StoppedWorkEnds, WorkerAnswers, RetryTimerFires, OperatorRedrives,
         ReWake, RowsVanish, RowsReturn, Pause, Resume, Steer, AppendInstruction, Cancel,
         StopCommits, AnswerQuestion, ExpireQuestion

\* Two lanes that are not asleep are one, where there is one.
LEMMA OneLane ==
  ASSUME Documents, Budget, Sole, NEW l \in Lanes, NEW m \in Lanes,
         lane[l].step # "asleep", lane[m].step # "asleep"
  PROVE  l = m
<1>1. l \in config.lanes /\ m \in config.lanes
  BY DEF Budget
<1>2. IsFiniteSet(config.lanes)
  BY FiniteCounts DEF Documents
<1>3. PICK x : config.lanes = {x}
  BY <1>2, FS_Singleton DEF Sole
<1> QED
  BY <1>1, <1>3

\* Every lane stays where it is, or turns.
LEMMA EachLane ==
  ASSUME Documents, Next, NEW m \in Lanes
  PROVE  lane'[m] = lane[m] \/ LaneTurns(m)
  BY LanesMove DEF OthersKeep

\* Nothing moves in work that has ended.
LEMMA VerdictStands ==
  ASSUME Documents, Next, AllTerminal, Progress
  PROVE  AllTerminal' /\ Last' = Last /\ ProsePassedOff' = ProsePassedOff /\ latest' = latest
<1>1. AllTerminal' /\ Existing' = Existing
  BY ProgressKeeps
<1>2. Last' = Last
  BY <1>1 DEF Last
<1>3. Last \in Existing
  <2>1. Existing \in SUBSET (1 .. (MaxLaneTasks + Cardinality(Lanes))) /\ Existing # {}
    BY DEF Existing, Tasks, AllTerminal
  <2> QED
    BY <2>1, FirstAndLast, TasksAreNumbered DEF Last
<1>4. task'[Last].phase = task[Last].phase
  BY <1>3 DEF Progress, AllTerminal, Existing
<1>5. latest' = latest
  <2>1. CASE FirstTask
    BY <2>1 DEF FirstTask, AllTerminal
  <2> QED
    BY <2>1, TasksMove
<1> QED
  BY <1>1, <1>2, <1>4, <1>5, SameScenario DEF ProsePassedOff

LEMMA VerdictKept == Documents /\ Budget /\ Succession /\ Verdict /\ Next => Verdict'
<1> SUFFICES ASSUME Documents, Budget, Succession, Verdict, Next, Sole'
             PROVE  /\ \A t \in Existing' : task'[t].replaces = t - 1
                    /\ \A m \in Lanes : Sure(m)'
  BY DEF Verdict
<1>f. /\ task \in [Tasks -> TaskDocs] /\ 1 \in Tasks /\ Tasks \subseteq Nat
      /\ Existing \subseteq Tasks
  BY TaskFields DEF Existing
<1>sole. Sole /\ (\A t \in Existing : task[t].replaces = t - 1) /\ (\A l \in Lanes : Sure(l))
  BY SameScenario DEF Sole, Verdict
<1>orderly. ASSUME NEW m \in Lanes PROVE Orderly(m)
  BY DEF Succession
<1>1. CASE Progress
  <2>1. \A t \in Existing' : task'[t].replaces = t - 1
    BY <1>sole, <1>1, <1>f, ProgressKeeps DEF Progress
  <2>2. ASSUME NEW m \in Lanes PROVE Sure(m)'
    <3>0. AllTerminal => AllTerminal' /\ Last' = Last /\ ProsePassedOff' = ProsePassedOff
      BY <1>1, VerdictStands
    <3>1. CASE lane'[m] = lane[m]
      BY <1>sole, <3>0, <3>1 DEF Sure
    <3>2. CASE Rests(m) \/ Rises(m)
      BY <3>2 DEF Rests, Rises, Asleep, Sure
    <3>3. CASE Looks(m)
      BY <3>0, <3>3 DEF Looks, Sure, AfterJudge
    <3>4. CASE Chooses(m)
      BY <3>0, <3>4 DEF Chooses, Sure
    <3>5. CASE Passes(m)
      <4>1. lane'[m].step \in {"asleep", "advance", "dispatch"}
        BY <1>orderly, <3>5, ToKeeps DEF Passes, Orderly
      <4> QED
        BY <4>1 DEF Sure
    <3>6. CASE GivesUp(m)
      BY <1>sole, <3>0, <3>6, ToKeeps DEF GivesUp, Sure
    <3>7. CASE LaterTask(m)
      BY <3>7, ToKeeps DEF LaterTask, Sure
    <3> QED
      BY <3>1, <3>2, <3>3, <3>4, <3>5, <3>6, <3>7, EachLane DEF LaneTurns
  <2> QED
    BY <2>1, <2>2
<1>2. CASE FirstTask /\ lane' = lane
  <2>1. Existing' = {1} /\ task'[1].replaces = task[1].replaces /\ task[1].replaces = NoTask
    BY <1>f, <1>2 DEF FirstTask, Existing, TaskDocs, Succession
  <2>2. ~AllTerminal
    BY <1>2 DEF FirstTask, AllTerminal
  <2> QED
    BY <1>sole, <1>2, <2>1, <2>2 DEF Sure, NoTask
<1>3. ASSUME NEW l \in Lanes, LaterTask(l)
      PROVE  /\ \A t \in Existing' : task'[t].replaces = t - 1
             /\ \A m \in Lanes : Sure(m)'
  <2>1. PICK t \in Tasks \ Existing :
          /\ Existing = 1 .. t - 1
          /\ task' = [task EXCEPT ![t].phase = "READY", ![t].replaces = lane[l].pick]
    BY <1>3 DEF LaterTask
  <2>2. lane[l].pick = Last /\ lane[l].pick \in Existing
    BY <1>sole, <1>orderly, <1>3 DEF LaterTask, Sure, Orderly
  <2>3. t - 1 \in Existing /\ \A u \in Existing : u <= t - 1
    BY <1>f, <2>1, <2>2
  <2>4. ASSUME NEW x \in Existing, \A u \in Existing : u <= x PROVE x = t - 1
    BY <1>f, <2>3, <2>4
  <2>5. Last = t - 1
    BY <2>3, <2>4 DEF Last
  <2>6. PICK r \in Nat : r = t - 1
    BY <1>f, <2>3
  <2>7. task' = [task EXCEPT ![t].phase = "READY", ![t].replaces = r]
    BY <2>1, <2>2, <2>5, <2>6
  <2>8. /\ task'[t].replaces = r /\ task'[t].phase = "READY"
        /\ \A u \in Tasks \ {t} : task'[u] = task[u]
    BY <1>f, <2>7 DEF TaskDocs
  <2>9. Existing' = Existing \cup {t}
    BY <2>1, <2>8 DEF Existing
  <2>10. ASSUME NEW m \in Lanes PROVE Sure(m)'
    <3>1. CASE m = l
      BY <1>3, <3>1, ToKeeps DEF LaterTask, Sure
    <3>2. CASE m # l
      <4>1. lane[m].step = "asleep"
        BY <1>3, <1>sole, <3>2, OneLane DEF LaterTask
      <4>2. lane'[m] = lane[m]
        BY <1>3, <3>2, ToKeeps DEF LaterTask, OthersKeep
      <4> QED
        BY <4>1, <4>2 DEF Sure
    <3> QED
      BY <3>1, <3>2
  <2> QED
    BY <1>sole, <1>f, <2>1, <2>6, <2>8, <2>9, <2>10
<1> QED
  BY <1>1, <1>2, <1>3, TasksMove

LEMMA VerdictHolds == Spec => []Verdict
<1>1. Init => Verdict
  BY DEF Init, Verdict, Sure, Existing, Asleep
<1>2. Documents /\ Budget /\ Succession /\ Verdict /\ [Next]_vars => Verdict'
  <2>1. Verdict /\ UNCHANGED vars => Verdict'
    BY DEF Verdict, Sure, Sole, Existing, AllTerminal, Last, ProsePassedOff, vars
  <2> QED
    BY <2>1, VerdictKept
<1> QED
  BY <1>1, <1>2, DocumentsHold, BudgetHolds, SuccessionHolds, PTL DEF Spec

-----------------------------------------------------------------------------
(* The job.                                                                 *)

\* A command starts a generation.  Questions, pauses and steers are counted, and a stop is
\* not taken back.
JobMoves ==
  /\ \/ job'.gen = job.gen /\ job'.control = job.control
     \/ job'.gen = job.gen + 1
  /\ job'.asked \in {job.asked, job.asked + 1}
  /\ open' \/ job'.phase = "AWAITING_USER" =>
       open \/ job.phase = "AWAITING_USER" \/ job'.asked = job.asked + 1
  /\ job'.pauses \in {job.pauses, job.pauses + 1} /\ job'.plan \in {job.plan, job.plan + 1}
  /\ job'.control = "PAUSE_REQUESTED" =>
       job.control = "PAUSE_REQUESTED" \/ job'.pauses = job.pauses + 1
  /\ job.control = "STOP_REQUESTED" => job'.control = "STOP_REQUESTED"

\* A step that changes nothing of this.
LEMMA StillJob ==
  ASSUME job'.gen = job.gen, job'.control = job.control, job'.asked = job.asked,
         job'.pauses = job.pauses, job'.plan = job.plan, open' => open,
         job'.phase = "AWAITING_USER" => job.phase = "AWAITING_USER"
  PROVE  JobMoves
  BY DEF JobMoves

\* A step of a job that starts a generation and keeps the rest, as recovery does.
LEMMA YoungerJob ==
  ASSUME job'.gen = job.gen + 1, job'.asked = job.asked, job'.pauses = job.pauses,
         job'.plan = job.plan, open' => open,
         job'.phase = "AWAITING_USER" => job.phase = "AWAITING_USER",
         job'.control \in {job.control, "STOP_REQUESTED"}
                            \cup (IF job.control = "PAUSE_REQUESTED" THEN {"NONE"} ELSE {})
  PROVE  JobMoves
  BY DEF JobMoves

LEMMA OpensQuestion ==
  ASSUME job \in JobDocs, open \in BOOLEAN, OpenQuestion
  PROVE  JobMoves
<1>1. (job' = job /\ open' = open) \/ job' = [job EXCEPT !.phase = "AWAITING_USER", !.asked = @ + 1]
  BY DEF OpenQuestion
<1>2. CASE job' = [job EXCEPT !.phase = "AWAITING_USER", !.asked = @ + 1]
  <2>1. /\ job'.asked = job.asked + 1 /\ job'.gen = job.gen /\ job'.control = job.control
        /\ job'.pauses = job.pauses /\ job'.plan = job.plan
    BY <1>2 DEF JobDocs
  <2> QED
    BY <2>1 DEF JobMoves
<1> QED
  BY <1>1, <1>2, StillJob

LEMMA ClosesJob ==
  ASSUME job \in JobDocs, open' = open, NEW outcome, Terminate(outcome)
  PROVE  JobMoves /\ job'.outcome = outcome /\ job'.control = job.control
<1>1. PICK g : g = job.gen + 1
  OBVIOUS
<1>2. job' = [job EXCEPT !.phase = "TERMINAL", !.outcome = outcome, !.gen = g]
  BY <1>1 DEF Terminate
<1>3. /\ job'.gen = g /\ job'.phase = "TERMINAL" /\ job'.outcome = outcome
      /\ job'.asked = job.asked /\ job'.pauses = job.pauses /\ job'.plan = job.plan
      /\ job'.control = job.control
  BY <1>2 DEF JobDocs
<1> QED
  BY <1>1, <1>3, YoungerJob

\* What a command keeps.
LEMMA CommandKeeps ==
  ASSUME job \in JobDocs
  PROVE  /\ Command.gen = job.gen + 1 /\ Command.asked = job.asked
         /\ Command.pauses = job.pauses /\ Command.plan = job.plan
         /\ Command.phase = job.phase /\ Command.outcome = job.outcome
         /\ Command.control = job.control /\ Command \in JobDocs
  BY CommandTyped DEF Command, JobDocs

LEMMA JobStep ==
  ASSUME Documents, Next
  PROVE  JobMoves
<1>job. job \in JobDocs /\ open \in BOOLEAN
  BY DEF Documents, TypeOK
<1>still. UNCHANGED <<job, open>> => JobMoves
  BY StillJob
<1>1. ASSUME NEW l \in Lanes, Lane(l) PROVE JobMoves
  <2>1. CASE UNCHANGED <<job, open>>
    BY <1>still, <2>1
  <2>2. CASE LaneAdvances(l) /\ Terminate(OutcomeOfRoots)
    BY <1>job, <2>2, ClosesJob DEF LaneAdvances
  <2>3. CASE JudgeAsks(l) /\ OpenQuestion
    BY <1>job, <2>3, OpensQuestion
  <2>4. CASE JudgeReopens(l) /\ ~UNCHANGED <<job, open>>
    <3>1. job' = [job EXCEPT !.phase = "READY"] /\ open' = open
      BY <2>4 DEF JudgeReopens
    <3>2. /\ job'.gen = job.gen /\ job'.control = job.control /\ job'.asked = job.asked
          /\ job'.pauses = job.pauses /\ job'.plan = job.plan /\ job'.phase = "READY"
      BY <1>job, <3>1 DEF JobDocs
    <3> QED
      BY <3>1, <3>2, StillJob
  <2>5. CASE JudgeFinishes(l) /\ Terminate(FinalOutcome(lane[l].boundary))
    BY <1>job, <2>5, ClosesJob DEF JudgeFinishes
  <2> QED
    BY <1>1, <2>1, <2>2, <2>3, <2>4, <2>5
    DEF Lane, LaneClaimsWake, LaneReads, LaneAdvances, LaneDispatches, JudgeReads, JudgeAsks,
        JudgeReplans, JudgeFinishes
<1>2. ASSUME ActivationStarts PROVE JobMoves
  <2>1. /\ job'.gen = job.gen /\ job'.control = job.control /\ job'.asked = job.asked
        /\ job'.pauses = job.pauses /\ job'.plan = job.plan /\ job'.phase = job.phase
        /\ open' = open
    BY <1>job, <1>2 DEF ActivationStarts, JobDocs
  <2> QED
    BY <2>1, StillJob
<1>3. ASSUME PlanningCommits PROVE JobMoves
  <2>1. PICK n : n = slot.plan
    OBVIOUS
  <2>2. job' = [job EXCEPT !.phase = "DISPATCHING", !.tries = 0, !.root = None,
                           !.starts = 0, !.planned = n]
    BY <1>3, <2>1 DEF PlanningCommits
  <2>3. /\ job'.gen = job.gen /\ job'.control = job.control /\ job'.asked = job.asked
        /\ job'.pauses = job.pauses /\ job'.plan = job.plan /\ job'.phase = "DISPATCHING"
    BY <1>job, <2>2 DEF JobDocs
  <2> QED
    BY <1>3, <2>3, StillJob DEF PlanningCommits
<1>4. ASSUME NEW p \in Generations, Planner(p) PROVE JobMoves
  <2>1. CASE PlannerAsks(p)
    BY <1>job, <2>1, OpensQuestion DEF PlannerAsks
  <2> QED
    BY <1>4, <1>still, <2>1 DEF Planner, PlannerProposes, PlannerEnds, PlannerSettles
<1>5. ASSUME DrainApplies PROVE JobMoves
  <2>1. PICK o : o = OutcomeOf(TaskPhaseOf(latest))
    OBVIOUS
  <2>2. PICK g : g = job.gen + 1
    OBVIOUS
  <2>3. \/ job' = [Drained EXCEPT !.phase = "AWAITING_RESULTS"]
        \/ job' = [Drained EXCEPT !.phase = "TERMINAL", !.outcome = o, !.gen = g]
    BY <1>5, <2>1, <2>2 DEF DrainApplies, Drained
  <2>4. /\ job'.gen \in {job.gen, g} /\ job'.control = job.control /\ job'.asked = job.asked
        /\ job'.pauses = job.pauses /\ job'.plan = job.plan /\ job'.phase # "AWAITING_USER"
    BY <1>job, <2>3 DEF Drained, JobDocs
  <2> QED
    BY <1>5, <2>2, <2>4, StillJob, YoungerJob DEF DrainApplies
<1>6. ASSUME DrainPostpones PROVE JobMoves
  <2>1. /\ job'.gen = job.gen /\ job'.control = job.control /\ job'.asked = job.asked
        /\ job'.pauses = job.pauses /\ job'.plan = job.plan /\ job'.phase # "AWAITING_USER"
    BY <1>job, <1>6 DEF DrainPostpones, JobDocs
  <2> QED
    BY <1>6, <2>1, StillJob DEF DrainPostpones
<1>7. ASSUME ActivationReaped PROVE JobMoves
  <2>1. CASE job' = job
    BY <1>7, <1>still, <2>1 DEF ActivationReaped
  <2>2. CASE job' # job
    <3>1. PICK g : g = job.gen + 1
      OBVIOUS
    <3>2. PICK r : r = IF slot.kind = "CONTROL_RECOVERY" THEN job.root ELSE slot.kind
      OBVIOUS
    <3>3. job' = [job EXCEPT !.gen = g, !.tries = @ + 1, !.root = r]
      BY <1>7, <2>2, <3>1, <3>2 DEF ActivationReaped
    <3>4. /\ job'.gen = g /\ job'.control = job.control /\ job'.asked = job.asked
          /\ job'.pauses = job.pauses /\ job'.plan = job.plan /\ job'.phase = job.phase
      BY <1>job, <3>3 DEF JobDocs
    <3> QED
      BY <1>7, <3>1, <3>4, YoungerJob DEF ActivationReaped
  <2> QED
    BY <2>1, <2>2
<1>8. ASSUME NEW t \in Tasks, NEW a \in AllAnswers, WorkerAnswers(t, a) PROVE JobMoves
  <2>1. CASE job' = job
    BY <1>8, <1>still, <2>1 DEF WorkerAnswers
  <2>2. CASE job' = [job EXCEPT !.phase = "AWAITING_RESULTS", !.high = @ + 1]
    <3>1. /\ job'.gen = job.gen /\ job'.control = job.control /\ job'.asked = job.asked
          /\ job'.pauses = job.pauses /\ job'.plan = job.plan /\ job'.phase # "AWAITING_USER"
      BY <1>job, <2>2 DEF JobDocs
    <3> QED
      BY <1>8, <3>1, StillJob DEF WorkerAnswers
  <2> QED
    BY <1>8, <2>1, <2>2 DEF WorkerAnswers
<1>9. ASSUME RetryTimerFires \/ OperatorRedrives PROVE JobMoves
  <2>1. job' = [job EXCEPT !.phase = "RECONCILING"] /\ open' = open
    BY <1>9 DEF RetryTimerFires, OperatorRedrives, Redriven
  <2>2. /\ job'.gen = job.gen /\ job'.control = job.control /\ job'.asked = job.asked
        /\ job'.pauses = job.pauses /\ job'.plan = job.plan /\ job'.phase # "AWAITING_USER"
    BY <1>job, <2>1 DEF JobDocs
  <2> QED
    BY <2>1, <2>2, StillJob
<1>10. PICK c \in JobDocs : c = Command
  BY <1>job, CommandKeeps
<1>11. /\ c.gen = job.gen + 1 /\ c.asked = job.asked /\ c.pauses = job.pauses /\ c.plan = job.plan
       /\ c.phase = job.phase /\ c.control = job.control
  BY <1>job, <1>10, CommandKeeps
<1>12. ASSUME Pause PROVE JobMoves
  <2>1. job' = [c EXCEPT !.control = "PAUSE_REQUESTED", !.pauses = @ + 1]
        /\ job.control = "NONE" /\ open' = open
    BY <1>10, <1>12 DEF Pause
  <2>2. /\ job'.gen = job.gen + 1 /\ job'.control = "PAUSE_REQUESTED" /\ job'.asked = job.asked
        /\ job'.pauses = job.pauses + 1 /\ job'.plan = job.plan /\ job'.phase = job.phase
    BY <1>11, <2>1 DEF JobDocs
  <2> QED
    BY <2>1, <2>2 DEF JobMoves
<1>13. ASSUME Resume PROVE JobMoves
  <2>1. job' = [c EXCEPT !.control = "NONE"]
        /\ job.control = "PAUSE_REQUESTED" /\ open' = open
    BY <1>10, <1>13 DEF Resume
  <2>2. /\ job'.gen = job.gen + 1 /\ job'.control = "NONE" /\ job'.asked = job.asked
        /\ job'.pauses = job.pauses /\ job'.plan = job.plan /\ job'.phase = job.phase
    BY <1>11, <2>1 DEF JobDocs
  <2> QED
    BY <2>1, <2>2 DEF JobMoves
<1>14. ASSUME Steer PROVE JobMoves
  <2>1. job' = [c EXCEPT !.plan = @ + 1] /\ open' = open
    BY <1>10, <1>14 DEF Steer
  <2>2. /\ job'.gen = job.gen + 1 /\ job'.control = job.control /\ job'.asked = job.asked
        /\ job'.pauses = job.pauses /\ job'.plan = job.plan + 1 /\ job'.phase = job.phase
    BY <1>11, <2>1 DEF JobDocs
  <2> QED
    BY <2>1, <2>2 DEF JobMoves
<1>15. ASSUME Cancel PROVE JobMoves
  <2>1. PICK h : h = job.high
    OBVIOUS
  <2>2. job' = [c EXCEPT !.control = "STOP_REQUESTED", !.phase = "RECONCILING", !.resolved = h]
        /\ ~open'
    BY <1>10, <1>15, <2>1 DEF Cancel
  <2>3. /\ job'.gen = job.gen + 1 /\ job'.control = "STOP_REQUESTED" /\ job'.asked = job.asked
        /\ job'.pauses = job.pauses /\ job'.plan = job.plan /\ job'.phase = "RECONCILING"
    BY <1>11, <2>2 DEF JobDocs
  <2> QED
    BY <2>2, <2>3 DEF JobMoves
<1>16. ASSUME StopCommits PROVE JobMoves
  BY <1>job, <1>16, ClosesJob DEF StopCommits
<1>17. ASSUME AnswerQuestion PROVE JobMoves
  <2>1. job' = [job EXCEPT !.phase = "READY", !.starts = 0] /\ ~open'
    BY <1>17 DEF AnswerQuestion
  <2>2. /\ job'.gen = job.gen /\ job'.control = job.control /\ job'.asked = job.asked
        /\ job'.pauses = job.pauses /\ job'.plan = job.plan /\ job'.phase = "READY"
    BY <1>job, <2>1 DEF JobDocs
  <2> QED
    BY <2>1, <2>2, StillJob
<1>18. ASSUME ExpireQuestion PROVE JobMoves
  BY <1>18, StillJob DEF ExpireQuestion
<1>19. ASSUME \/ ActivationClaims \/ \E p \in Generations : PlannerDies(p)
              \/ \E l \in Lanes : LaneDies(l)
              \/ \E t \in Tasks : StoppedWorkEnds(t)
              \/ ControlCommits \/ ActivationAges \/ ReWake \/ RowsVanish \/ RowsReturn
              \/ AppendInstruction
       PROVE  JobMoves
  BY <1>19, <1>still
  DEF ActivationClaims, PlannerDies, LaneDies, StoppedWorkEnds, ControlCommits, ActivationAges,
      ReWake, RowsVanish, RowsReturn, AppendInstruction
<1> QED
  BY <1>1, <1>2, <1>3, <1>4, <1>5, <1>6, <1>7, <1>8, <1>9, <1>12, <1>13, <1>14, <1>15, <1>16,
     <1>17, <1>18, <1>19 DEF Next

-----------------------------------------------------------------------------
(* How a job closes.                                                        *)

ClosedByLane(l) ==
  /\ lane[l].step = "advance" /\ AdvanceGranted(l) /\ Terminate(OutcomeOfRoots)
ClosedByJudge(l) ==
  /\ lane[l].step = "finish" /\ FinishGranted /\ Terminate(FinalOutcome(lane[l].boundary))
ClosedByDrain ==
  /\ Existing = {1} /\ ~config.judged /\ job.phase \in TypedPhases /\ job.control # "STOP_REQUESTED"
  /\ task' = [task EXCEPT ![1].phase = TaskPhaseOf(latest)]
  /\ job'.outcome = OutcomeOf(TaskPhaseOf(latest))

\* A job that has closed keeps its outcome.
Kept == job'.outcome = job.outcome /\ (~Open => job'.control = job.control)

LEMMA OutcomeStep ==
  ASSUME Documents, Next
  PROVE  \/ Kept
         \/ /\ Open /\ UNCHANGED <<task, latest>>
            /\ \/ \E l \in Lanes : ClosedByLane(l) \/ ClosedByJudge(l)
               \/ job'.outcome = "CANCELLED"
         \/ Open /\ ClosedByDrain /\ latest' = latest
<1>job. job \in JobDocs
  BY DEF Documents, TypeOK
<1>1. ASSUME NEW l \in Lanes, Lane(l)
      PROVE  Kept \/ (Open /\ UNCHANGED <<task, latest>> /\ (ClosedByLane(l) \/ ClosedByJudge(l)))
  <2>1. CASE job' = job
    BY <2>1 DEF Kept
  <2>2. CASE LaneAdvances(l) /\ job' # job
    BY <2>2 DEF LaneAdvances, ClosedByLane, AdvanceGranted
  <2>3. CASE JudgeAsks(l) /\ job' # job
    BY <1>job, <2>3 DEF JudgeAsks, OpenQuestion, JobDocs, Kept
  <2>4. CASE JudgeReopens(l) /\ job' # job
    BY <1>job, <2>4 DEF JudgeReopens, JobDocs, Kept
  <2>5. CASE JudgeFinishes(l) /\ job' # job
    BY <2>5 DEF JudgeFinishes, ClosedByJudge, FinishGranted
  <2> QED
    BY <1>1, <2>1, <2>2, <2>3, <2>4, <2>5
    DEF Lane, LaneClaimsWake, LaneReads, LaneDispatches, JudgeReads, JudgeReplans
<1>2. ASSUME ActivationStarts PROVE Kept
  BY <1>job, <1>2 DEF ActivationStarts, JobDocs, Kept
<1>3. ASSUME PlanningCommits PROVE Kept
  BY <1>job, <1>3 DEF PlanningCommits, JobDocs, Kept
<1>4. ASSUME NEW p \in Generations, Planner(p) PROVE Kept
  BY <1>job, <1>4
  DEF Planner, PlannerAsks, OpenQuestion, PlannerProposes, PlannerEnds, PlannerSettles, JobDocs, Kept
<1>5. ASSUME DrainApplies PROVE Kept \/ (Open /\ ClosedByDrain /\ latest' = latest)
  <2>1. /\ Open /\ Existing = {1}
        /\ job.phase \in TypedPhases /\ job.control # "STOP_REQUESTED"
    BY <1>5 DEF DrainApplies, DrainGranted, Authorized, Decision, Eligible, ResultControlIsCurrent, None
  <2>2. task' = [task EXCEPT ![1].phase = TaskPhaseOf(latest)] /\ latest' = latest
    BY <1>5 DEF DrainApplies
  <2>3. PICK o : o = OutcomeOf(TaskPhaseOf(latest))
    OBVIOUS
  <2>4. CASE config.judged
    BY <1>job, <1>5, <2>1, <2>4 DEF DrainApplies, Drained, JobDocs, Kept
  <2>5. CASE ~config.judged
    <3>1. job' = [Drained EXCEPT !.phase = "TERMINAL", !.outcome = o, !.gen = @ + 1]
      BY <1>5, <2>3, <2>5 DEF DrainApplies
    <3>2. job'.outcome = o
      BY <1>job, <3>1 DEF Drained, JobDocs
    <3> QED
      BY <2>1, <2>2, <2>3, <2>5, <3>2 DEF ClosedByDrain
  <2> QED
    BY <2>4, <2>5
<1>6. ASSUME DrainPostpones PROVE Kept
  BY <1>job, <1>6 DEF DrainPostpones, JobDocs, Kept
<1>7. ASSUME ActivationReaped PROVE Kept
  BY <1>job, <1>7 DEF ActivationReaped, JobDocs, Kept
<1>8. ASSUME NEW t \in Tasks, NEW a \in AllAnswers, WorkerAnswers(t, a) PROVE Kept
  BY <1>job, <1>8 DEF WorkerAnswers, JobDocs, Kept
<1>9. ASSUME RetryTimerFires \/ OperatorRedrives PROVE Kept
  BY <1>job, <1>9 DEF RetryTimerFires, OperatorRedrives, Redriven, JobDocs, Kept
<1>10. PICK c \in JobDocs : c = Command
  BY <1>job, CommandKeeps
<1>11. c.outcome = job.outcome
  BY <1>job, <1>10, CommandKeeps
<1>12. ASSUME Pause \/ Resume \/ Steer \/ Cancel PROVE Kept
  <2>1. PICK h : h = job.high
    OBVIOUS
  <2>2. /\ Open
        /\ \/ job' = [c EXCEPT !.control = "PAUSE_REQUESTED", !.pauses = @ + 1]
           \/ job' = [c EXCEPT !.control = "NONE"]
           \/ job' = [c EXCEPT !.plan = @ + 1]
           \/ job' = [c EXCEPT !.control = "STOP_REQUESTED", !.phase = "RECONCILING", !.resolved = h]
    BY <1>10, <1>12, <2>1 DEF Pause, Resume, Steer, SteerGranted, Cancel
  <2>3. job'.outcome = c.outcome
    BY <2>2 DEF JobDocs
  <2> QED
    BY <1>11, <2>2, <2>3 DEF Kept
<1>13. ASSUME StopCommits PROVE Open /\ UNCHANGED <<task, latest>> /\ job'.outcome = "CANCELLED"
  BY <1>job, <1>13 DEF StopCommits, Terminate, JobDocs
<1>14. ASSUME AnswerQuestion PROVE Kept
  BY <1>job, <1>14 DEF AnswerQuestion, JobDocs, Kept
<1>15. ASSUME \/ ActivationClaims \/ \E p \in Generations : PlannerDies(p)
              \/ \E l \in Lanes : LaneDies(l)
              \/ \E t \in Tasks : StoppedWorkEnds(t)
              \/ ControlCommits \/ ActivationAges \/ ReWake \/ RowsVanish \/ RowsReturn
              \/ AppendInstruction \/ ExpireQuestion
       PROVE  Kept
  BY <1>15
  DEF ActivationClaims, PlannerDies, LaneDies, StoppedWorkEnds, ControlCommits, ActivationAges,
      ReWake, RowsVanish, RowsReturn, AppendInstruction, ExpireQuestion, Kept
<1> QED
  BY <1>1, <1>2, <1>3, <1>4, <1>5, <1>6, <1>7, <1>8, <1>9, <1>12, <1>13, <1>14, <1>15 DEF Next

-----------------------------------------------------------------------------
(* What COMPLETED means.                                                    *)

\* The last task of all that exist is one of them, and nobody replaced it.
LEMMA LastStands ==
  ASSUME Documents, Succession, Existing # {}
  PROVE  Last \in Unsuperseded
<1>1. Existing \in SUBSET (1 .. (MaxLaneTasks + Cardinality(Lanes)))
  BY DEF Existing, Tasks
<1>2. Last \in Existing /\ \A t \in Existing : t <= Last
  BY <1>1, FirstAndLast, TasksAreNumbered DEF Last
<1>3. Last \in Nat /\ \A t \in Existing : t \in Nat /\ task[t].replaces \in Nat
  BY <1>2, TaskFields DEF Existing
<1>4. \A t \in Existing : task[t].replaces < t
  BY DEF Succession
<1>5. ASSUME NEW t \in Existing PROVE task[t].replaces # Last
  <2>1. PICK r \in Nat : r = task[t].replaces
    BY <1>3
  <2>2. r < t /\ t <= Last
    BY <1>2, <1>4, <2>1
  <2> QED
    BY <1>3, <2>1, <2>2
<1> QED
  BY <1>2, <1>5 DEF Unsuperseded, Superseded

\* Where every task replaces the one before it, the last one alone is the work.
LEMMA OnlyLastStands ==
  ASSUME Documents, Succession, Verdict, Sole, NEW x, Has(x)
  PROVE  task[Last].phase = x
<1>1. PICK t \in Unsuperseded : task[t].phase = x
  BY DEF Has
<1>2. t \in Existing
  BY DEF Unsuperseded
<1>3. Existing \in SUBSET (1 .. (MaxLaneTasks + Cardinality(Lanes)))
  BY DEF Existing, Tasks
<1>4. Last \in Existing /\ t <= Last
  BY <1>2, <1>3, FirstAndLast, TasksAreNumbered DEF Last
<1>5. t \in Nat /\ Last \in Nat /\ t >= 1
  BY <1>2, <1>4, TaskFields DEF Existing, Tasks
<1>6. CASE t < Last
  <2>1. t + 1 \in 1 .. Last
    BY <1>5, <1>6
  <2>2. t + 1 \in Existing
    BY <1>4, <2>1 DEF Succession
  <2>3. task[t + 1].replaces = t
    BY <1>5, <2>2 DEF Verdict
  <2>4. t \in Superseded
    BY <2>2, <2>3 DEF Superseded
  <2> QED
    BY <2>4 DEF Unsuperseded
<1> QED
  BY <1>1, <1>4, <1>5, <1>6

LEMMA UnjudgedKept ==
  Documents /\ Verdict /\ Unjudged /\ Next => Unjudged'
<1> SUFFICES ASSUME Documents, Verdict, Unjudged, Next PROVE Unjudged'
  OBVIOUS
<1>job. /\ job.asked \in Nat /\ job.gen \in Nat /\ JobMoves
        /\ job.control \in {"NONE", "PAUSE_REQUESTED", "STOP_REQUESTED"}
  BY TaskFields, JobFields, JobStep DEF JobDocs
<1>gen. ASSUME NEW m \in Lanes PROVE lane[m].gen \in Nat /\ lane[m].gen <= job.gen
  BY TaskFields DEF LaneMemories, Unjudged
<1>1. job'.phase = "AWAITING_USER" \/ open' => job'.asked > 0
  BY <1>job DEF JobMoves, Unjudged
<1>2. ASSUME NEW m \in Lanes PROVE lane'[m].gen <= job'.gen
  <2>1. lane'[m].gen \in {0, lane[m].gen, job.gen}
    BY EachLane, ToKeeps
    DEF LaneTurns, Rests, Asleep, Rises, Looks, Chooses, Passes, GivesUp, LaterTask
  <2>2. job'.gen \in {job.gen, job.gen + 1}
    BY <1>job DEF JobMoves
  <2> QED
    BY <1>job, <1>gen, <2>1, <2>2
<1>3. ASSUME config'.owes, Sole', job'.asked = 0, Open', NEW m \in Lanes,
             lane'[m].step = "advance", lane'[m].gen = job'.gen
      PROVE  job'.control # "NONE"
  <2>1. config.owes /\ Sole /\ job.asked = 0 /\ ~(job.phase = "AWAITING_USER")
    BY <1>3, <1>job, SameScenario DEF Sole, JobMoves, Unjudged
  <2>2. Open
    BY <1>3, OutcomeStep DEF Kept, Open
  <2>3. lane'[m].gen = lane[m].gen => job'.control = job.control /\ lane[m].gen = job.gen
    BY <1>3, <1>job, <1>gen DEF JobMoves
  <2>4. CASE lane'[m] = lane[m]
    BY <1>3, <2>1, <2>2, <2>3, <2>4 DEF Unjudged
  <2>5. CASE Looks(m)
    <3>1. config.judged
      BY <2>1, ScenarioAssumption DEF Documents, TypeOK, IsScenario
    <3> QED
      BY <1>3, <2>1, <2>5, <3>1 DEF Looks
  <2>6. CASE Passes(m)
    <3>1. lane[m].next = "advance" /\ lane'[m].gen = lane[m].gen
      BY <1>3, <2>6, ToKeeps DEF Passes
    <3>2. Sure(m)
      BY <2>1 DEF Verdict
    <3>3. job.control # "NONE"
      BY <2>1, <2>2, <2>6, <3>1, <3>2 DEF Passes, Sure, FinishGranted
    <3> QED
      BY <2>3, <3>1, <3>3
  <2>7. CASE Rests(m) \/ Rises(m) \/ Chooses(m) \/ GivesUp(m) \/ LaterTask(m)
    BY <1>3, <2>7, ToKeeps DEF Rests, Asleep, Rises, Chooses, GivesUp, LaterTask
  <2> QED
    BY <2>4, <2>5, <2>6, <2>7, EachLane DEF LaneTurns
<1> QED
  BY <1>1, <1>2, <1>3 DEF Unjudged

LEMMA UnjudgedHolds == Spec => []Unjudged
<1>1. Init => Unjudged
  BY DEF Init, Unjudged, Asleep
<1>2. Documents /\ Verdict /\ Unjudged /\ [Next]_vars => Unjudged'
  <2>1. Unjudged /\ UNCHANGED vars => Unjudged'
    BY DEF Unjudged, Sole, Open, vars
  <2> QED
    BY <2>1, UnjudgedKept
<1> QED
  BY <1>1, <1>2, DocumentsHold, VerdictHolds, PTL DEF Spec

\* A job that the lane or the judge closes as COMPLETED has work that succeeded.
LEMMA CompletedBySuccess ==
  ASSUME Documents, Succession, AllTerminal,
         OutcomeOfRoots = "COMPLETED" \/ FinalOutcome(FALSE) = "COMPLETED"
  PROVE  Has("SUCCEEDED")
<1>1. CASE FinalOutcome(FALSE) = "COMPLETED"
  BY <1>1 DEF FinalOutcome
<1>2. CASE OutcomeOfRoots = "COMPLETED"
  <2>1. ~Has("FAILED") /\ ~Has("TIMED_OUT") /\ ~Has("CANCELLED") /\ ~Has("PARTIAL")
    BY <1>2 DEF OutcomeOfRoots
  <2>2. Last \in Unsuperseded /\ task[Last].phase \in TerminalTask
    BY LastStands DEF AllTerminal, Unsuperseded
  <2> QED
    BY <2>1, <2>2 DEF Has, TerminalTask
<1> QED
  BY <1>1, <1>2

LEMMA CompletedKept ==
  Documents /\ Succession /\ Verdict /\ Unjudged /\ CompletedMeansDelivered /\ Next
    => CompletedMeansDelivered'
<1> SUFFICES ASSUME Documents, Succession, Verdict, Unjudged, CompletedMeansDelivered, Next,
                    job'.outcome = "COMPLETED"
             PROVE  /\ Has("SUCCEEDED")'
                    /\ config'.owes /\ latest' # "document" =>
                         \/ job'.control = "PAUSE_REQUESTED" \/ job'.asked > 0
                         \/ Cardinality(config'.lanes) > 1
  BY DEF CompletedMeansDelivered
<1>job. /\ job.asked \in Nat /\ JobMoves /\ job \in JobDocs
        /\ job.control \in {"NONE", "PAUSE_REQUESTED", "STOP_REQUESTED"}
        /\ config' = config /\ Cardinality(config.lanes) \in Nat \ {0}
  BY TaskFields, JobFields, JobStep, SameScenario, FiniteCounts DEF JobDocs, Documents
<1>asked. job'.asked >= job.asked /\ job'.asked \in Nat
  BY <1>job DEF JobMoves
<1>1. CASE Kept
  <2>1. ~Open /\ job'.control = job.control /\ job.outcome = "COMPLETED"
    BY <1>1 DEF Kept, Open, None
  <2>2. Progress /\ latest' = latest
    BY <2>1, TasksMove DEF LaterTask, ReplanGranted, PlanningCommits, Authorized, PlanningCandidate
  <2>3. Has("SUCCEEDED")'
    BY <2>1, <2>2, ProgressKeeps DEF CompletedMeansDelivered, TerminalTask
  <2> QED
    BY <1>job, <1>asked, <2>1, <2>2, <2>3 DEF CompletedMeansDelivered
<1>2. ASSUME NEW l \in Lanes, ClosedByLane(l), UNCHANGED <<task, latest>>
      PROVE  /\ Has("SUCCEEDED")'
             /\ config'.owes => \/ job'.control = "PAUSE_REQUESTED" \/ job'.asked > 0
                                \/ Cardinality(config'.lanes) > 1
  <2>1. Open /\ AllTerminal /\ job.gen = lane[l].gen /\ job.control # "STOP_REQUESTED"
    BY <1>2 DEF ClosedByLane, AdvanceGranted
  <2>2. job'.outcome = OutcomeOfRoots /\ job'.control = job.control
    <3>1. PICK o : o = OutcomeOfRoots
      OBVIOUS
    <3>2. Terminate(o)
      BY <1>2, <3>1 DEF ClosedByLane
    <3> QED
      BY <1>job, <3>1, <3>2 DEF Terminate, JobDocs
  <2>3. Has("SUCCEEDED")
    BY <2>1, <2>2, CompletedBySuccess
  <2>4. Has("SUCCEEDED")'
    BY <1>2, <2>3 DEF Has, Unsuperseded, Superseded, Existing
  <2>5. ASSUME config.owes, job'.asked = 0, Sole PROVE job'.control = "PAUSE_REQUESTED"
    <3>1. job.asked = 0
      BY <1>job, <1>asked, <2>5
    <3>2. job.control # "NONE"
      BY <1>2, <2>1, <2>5, <3>1 DEF Unjudged, ClosedByLane
    <3> QED
      BY <1>job, <2>1, <2>2, <3>2
  <2> QED
    BY <1>job, <1>asked, <2>4, <2>5 DEF Sole
<1>3. ASSUME NEW l \in Lanes, ClosedByJudge(l), UNCHANGED <<task, latest>>
      PROVE  /\ Has("SUCCEEDED")'
             /\ config'.owes /\ latest' # "document" => Cardinality(config'.lanes) > 1
  <2>1. AllTerminal /\ lane[l].step = "finish"
    BY <1>3 DEF ClosedByJudge, FinishGranted
  <2>2. job'.outcome = FinalOutcome(lane[l].boundary)
    <3>1. PICK o : o = FinalOutcome(lane[l].boundary)
      OBVIOUS
    <3>2. Terminate(o)
      BY <1>3, <3>1 DEF ClosedByJudge
    <3> QED
      BY <1>job, <3>1, <3>2 DEF Terminate, JobDocs
  <2>3. ~lane[l].boundary /\ Has("SUCCEEDED")
    BY <2>2 DEF FinalOutcome
  <2>4. Has("SUCCEEDED")'
    BY <1>3, <2>3 DEF Has, Unsuperseded, Superseded, Existing
  <2>5. ASSUME config.owes, Sole PROVE latest = "document"
    <3>1. ~ProsePassedOff
      BY <2>1, <2>3, <2>5 DEF Verdict, Sure
    <3>2. task[Last].phase = "SUCCEEDED"
      BY <2>3, <2>5, OnlyLastStands
    <3> QED
      BY <2>5, <3>1, <3>2 DEF ProsePassedOff
  <2> QED
    BY <1>3, <1>job, <2>4, <2>5 DEF Sole
<1>4. CASE ClosedByDrain
  <2>1. ~config.owes
    BY <1>4, ScenarioAssumption DEF ClosedByDrain, Documents, TypeOK, IsScenario
  <2>2. TaskPhaseOf(latest) = "SUCCEEDED"
    BY <1>4 DEF ClosedByDrain, OutcomeOf, TaskPhaseOf
  <2>3. task' = [task EXCEPT ![1].phase = "SUCCEEDED"] /\ Existing = {1}
    BY <1>4, <2>2 DEF ClosedByDrain
  <2>4. /\ task'[1].phase = "SUCCEEDED" /\ task'[1].replaces = task[1].replaces
        /\ Existing' = {1}
    BY <2>3, TaskFields DEF TaskDocs, Existing
  <2>5. task[1].replaces # 1
    <3>1. PICK r \in Nat : r = task[1].replaces
      BY TaskFields
    <3>2. r < 1
      BY <2>3, <3>1 DEF Succession
    <3> QED
      BY <3>1, <3>2
  <2>6. Has("SUCCEEDED")'
    BY <2>4, <2>5 DEF Has, Unsuperseded, Superseded
  <2> QED
    BY <1>job, <2>1, <2>6
<1> QED
  BY <1>1, <1>2, <1>3, <1>4, OutcomeStep

\* For any scenarios: a job that is COMPLETED has a task that succeeded and that nobody
\* replaced; and where a document is owed there is one, unless a pause or a question let
\* the lane go past the judge, or a second lane judged as well.
THEOREM CompletedIsDelivered == Spec => []CompletedMeansDelivered
<1>1. Init => CompletedMeansDelivered
  BY DEF Init, CompletedMeansDelivered, None
<1>2. Documents /\ Succession /\ Verdict /\ Unjudged /\ CompletedMeansDelivered /\ [Next]_vars
        => CompletedMeansDelivered'
  <2>1. CompletedMeansDelivered /\ UNCHANGED vars => CompletedMeansDelivered'
    BY DEF CompletedMeansDelivered, Has, Unsuperseded, Superseded, Existing, vars
  <2> QED
    BY <2>1, CompletedKept
<1> QED
  BY <1>1, <1>2, DocumentsHold, SuccessionHolds, VerdictHolds, UnjudgedHolds, PTL DEF Spec

-----------------------------------------------------------------------------
(* The slot and the planner.                                                *)

LEMMA PlanFrozenKept == Documents /\ PlanFrozen /\ Next => PlanFrozen'
<1> SUFFICES ASSUME Documents, PlanFrozen, Next PROVE PlanFrozen'
  OBVIOUS
<1>slot. slot \in SlotDocs
  BY TaskFields
\* The slot stays, or is taken anew or set free, and no planner is added.
<1>stays. ASSUME slot' = slot \/ ~slot'.marked, thinking' \subseteq thinking PROVE PlanFrozen'
  BY <1>stays DEF PlanFrozen
<1>fresh. ~NoSlot.marked /\ \A k, g, d : ~Activation(k, g, d).marked
  BY DEF NoSlot, Activation
<1>1. ASSUME NEW l \in Lanes, Lane(l) PROVE PlanFrozen'
  <2>1. thinking' = thinking
    BY <1>1 DEF Lane, LaneClaimsWake, LaneReads, LaneAdvances, LaneDispatches, JudgeReads, JudgeAsks,
                JudgeReplans, JudgeReopens, JudgeFinishes
  <2>2. slot' \in {slot, NoSlot, Materialized}
    BY <1>1 DEF Lane, LaneClaimsWake, LaneReads, LaneAdvances, LaneDispatches, JudgeReads, JudgeAsks,
                JudgeReplans, JudgeReopens, JudgeFinishes
  <2>3. Materialized = slot \/ ~Materialized.marked
    BY <1>fresh DEF Materialized
  <2> QED
    BY <1>stays, <1>fresh, <2>1, <2>2, <2>3
<1>2. ASSUME ActivationClaims PROVE PlanFrozen'
  BY <1>2, <1>slot DEF ActivationClaims, PlanFrozen, SlotDocs
<1>3. ASSUME ActivationStarts PROVE PlanFrozen'
  <2>1. ~slot.marked
    BY <1>3 DEF ActivationStarts, PlanFrozen
  <2>2. slot'.marked = slot.marked
    BY <1>3, <1>slot DEF ActivationStarts, SlotDocs
  <2> QED
    BY <2>1, <2>2, <1>slot DEF PlanFrozen, SlotDocs
<1>4. ASSUME NEW p \in Generations, PlannerProposes(p) PROVE PlanFrozen'
  BY <1>4, <1>slot DEF PlannerProposes, PlanFrozen, SlotDocs
<1>5. ASSUME NEW p \in Generations, PlannerAsks(p) \/ PlannerEnds(p) \/ PlannerSettles(p) \/ PlannerDies(p)
      PROVE  PlanFrozen'
  BY <1>5, <1>stays, <1>fresh DEF PlannerAsks, PlannerEnds, PlannerSettles, PlannerDies
<1>6. ASSUME ActivationAges PROVE PlanFrozen'
  BY <1>6, <1>slot DEF ActivationAges, PlanFrozen, SlotDocs
<1>7. ASSUME ActivationReaped PROVE PlanFrozen'
  <2>1. CASE slot' = [slot EXCEPT !.life = "FAILED"]
    BY <1>7, <1>slot, <2>1 DEF ActivationReaped, PlanFrozen, SlotDocs
  <2>2. CASE slot' = Activation("CONTROL_RECOVERY", job.gen + 1, None)
    BY <1>7, <1>stays, <1>fresh, <2>2 DEF ActivationReaped
  <2> QED
    BY <1>7, <2>1, <2>2 DEF ActivationReaped
<1>8. ASSUME \/ PlanningCommits \/ DrainApplies \/ DrainPostpones \/ ControlCommits
             \/ Pause \/ Resume \/ Steer \/ Cancel
      PROVE  PlanFrozen'
  BY <1>8, <1>stays, <1>fresh
  DEF PlanningCommits, DrainApplies, DrainPostpones, ControlCommits, Pause, Resume, Steer, Cancel
<1>9. ASSUME \/ \E l \in Lanes : LaneDies(l)
             \/ \E t \in Tasks : StoppedWorkEnds(t) \/ \E a \in AllAnswers : WorkerAnswers(t, a)
             \/ RetryTimerFires \/ OperatorRedrives \/ ReWake \/ RowsVanish \/ RowsReturn
             \/ AppendInstruction \/ StopCommits \/ AnswerQuestion \/ ExpireQuestion
      PROVE  PlanFrozen'
  <2>1. UNCHANGED <<slot, thinking>>
    BY <1>9
    DEF LaneDies, StoppedWorkEnds, WorkerAnswers, RetryTimerFires, OperatorRedrives, ReWake,
        RowsVanish, RowsReturn, AppendInstruction, StopCommits, AnswerQuestion, ExpireQuestion
  <2> QED
    BY <1>stays, <2>1
<1> QED
  BY <1>1, <1>2, <1>3, <1>4, <1>5, <1>6, <1>7, <1>8, <1>9 DEF Next, Planner

\* A question is opened by the judge, or by a planner that was asked.
LEMMA WhoAsks ==
  ASSUME Documents, Next, open', ~open
  PROVE  \/ \E l \in Lanes : JudgeAsks(l) /\ AskGranted /\ OpenQuestion /\ Sleep(l)
         \/ \E p \in Generations : PlannerAsks(p)
<1>1. \/ \E l \in Lanes : JudgeAsks(l)
      \/ \E p \in Generations : PlannerAsks(p)
  BY DEF Next, Lane, LaneClaimsWake, LaneReads, LaneAdvances, LaneDispatches, JudgeReads,
         JudgeReplans, JudgeReopens, JudgeFinishes, LaneDies, ActivationClaims, ActivationStarts,
         PlanningCommits, Planner, PlannerProposes, PlannerEnds, PlannerSettles,
         PlannerDies, DrainApplies, DrainPostpones, ControlCommits, ActivationAges,
         ActivationReaped, StoppedWorkEnds, WorkerAnswers, RetryTimerFires, OperatorRedrives,
         ReWake, RowsVanish, RowsReturn, Pause, Resume, Steer, AppendInstruction, Cancel,
         StopCommits, AnswerQuestion, ExpireQuestion
<1> QED
  BY <1>1 DEF JudgeAsks

\* A planner is asked when a planning activation starts, and by nothing else.
LEMMA WhoThinks ==
  ASSUME Documents, Next
  PROVE  \/ thinking' \subseteq thinking
         \/ /\ thinking' = thinking \cup {job.gen} /\ job'.gen = job.gen
            /\ Existing = {} /\ task' = task
<1>1. CASE ActivationStarts /\ slot.kind = "BUSINESS"
  <2>1. Existing = {} /\ slot.gen = job.gen
    BY <1>1 DEF ActivationStarts, Authorized
  <2>2. job'.gen = job.gen
    BY <1>1, TaskFields DEF ActivationStarts, JobDocs
  <2> QED
    BY <1>1, <2>1, <2>2 DEF ActivationStarts
<1>2. CASE ActivationStarts /\ slot.kind # "BUSINESS"
  BY <1>2 DEF ActivationStarts
<1>3. CASE ~ActivationStarts
  BY <1>3
  DEF Next, Lane, LaneClaimsWake, LaneReads, LaneAdvances, LaneDispatches, JudgeReads, JudgeAsks,
      JudgeReplans, JudgeReopens, JudgeFinishes, LaneDies, ActivationClaims,
      PlanningCommits, Planner, PlannerProposes, PlannerAsks, PlannerEnds, PlannerSettles,
      PlannerDies, DrainApplies, DrainPostpones, ControlCommits, ActivationAges,
      ActivationReaped, StoppedWorkEnds, WorkerAnswers, RetryTimerFires, OperatorRedrives,
      ReWake, RowsVanish, RowsReturn, Pause, Resume, Steer, AppendInstruction, Cancel,
      StopCommits, AnswerQuestion, ExpireQuestion
<1> QED
  BY <1>1, <1>2, <1>3

\* A job that is open and left alone was so before, and its generation changes only when
\* an activation is lost that had not asked a planner.
LEMMA StillAlone ==
  ASSUME Documents, Next, job.control = "PAUSE_REQUESTED" => job.pauses > 0,
         Open', LeftAlone'
  PROVE  /\ Open /\ LeftAlone
         /\ job'.gen = job.gen \/ (job'.gen = job.gen + 1 /\ task' = task /\ ~Held)
<1>job. JobMoves /\ job \in JobDocs /\ job.pauses \in Nat /\ job.plan \in Nat /\ job.gen \in Nat
  BY JobStep, TaskFields, JobFields
<1>1. Open
  BY OutcomeStep DEF Kept, Open
<1>2. job.pauses = 0 /\ job.plan = 0 /\ job'.pauses = 0 /\ job'.plan = 0
  BY <1>job DEF JobMoves, LeftAlone
<1>3. job.control \in {"NONE", "PAUSE_REQUESTED", "STOP_REQUESTED"} /\ job'.control # "STOP_REQUESTED"
      /\ job'.control \in {"NONE", "PAUSE_REQUESTED", "STOP_REQUESTED"}
  BY <1>job, TypesKept DEF JobDocs, LeftAlone, TypeOK
<1>4. job.control = "NONE"
  BY <1>job, <1>2, <1>3 DEF JobMoves
<1>5. ASSUME job'.gen # job.gen PROVE task' = task /\ ~Held
  <2>1. PICK c \in JobDocs : c = Command
    BY <1>job, CommandKeeps
  <2>2. c.pauses = job.pauses /\ c.plan = job.plan
    BY <1>job, <2>1, CommandKeeps
  <2>3. ~Pause
    <3>1. ASSUME Pause PROVE job'.pauses = job.pauses + 1
      <4>1. job' = [c EXCEPT !.control = "PAUSE_REQUESTED", !.pauses = @ + 1]
        BY <2>1, <3>1 DEF Pause
      <4> QED
        BY <2>2, <4>1 DEF JobDocs
    <3> QED
      BY <1>2, <3>1
  <2>4. ~Steer
    <3>1. ASSUME Steer PROVE job'.plan = job.plan + 1
      <4>1. job' = [c EXCEPT !.plan = @ + 1]
        BY <2>1, <3>1 DEF Steer
      <4> QED
        BY <2>2, <4>1 DEF JobDocs
    <3> QED
      BY <1>2, <3>1
  <2>5. ~Resume /\ ~Cancel
    <3>1. ASSUME Cancel PROVE job'.control = "STOP_REQUESTED"
      <4>1. PICK h : h = job.high
        OBVIOUS
      <4>2. job' = [c EXCEPT !.control = "STOP_REQUESTED", !.phase = "RECONCILING", !.resolved = h]
        BY <2>1, <3>1, <4>1 DEF Cancel
      <4> QED
        BY <4>2 DEF JobDocs
    <3> QED
      BY <1>3, <1>4, <3>1 DEF Resume
  <2>6. ASSUME NEW o, Terminate(o) PROVE o = None
    BY <1>job, <2>6 DEF Terminate, JobDocs, Open
  <2>7. CASE ActivationReaped
    BY <1>5, <2>7 DEF ActivationReaped, Expired, ActiveLives, Ambiguous, Held
  <2>8. CASE ~ActivationReaped
    <3>1. CASE \E l \in Lanes : Lane(l)
      <4>1. PICK l \in Lanes : Lane(l)
        BY <3>1
      <4>2. OutcomeOfRoots # None /\ FinalOutcome(lane[l].boundary) # None
        BY DEF OutcomeOfRoots, FinalOutcome, None
      <4>3. ASSUME OpenQuestion PROVE job'.gen = job.gen
        BY <1>job, <4>3 DEF OpenQuestion, JobDocs
      <4>4. ASSUME JudgeReopens(l) PROVE job'.gen = job.gen
        BY <1>job, <4>4 DEF JudgeReopens, JobDocs
      <4> QED
        BY <1>5, <2>6, <4>1, <4>2, <4>3, <4>4
        DEF Lane, LaneClaimsWake, LaneReads, LaneAdvances, LaneDispatches, JudgeReads, JudgeAsks,
            JudgeReplans, JudgeFinishes
    <3>2. CASE DrainApplies
      <4>1. PICK o : o = OutcomeOf(TaskPhaseOf(latest))
        OBVIOUS
      <4>2. \/ job' = [Drained EXCEPT !.phase = "AWAITING_RESULTS"]
            \/ job' = [Drained EXCEPT !.phase = "TERMINAL", !.outcome = o, !.gen = @ + 1]
        BY <3>2, <4>1 DEF DrainApplies
      <4>3. o # None
        BY <4>1 DEF OutcomeOf, TaskPhaseOf, None
      <4> QED
        BY <1>job, <1>5, <4>2, <4>3 DEF Drained, JobDocs, Open
    <3>3. CASE \E p \in Generations : Planner(p)
      BY <1>job, <1>5, <3>3
      DEF Planner, PlannerProposes, PlannerAsks, OpenQuestion, PlannerEnds, PlannerSettles, JobDocs
    <3>4. CASE StopCommits
      BY <1>4, <3>4 DEF StopCommits
    <3>5. CASE \/ ActivationStarts \/ DrainPostpones \/ RetryTimerFires
               \/ OperatorRedrives \/ AnswerQuestion
      BY <1>job, <1>5, <3>5
      DEF ActivationStarts, DrainPostpones, RetryTimerFires, OperatorRedrives,
          Redriven, AnswerQuestion, JobDocs
    <3>6. CASE PlanningCommits
      <4>1. PICK n : n = slot.plan
        OBVIOUS
      <4>2. job' = [job EXCEPT !.phase = "DISPATCHING", !.tries = 0, !.root = None,
                               !.starts = 0, !.planned = n]
        BY <3>6, <4>1 DEF PlanningCommits
      <4> QED
        BY <1>job, <1>5, <4>2 DEF JobDocs
    <3>7. CASE \E t \in Tasks, a \in AllAnswers : WorkerAnswers(t, a)
      BY <1>job, <1>5, <3>7 DEF WorkerAnswers, JobDocs
    <3>8. CASE \/ ActivationClaims \/ \E p \in Generations : PlannerDies(p)
               \/ \E l \in Lanes : LaneDies(l)
               \/ \E t \in Tasks : StoppedWorkEnds(t)
               \/ ControlCommits \/ ActivationAges \/ ReWake \/ RowsVanish \/ RowsReturn
               \/ AppendInstruction \/ ExpireQuestion
      BY <1>5, <3>8
      DEF ActivationClaims, PlannerDies, LaneDies, StoppedWorkEnds, ControlCommits, ActivationAges,
          ReWake, RowsVanish, RowsReturn, AppendInstruction, ExpireQuestion
    <3> QED
      BY <2>3, <2>4, <2>5, <2>8, <3>1, <3>2, <3>3, <3>4, <3>5, <3>6, <3>7, <3>8 DEF Next
  <2> QED
    BY <2>7, <2>8
<1> QED
  BY <1>job, <1>1, <1>2, <1>4, <1>5 DEF JobMoves, LeftAlone

-----------------------------------------------------------------------------
(* Questions.                                                               *)

\* How the phase of a job that goes on changes.
LEMMA PhaseMoves ==
  ASSUME Documents, Next, Open', job'.control # "STOP_REQUESTED"
  PROVE  \/ job'.phase = job.phase
         \/ job'.phase = "AWAITING_USER"
         \/ AnswerQuestion /\ job'.phase = "READY"
         \/ /\ DrainApplies \/ DrainPostpones \/ RetryTimerFires \/ OperatorRedrives
            /\ job.phase \in TypedPhases /\ job'.phase \in TypedPhases
         \/ PlanningCommits /\ job'.phase = "DISPATCHING"
         \/ /\ \E t \in Tasks, a \in AllAnswers : WorkerAnswers(t, a) /\ Inboxed(t, a)
            /\ job'.phase = "AWAITING_RESULTS"
         \/ (\E l \in Lanes : JudgeReopens(l)) /\ job'.phase = "READY"
<1>job. job \in JobDocs
  BY TaskFields
<1>closed. ASSUME NEW o, Terminate(o) PROVE o = None
  BY <1>job, <1>closed DEF Terminate, JobDocs, Open
<1>1. ASSUME NEW l \in Lanes, Lane(l), ~JudgeReopens(l)
      PROVE  job'.phase = job.phase \/ job'.phase = "AWAITING_USER"
  <2>1. OutcomeOfRoots # None /\ FinalOutcome(lane[l].boundary) # None
    BY DEF OutcomeOfRoots, FinalOutcome, None
  <2>2. ASSUME OpenQuestion PROVE job'.phase = job.phase \/ job'.phase = "AWAITING_USER"
    BY <1>job, <2>2 DEF OpenQuestion, JobDocs
  <2> QED
    BY <1>1, <1>closed, <2>1, <2>2
    DEF Lane, LaneClaimsWake, LaneReads, LaneAdvances, LaneDispatches, JudgeReads, JudgeAsks,
        JudgeReplans, JudgeFinishes
<1>2. ASSUME NEW l \in Lanes, JudgeReopens(l)
      PROVE  job'.phase \in {job.phase, "READY"}
  BY <1>job, <1>2 DEF JudgeReopens, JobDocs
<1>3. ASSUME DrainApplies PROVE job.phase \in TypedPhases /\ job'.phase \in TypedPhases
  <2>1. PICK o : o = OutcomeOf(TaskPhaseOf(latest))
    OBVIOUS
  <2>2. \/ job' = [Drained EXCEPT !.phase = "AWAITING_RESULTS"]
        \/ job' = [Drained EXCEPT !.phase = "TERMINAL", !.outcome = o, !.gen = @ + 1]
    BY <1>3, <2>1 DEF DrainApplies
  <2>3. o # None
    BY <2>1 DEF OutcomeOf, TaskPhaseOf, None
  <2>4. job'.phase = "AWAITING_RESULTS"
    BY <1>job, <2>2, <2>3 DEF Drained, JobDocs, Open
  <2> QED
    BY <1>3, <2>4 DEF DrainApplies, DrainGranted, Authorized, Decision, Eligible, TypedPhases, None
<1>4. ASSUME DrainPostpones PROVE job.phase \in TypedPhases /\ job'.phase \in TypedPhases
  <2>1. job'.phase = "RECONCILING"
    BY <1>job, <1>4 DEF DrainPostpones, JobDocs
  <2> QED
    BY <1>4, <2>1 DEF DrainPostpones, DrainGranted, Authorized, Decision, Eligible, TypedPhases, None
<1>5. ASSUME RetryTimerFires \/ OperatorRedrives
      PROVE  job.phase \in TypedPhases /\ job'.phase \in TypedPhases
  <2>1. job' = [job EXCEPT !.phase = "RECONCILING"]
    BY <1>5 DEF RetryTimerFires, OperatorRedrives, Redriven
  <2> QED
    BY <1>job, <1>5, <2>1 DEF RetryTimerFires, OperatorRedrives, JobDocs, TypedPhases
<1>6. ASSUME PlanningCommits PROVE job'.phase = "DISPATCHING"
  <2>1. PICK n : n = slot.plan
    OBVIOUS
  <2>2. job' = [job EXCEPT !.phase = "DISPATCHING", !.tries = 0, !.root = None,
                           !.starts = 0, !.planned = n]
    BY <1>6, <2>1 DEF PlanningCommits
  <2> QED
    BY <1>job, <2>2 DEF JobDocs
<1>7. ASSUME NEW t \in Tasks, NEW a \in AllAnswers, WorkerAnswers(t, a)
      PROVE  job' = job \/ (Inboxed(t, a) /\ job'.phase = "AWAITING_RESULTS")
  BY <1>job, <1>7 DEF WorkerAnswers, JobDocs
<1>8. ASSUME AnswerQuestion PROVE job'.phase = "READY"
  BY <1>job, <1>8 DEF AnswerQuestion, JobDocs
<1>9. ASSUME NEW p \in Generations, Planner(p)
      PROVE  job'.phase = job.phase \/ job'.phase = "AWAITING_USER"
  BY <1>job, <1>9
  DEF Planner, PlannerProposes, PlannerAsks, OpenQuestion, PlannerEnds, PlannerSettles, JobDocs
<1>10. PICK c \in JobDocs : c = Command
  BY <1>job, CommandKeeps
<1>11. c.phase = job.phase
  BY <1>job, <1>10, CommandKeeps
<1>12. ASSUME Pause \/ Resume \/ Steer PROVE job'.phase = job.phase
  <2>1. \/ job' = [c EXCEPT !.control = "PAUSE_REQUESTED", !.pauses = @ + 1]
        \/ job' = [c EXCEPT !.control = "NONE"]
        \/ job' = [c EXCEPT !.plan = @ + 1]
    BY <1>10, <1>12 DEF Pause, Resume, Steer
  <2> QED
    BY <1>11, <2>1 DEF JobDocs
<1>13. ASSUME Cancel PROVE FALSE
  <2>1. PICK h : h = job.high
    OBVIOUS
  <2>2. job' = [c EXCEPT !.control = "STOP_REQUESTED", !.phase = "RECONCILING", !.resolved = h]
    BY <1>10, <1>13, <2>1 DEF Cancel
  <2> QED
    BY <2>2 DEF JobDocs
<1>14. ASSUME ActivationStarts \/ ActivationReaped PROVE job'.phase = job.phase
  BY <1>job, <1>14 DEF ActivationStarts, ActivationReaped, JobDocs
<1>15. ~StopCommits
  BY <1>closed DEF StopCommits, None
<1>16. CASE \/ ActivationClaims \/ \E p \in Generations : PlannerDies(p)
            \/ \E l \in Lanes : LaneDies(l)
            \/ \E t \in Tasks : StoppedWorkEnds(t)
            \/ ControlCommits \/ ActivationAges \/ ReWake \/ RowsVanish \/ RowsReturn
            \/ AppendInstruction \/ ExpireQuestion
  BY <1>16
  DEF ActivationClaims, PlannerDies, LaneDies, StoppedWorkEnds, ControlCommits, ActivationAges,
      ReWake, RowsVanish, RowsReturn, AppendInstruction, ExpireQuestion
<1>17. CASE \E l \in Lanes : Lane(l)
  BY <1>1, <1>2, <1>17
<1>18. CASE \E t \in Tasks, a \in AllAnswers : WorkerAnswers(t, a)
  BY <1>7, <1>18
<1> QED
  BY <1>3, <1>4, <1>5, <1>6, <1>8, <1>9, <1>12, <1>13, <1>14, <1>15, <1>16, <1>17, <1>18 DEF Next

\* What the owner who leaves the job alone is asked, after a step of a job that goes on.
LEMMA QuestionsGoOn ==
  ASSUME Known, Succession, Verdict, Questions, Next, Succession', Open', LeftAlone'
  PROVE  /\ thinking' # {} => thinking' = {job'.gen} /\ Existing' = {}
         /\ open' => Existing' = {} \/ task'[1].phase \in TerminalTask
<1>k. Documents /\ Ownership /\ Budget
  BY DEF Known
<1>1. /\ Open /\ LeftAlone
      /\ job'.gen = job.gen \/ (job'.gen = job.gen + 1 /\ task' = task /\ ~Held)
  BY <1>k, StillAlone DEF Questions
<1>2. /\ thinking # {} => thinking = {job.gen} /\ Existing = {}
      /\ open => Existing = {} \/ task[1].phase \in TerminalTask
  BY <1>1 DEF Questions
<1>3. Progress => Existing' = Existing
  BY ProgressKeeps
<1>4. ASSUME thinking' # {} PROVE thinking' = {job'.gen} /\ Existing' = {}
  <2>1. Existing = {} /\ thinking' = {job'.gen}
    <3>1. CASE thinking' \subseteq thinking
      <4>1. thinking = {job.gen} /\ thinking' = thinking /\ Existing = {}
        BY <1>2, <1>4, <3>1
      <4>2. Held
        BY <1>k, <1>1, <4>1 DEF Ownership
      <4> QED
        BY <1>1, <4>1, <4>2
    <3>2. CASE ~(thinking' \subseteq thinking)
      BY <1>k, <1>2, <3>2, WhoThinks
    <3> QED
      BY <3>1, <3>2
  <2>2. ~PlanningCommits
    <3>1. ASSUME PlanningCommits PROVE FALSE
      <4>1. slot.marked /\ slot.gen = job.gen /\ thinking' = thinking
        BY <3>1 DEF PlanningCommits, Authorized
      <4>2. job.gen \notin thinking
        BY <4>1 DEF Questions, PlanFrozen
      <4> QED
        BY <1>2, <1>4, <4>1, <4>2
    <3> QED
      BY <3>1
  <2>3. ASSUME NEW l \in Lanes PROVE ~LaterTask(l)
    BY <1>k, <2>1 DEF LaterTask, Succession, Orderly
  <2> QED
    BY <1>k, <1>3, <2>1, <2>2, <2>3, TasksMove
<1>5. ASSUME open' PROVE Existing' = {} \/ task'[1].phase \in TerminalTask
  <2>1. CASE open
    <3>1. CASE Progress
      BY <1>2, <1>3, <2>1, <3>1, TasksAreNumbered DEF Progress
    <3>2. ~PlanningCommits
      BY <1>k, <1>1, <2>1 DEF PlanningCommits, Authorized, PlanningCandidate, Ownership
    <3>3. ASSUME NEW l \in Lanes, LaterTask(l) PROVE task'[1].phase \in TerminalTask
      <4>1. lane'[l].step = "reopen"
        BY <1>k, <3>3, ToKeeps DEF LaterTask
      <4> QED
        BY <4>1 DEF Succession, Orderly, Judging
    <3> QED
      BY <1>k, <3>1, <3>2, <3>3, TasksMove
  <2>2. CASE ~open
    <3>1. ASSUME NEW l \in Lanes, JudgeAsks(l) PROVE task'[1].phase \in TerminalTask
      BY <3>1 DEF JudgeAsks, Succession, Orderly, Judging
    <3>2. ASSUME NEW p \in Generations, PlannerAsks(p) PROVE Existing' = {}
      BY <1>2, <3>2 DEF PlannerAsks, Existing
    <3> QED
      BY <1>k, <1>5, <2>2, <3>1, <3>2, WhoAsks
  <2> QED
    BY <2>1, <2>2
<1> QED
  BY <1>4, <1>5

\* Lanes that do not judge, although there is work, and the work has ended.
Waiting ==
  \/ Existing = {}
  \/ AllTerminal /\ \A l \in Lanes : lane[l].step \notin Judging \cup {"judge", "finish"}

\* The judge who is alone waits for the answer to its question.
LEMMA JudgeWaits ==
  ASSUME Known, Succession, Verdict, Questions, Next, Open', LeftAlone', Sole', open'
  PROVE  job'.phase = "AWAITING_USER" /\ Waiting'
<1>k. Documents /\ Ownership /\ Budget /\ job \in JobDocs
  BY TaskFields DEF Known
<1>1. Open /\ LeftAlone /\ Sole
  BY <1>k, StillAlone, SameScenario DEF Questions, Sole
<1>2. open => job.phase = "AWAITING_USER" /\ Waiting
  BY <1>1 DEF Questions, Waiting
<1>3. ASSUME NEW l \in Lanes, lane[l].step \in Judging \cup {"finish"} PROVE Existing # {}
  BY <1>3, TasksAreNumbered DEF Succession, Orderly, Existing, TerminalTask
<1>4. CASE open
  <2>1. job.phase = "AWAITING_USER" /\ Waiting
    BY <1>2, <1>4
  <2>2. ASSUME NEW l \in Lanes PROVE lane[l].step \notin Judging \cup {"finish"}
    BY <1>3, <2>1 DEF Waiting
  <2>3. job'.phase = "AWAITING_USER"
    <3>1. ~PlanningCommits /\ ~AnswerQuestion
      BY <1>4, <2>1, <1>1
      DEF PlanningCommits, Authorized, PlanningCandidate, AnswerQuestion
    <3>2. ASSUME NEW l \in Lanes PROVE ~JudgeReopens(l)
      BY <2>2 DEF JudgeReopens, Judging
    <3>3. ASSUME NEW t \in Tasks, NEW a \in AllAnswers PROVE ~WorkerAnswers(t, a)
      BY <2>1 DEF WorkerAnswers, Waiting, AllTerminal, Existing, TerminalTask
    <3> QED
      BY <1>k, <2>1, <3>1, <3>2, <3>3, PhaseMoves DEF TypedPhases, LeftAlone
  <2>4. Progress
    <3>1. ~PlanningCommits
      BY <2>1 DEF PlanningCommits, Authorized, PlanningCandidate
    <3>2. ASSUME NEW l \in Lanes PROVE ~LaterTask(l)
      BY <2>2 DEF LaterTask, Judging
    <3> QED
      BY <1>k, <3>1, <3>2, TasksMove
  <2>5. Existing = {} => Existing' = {}
    BY <2>4, ProgressKeeps
  <2>6. ASSUME AllTerminal, \A l \in Lanes : lane[l].step \notin Judging \cup {"judge", "finish"}
        PROVE  Waiting'
    <3>1. ASSUME NEW m \in Lanes PROVE lane'[m].step \notin Judging \cup {"judge", "finish"}
      <4>1. CASE Looks(m)
        BY <2>1, <4>1 DEF Looks, AfterJudge, Judging
      <4>2. CASE ~Looks(m)
        BY <1>k, <2>6, <4>2, EachLane
        DEF LaneTurns, Rests, Asleep, Rises, Chooses, Passes, GivesUp, LaterTask, Judging
      <4> QED
        BY <4>1, <4>2
    <3> QED
      BY <2>4, <2>6, <3>1, ProgressKeeps DEF Waiting
  <2> QED
    BY <2>1, <2>3, <2>5, <2>6 DEF Waiting
<1>5. CASE ~open
  <2>1. ASSUME NEW l \in Lanes, JudgeAsks(l), OpenQuestion, Sleep(l)
        PROVE  job'.phase = "AWAITING_USER" /\ Waiting'
    <3>1. job'.phase = "AWAITING_USER"
      BY <1>5, <1>k, <2>1 DEF OpenQuestion, JobDocs
    <3>2. AllTerminal'
      BY <1>1, <2>1 DEF JudgeAsks, Verdict, Sure, AllTerminal, Existing
    <3>3. ASSUME NEW m \in Lanes PROVE lane'[m].step = "asleep"
      <4>1. CASE m = l
        BY <1>k, <2>1, <4>1, SleepKeeps DEF Rests, Asleep
      <4>2. CASE m # l
        <5>1. lane[m].step = "asleep"
          BY <1>1, <1>k, <2>1, <4>2, OneLane DEF JudgeAsks
        <5> QED
          BY <1>k, <2>1, <4>2, <5>1, SleepKeeps DEF OthersKeep
      <4> QED
        BY <4>1, <4>2
    <3> QED
      BY <3>1, <3>2, <3>3 DEF Waiting, Judging
  <2>2. ASSUME NEW p \in Generations, PlannerAsks(p)
        PROVE  job'.phase = "AWAITING_USER" /\ Waiting'
    <3>1. job'.phase = "AWAITING_USER"
      BY <1>5, <1>k, <2>2 DEF PlannerAsks, OpenQuestion, JobDocs
    <3>2. Existing = {}
      BY <1>1, <2>2 DEF PlannerAsks, Questions
    <3> QED
      BY <2>2, <3>1, <3>2 DEF PlannerAsks, Waiting, Existing
  <2> QED
    BY <1>k, <1>5, <2>1, <2>2, WhoAsks
<1> QED
  BY <1>4, <1>5

\* A job that closes while a question is open has been paused or steered, or has more lanes.
LEMMA QuestionStillHonoured ==
  ASSUME Known, Questions, Next
  PROVE  QuestionIsHonoured'
<1>k. Documents /\ Ownership /\ Budget /\ job \in JobDocs /\ JobMoves
      /\ job.pauses \in Nat /\ job.plan \in Nat
      /\ Cardinality(config.lanes) \in Nat \ {0} /\ config' = config
  BY TaskFields, JobStep, JobFields, FiniteCounts, SameScenario DEF Known, Documents
<1> SUFFICES ASSUME ByWork', open', ~(Cardinality(config.lanes) > 1),
                    ~(job'.pauses > 0), ~(job'.plan > 0)
             PROVE  FALSE
  BY <1>k DEF QuestionIsHonoured
<1>1. Sole /\ job.pauses = 0 /\ job.plan = 0
  BY <1>k DEF Sole, JobMoves
<1>2. ~Open' /\ job'.outcome # "CANCELLED"
  BY DEF ByWork
<1>3. CASE Kept
  <2>1. ~Open
    BY <1>2, <1>3 DEF Kept, Open
  <2>2. open
    BY <1>k, <2>1, WhoAsks DEF AskGranted, PlannerAsks
  <2> QED
    BY <1>1, <1>2, <1>3, <2>1, <2>2 DEF Questions, QuestionIsHonoured, ByWork, Kept, Sole
<1>4. ASSUME Open, job.control # "STOP_REQUESTED", job.phase # "AWAITING_USER", open PROVE FALSE
  BY <1>1, <1>4 DEF Questions, LeftAlone
<1>5. ASSUME NEW l \in Lanes, ClosedByLane(l) \/ ClosedByJudge(l)
      PROVE  Open /\ job.control # "STOP_REQUESTED" /\ job.phase # "AWAITING_USER"
  BY <1>5 DEF ClosedByLane, AdvanceGranted, ClosedByJudge, FinishGranted
<1>6. ASSUME ClosedByDrain
      PROVE  job.control # "STOP_REQUESTED" /\ job.phase # "AWAITING_USER"
  BY <1>6 DEF ClosedByDrain, TypedPhases
<1>7. ASSUME ~open PROVE Open' = Open
  <2>1. PICK c : c = job'.outcome
    OBVIOUS
  <2>2. ASSUME OpenQuestion PROVE job'.outcome = job.outcome
    BY <1>k, <2>2 DEF OpenQuestion, JobDocs
  <2> QED
    BY <1>k, <1>7, <2>2, WhoAsks DEF PlannerAsks, Open
<1> QED
  BY <1>k, <1>2, <1>3, <1>4, <1>5, <1>6, <1>7, OutcomeStep

LEMMA QuestionsKept ==
  Known /\ Succession /\ Verdict /\ Questions /\ Next => Questions'
<1> SUFFICES ASSUME Known, Succession, Verdict, Questions, Next PROVE Questions'
  OBVIOUS
<1>k. Documents /\ Ownership /\ Budget /\ JobMoves /\ job.pauses \in Nat
  BY JobStep, JobFields, TaskFields DEF Known
<1>1. PlanFrozen'
  BY <1>k, PlanFrozenKept DEF Questions
<1>2. job'.control = "PAUSE_REQUESTED" => job'.pauses > 0
  BY <1>k DEF JobMoves, Questions
<1>3. Succession'
  BY <1>k, SuccessionKept
<1>4. ASSUME Open', LeftAlone'
      PROVE  /\ thinking' # {} => thinking' = {job'.gen} /\ Existing' = {}
             /\ open' => Existing' = {} \/ task'[1].phase \in TerminalTask
  BY <1>3, <1>4, QuestionsGoOn
<1>5. ASSUME Open', LeftAlone', Sole', open' PROVE job'.phase = "AWAITING_USER" /\ Waiting'
  BY <1>5, JudgeWaits
<1>6. QuestionIsHonoured'
  BY QuestionStillHonoured
<1> QED
  BY <1>1, <1>2, <1>4, <1>5, <1>6 DEF Questions, Waiting

LEMMA QuestionsHold == Spec => []Questions
<1>1. Init => Questions
  BY DEF Init, Questions, PlanFrozen, NoSlot, QuestionIsHonoured, ByWork, Open, None
<1>2. Known /\ Succession /\ Verdict /\ Questions /\ [Next]_vars => Questions'
  <2>1. Questions /\ UNCHANGED vars => Questions'
    BY DEF Questions, PlanFrozen, QuestionIsHonoured, ByWork, Open, LeftAlone, Sole, Existing,
           AllTerminal, vars
  <2> QED
    BY <2>1, QuestionsKept
<1>3. Documents /\ Ownership /\ Budget => Known
  BY DEF Known
<1> QED
  BY <1>1, <1>2, <1>3, DocumentsHold, OwnershipHolds, BudgetHolds, SuccessionHolds, VerdictHolds, PTL
  DEF Spec

\* For any scenarios: a job does not close on its work while a question to its owner is
\* open, unless a second lane judged as well or the owner paused or steered the job.
THEOREM QuestionsAreHonoured == Spec => []QuestionIsHonoured
<1>1. Questions => QuestionIsHonoured
  BY DEF Questions
<1> QED
  BY <1>1, QuestionsHold, PTL


-----------------------------------------------------------------------------
(* Who looks at a result.                                                   *)

\* A result that is postponed, tried again or new is not applied.
LEMMA NotYetApplied ==
  ASSUME Documents,
         \/ DrainPostpones \/ RetryTimerFires \/ OperatorRedrives
         \/ \E t \in Tasks, a \in AllAnswers : WorkerAnswers(t, a) /\ Inboxed(t, a)
  PROVE  item'.state \notin {None, "APPLIED"}
<1>item. item \in ItemDocs
  BY TaskFields
<1>1. CASE DrainPostpones
  BY <1>item, <1>1 DEF DrainPostpones, ItemDocs, None
<1>2. CASE RetryTimerFires \/ OperatorRedrives
  <2>1. PICK n : item' = [item EXCEPT !.state = "PENDING_REDRIVE", !.retries = n]
    BY <1>2 DEF RetryTimerFires, OperatorRedrives, Redriven
  <2> QED
    BY <1>item, <2>1 DEF ItemDocs, None
<1>3. CASE \E t \in Tasks, a \in AllAnswers : WorkerAnswers(t, a) /\ Inboxed(t, a)
  <2>1. PICK n : item' = [item EXCEPT !.state = "RECEIVED", !.captured = n]
    BY <1>3 DEF WorkerAnswers
  <2> QED
    BY <1>item, <2>1 DEF ItemDocs, None
<1> QED
  BY <1>1, <1>2, <1>3

\* A result is applied by a drain, and stays known.
LEMMA ItemMoves ==
  ASSUME Documents, Next
  PROVE  \/ item'.state = item.state
         \/ DrainApplies /\ item'.state = "APPLIED"
         \/ item'.state \notin {None, "APPLIED"}
<1>item. item \in ItemDocs
  BY TaskFields
<1>1. CASE DrainApplies
  BY <1>item, <1>1 DEF DrainApplies, ItemDocs
<1>2. CASE \/ DrainPostpones \/ RetryTimerFires \/ OperatorRedrives
           \/ \E t \in Tasks, a \in AllAnswers : WorkerAnswers(t, a) /\ Inboxed(t, a)
  BY <1>2, NotYetApplied
<1>3. CASE Cancel
  <2>1. item'.state \in {item.state, "REJECTED_STALE"}
    BY <1>item, <1>3 DEF Cancel, ItemDocs
  <2> QED
    BY <2>1 DEF None
<1>4. CASE ~(\/ DrainApplies \/ DrainPostpones \/ RetryTimerFires \/ OperatorRedrives \/ Cancel
             \/ \E t \in Tasks, a \in AllAnswers : WorkerAnswers(t, a) /\ Inboxed(t, a))
  <2>1. item' = item
    BY <1>4
    DEF Next, Lane, LaneClaimsWake, LaneReads, LaneAdvances, LaneDispatches, JudgeReads, JudgeAsks,
        JudgeReplans, JudgeReopens, JudgeFinishes, LaneDies, ActivationClaims, ActivationStarts,
        PlanningCommits, Planner, PlannerProposes, PlannerAsks, PlannerEnds, PlannerSettles,
        PlannerDies, ControlCommits, ActivationAges, ActivationReaped, StoppedWorkEnds,
        WorkerAnswers, ReWake, RowsVanish, RowsReturn, Pause, Resume, Steer, AppendInstruction,
        StopCommits, AnswerQuestion, ExpireQuestion
  <2> QED
    BY <2>1
<1> QED
  BY <1>1, <1>2, <1>3, <1>4

\* Nothing takes a slot that is free but what a claimed wake demands.
LEMMA FreeSlot ==
  ASSUME Documents, Next, slot = NoSlot
  PROVE  slot' = NoSlot \/ slot' = Materialized
<1>1. slot.life = None /\ slot.kind = None
  BY DEF NoSlot
<1>2. ~Expired /\ ~ActivationAges /\ ~ActivationClaims /\ ~ActivationStarts
  BY <1>1 DEF Expired, ActiveLives, ActivationAges, ActivationClaims, ActivationStarts, None
<1>3. ASSUME NEW p \in Generations PROVE ~PlannerProposes(p)
  BY <1>1 DEF PlannerProposes, None
<1> QED
  BY <1>2, <1>3
  DEF Next, Lane, LaneClaimsWake, LaneReads, LaneAdvances, LaneDispatches, JudgeReads, JudgeAsks,
      JudgeReplans, JudgeReopens, JudgeFinishes, LaneDies, PlanningCommits, Planner, PlannerAsks,
      PlannerEnds, PlannerSettles, PlannerDies, DrainApplies, DrainPostpones, ControlCommits,
      ActivationReaped, StoppedWorkEnds, WorkerAnswers, RetryTimerFires, OperatorRedrives, ReWake,
      RowsVanish, RowsReturn, Pause, Resume, Steer, AppendInstruction, Cancel, StopCommits,
      AnswerQuestion, ExpireQuestion

\* An applied result has a first task, and demands nothing more.
LEMMA AppliedDemandsNothing ==
  ASSUME Documents, item.state = "APPLIED"
  PROVE  Existing # {} /\ Decision = None /\ (slot = NoSlot => Materialized = NoSlot)
<1>1. task[1].phase # "ABSENT"
  BY DEF Documents, Delivery, Unfinished, None
<1>2. Existing # {}
  BY <1>1, TasksAreNumbered DEF Existing
<1>3. Decision = None
  BY DEF Decision, Eligible
<1> QED
  BY <1>2, <1>3 DEF Materialized

\* A result begins to wait when the answer to the first task comes in.
LEMMA AwaitingArises ==
  ASSUME Documents, Next, task'[1].phase = "AWAITING_RESULT", task[1].phase # "AWAITING_RESULT"
  PROVE  \E t \in Tasks, a \in AllAnswers : WorkerAnswers(t, a) /\ Inboxed(t, a)
<1>task. task \in [Tasks -> TaskDocs] /\ 1 \in Tasks
  BY TaskFields
<1>1. task' # task
  OBVIOUS
<1>2. ASSUME NEW l \in Lanes, LaneDispatches(l) PROVE FALSE
  BY <1>task, <1>2 DEF LaneDispatches, TaskDocs
<1>3. ASSUME NEW l \in Lanes, JudgeReplans(l) PROVE FALSE
  BY <1>task, <1>3 DEF JudgeReplans, TaskDocs
<1>4. ~PlanningCommits
  BY <1>task DEF PlanningCommits, TaskDocs
<1>5. ~DrainApplies
  <2>1. ASSUME DrainApplies PROVE FALSE
    <3>1. PICK x : x = TaskPhaseOf(latest)
      OBVIOUS
    <3>2. x # "AWAITING_RESULT"
      BY <3>1 DEF TaskPhaseOf
    <3>3. task' = [task EXCEPT ![1].phase = x]
      BY <2>1, <3>1 DEF DrainApplies
    <3> QED
      BY <1>task, <3>2, <3>3 DEF TaskDocs
  <2> QED
    BY <2>1
<1>6. ~Pause
  BY <1>task DEF Pause, TaskDocs
<1>7. ASSUME Cancel PROVE FALSE
  <2>1. PICK d \in TaskDocs : d = task[1]
    BY <1>task
  <2>2. PICK p : p = IF 1 \in Live THEN "RECONCILING"
                     ELSE IF d.phase \in TerminalTask \cup {"ABSENT"} THEN d.phase ELSE "CANCELLED"
    OBVIOUS
  <2>3. task'[1] = [d EXCEPT !.captured = FALSE, !.phase = p]
    BY <1>task, <1>7, <2>1, <2>2 DEF Cancel
  <2>4. task'[1].phase = p
    BY <2>3 DEF TaskDocs
  <2> QED
    BY <2>1, <2>2, <2>4
<1>8. ASSUME NEW t \in Tasks, StoppedWorkEnds(t) PROVE FALSE
  BY <1>task, <1>8 DEF StoppedWorkEnds, TaskDocs
<1>9. ASSUME NEW t \in Tasks, NEW a \in AllAnswers, WorkerAnswers(t, a) PROVE Inboxed(t, a)
  <2>1. PICK x : x = TaskPhaseOf(a)
    OBVIOUS
  <2>2. x # "AWAITING_RESULT"
    BY <2>1 DEF TaskPhaseOf
  <2>3. ~Inboxed(t, a) => task' = [task EXCEPT ![t].phase = x, ![t].captured = FALSE]
    BY <1>9, <2>1 DEF WorkerAnswers
  <2> QED
    BY <1>task, <2>2, <2>3 DEF TaskDocs
<1> QED
  BY <1>1, <1>2, <1>3, <1>4, <1>5, <1>6, <1>7, <1>8, <1>9
  DEF Next, Lane, LaneClaimsWake, LaneReads, LaneAdvances, JudgeReads, JudgeAsks, JudgeReopens,
      JudgeFinishes, LaneDies, ActivationClaims, ActivationStarts, Planner, PlannerProposes,
      PlannerAsks, PlannerEnds, PlannerSettles, PlannerDies, DrainPostpones, ControlCommits,
      ActivationAges, ActivationReaped, RetryTimerFires, OperatorRedrives, ReWake, RowsVanish,
      RowsReturn, Resume, Steer, AppendInstruction, StopCommits, AnswerQuestion, ExpireQuestion

\* A job that goes on and is not being stopped was so before.
LEMMA WentOn ==
  ASSUME Documents, Next, Open', job'.control # "STOP_REQUESTED"
  PROVE  Open /\ job.control # "STOP_REQUESTED"
<1>1. Open
  BY OutcomeStep DEF Kept, Open
<1> QED
  BY <1>1, JobStep DEF JobMoves

\* In the phases of the drain there is a result.
LEMMA TypedHasResult ==
  ASSUME Documents, Provision, Next, Open', job'.control # "STOP_REQUESTED",
         job'.phase \in TypedPhases
  PROVE  item'.state # None
<1>1. Open /\ job.control # "STOP_REQUESTED"
  BY WentOn
<1>2. CASE job'.phase = job.phase
  <2>1. item.state # None
    BY <1>1, <1>2 DEF Provision
  <2> QED
    BY <2>1, ItemMoves DEF None
<1>3. CASE DrainApplies
  BY <1>3, TaskFields DEF DrainApplies, ItemDocs, None
<1>4. CASE DrainPostpones \/ RetryTimerFires \/ OperatorRedrives
  BY <1>4, NotYetApplied
<1>5. CASE \E t \in Tasks, a \in AllAnswers : WorkerAnswers(t, a) /\ Inboxed(t, a)
  BY <1>5, NotYetApplied
<1> QED
  BY <1>2, <1>3, <1>4, <1>5, PhaseMoves DEF TypedPhases

\* Behind an applied result the slot is free; a job without a judge has closed.
LEMMA AppliedFreesSlot ==
  ASSUME Documents, Provision, Next, Open', job'.control # "STOP_REQUESTED",
         item'.state = "APPLIED"
  PROVE  config'.judged /\ slot' = NoSlot
<1>1. Open /\ job.control # "STOP_REQUESTED"
  BY WentOn
<1>2. CASE DrainApplies
  <2>1. PICK o : o = OutcomeOf(TaskPhaseOf(latest))
    OBVIOUS
  <2>2. o # None
    BY <2>1 DEF OutcomeOf, TaskPhaseOf, None
  <2>3. ~config.judged => job' = [Drained EXCEPT !.phase = "TERMINAL", !.outcome = o, !.gen = @ + 1]
    BY <1>2, <2>1 DEF DrainApplies
  <2>4. config.judged
    BY <2>2, <2>3, TaskFields DEF Drained, JobDocs, Open
  <2> QED
    BY <1>2, <2>4 DEF DrainApplies
<1>3. CASE ~DrainApplies
  <2>1. item.state = "APPLIED"
    BY <1>3, ItemMoves
  <2>2. config.judged /\ slot = NoSlot
    BY <1>1, <2>1 DEF Provision
  <2> QED
    BY <2>1, <2>2, AppliedDemandsNothing, FreeSlot, SameScenario
<1> QED
  BY <1>2, <1>3

\* A result waits behind a phase that no drain looks at only if a planner asked the owner
\* over a pause or a steer.
LEMMA ReadyLeavesResult ==
  ASSUME Documents, Succession, Unjudged, Questions, Provision, Next,
         Open', job'.control # "STOP_REQUESTED",
         job'.phase = "READY", task'[1].phase = "AWAITING_RESULT"
  PROVE  ~LeftAlone' /\ job'.asked > 0
<1>k. Open /\ job.control # "STOP_REQUESTED" /\ JobMoves /\ job.asked \in Nat
      /\ (LeftAlone' => LeftAlone)
  BY WentOn, JobStep, TaskFields, JobFields, StillAlone DEF Questions
<1>1. CASE \E t \in Tasks, a \in AllAnswers : WorkerAnswers(t, a) /\ Inboxed(t, a)
  <2>1. job'.phase = "AWAITING_RESULTS"
    BY <1>1, TaskFields DEF WorkerAnswers, JobDocs
  <2> QED
    BY <2>1
<1>2. CASE ~(\E t \in Tasks, a \in AllAnswers : WorkerAnswers(t, a) /\ Inboxed(t, a))
  <2>1. task[1].phase = "AWAITING_RESULT"
    BY <1>2, AwaitingArises
  <2>2. ~LeftAlone /\ job.asked > 0
    <3>1. CASE job.phase = "READY"
      BY <1>k, <2>1, <3>1 DEF Provision
    <3>2. CASE AnswerQuestion
      <4>1. open /\ Existing # {} /\ task[1].phase \notin TerminalTask
        BY <2>1, <3>2, TasksAreNumbered DEF AnswerQuestion, Existing, TerminalTask
      <4> QED
        BY <1>k, <4>1 DEF Questions, Unjudged
    <3>3. ASSUME NEW l \in Lanes PROVE ~JudgeReopens(l)
      BY <2>1 DEF JudgeReopens, Succession, Orderly, Judging, TerminalTask
    <3> QED
      BY <1>2, <3>1, <3>2, <3>3, PhaseMoves DEF TypedPhases
  <2> QED
    BY <1>k, <2>2 DEF JobMoves
<1> QED
  BY <1>1, <1>2

\* A crash is a lane that dies, and is counted.
LEMMA CrashesCount ==
  ASSUME Documents, Next, env'.crashes = 0
  PROVE  env.crashes = 0 /\ \A l \in Lanes : ~LaneDies(l)
<1>env. env \in Environments
  BY DEF Documents, TypeOK
<1>1. ASSUME NEW l \in Lanes, LaneDies(l) PROVE FALSE
  <2>1. env'.crashes = env.crashes + 1 /\ env.crashes \in Nat
    BY <1>env, <1>1 DEF LaneDies, Environments
  <2> QED
    BY <2>1
<1>2. CASE OperatorRedrives \/ RowsVanish \/ RowsReturn \/ AppendInstruction
  <2>1. env'.crashes = env.crashes
    BY <1>env, <1>2 DEF OperatorRedrives, RowsVanish, RowsReturn, AppendInstruction, Environments
  <2> QED
    BY <1>1, <2>1
<1>3. CASE ~(OperatorRedrives \/ RowsVanish \/ RowsReturn \/ AppendInstruction)
  <2>1. env' = env
    BY <1>1, <1>3
    DEF Next, Lane, LaneClaimsWake, LaneReads, LaneAdvances, LaneDispatches, JudgeReads, JudgeAsks,
        JudgeReplans, JudgeReopens, JudgeFinishes, ActivationClaims, ActivationStarts,
        PlanningCommits, Planner, PlannerProposes, PlannerAsks, PlannerEnds, PlannerSettles,
        PlannerDies, DrainApplies, DrainPostpones, ControlCommits, ActivationAges, ActivationReaped,
        StoppedWorkEnds, WorkerAnswers, RetryTimerFires, ReWake, Pause, Resume, Steer, Cancel,
        StopCommits, AnswerQuestion, ExpireQuestion
  <2> QED
    BY <1>1, <2>1
<1> QED
  BY <1>2, <1>3

\* An applied result for the judge, which no crash and no pause has touched.
ForTheJudge ==
  /\ Open /\ job.control = "NONE" /\ config.judged
  /\ job.phase \in TypedPhases /\ item.state = "APPLIED" /\ slot = NoSlot
  /\ woken \/ open \/ \E l \in Lanes : Engaged(l)
  /\ AllTerminal \/ \E l \in Lanes : lane[l].step = "reopen"

LEMMA JudgeHadIt ==
  ASSUME Documents, Questions, Provision, Next, ~DrainApplies,
         Open', job'.control # "STOP_REQUESTED", job'.phase \in TypedPhases,
         item'.state = "APPLIED", env'.crashes = 0, job'.pauses = 0
  PROVE  /\ ForTheJudge
         /\ \A l \in Lanes : ~LaneDies(l) /\ ~JudgeReopens(l)
<1>1. Open /\ job.control # "STOP_REQUESTED"
  BY WentOn
<1>2. env.crashes = 0 /\ \A l \in Lanes : ~LaneDies(l)
  BY CrashesCount
<1>3. job.pauses = 0
  BY JobStep, TaskFields, JobFields DEF JobMoves
<1>4. job.control = "NONE"
  BY <1>1, <1>3, TaskFields DEF JobDocs, Questions
<1>5. item.state = "APPLIED"
  BY ItemMoves
<1>6. job.phase \in TypedPhases
  BY <1>1, NotYetApplied, PhaseMoves DEF TypedPhases
<1>7. ASSUME NEW l \in Lanes PROVE ~JudgeReopens(l)
  <2>1. ASSUME JudgeReopens(l) PROVE job'.phase = "READY"
    BY <1>1, <1>4, <2>1, TaskFields DEF JudgeReopens, ReplanGranted, JobDocs
  <2> QED
    BY <2>1 DEF TypedPhases
<1> QED
  BY <1>1, <1>2, <1>3, <1>4, <1>5, <1>6, <1>7 DEF Provision, ForTheJudge

\* A lane is moved by its own steps.
LEMMA OwnStep ==
  ASSUME Documents, Next, NEW l \in Lanes, lane'[l] # lane[l]
  PROVE  Lane(l) \/ LaneDies(l)
<1>1. ASSUME NEW m \in Lanes, Lane(m) \/ LaneDies(m) PROVE OthersKeep(m)
  <2>1. CASE \/ LaneDies(m) \/ LaneReads(m) \/ LaneAdvances(m) \/ LaneDispatches(m)
             \/ LaneClaimsWake(m) \/ JudgeReads(m)
    BY <2>1, SleepKeeps, ToKeeps, TaskFields
    DEF LaneDies, LaneReads, LaneAdvances, LaneDispatches, LaneClaimsWake, JudgeReads, GoOn,
        OthersKeep
  <2>2. CASE \/ JudgeAsks(m) \/ JudgeReplans(m) \/ JudgeReopens(m) \/ JudgeFinishes(m)
    BY <2>2, SleepKeeps, ToKeeps DEF JudgeAsks, JudgeReplans, JudgeReopens, JudgeFinishes, GoOn
  <2> QED
    BY <1>1, <2>1, <2>2 DEF Lane
<1>2. lane' # lane
  OBVIOUS
<1>3. \E m \in Lanes : Lane(m) \/ LaneDies(m)
  BY <1>2
  DEF Next, ActivationClaims, ActivationStarts, PlanningCommits, Planner, PlannerProposes,
      PlannerAsks, PlannerEnds, PlannerSettles, PlannerDies, DrainApplies, DrainPostpones,
      ControlCommits, ActivationAges, ActivationReaped, StoppedWorkEnds, WorkerAnswers,
      RetryTimerFires, OperatorRedrives, ReWake, RowsVanish, RowsReturn, Pause, Resume, Steer,
      AppendInstruction, Cancel, StopCommits, AnswerQuestion, ExpireQuestion
<1> QED
  BY <1>1, <1>3 DEF OthersKeep

\* A lane that reopens the job stays until it has, or dies.
LEMMA ReopeningStays ==
  ASSUME Documents, Next, NEW l \in Lanes, lane[l].step = "reopen", ~LaneDies(l), ~JudgeReopens(l)
  PROVE  lane'[l] = lane[l]
  BY OwnStep
  DEF Lane, LaneClaimsWake, LaneReads, LaneAdvances, LaneDispatches, JudgeReads, JudgeAsks,
      JudgeReplans, JudgeFinishes

\* What the judge has ordered goes on: work that has ended, or a lane that reopens the job.
LEMMA OrderStands ==
  ASSUME Documents, Next, ForTheJudge, \A l \in Lanes : ~LaneDies(l) /\ ~JudgeReopens(l)
  PROVE  AllTerminal' \/ \E l \in Lanes : lane'[l].step = "reopen"
<1>1. CASE AllTerminal
  <2>1. CASE Progress
    BY <1>1, <2>1, ProgressKeeps
  <2>2. ~FirstTask
    BY <1>1 DEF FirstTask, AllTerminal
  <2>3. ASSUME NEW l \in Lanes, LaterTask(l) PROVE lane'[l].step = "reopen"
    BY <2>3, ToKeeps DEF LaterTask
  <2> QED
    BY <2>1, <2>2, <2>3, TasksMove
<1>2. ASSUME NEW l \in Lanes, lane[l].step = "reopen" PROVE lane'[l].step = "reopen"
  BY <1>2, ReopeningStays
<1> QED
  BY <1>1, <1>2 DEF ForTheJudge

\* With the slot free, a wake is kept until it is claimed; an answer is a wake, and so is
\* a new generation.
LEMMA WakesAreKept ==
  ASSUME Documents, Next, slot = NoSlot, Open', job'.control # "STOP_REQUESTED"
  PROVE  /\ woken => woken' \/ \E l \in Lanes : LaneClaimsWake(l)
         /\ open => open' \/ woken'
         /\ job'.gen = job.gen \/ woken'
<1>job. job \in JobDocs
  BY TaskFields
<1>slot. slot.life = None /\ slot.kind = None
  BY DEF NoSlot
<1>closed. ASSUME NEW o, Terminate(o) PROVE o = None
  BY <1>job, <1>closed DEF Terminate, JobDocs, Open
<1>1. ASSUME NEW l \in Lanes, Lane(l), ~LaneClaimsWake(l)
      PROVE  (woken => woken') /\ (open => open') /\ job'.gen = job.gen
  <2>1. OutcomeOfRoots # None /\ FinalOutcome(lane[l].boundary) # None
    BY DEF OutcomeOfRoots, FinalOutcome, None
  <2>2. ASSUME OpenQuestion PROVE job'.gen = job.gen /\ (open => open')
    BY <1>job, <2>2 DEF OpenQuestion, JobDocs
  <2>3. ASSUME JudgeReopens(l) PROVE job'.gen = job.gen
    BY <1>job, <2>3 DEF JudgeReopens, JobDocs
  <2>4. CASE UNCHANGED <<job, open, woken>>
    BY <2>4
  <2>5. CASE JudgeAsks(l) /\ OpenQuestion
    BY <2>2, <2>5 DEF JudgeAsks
  <2>6. CASE JudgeReopens(l)
    BY <2>3, <2>6 DEF JudgeReopens, Wake
  <2> QED
    BY <1>1, <1>closed, <2>1, <2>4, <2>5, <2>6
    DEF Lane, LaneReads, LaneAdvances, LaneDispatches, JudgeReads, JudgeAsks, JudgeReplans,
        JudgeFinishes
<1>2. ASSUME NEW l \in Lanes, LaneClaimsWake(l) PROVE open' = open /\ job' = job
  BY <1>2 DEF LaneClaimsWake
<1>3. \* No activation is there that could do anything.
      /\ ~ActivationClaims /\ ~ActivationStarts /\ ~PlanningCommits /\ ~DrainApplies
      /\ ~DrainPostpones /\ ~ControlCommits /\ ~ActivationAges /\ ~ActivationReaped
  BY <1>slot
  DEF ActivationClaims, ActivationStarts, PlanningCommits, DrainApplies, DrainPostpones,
      DrainGranted, ControlCommits, ActivationAges, ActivationReaped, Expired, ActiveLives, None
<1>4. ASSUME NEW p \in Generations, Planner(p)
      PROVE  (woken => woken') /\ (open => open') /\ job'.gen = job.gen
  <2>1. CASE PlannerAsks(p)
    <3>1. (open => open') /\ job'.gen = job.gen
      BY <1>job, <2>1 DEF PlannerAsks, OpenQuestion, JobDocs
    <3> QED
      BY <2>1, <3>1 DEF PlannerAsks
  <2>2. CASE ~PlannerAsks(p)
    <3>1. UNCHANGED <<job, open, woken>>
      BY <1>4, <2>2 DEF Planner, PlannerProposes, PlannerEnds, PlannerSettles
    <3> QED
      BY <3>1
  <2> QED
    BY <2>1, <2>2
<1>5. ASSUME NEW t \in Tasks, NEW a \in AllAnswers, WorkerAnswers(t, a) PROVE woken'
  BY <1>5 DEF WorkerAnswers, Wake
<1>6. CASE \/ RetryTimerFires \/ OperatorRedrives \/ ReWake \/ Pause \/ Resume \/ Steer
           \/ AppendInstruction \/ AnswerQuestion \/ ExpireQuestion
  <2>1. woken'
    BY <1>6
    DEF RetryTimerFires, OperatorRedrives, Redriven, ReWake, Pause, Resume, Steer,
        AppendInstruction, AnswerQuestion, ExpireQuestion, Wake
  <2> QED
    BY <2>1
<1>7. ~Cancel
  <2>1. ASSUME Cancel PROVE FALSE
    <3>1. PICK c \in JobDocs : c = Command
      BY <1>job, CommandKeeps
    <3>2. PICK h : h = job.high
      OBVIOUS
    <3>3. job' = [c EXCEPT !.control = "STOP_REQUESTED", !.phase = "RECONCILING", !.resolved = h]
      BY <2>1, <3>1, <3>2 DEF Cancel
    <3> QED
      BY <3>3 DEF JobDocs
  <2> QED
    BY <2>1
<1>8. ~StopCommits
  BY <1>closed DEF StopCommits, None
<1>9. CASE \/ \E l \in Lanes : LaneDies(l)
           \/ \E p \in Generations : PlannerDies(p)
           \/ \E t \in Tasks : StoppedWorkEnds(t)
           \/ RowsVanish \/ RowsReturn
  <2>1. UNCHANGED <<job, open, woken>>
    BY <1>9 DEF LaneDies, PlannerDies, StoppedWorkEnds, RowsVanish, RowsReturn
  <2> QED
    BY <2>1
<1>10. CASE \E l \in Lanes : Lane(l)
  BY <1>1, <1>2, <1>10
<1> QED
  BY <1>3, <1>4, <1>5, <1>6, <1>7, <1>8, <1>9, <1>10 DEF Next

\* A lane that has the result for its judge goes on with it, asks the owner, or leaves it
\* to the lane that reopens the job.
LEMMA JudgeGoesOn ==
  ASSUME Documents, Next, ForTheJudge, \A m \in Lanes : ~LaneDies(m) /\ ~JudgeReopens(m),
         Open', job'.gen = job.gen, NEW l \in Lanes, Engaged(l)
  PROVE  open' \/ \E m \in Lanes : Engaged(m)'
<1>f. lane \in [Lanes -> LaneMemories] /\ job \in JobDocs
  BY TaskFields
<1>here. ASSUME NEW m \in Lanes, lane'[m].step = "reopen" PROVE Engaged(m)'
  BY <1>here DEF Engaged, Judging
<1>else. ASSUME ~AllTerminal PROVE \E m \in Lanes : Engaged(m)'
  BY <1>else, <1>here, ReopeningStays DEF ForTheJudge
<1>1. CASE lane'[l] = lane[l]
  <2>1. Engaged(l)'
    BY <1>1 DEF Engaged
  <2> QED
    BY <2>1
<1>2. CASE LaneTurns(l)
  <2>1. CASE Looks(l)
    <3>1. Engaged(l)'
      BY <2>1 DEF Looks, ForTheJudge, TypedPhases, Engaged
    <3> QED
      BY <3>1
  <2>2. CASE Rises(l)
    BY <2>2 DEF Rises, Engaged, Judging
  <2>3. CASE Chooses(l)
    <3>1. Engaged(l)'
      BY <2>3 DEF Chooses, Engaged, Judging
    <3> QED
      BY <3>1
  <2>4. CASE GivesUp(l) \/ LaterTask(l)
    <3>1. Engaged(l)'
      BY <2>4, ToKeeps DEF GivesUp, LaterTask, Engaged, Judging
    <3> QED
      BY <3>1
  <2>5. CASE Passes(l)
    <3>1. ~AllTerminal
      BY <2>5 DEF Passes, FinishGranted, ForTheJudge, TypedPhases
    <3> QED
      BY <1>else, <3>1
  <2>6. CASE Rests(l) /\ lane'[l] # lane[l]
    <3>1. Lane(l)
      BY <2>6, OwnStep
    <3>2. OutcomeOfRoots # None /\ FinalOutcome(lane[l].boundary) # None
      BY DEF OutcomeOfRoots, FinalOutcome, None
    <3>3. ASSUME NEW o, Terminate(o) PROVE o = None
      BY <1>f, <3>3 DEF Terminate, JobDocs, Open
    <3>4. lane'[l].step = "asleep"
      BY <2>6 DEF Rests, Asleep
    <3>5. ASSUME LaneReads(l) PROVE FALSE
      BY <1>f, <3>4, <3>5 DEF LaneReads, LaneMemories, Engaged, Judging, ForTheJudge, TypedPhases
    <3>6. ASSUME JudgeReads(l), AllTerminal PROVE FALSE
      <4>1. PICK choice \in JudgeChoices :
              lane' = [lane EXCEPT ![l].step = choice, ![l].pick = Last,
                                   ![l].boundary = ProsePassedOff]
        BY <3>6 DEF JudgeReads, ForTheJudge
      <4>2. lane'[l].step = choice
        BY <1>f, <4>1 DEF LaneMemories
      <4> QED
        BY <3>4, <4>2 DEF JudgeChoices
    <3>7. ASSUME JudgeAsks(l) PROVE open'
      BY <1>f, <3>4, <3>7 DEF JudgeAsks, To, OpenQuestion, LaneMemories
    <3>8. ASSUME JudgeReplans(l) PROVE FALSE
      BY <1>f, <3>4, <3>8 DEF JudgeReplans, To, LaneMemories
    <3>9. ASSUME JudgeFinishes(l) PROVE ~AllTerminal
      BY <3>2, <3>3, <3>9 DEF JudgeFinishes, FinishGranted, ForTheJudge, TypedPhases
    <3>10. ~LaneClaimsWake(l) /\ ~LaneAdvances(l) /\ ~LaneDispatches(l)
      BY DEF LaneClaimsWake, LaneAdvances, LaneDispatches, Engaged, Judging
    <3> QED
      BY <1>else, <3>1, <3>5, <3>6, <3>7, <3>8, <3>9, <3>10 DEF Lane
  <2> QED
    BY <1>1, <1>2, <2>1, <2>2, <2>3, <2>4, <2>5, <2>6 DEF LaneTurns
<1> QED
  BY <1>1, <1>2, EachLane

\* An applied result stays in the hands of the judge, or of what the judge ordered.
LEMMA JudgeKeepsIt ==
  ASSUME Documents, Questions, Provision, Next,
         Open', job'.control # "STOP_REQUESTED", job'.phase \in TypedPhases,
         item'.state = "APPLIED", env'.crashes = 0, job'.pauses = 0
  PROVE  /\ woken' \/ open' \/ \E l \in Lanes : Engaged(l)'
         /\ AllTerminal' \/ \E l \in Lanes : lane'[l].step = "reopen"
<1>1. CASE DrainApplies
  <2>1. config.judged
    BY <1>1, AppliedFreesSlot DEF DrainApplies
  <2>2. woken'
    BY <1>1, <2>1 DEF DrainApplies, Wake
  <2>3. Existing = {1}
    BY <1>1 DEF DrainApplies, DrainGranted, Authorized, Decision, Eligible, None
  <2>4. AllTerminal'
    <3>1. PICK x : x = TaskPhaseOf(latest)
      OBVIOUS
    <3>2. x \in TerminalTask
      BY <3>1 DEF TaskPhaseOf, TerminalTask
    <3>3. task' = [task EXCEPT ![1].phase = x]
      BY <1>1, <3>1 DEF DrainApplies
    <3>4. task'[1].phase = x /\ \A t \in Tasks \ {1} : task'[t] = task[t]
      BY <3>3, TaskFields DEF TaskDocs
    <3> QED
      BY <2>3, <3>2, <3>4, TasksAreNumbered DEF AllTerminal, Existing, TerminalTask
  <2> QED
    BY <2>2, <2>4
<1>2. CASE ~DrainApplies
  <2>1. ForTheJudge /\ \A l \in Lanes : ~LaneDies(l) /\ ~JudgeReopens(l)
    BY <1>2, JudgeHadIt
  <2>2. AllTerminal' \/ \E l \in Lanes : lane'[l].step = "reopen"
    BY <2>1, OrderStands
  <2>3. woken' \/ open' \/ \E l \in Lanes : Engaged(l)'
    <3>1. /\ woken => woken' \/ \E l \in Lanes : LaneClaimsWake(l)
          /\ open => open' \/ woken'
          /\ job'.gen = job.gen \/ woken'
      BY <2>1, WakesAreKept DEF ForTheJudge
    <3>2. ASSUME NEW l \in Lanes, LaneClaimsWake(l) PROVE Engaged(l)'
      BY <3>2, TaskFields DEF LaneClaimsWake, LaneMemories, Engaged
    <3>3. ASSUME NEW l \in Lanes, Engaged(l), job'.gen = job.gen
          PROVE  open' \/ \E m \in Lanes : Engaged(m)'
      BY <2>1, <3>3, JudgeGoesOn
    <3> QED
      BY <2>1, <3>1, <3>2, <3>3 DEF ForTheJudge
  <2> QED
    BY <2>2, <2>3
<1> QED
  BY <1>1, <1>2

LEMMA ProvisionKept ==
  Documents /\ Succession /\ Unjudged /\ Questions /\ Provision /\ Next => Provision'
<1> SUFFICES ASSUME Documents, Succession, Unjudged, Questions, Provision, Next,
                    Open', job'.control # "STOP_REQUESTED"
             PROVE  /\ job'.phase \in TypedPhases => item'.state # None
                    /\ item'.state = "APPLIED" => config'.judged /\ slot' = NoSlot
                    /\ job'.phase = "READY" /\ task'[1].phase = "AWAITING_RESULT"
                       => ~LeftAlone' /\ job'.asked > 0
                    /\ /\ job'.phase \in TypedPhases /\ item'.state = "APPLIED"
                       /\ env'.crashes = 0 /\ job'.pauses = 0
                       => /\ woken' \/ open' \/ \E l \in Lanes : Engaged(l)'
                          /\ AllTerminal' \/ \E l \in Lanes : lane'[l].step = "reopen"
  BY DEF Provision, NoSlot
<1> QED
  BY TypedHasResult, AppliedFreesSlot, ReadyLeavesResult, JudgeKeepsIt

LEMMA ProvisionHolds == Spec => []Provision
<1>1. Init => Provision
  BY TasksAreNumbered DEF Init, Provision, TypedPhases, None
<1>2. Documents /\ Succession /\ Unjudged /\ Questions /\ Provision /\ [Next]_vars => Provision'
  <2>1. Provision /\ UNCHANGED vars => Provision'
    BY DEF Provision, Open, LeftAlone, Engaged, AllTerminal, Existing, NoSlot, vars
  <2> QED
    BY <2>1, ProvisionKept
<1> QED
  BY <1>1, <1>2, DocumentsHold, SuccessionHolds, UnjudgedHolds, QuestionsHold, PTL DEF Spec

\* For any scenarios: a job that nobody has in hand any more, and that the tick passes over,
\* has lost a lane process or was paused; a result behind a phase that no drain looks at is
\* there because a planner asked its question over a pause or a steer.
THEOREM OnlyLossesLeaveBehind == Spec => []OnlyLossesForsake
<1>1. Documents /\ Succession /\ Questions /\ Provision => OnlyLossesForsake
  <2> SUFFICES ASSUME Documents, Succession, Questions, Provision PROVE OnlyLossesForsake
    OBVIOUS
  <2>1. ASSUME Forsaken, env.crashes = 0, job.pauses = 0 PROVE FALSE
    <3>1. /\ Open /\ job.control = "NONE" /\ ~woken /\ ~open /\ slot = NoSlot
          /\ job.phase \in TypedPhases /\ Decision = None
          /\ item.state \notin {"FAILED_RETRYABLE", "QUARANTINED"}
          /\ \A l \in Lanes : lane[l].step = "asleep"
      BY <2>1 DEF Forsaken, Idle
    <3>2. item.state \in {"RECEIVED", "PENDING_REDRIVE", "APPLIED"}
      <4>1. item.state # None
        BY <3>1 DEF Provision
      <4>2. item.state # "REJECTED_STALE"
        BY <3>1 DEF Documents, Delivery
      <4> QED
        BY <3>1, <4>1, <4>2, TaskFields DEF ItemDocs, ItemStates
    <3>3. CASE item.state = "APPLIED"
      <4>1. \E l \in Lanes : Engaged(l)
        BY <2>1, <3>1, <3>3 DEF Provision
      <4> QED
        BY <3>1, <4>1 DEF Engaged, Judging
    <3>4. CASE item.state \in {"RECEIVED", "PENDING_REDRIVE"}
      <4>1. task[1].phase = "AWAITING_RESULT"
        BY <3>1, <3>4 DEF Documents, Delivery, None
      <4>2. Existing = {1}
        BY <4>1, TasksAreNumbered DEF Succession, Existing, TerminalTask
      <4>3. Eligible
        BY <3>1, <3>4, <4>1, <4>2 DEF Eligible, ResultControlIsCurrent
      <4> QED
        BY <3>1, <4>3 DEF Decision, None
    <3> QED
      BY <3>2, <3>3, <3>4
  <2>2. ASSUME Orphaned PROVE ~LeftAlone /\ job.asked > 0 /\ job.control = "NONE"
    BY <2>2 DEF Orphaned, Provision
  <2>3. env.crashes \in Nat /\ job.pauses \in Nat /\ job.plan \in Nat
    BY TaskFields, JobFields DEF Documents, TypeOK, Environments
  <2> QED
    BY <2>1, <2>2, <2>3 DEF OnlyLossesForsake, LeftAlone
<1> QED
  BY <1>1, DocumentsHold, SuccessionHolds, QuestionsHold, ProvisionHolds, PTL
=============================================================================
