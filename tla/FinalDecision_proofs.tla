------------------------- MODULE FinalDecision_proofs -------------------------
(***************************************************************************)
(* Theorems about FinalDecision, for any scenarios: any number of lane     *)
(* processes, pauses, questions, crashes, unreadable rows and redrives,    *)
(* and any limits of the judge, the retries and the recovery.              *)
(*                                                                         *)
(* The argument is a chain of invariants, each proved with those before    *)
(* it: Documents (types, and what a result says about the first task),     *)
(* Ownership (whose planner owns the slot) and Budget (tasks, and lanes    *)
(* that have decided to add one, together).                                *)
(***************************************************************************)
EXTENDS FinalDecision, FiniteSetTheorems, WellFoundedInduction, TLAPS

-----------------------------------------------------------------------------
(* Numbers.                                                                 *)

\* Whatever tasks there are, one of them comes first and one last.
LEMMA FirstAndLast ==
  ASSUME NEW N \in Nat, NEW S \in SUBSET (1 .. N), S # {}
  PROVE  /\ \E t \in S : \A u \in S : t <= u
         /\ \E t \in S : \A u \in S : u <= t
<1>1. ASSUME NEW T \in SUBSET Nat, T # {}
      PROVE  \E x \in T : \A y \in T : x <= y
  <2> DEFINE I == {1 .. x : x \in T}
  <2>1. I \subseteq FiniteSubsetsOf(Nat) /\ I # {}
    <3>1. ASSUME NEW x \in T PROVE 1 .. x \in SUBSET Nat /\ IsFiniteSet(1 .. x)
      <4>1. x \in Int
        BY <1>1
      <4> QED
        BY <4>1, FS_Interval
    <3> QED
      BY <1>1, <3>1 DEF FiniteSubsetsOf
  <2>2. PICK i \in I : \A j \in I : ~ (<<j, i>> \in StrictSubsetOrdering(Nat))
    BY <2>1, FS_StrictSubsetOrderingWellFounded, WFMin
  <2>3. PICK x \in T : i = 1 .. x
    OBVIOUS
  <2>4. ASSUME NEW y \in T, y < x PROVE FALSE
    <3>1. 1 .. y \in I /\ 1 .. y \subseteq 1 .. x /\ x \in 1 .. x /\ x \notin 1 .. y
      BY <1>1, <2>4
    <3>2. 1 .. x \in SUBSET Nat /\ 1 .. y \in SUBSET Nat
      BY <1>1
    <3> QED
      BY <2>2, <2>3, <3>1, <3>2 DEF StrictSubsetOrdering
  <2> QED
    BY <1>1, <2>4
<1>2. \E t \in S : \A u \in S : t <= u
  BY <1>1
<1>3. \E t \in S : \A u \in S : u <= t
  <2> DEFINE T == {N - t : t \in S}
  <2>1. T \in SUBSET Nat /\ T # {}
    <3>1. ASSUME NEW t \in S PROVE N - t \in Nat
      OBVIOUS
    <3> QED
      BY <3>1
  <2>2. PICK x \in T : \A y \in T : x <= y
    BY <1>1, <2>1
  <2>3. PICK t \in S : x = N - t
    OBVIOUS
  <2>4. ASSUME NEW u \in S PROVE u <= t
    <3>1. N - t <= N - u
      BY <2>2, <2>3
    <3> QED
      BY <3>1
  <2> QED
    BY <2>4
<1> QED
  BY <1>2, <1>3

\* There are as many tasks as the judge and the lanes can make.
LEMMA TasksAreNumbered ==
  /\ IsFiniteSet(Lanes) /\ Cardinality(Lanes) \in Nat
  /\ MaxLaneTasks + Cardinality(Lanes) \in Nat
  /\ 1 \in Tasks /\ NoTask \notin Tasks
  /\ Tasks \subseteq Nat /\ IsFiniteSet(Tasks)
<1>1. IsFiniteSet(Lanes) /\ Cardinality(Lanes) \in Nat
  BY ScenarioAssumption, FS_CardinalityType
<1>2. MaxLaneTasks + Cardinality(Lanes) \in Nat /\ MaxLaneTasks + Cardinality(Lanes) >= 1
  BY <1>1, LimitAssumption
<1>3. IsFiniteSet(Tasks)
  BY <1>2, FS_Interval DEF Tasks
<1> QED
  BY <1>1, <1>2, <1>3 DEF Tasks, NoTask

\* The limits are numbers.
LEMMA Limits ==
  /\ MaxLaneTasks \in Nat /\ MaxLaneTasks >= 1
  /\ MaxLaneQuestions \in Nat /\ MaxRecoveries \in Nat /\ MaxRetries \in Nat
  BY LimitAssumption

-----------------------------------------------------------------------------
(* Documents.                                                               *)

\* Types, and what of them depends on results.
Documents == TypeOK /\ Delivery

JobOutcomes == {"COMPLETED", "PARTIAL", "FAILED", "TIMED_OUT", "CANCELLED"}

\* The fields of a job that the actions compute with.
LEMMA JobFields ==
  ASSUME job \in JobDocs
  PROVE  /\ job.gen \in Nat /\ job.asked \in Nat /\ job.starts \in Nat /\ job.plan \in Nat
         /\ job.pauses \in Nat /\ job.tries \in 0 .. MaxRecoveries
         /\ job.high \in 0 .. 1 /\ job.resolved \in 0 .. 1
         /\ job.phase \in JobPhases /\ job.outcome \in JobOutcomes \cup {None}
  BY DEF JobDocs, JobOutcomes

\* A job that keeps its type, and whose generation does not go back.
Advances == job' \in JobDocs /\ job.gen <= job'.gen

\* Closing a job.
LEMMA TerminateTyped ==
  ASSUME job \in JobDocs, NEW outcome \in JobOutcomes, Terminate(outcome)
  PROVE  Advances /\ woken' = FALSE
<1>1. PICK g \in Nat : g = job.gen + 1
  BY JobFields
<1>2. job' = [job EXCEPT !.phase = "TERMINAL", !.outcome = outcome, !.gen = g]
  BY <1>1 DEF Terminate
<1>3. job' \in JobDocs
  BY <1>2 DEF JobDocs, JobPhases, JobOutcomes
<1>4. job'.gen = g
  BY <1>2 DEF JobDocs
<1> QED
  BY <1>1, <1>3, <1>4, JobFields DEF Advances, Terminate

\* Opening a question, or reusing one.
LEMMA OpenQuestionTyped ==
  ASSUME job \in JobDocs, open \in BOOLEAN, OpenQuestion
  PROVE  Advances /\ open' \in BOOLEAN
<1>1. PICK n \in Nat : n = job.asked + 1
  BY JobFields
<1>2. job' = job \/ job' = [job EXCEPT !.phase = "AWAITING_USER", !.asked = n]
  BY <1>1 DEF OpenQuestion
<1>3. job' \in JobDocs /\ job'.gen = job.gen
  BY <1>2 DEF JobDocs, JobPhases
<1>4. open' \in BOOLEAN
  BY DEF OpenQuestion
<1> QED
  BY <1>3, <1>4, JobFields DEF Advances

\* A command of the owner starts a generation and keeps what it does not name.
LEMMA CommandTyped ==
  ASSUME job \in JobDocs
  PROVE  Command \in JobDocs /\ Command.gen = job.gen + 1
<1>1. PICK g \in Nat : g = job.gen + 1
  BY JobFields
<1>2. Command = [job EXCEPT !.gen = g, !.tries = 0, !.root = None, !.starts = 0]
  BY <1>1 DEF Command
<1>3. 0 \in 0 .. MaxRecoveries
  BY Limits
<1>4. Command \in JobDocs
  BY <1>2, <1>3 DEF JobDocs
<1>5. Command.gen = g
  BY <1>2 DEF JobDocs
<1> QED
  BY <1>1, <1>4, <1>5

\* A redriven result.
LEMMA RedrivenTyped ==
  ASSUME job \in JobDocs, item \in ItemDocs, NEW r \in 0 .. MaxRetries, Redriven(r)
  PROVE  Advances /\ item' \in ItemDocs /\ woken' = TRUE
<1>1. job' = [job EXCEPT !.phase = "RECONCILING"]
  BY DEF Redriven
<1>2. job' \in JobDocs /\ job'.gen = job.gen
  BY <1>1 DEF JobDocs, JobPhases, TypedPhases
<1>3. item' = [item EXCEPT !.state = "PENDING_REDRIVE", !.retries = r]
  BY DEF Redriven
<1>4. item' \in ItemDocs
  BY <1>3 DEF ItemDocs, ItemStates
<1> QED
  BY <1>2, <1>4, JobFields DEF Advances, Redriven, Wake

\* A lane that goes to sleep, or from one step to another.
LEMMA LaneMoves ==
  ASSUME lane \in [Lanes -> LaneMemories], NEW l \in Lanes
  PROVE  /\ Sleep(l) => lane' \in [Lanes -> LaneMemories]
         /\ \A s \in LaneSteps : To(l, s) => lane' \in [Lanes -> LaneMemories]
         /\ \A s \in LaneSteps : GoOn(l, s) => lane' \in [Lanes -> LaneMemories]
<1>1. Sleep(l) => lane' \in [Lanes -> LaneMemories]
  BY DEF Sleep, Asleep, LaneMemories, LaneSteps
<1>2. ASSUME NEW s \in LaneSteps, To(l, s) PROVE lane' \in [Lanes -> LaneMemories]
  BY <1>2 DEF To, LaneMemories
<1> QED
  BY <1>1, <1>2 DEF GoOn

\* A slot that is taken anew.
LEMMA ActivationTyped ==
  ASSUME NEW k \in Kinds, NEW g \in Nat, job \in JobDocs,
         NEW d \in {None, "apply", "retry", "quarantine"}
  PROVE  Activation(k, g, d) \in SlotDocs
  BY JobFields DEF Activation, NoSlot, SlotDocs

\* A slot that is free.
LEMMA NoSlotTyped == NoSlot \in SlotDocs
  BY DEF NoSlot, SlotDocs

\* Generations are not forgotten.
LEMMA GenerationsGrow ==
  ASSUME job \in JobDocs, Advances
  PROVE  Generations \subseteq Generations'
<1>1. job.gen \in Nat /\ job'.gen \in Nat
  BY DEF Advances, JobDocs
<1> QED
  BY <1>1 DEF Generations, Advances

\* Every action keeps the types.
LEMMA TypesKept == Documents /\ Next => TypeOK'
<1> SUFFICES ASSUME Documents, Next PROVE TypeOK'
  OBVIOUS
<1>job. job \in JobDocs
  BY DEF Documents, TypeOK
<1>task. task \in [Tasks -> TaskDocs] /\ 1 \in Tasks
  BY TasksAreNumbered DEF Documents, TypeOK
<1>slot. slot \in SlotDocs
  BY DEF Documents, TypeOK
<1>item. item \in ItemDocs
  BY DEF Documents, TypeOK
<1>lane. lane \in [Lanes -> LaneMemories]
  BY DEF Documents, TypeOK
<1>env. env \in Environments
  BY DEF Documents, TypeOK
<1>bits. open \in BOOLEAN /\ woken \in BOOLEAN
  BY DEF Documents, TypeOK
<1>decision. Decision \in {None, "apply", "retry", "quarantine"}
  BY DEF Decision
<1>materialized. Materialized \in SlotDocs
  BY <1>job, <1>slot, <1>decision, JobFields, ActivationTyped, NoSlotTyped DEF Materialized, Kinds
<1>first. Ready # {} => FirstReady \in Tasks
  <2>1. Ready \in SUBSET (1 .. (MaxLaneTasks + Cardinality(Lanes)))
    BY DEF Ready, Tasks
  <2> QED
    BY <2>1, FirstAndLast, TasksAreNumbered DEF FirstReady, Ready
<1>last. Existing # {} => Last \in Tasks
  <2>1. Existing \in SUBSET (1 .. (MaxLaneTasks + Cardinality(Lanes)))
    BY DEF Existing, Tasks
  <2> QED
    BY <2>1, FirstAndLast, TasksAreNumbered DEF Last, Existing
<1>1. ASSUME NEW l \in Lanes, LaneClaimsWake(l) PROVE TypeOK'
  <2>1. PICK g \in Nat : g = job.gen
    BY <1>job, JobFields
  <2>2. lane' = [lane EXCEPT ![l].step = "awake", ![l].gen = g]
    BY <1>1, <2>1 DEF LaneClaimsWake
  <2>3. lane' \in [Lanes -> LaneMemories]
    BY <1>lane, <2>2 DEF LaneMemories, LaneSteps
  <2> QED
    BY <1>1, <1>materialized, <2>3 DEF LaneClaimsWake, Documents, TypeOK, Generations
<1>2. ASSUME NEW l \in Lanes, LaneReads(l) PROVE TypeOK'
  <2>1. PICK n \in LaneSteps : n = AfterJudge
    BY DEF AfterJudge, LaneSteps
  <2>2. PICK q \in Tasks \cup {NoTask} :
          q = IF AfterJudge = "dispatch" THEN FirstReady ELSE NoTask
    BY <1>first DEF AfterJudge
  <2>3. \/ Sleep(l)
        \/ \E s \in LaneSteps : lane' = [lane EXCEPT ![l].next = n, ![l].step = s, ![l].pick = q]
    BY <1>2, <2>1, <2>2 DEF LaneReads, LaneSteps
  <2>4. lane' \in [Lanes -> LaneMemories]
    <3>1. ASSUME NEW s \in LaneSteps,
                 lane' = [lane EXCEPT ![l].next = n, ![l].step = s, ![l].pick = q]
          PROVE  lane' \in [Lanes -> LaneMemories]
      BY <1>lane, <3>1 DEF LaneMemories
    <3> QED
      BY <1>lane, <2>3, <3>1, LaneMoves
  <2> QED
    BY <1>2, <2>4 DEF LaneReads, Documents, TypeOK, Generations
<1>3. ASSUME NEW l \in Lanes, LaneAdvances(l) PROVE TypeOK'
  <2>1. Sleep(l) /\ (Terminate(OutcomeOfRoots) \/ UNCHANGED <<job, woken>>)
    BY <1>3 DEF LaneAdvances
  <2>2. OutcomeOfRoots \in JobOutcomes
    BY DEF OutcomeOfRoots, JobOutcomes
  <2>3. Advances /\ woken' \in BOOLEAN
    <3>1. CASE Terminate(OutcomeOfRoots)
      BY <1>job, <2>2, <3>1, TerminateTyped
    <3>2. CASE UNCHANGED <<job, woken>>
      BY <1>job, <1>bits, <3>2, JobFields DEF Advances
    <3> QED
      BY <2>1, <3>1, <3>2
  <2> QED
    BY <1>3, <1>job, <1>lane, <2>1, <2>3, LaneMoves, GenerationsGrow
    DEF LaneAdvances, Documents, TypeOK, Advances
<1>4. ASSUME NEW l \in Lanes, LaneDispatches(l) PROVE TypeOK'
  <2>1. PICK g \in Nat : g = lane[l].gen
    BY <1>lane DEF LaneMemories
  <2>2. \/ Sleep(l)
        \/ lane' = [lane EXCEPT ![l] = [Asleep EXCEPT !.step = "awake", !.gen = g]]
    BY <1>4, <2>1 DEF LaneDispatches
  <2>3. [Asleep EXCEPT !.step = "awake", !.gen = g] \in LaneMemories
    BY DEF Asleep, LaneMemories, LaneSteps
  <2>4. lane' \in [Lanes -> LaneMemories]
    BY <1>lane, <2>2, <2>3, LaneMoves
  <2>5. task' \in [Tasks -> TaskDocs]
    BY <1>4, <1>task DEF LaneDispatches, TaskDocs, TaskPhases
  <2> QED
    BY <1>4, <2>4, <2>5 DEF LaneDispatches, Documents, TypeOK, Generations
<1>5. ASSUME NEW l \in Lanes, JudgeReads(l) PROVE TypeOK'
  <2>1. PICK b \in BOOLEAN : b = ProsePassedOff
    BY DEF ProsePassedOff
  <2>2. lane[l].next \in LaneSteps
    BY <1>lane DEF LaneMemories
  <2>3. CASE GoOn(l, lane[l].next)
    BY <1>5, <1>lane, <2>2, <2>3, LaneMoves DEF JudgeReads, Documents, TypeOK, Generations
  <2>4. CASE /\ AllTerminal
             /\ \E choice \in JudgeChoices :
                  lane' = [lane EXCEPT ![l].step = choice, ![l].pick = Last,
                                       ![l].boundary = ProsePassedOff]
    <3>1. PICK q \in Tasks : q = Last
      BY <1>last, <2>4 DEF AllTerminal
    <3>2. JudgeChoices \subseteq LaneSteps
      BY DEF JudgeChoices, LaneSteps
    <3>3. PICK s \in LaneSteps :
            lane' = [lane EXCEPT ![l].step = s, ![l].pick = q, ![l].boundary = b]
      BY <2>1, <2>4, <3>1, <3>2
    <3>4. lane' \in [Lanes -> LaneMemories]
      BY <1>lane, <3>3 DEF LaneMemories
    <3> QED
      BY <1>5, <3>4 DEF JudgeReads, Documents, TypeOK, Generations
  <2> QED
    BY <1>5, <2>3, <2>4 DEF JudgeReads
<1>6. ASSUME NEW l \in Lanes, JudgeAsks(l) PROVE TypeOK'
  <2>1. \/ OpenQuestion /\ Sleep(l)
        \/ To(l, "finish") /\ UNCHANGED <<open, job>>
    BY <1>6 DEF JudgeAsks
  <2>2. Advances /\ open' \in BOOLEAN
    BY <1>job, <1>bits, <2>1, OpenQuestionTyped, JobFields DEF Advances
  <2>3. lane' \in [Lanes -> LaneMemories]
    BY <1>lane, <2>1, LaneMoves DEF LaneSteps
  <2> QED
    BY <1>6, <1>job, <2>2, <2>3, GenerationsGrow DEF JudgeAsks, Documents, TypeOK, Advances
<1>7. ASSUME NEW l \in Lanes, JudgeReplans(l) PROVE TypeOK'
  <2>1. PICK q \in Tasks \cup {NoTask} : q = lane[l].pick
    BY <1>lane DEF LaneMemories
  <2>2. \/ task' = task
        \/ \E t \in Tasks : task' = [task EXCEPT ![t].phase = "READY", ![t].replaces = q]
    BY <1>7, <2>1 DEF JudgeReplans
  <2>3. task' \in [Tasks -> TaskDocs]
    <3>1. ASSUME NEW t \in Tasks, task' = [task EXCEPT ![t].phase = "READY", ![t].replaces = q]
          PROVE  task' \in [Tasks -> TaskDocs]
      BY <1>task, <3>1 DEF TaskDocs, TaskPhases
    <3> QED
      BY <1>task, <2>2, <3>1
  <2>4. To(l, "reopen") \/ To(l, "finish")
    BY <1>7 DEF JudgeReplans
  <2>5. lane' \in [Lanes -> LaneMemories]
    BY <1>lane, <2>4, LaneMoves DEF LaneSteps
  <2> QED
    BY <1>7, <2>3, <2>5 DEF JudgeReplans, Documents, TypeOK, Generations
<1>8. ASSUME NEW l \in Lanes, JudgeReopens(l) PROVE TypeOK'
  <2>1. job' = job \/ job' = [job EXCEPT !.phase = "READY"]
    BY <1>8 DEF JudgeReopens
  <2>2. Advances
    BY <1>job, <2>1, JobFields DEF Advances, JobDocs, JobPhases
  <2>3. Sleep(l) /\ woken' \in BOOLEAN
    BY <1>8, <1>bits DEF JudgeReopens, Wake
  <2> QED
    BY <1>8, <1>job, <1>lane, <2>2, <2>3, LaneMoves, GenerationsGrow
    DEF JudgeReopens, Documents, TypeOK, Advances
<1>9. ASSUME NEW l \in Lanes, JudgeFinishes(l) PROVE TypeOK'
  <2>1. lane[l].next \in LaneSteps
    BY <1>lane DEF LaneMemories
  <2>2. \/ Terminate(FinalOutcome(lane[l].boundary)) /\ slot' = NoSlot /\ Sleep(l)
        \/ UNCHANGED <<job, slot, woken>> /\ GoOn(l, lane[l].next)
    BY <1>9 DEF JudgeFinishes
  <2>3. FinalOutcome(lane[l].boundary) \in JobOutcomes
    BY DEF FinalOutcome, JobOutcomes
  <2>4. Advances /\ woken' \in BOOLEAN
    <3>1. CASE Terminate(FinalOutcome(lane[l].boundary))
      BY <1>job, <2>3, <3>1, TerminateTyped
    <3>2. CASE UNCHANGED <<job, slot, woken>>
      BY <1>job, <1>bits, <3>2, JobFields DEF Advances
    <3> QED
      BY <2>2, <3>1, <3>2
  <2>5. slot' \in SlotDocs
    BY <1>slot, <2>2, NoSlotTyped
  <2>6. lane' \in [Lanes -> LaneMemories]
    BY <1>lane, <2>1, <2>2, LaneMoves
  <2> QED
    BY <1>9, <1>job, <2>4, <2>5, <2>6, GenerationsGrow DEF JudgeFinishes, Documents, TypeOK, Advances
<1>10. ASSUME NEW l \in Lanes, LaneDies(l) PROVE TypeOK'
  <2>1. env' \in Environments
    BY <1>10, <1>env DEF LaneDies, Environments
  <2> QED
    BY <1>10, <1>lane, <2>1, LaneMoves DEF LaneDies, Documents, TypeOK, Generations
<1>11. ASSUME ActivationClaims PROVE TypeOK'
  <2>1. slot' \in SlotDocs
    BY <1>11, <1>slot DEF ActivationClaims, SlotDocs
  <2> QED
    BY <1>11, <2>1 DEF ActivationClaims, Documents, TypeOK, Generations
<1>12. ASSUME ActivationStarts PROVE TypeOK'
  <2>1. PICK n \in Nat : n = job.starts + 1
    BY <1>job, JobFields
  <2>2. job' = job \/ job' = [job EXCEPT !.starts = n]
    BY <1>12, <2>1 DEF ActivationStarts
  <2>3. job' \in JobDocs /\ job'.gen = job.gen
    BY <1>job, <2>2 DEF JobDocs
  <2>4. slot' \in SlotDocs
    BY <1>12, <1>slot DEF ActivationStarts, SlotDocs
  <2>5. slot.kind = "BUSINESS" => slot.gen \in Generations
    BY <1>12, <1>job, JobFields DEF ActivationStarts, Authorized, Generations
  <2>6. Generations' = Generations
    BY <2>3 DEF Generations
  <2>7. thinking' \subseteq Generations
    BY <1>12, <2>5 DEF ActivationStarts, Documents, TypeOK
  <2> QED
    BY <1>12, <2>3, <2>4, <2>6, <2>7 DEF ActivationStarts, Documents, TypeOK
<1>13. ASSUME PlanningCommits PROVE TypeOK'
  <2>1. PICK n \in Nat : n = slot.plan
    BY <1>slot DEF SlotDocs
  <2>2. job' = [job EXCEPT !.phase = "DISPATCHING", !.tries = 0, !.root = None,
                           !.starts = 0, !.planned = n]
    BY <1>13, <2>1 DEF PlanningCommits
  <2>3. 0 \in 0 .. MaxRecoveries
    BY Limits
  <2>4. job' \in JobDocs
    BY <1>job, <2>2, <2>3 DEF JobDocs, JobPhases
  <2>5. job'.gen = job.gen
    BY <1>job, <2>2 DEF JobDocs
  <2>6. task' \in [Tasks -> TaskDocs]
    BY <1>13, <1>task DEF PlanningCommits, TaskDocs, TaskPhases
  <2> QED
    BY <1>13, <2>4, <2>5, <2>6, NoSlotTyped
    DEF PlanningCommits, Wake, Documents, TypeOK, Generations
<1>14. ASSUME NEW p \in Generations, PlannerProposes(p) PROVE TypeOK'
  <2>1. slot' \in SlotDocs
    BY <1>14, <1>slot DEF PlannerProposes, SlotDocs
  <2> QED
    BY <1>14, <2>1 DEF PlannerProposes, Documents, TypeOK, Generations
<1>15. ASSUME NEW p \in Generations, PlannerAsks(p) PROVE TypeOK'
  <2>1. Advances /\ open' \in BOOLEAN
    BY <1>15, <1>job, <1>bits, OpenQuestionTyped DEF PlannerAsks
  <2>2. thinking' \subseteq Generations /\ settling' \subseteq Generations
    BY <1>15 DEF PlannerAsks, Documents, TypeOK
  <2> QED
    BY <1>15, <1>job, <2>1, <2>2, GenerationsGrow DEF PlannerAsks, Documents, TypeOK, Advances
<1>16. ASSUME NEW p \in Generations, PlannerEnds(p) PROVE TypeOK'
  BY <1>16 DEF PlannerEnds, Documents, TypeOK, Generations
<1>17. ASSUME NEW p \in Generations, PlannerSettles(p) PROVE TypeOK'
  BY <1>17, NoSlotTyped DEF PlannerSettles, Documents, TypeOK, Generations
<1>18. ASSUME NEW p \in Generations, PlannerDies(p) PROVE TypeOK'
  BY <1>18 DEF PlannerDies, Documents, TypeOK, Generations
<1>19. ASSUME DrainApplies PROVE TypeOK'
  <2>1. TaskPhaseOf(latest) \in {"SUCCEEDED", "PARTIAL", "FAILED", "TIMED_OUT"}
    BY DEF TaskPhaseOf
  <2>2. PICK o \in JobOutcomes : o = OutcomeOf(TaskPhaseOf(latest))
    BY <2>1 DEF OutcomeOf, JobOutcomes
  <2>3. PICK h \in 0 .. 1 : h = job.high
    BY <1>job, JobFields
  <2>4. PICK g \in Nat : g = job.gen + 1
    BY <1>job, JobFields
  <2>5. Drained \in JobDocs /\ Drained.gen = job.gen
    <3>1. Drained = [job EXCEPT !.tries = 0, !.root = None, !.resolved = h]
      BY <2>3 DEF Drained
    <3>2. 0 \in 0 .. MaxRecoveries
      BY Limits
    <3>3. Drained \in JobDocs
      BY <1>job, <3>1, <3>2 DEF JobDocs
    <3>4. Drained.gen = job.gen
      BY <1>job, <3>1 DEF JobDocs
    <3> QED
      BY <3>3, <3>4
  <2>d. PICK d \in JobDocs : d = Drained /\ d.gen = job.gen
    BY <2>5
  <2>6. \/ job' = [d EXCEPT !.phase = "AWAITING_RESULTS"]
        \/ job' = [d EXCEPT !.phase = "TERMINAL", !.outcome = o, !.gen = g]
    <3>1. \/ job' = [Drained EXCEPT !.phase = "AWAITING_RESULTS"]
          \/ job' = [Drained EXCEPT !.phase = "TERMINAL", !.outcome = o, !.gen = Drained.gen + 1]
      BY <1>19, <2>2 DEF DrainApplies
    <3> QED
      BY <2>4, <2>d, <3>1
  <2>7. job' \in JobDocs
    <3>1. [d EXCEPT !.phase = "AWAITING_RESULTS"] \in JobDocs
      BY DEF JobDocs, JobPhases, TypedPhases
    <3>2. [d EXCEPT !.phase = "TERMINAL", !.outcome = o, !.gen = g] \in JobDocs
      BY DEF JobDocs, JobPhases, JobOutcomes
    <3> QED
      BY <2>6, <3>1, <3>2
  <2>8. job'.gen = job.gen \/ job'.gen = g
    BY <2>d, <2>6 DEF JobDocs
  <2>9. Advances
    BY <1>job, <2>4, <2>7, <2>8, JobFields DEF Advances
  <2>10. PICK phase \in TaskPhases : phase = TaskPhaseOf(latest)
    BY <2>1 DEF TaskPhases, TerminalTask
  <2>11. task' = [task EXCEPT ![1].phase = phase]
    BY <1>19, <2>10 DEF DrainApplies
  <2>12. task' \in [Tasks -> TaskDocs]
    BY <1>task, <2>11 DEF TaskDocs
  <2>13. item' \in ItemDocs
    BY <1>19, <1>item DEF DrainApplies, ItemDocs, ItemStates
  <2>14. woken' \in BOOLEAN /\ slot' \in SlotDocs
    BY <1>19, NoSlotTyped DEF DrainApplies, Wake
  <2> QED
    BY <1>19, <1>job, <2>9, <2>12, <2>13, <2>14, GenerationsGrow
    DEF DrainApplies, Documents, TypeOK, Advances
<1>20. ASSUME DrainPostpones PROVE TypeOK'
  <2>1. PICK h \in 0 .. 1 : h = IF slot.decision = "quarantine" THEN job.high ELSE job.resolved
    BY <1>job, JobFields
  <2>2. job' = [job EXCEPT !.tries = 0, !.root = None, !.phase = "RECONCILING", !.resolved = h]
    BY <1>20, <2>1 DEF DrainPostpones
  <2>3. 0 \in 0 .. MaxRecoveries
    BY Limits
  <2>4. job' \in JobDocs
    BY <1>job, <2>2, <2>3 DEF JobDocs, JobPhases, TypedPhases
  <2>5. job'.gen = job.gen
    BY <1>job, <2>2 DEF JobDocs
  <2>6. item' \in ItemDocs
    BY <1>20, <1>item DEF DrainPostpones, ItemDocs, ItemStates
  <2> QED
    BY <1>20, <2>4, <2>5, <2>6, NoSlotTyped DEF DrainPostpones, Documents, TypeOK, Generations
<1>21. ASSUME ControlCommits PROVE TypeOK'
  <2>1. woken' \in BOOLEAN /\ slot' \in SlotDocs
    BY <1>21, <1>bits, NoSlotTyped DEF ControlCommits, Wake
  <2> QED
    BY <1>21, <2>1 DEF ControlCommits, Documents, TypeOK, Generations
<1>22. ASSUME ActivationAges PROVE TypeOK'
  <2>1. slot' \in SlotDocs
    BY <1>22, <1>slot DEF ActivationAges, SlotDocs
  <2> QED
    BY <1>22, <2>1 DEF ActivationAges, Documents, TypeOK, Generations
<1>23. ASSUME ActivationReaped PROVE TypeOK'
  <2>1. PICK g \in Nat : g = job.gen + 1
    BY <1>job, JobFields
  <2>2. PICK r \in {None, "BUSINESS", "RESULT_DRAIN"} :
          r = IF slot.kind = "CONTROL_RECOVERY" THEN job.root ELSE slot.kind
    BY <1>job, <1>slot DEF JobDocs, SlotDocs, Kinds
  <2>3. CASE slot' = [slot EXCEPT !.life = "FAILED"] /\ UNCHANGED <<job, woken>>
    <3>1. slot' \in SlotDocs
      BY <1>slot, <2>3 DEF SlotDocs
    <3> QED
      BY <1>23, <2>3, <3>1 DEF ActivationReaped, Documents, TypeOK, Generations
  <2>4. CASE /\ job.tries < MaxRecoveries
             /\ slot' = Activation("CONTROL_RECOVERY", g, None)
             /\ job' = [job EXCEPT !.gen = g, !.tries = job.tries + 1, !.root = r]
             /\ woken' = FALSE
    <3>1. PICK n \in 0 .. MaxRecoveries : n = job.tries + 1
      BY <1>job, <2>4, JobFields, Limits
    <3>2. job' = [job EXCEPT !.gen = g, !.tries = n, !.root = r]
      BY <2>4, <3>1
    <3>3. job' \in JobDocs
      BY <1>job, <3>2 DEF JobDocs
    <3>4. job'.gen = g
      BY <1>job, <3>2 DEF JobDocs
    <3>5. Advances
      BY <1>job, <2>1, <3>3, <3>4, JobFields DEF Advances
    <3>6. slot' \in SlotDocs
      BY <1>job, <2>4, ActivationTyped DEF Kinds
    <3> QED
      BY <1>23, <1>job, <2>4, <3>5, <3>6, GenerationsGrow
      DEF ActivationReaped, Documents, TypeOK, Advances
  <2>5. job.tries >= MaxRecoveries \/ job.tries < MaxRecoveries
    BY <1>job, JobFields, Limits
  <2> QED
    BY <1>23, <2>1, <2>2, <2>3, <2>4, <2>5 DEF ActivationReaped
<1>24. ASSUME NEW t \in Tasks, StoppedWorkEnds(t) PROVE TypeOK'
  <2>1. task' \in [Tasks -> TaskDocs]
    BY <1>24, <1>task DEF StoppedWorkEnds, TaskDocs, TaskPhases, TerminalTask
  <2> QED
    BY <1>24, <2>1 DEF StoppedWorkEnds, Documents, TypeOK, Generations
<1>25. ASSUME NEW t \in Tasks, NEW a \in AllAnswers, WorkerAnswers(t, a) PROVE TypeOK'
  <2>1. PICK phase \in TaskPhases :
          phase = IF Inboxed(t, a) THEN "AWAITING_RESULT" ELSE TaskPhaseOf(a)
    BY DEF TaskPhases, TerminalTask, TaskPhaseOf
  <2>2. task' = [task EXCEPT ![t].phase = phase, ![t].captured = FALSE]
    BY <1>25, <2>1 DEF WorkerAnswers
  <2>3. task' \in [Tasks -> TaskDocs]
    BY <1>task, <2>2 DEF TaskDocs
  <2>4. job' \in JobDocs /\ job'.gen = job.gen
    <3>1. CASE job' = job
      BY <1>job, <3>1
    <3>2. CASE Inboxed(t, a)
      <4>1. job.high = 0
        BY <1>25, <3>2 DEF WorkerAnswers, Inboxed, Documents, Delivery, Unfinished
      <4>2. PICK h \in 0 .. 1 : h = job.high + 1
        BY <4>1
      <4>3. job' = [job EXCEPT !.phase = "AWAITING_RESULTS", !.high = h]
        BY <1>25, <3>2, <4>2 DEF WorkerAnswers
      <4> QED
        BY <1>job, <4>3 DEF JobDocs, JobPhases, TypedPhases
    <3> QED
      BY <1>25, <3>1, <3>2 DEF WorkerAnswers
  <2>5. PICK c \in Nat : c = IF task[t].captured THEN job.pauses ELSE 0
    BY <1>job, JobFields
  <2>6. item' = item \/ item' = [item EXCEPT !.state = "RECEIVED", !.captured = c]
    BY <1>25, <2>5 DEF WorkerAnswers
  <2>7. item' \in ItemDocs
    BY <1>item, <2>6 DEF ItemDocs, ItemStates
  <2>8. latest' \in AllAnswers \cup {None}
    BY <1>25 DEF WorkerAnswers, Documents, TypeOK
  <2>9. woken' = TRUE
    BY <1>25 DEF WorkerAnswers, Wake
  <2> QED
    BY <1>25, <2>3, <2>4, <2>7, <2>8, <2>9 DEF WorkerAnswers, Documents, TypeOK, Generations
<1>26. ASSUME RetryTimerFires PROVE TypeOK'
  <2>1. PICK r \in 0 .. MaxRetries : r = item.retries + 1
    BY <1>26, <1>item, Limits DEF RetryTimerFires, ItemDocs, Documents, Delivery, Unfinished
  <2>2. Redriven(r)
    BY <1>26, <2>1 DEF RetryTimerFires
  <2>3. Advances /\ item' \in ItemDocs /\ woken' = TRUE
    BY <1>job, <1>item, <2>2, RedrivenTyped
  <2> QED
    BY <1>26, <1>job, <2>3, GenerationsGrow DEF RetryTimerFires, Documents, TypeOK, Advances
<1>27. ASSUME OperatorRedrives PROVE TypeOK'
  <2>1. PICK r \in 0 .. MaxRetries : r = item.retries
    BY <1>item DEF ItemDocs
  <2>2. Redriven(r)
    BY <1>27, <2>1 DEF OperatorRedrives
  <2>3. Advances /\ item' \in ItemDocs /\ woken' = TRUE
    BY <1>job, <1>item, <2>2, RedrivenTyped
  <2>4. env' \in Environments
    BY <1>27, <1>env DEF OperatorRedrives, Environments
  <2> QED
    BY <1>27, <1>job, <2>3, <2>4, GenerationsGrow DEF OperatorRedrives, Documents, TypeOK, Advances
<1>28. ASSUME ReWake PROVE TypeOK'
  BY <1>28 DEF ReWake, Wake, Documents, TypeOK, Generations
<1>29. ASSUME RowsVanish PROVE TypeOK'
  <2>1. PICK n \in Nat : n = env.faults + 1
    BY <1>env DEF Environments
  <2>2. env' = [env EXCEPT !.readable = FALSE, !.faults = n]
    BY <1>29, <2>1 DEF RowsVanish
  <2>3. env' \in Environments
    BY <1>env, <2>2 DEF Environments
  <2> QED
    BY <1>29, <2>3 DEF RowsVanish, Documents, TypeOK, Generations
<1>30. ASSUME RowsReturn PROVE TypeOK'
  <2>1. env' \in Environments
    BY <1>30, <1>env DEF RowsReturn, Environments
  <2> QED
    BY <1>30, <2>1 DEF RowsReturn, Documents, TypeOK, Generations
<1>command. PICK c \in JobDocs : c = Command /\ c.gen = job.gen + 1
  BY <1>job, CommandTyped
<1>31. ASSUME Pause PROVE TypeOK'
  <2>1. PICK n \in Nat : n = job.pauses + 1
    BY <1>job, JobFields
  <2>2. c.pauses = job.pauses
    BY <1>job, <1>command DEF Command, JobDocs
  <2>3. job' = [c EXCEPT !.control = "PAUSE_REQUESTED", !.pauses = n]
    BY <1>31, <1>command, <2>1, <2>2 DEF Pause
  <2>4. job' \in JobDocs /\ job'.gen = c.gen
    BY <2>3 DEF JobDocs
  <2>5. Advances
    BY <1>job, <1>command, <2>4, JobFields DEF Advances
  <2>6. PICK running \in SUBSET Live :
          task' = [t \in Tasks |->
                    IF t \in running THEN [task[t] EXCEPT !.captured = TRUE]
                    ELSE IF t \in Live THEN [task[t] EXCEPT !.phase = "READY"] ELSE task[t]]
    BY <1>31 DEF Pause
  <2>7. task' \in [Tasks -> TaskDocs]
    BY <1>task, <2>6 DEF TaskDocs, TaskPhases
  <2>8. /\ UNCHANGED <<config, item, latest, open, lane, thinking, settling, env>>
        /\ slot' \in SlotDocs /\ woken' = TRUE
    BY <1>31, NoSlotTyped DEF Pause, Wake
  <2> QED
    BY <1>job, <2>5, <2>7, <2>8, GenerationsGrow DEF Documents, TypeOK, Advances
<1>32. ASSUME Resume PROVE TypeOK'
  <2>1. job' = [c EXCEPT !.control = "NONE"]
    BY <1>32, <1>command DEF Resume
  <2>2. job' \in JobDocs /\ job'.gen = c.gen
    BY <2>1 DEF JobDocs
  <2>3. Advances
    BY <1>job, <1>command, <2>2, JobFields DEF Advances
  <2> QED
    BY <1>32, <1>job, <2>3, NoSlotTyped, GenerationsGrow
    DEF Resume, Wake, Documents, TypeOK, Advances
<1>33. ASSUME Steer PROVE TypeOK'
  <2>1. PICK n \in Nat : n = c.plan + 1
    BY <1>command DEF JobDocs
  <2>2. job' = [c EXCEPT !.plan = n]
    BY <1>33, <1>command, <2>1 DEF Steer
  <2>3. job' \in JobDocs /\ job'.gen = c.gen
    BY <2>2 DEF JobDocs
  <2>4. Advances
    BY <1>job, <1>command, <2>3, JobFields DEF Advances
  <2> QED
    BY <1>33, <1>job, <2>4, NoSlotTyped, GenerationsGrow
    DEF Steer, Wake, Documents, TypeOK, Advances
<1>34. ASSUME AppendInstruction PROVE TypeOK'
  <2>1. env' \in Environments
    BY <1>34, <1>env DEF AppendInstruction, Environments
  <2> QED
    BY <1>34, <2>1 DEF AppendInstruction, Wake, Documents, TypeOK, Generations
<1>35. ASSUME Cancel PROVE TypeOK'
  <2>1. PICK h \in 0 .. 1 : h = job.high
    BY <1>job, JobFields
  <2>2. job' = [c EXCEPT !.control = "STOP_REQUESTED", !.phase = "RECONCILING", !.resolved = h]
    BY <1>35, <1>command, <2>1 DEF Cancel
  <2>3. job' \in JobDocs /\ job'.gen = c.gen
    BY <2>2 DEF JobDocs, JobPhases, TypedPhases
  <2>4. Advances
    BY <1>job, <1>command, <2>3, JobFields DEF Advances
  <2>5. task' = [t \in Tasks |->
                  [task[t] EXCEPT !.captured = FALSE,
                                  !.phase = IF t \in Live THEN "RECONCILING"
                                            ELSE IF @ \in TerminalTask \cup {"ABSENT"} THEN @
                                            ELSE "CANCELLED"]]
    BY <1>35 DEF Cancel
  <2>6. task' \in [Tasks -> TaskDocs]
    BY <1>task, <2>5 DEF TaskDocs, TaskPhases, TerminalTask
  <2>7. item' \in ItemDocs
    BY <1>35, <1>item DEF Cancel, ItemDocs, ItemStates
  <2>8. /\ UNCHANGED <<config, latest, lane, thinking, settling, env>>
        /\ slot' \in SlotDocs /\ woken' = FALSE /\ open' = FALSE
    BY <1>35, NoSlotTyped DEF Cancel
  <2> QED
    BY <1>job, <2>4, <2>6, <2>7, <2>8, GenerationsGrow DEF Documents, TypeOK, Advances
<1>36. ASSUME StopCommits PROVE TypeOK'
  <2>1. Advances /\ woken' = FALSE
    BY <1>36, <1>job, TerminateTyped DEF StopCommits, JobOutcomes
  <2> QED
    BY <1>36, <1>job, <2>1, GenerationsGrow DEF StopCommits, Documents, TypeOK, Advances
<1>37. ASSUME AnswerQuestion PROVE TypeOK'
  <2>1. job' = [job EXCEPT !.phase = "READY", !.starts = 0]
    BY <1>37 DEF AnswerQuestion
  <2>2. job' \in JobDocs /\ job'.gen = job.gen
    BY <1>job, <2>1 DEF JobDocs, JobPhases
  <2> QED
    BY <1>37, <2>2 DEF AnswerQuestion, Wake, Documents, TypeOK, Generations
<1>38. ASSUME ExpireQuestion PROVE TypeOK'
  BY <1>38 DEF ExpireQuestion, Wake, Documents, TypeOK, Generations
<1> QED
  BY <1>1, <1>2, <1>3, <1>4, <1>5, <1>6, <1>7, <1>8, <1>9, <1>10, <1>11, <1>12, <1>13, <1>14,
     <1>15, <1>16, <1>17, <1>18, <1>19, <1>20, <1>21, <1>22, <1>23, <1>24, <1>25, <1>26, <1>27,
     <1>28, <1>29, <1>30, <1>31, <1>32, <1>33, <1>34, <1>35, <1>36, <1>37, <1>38
  DEF Next, Lane, Planner

\* A step that leaves the result and the verdict alone, and the first task where it is
\* unless nothing of it has come in.
Undisturbed ==
  /\ item' = item
  /\ job'.high = job.high /\ job'.outcome = job.outcome
  /\ job'.control = "STOP_REQUESTED" <=> job.control = "STOP_REQUESTED"
  /\ task[1].phase = "AWAITING_RESULT" => task'[1].phase = "AWAITING_RESULT"
  /\ task'[1].phase \in Unfinished => task[1].phase \in Unfinished

LEMMA UndisturbedDelivery ==
  ASSUME Delivery, Undisturbed
  PROVE  Delivery'
<1>1. job'.outcome = job.outcome /\ item' = item
  BY DEF Undisturbed
<1>2. ClosedOnAppliedResult'
  BY <1>1 DEF Delivery, ClosedOnAppliedResult, ByWork, Open
<1> QED
  BY <1>1, <1>2 DEF Delivery, Undisturbed, Open

\* A job that closes on terminal tasks closes on an applied result.
LEMMA ClosesTerminal ==
  ASSUME Delivery, Open, job.control # "STOP_REQUESTED", AllTerminal,
         UNCHANGED <<task, item>>, job'.high = job.high, ~Open', 1 \in Tasks
  PROVE  Delivery'
<1>1. task[1].phase # "AWAITING_RESULT"
  BY DEF AllTerminal, Existing, TerminalTask
<1>2. item.state \in {None, "APPLIED"}
  BY <1>1 DEF Delivery
<1> QED
  BY <1>2 DEF Delivery, ClosedOnAppliedResult, Open

\* Every action keeps results and tasks together.
LEMMA DeliveryKept == Documents /\ Next => Delivery'
<1> SUFFICES ASSUME Documents, Next PROVE Delivery'
  OBVIOUS
<1>job. job \in JobDocs
  BY DEF Documents, TypeOK
<1>task. task \in [Tasks -> TaskDocs] /\ 1 \in Tasks
  BY TasksAreNumbered DEF Documents, TypeOK
<1>item. item \in ItemDocs
  BY DEF Documents, TypeOK
<1>kept. Delivery
  BY DEF Documents
<1>1. ASSUME NEW l \in Lanes, LaneClaimsWake(l) PROVE Delivery'
  BY <1>1, <1>kept, UndisturbedDelivery DEF LaneClaimsWake, Undisturbed
<1>2. ASSUME NEW l \in Lanes, LaneReads(l) PROVE Delivery'
  BY <1>2, <1>kept, UndisturbedDelivery DEF LaneReads, Undisturbed
<1>3. ASSUME NEW l \in Lanes, LaneAdvances(l) PROVE Delivery'
  <2>1. CASE UNCHANGED <<job, woken>>
    BY <1>3, <1>kept, <2>1, UndisturbedDelivery DEF LaneAdvances, Undisturbed
  <2>2. CASE AdvanceGranted(l) /\ Terminate(OutcomeOfRoots)
    <3>1. Open /\ job.control # "STOP_REQUESTED" /\ AllTerminal
      BY <2>2 DEF AdvanceGranted
    <3>2. /\ UNCHANGED <<task, item>> /\ job'.high = job.high /\ job'.control = job.control
          /\ ~Open'
      BY <1>3, <1>job, <2>2 DEF LaneAdvances, Terminate, OutcomeOfRoots, JobDocs, Open, None
    <3> QED
      BY <1>task, <1>kept, <3>1, <3>2, ClosesTerminal
  <2> QED
    BY <1>3, <2>1, <2>2 DEF LaneAdvances
<1>4. ASSUME NEW l \in Lanes, LaneDispatches(l) PROVE Delivery'
  <2>1. CASE task' = [task EXCEPT ![lane[l].pick].phase = "DISPATCHED"] /\ lane[l].pick \in Ready
    <3>1. \/ task'[1] = task[1]
          \/ task[1].phase = "READY" /\ task'[1].phase = "DISPATCHED"
      BY <1>task, <2>1 DEF Ready, TaskDocs
    <3> QED
      BY <1>4, <1>kept, <3>1, UndisturbedDelivery DEF LaneDispatches, Undisturbed, Unfinished
  <2>2. CASE task' = task
    BY <1>4, <1>kept, <2>2, UndisturbedDelivery DEF LaneDispatches, Undisturbed
  <2> QED
    BY <1>4, <2>1, <2>2 DEF LaneDispatches, DispatchGranted
<1>5. ASSUME NEW l \in Lanes, JudgeReads(l) PROVE Delivery'
  BY <1>5, <1>kept, UndisturbedDelivery DEF JudgeReads, Undisturbed
<1>6. ASSUME NEW l \in Lanes, JudgeAsks(l) PROVE Delivery'
  <2>1. /\ job'.high = job.high /\ job'.outcome = job.outcome
        /\ job'.control = "STOP_REQUESTED" <=> job.control = "STOP_REQUESTED"
    BY <1>6, <1>job DEF JudgeAsks, JobDocs, OpenQuestion
  <2> QED
    BY <1>6, <1>kept, UndisturbedDelivery, <2>1 DEF JudgeAsks, Undisturbed
<1>7. ASSUME NEW l \in Lanes, JudgeReplans(l) PROVE Delivery'
  <2>1. \/ task' = task
        \/ \E t \in Tasks \ Existing :
             task' = [task EXCEPT ![t].phase = "READY", ![t].replaces = lane[l].pick]
    BY <1>7 DEF JudgeReplans
  <2>2. task'[1] = task[1] \/ (task[1].phase = "ABSENT" /\ task'[1].phase = "READY")
    BY <1>task, <2>1 DEF Existing, TaskDocs
  <2> QED
    BY <1>7, <1>kept, <2>2, UndisturbedDelivery DEF JudgeReplans, Undisturbed, Unfinished
<1>8. ASSUME NEW l \in Lanes, JudgeReopens(l) PROVE Delivery'
  <2>1. /\ job'.high = job.high /\ job'.outcome = job.outcome
        /\ job'.control = "STOP_REQUESTED" <=> job.control = "STOP_REQUESTED"
    BY <1>8, <1>job DEF JudgeReopens, JobDocs
  <2> QED
    BY <1>8, <1>kept, UndisturbedDelivery, <2>1 DEF JudgeReopens, Undisturbed
<1>9. ASSUME NEW l \in Lanes, JudgeFinishes(l) PROVE Delivery'
  <2>1. CASE UNCHANGED <<job, slot, woken>>
    BY <1>9, <1>kept, <2>1, UndisturbedDelivery DEF JudgeFinishes, Undisturbed
  <2>2. CASE FinishGranted /\ Terminate(FinalOutcome(lane[l].boundary))
    <3>1. Open /\ job.control # "STOP_REQUESTED" /\ AllTerminal
      BY <2>2 DEF FinishGranted
    <3>2. /\ UNCHANGED <<task, item>> /\ job'.high = job.high /\ job'.control = job.control
          /\ ~Open'
      BY <1>9, <1>job, <2>2 DEF JudgeFinishes, Terminate, FinalOutcome, JobDocs, Open, None
    <3> QED
      BY <1>task, <1>kept, <3>1, <3>2, ClosesTerminal
  <2> QED
    BY <1>9, <2>1, <2>2 DEF JudgeFinishes
<1>10. ASSUME NEW l \in Lanes, LaneDies(l) PROVE Delivery'
  BY <1>10, <1>kept, UndisturbedDelivery DEF LaneDies, Undisturbed
<1>11. ASSUME ActivationClaims PROVE Delivery'
  BY <1>11, <1>kept, UndisturbedDelivery DEF ActivationClaims, Undisturbed
<1>12. ASSUME ActivationStarts PROVE Delivery'
  <2>1. /\ job'.high = job.high /\ job'.outcome = job.outcome
        /\ job'.control = "STOP_REQUESTED" <=> job.control = "STOP_REQUESTED"
    BY <1>12, <1>job DEF ActivationStarts, JobDocs
  <2> QED
    BY <1>12, <1>kept, UndisturbedDelivery, <2>1 DEF ActivationStarts, Undisturbed
<1>13. ASSUME PlanningCommits PROVE Delivery'
  <2>1. /\ job'.high = job.high /\ job'.outcome = job.outcome
        /\ job'.control = "STOP_REQUESTED" <=> job.control = "STOP_REQUESTED"
    BY <1>13, <1>job DEF PlanningCommits, JobDocs
  <2>2. task[1].phase = "ABSENT"
    BY <1>13, <1>task DEF PlanningCommits, Authorized, Existing
  <2>3. task'[1].phase = "READY"
    BY <1>13, <1>task DEF PlanningCommits, TaskDocs
  <2> QED
    BY <1>13, <1>kept, UndisturbedDelivery, <2>1, <2>2, <2>3 DEF PlanningCommits, Undisturbed, Unfinished
<1>14. ASSUME NEW p \in Generations, PlannerProposes(p) PROVE Delivery'
  BY <1>14, <1>kept, UndisturbedDelivery DEF PlannerProposes, Undisturbed
<1>15. ASSUME NEW p \in Generations, PlannerAsks(p) PROVE Delivery'
  <2>1. /\ job'.high = job.high /\ job'.outcome = job.outcome
        /\ job'.control = "STOP_REQUESTED" <=> job.control = "STOP_REQUESTED"
    BY <1>15, <1>job DEF PlannerAsks, JobDocs, OpenQuestion
  <2> QED
    BY <1>15, <1>kept, UndisturbedDelivery, <2>1 DEF PlannerAsks, Undisturbed
<1>16. ASSUME NEW p \in Generations, PlannerEnds(p) PROVE Delivery'
  BY <1>16, <1>kept, UndisturbedDelivery DEF PlannerEnds, Undisturbed
<1>17. ASSUME NEW p \in Generations, PlannerSettles(p) PROVE Delivery'
  BY <1>17, <1>kept, UndisturbedDelivery DEF PlannerSettles, Undisturbed
<1>18. ASSUME NEW p \in Generations, PlannerDies(p) PROVE Delivery'
  BY <1>18, <1>kept, UndisturbedDelivery DEF PlannerDies, Undisturbed
<1>19. ASSUME DrainApplies PROVE Delivery'
  <2>1. /\ item'.state = "APPLIED"
        /\ task'[1].phase \in {"SUCCEEDED", "PARTIAL", "FAILED", "TIMED_OUT"}
    BY <1>19, <1>item, <1>task DEF DrainApplies, ItemDocs, TaskDocs, TaskPhaseOf
  <2> QED
    BY <2>1 DEF Delivery, Unfinished, ClosedOnAppliedResult, None
<1>20. ASSUME DrainPostpones PROVE Delivery'
  <2>1. Open /\ task[1].phase = "AWAITING_RESULT" /\ task' = task
    BY <1>20 DEF DrainPostpones, DrainGranted, Authorized, Decision, Eligible, None
  <2>2. slot.decision = "retry" => item.retries < MaxRetries
    BY <1>20 DEF DrainPostpones, DrainGranted, Authorized, Decision
  <2>3. item'.state \in {"FAILED_RETRYABLE", "QUARANTINED"} /\ item'.retries = item.retries
        /\ (item'.state = "FAILED_RETRYABLE" => slot.decision = "retry")
    BY <1>20, <1>item DEF DrainPostpones, ItemDocs
  <2>4. job'.outcome = job.outcome
    BY <1>20, <1>job DEF DrainPostpones, JobDocs
  <2> QED
    BY <2>1, <2>2, <2>3, <2>4 DEF Delivery, Unfinished, ClosedOnAppliedResult, ByWork, Open
<1>21. ASSUME ControlCommits PROVE Delivery'
  BY <1>21, <1>kept, UndisturbedDelivery DEF ControlCommits, Undisturbed
<1>22. ASSUME ActivationAges PROVE Delivery'
  BY <1>22, <1>kept, UndisturbedDelivery DEF ActivationAges, Undisturbed
<1>23. ASSUME ActivationReaped PROVE Delivery'
  <2>1. /\ job'.high = job.high /\ job'.outcome = job.outcome
        /\ job'.control = "STOP_REQUESTED" <=> job.control = "STOP_REQUESTED"
    BY <1>23, <1>job DEF ActivationReaped, JobDocs
  <2> QED
    BY <1>23, <1>kept, UndisturbedDelivery, <2>1 DEF ActivationReaped, Undisturbed
<1>24. ASSUME NEW t \in Tasks, StoppedWorkEnds(t) PROVE Delivery'
  <2>1. /\ task[1].phase = "AWAITING_RESULT" => task'[1].phase = "AWAITING_RESULT"
        /\ task'[1].phase \in Unfinished => task[1].phase \in Unfinished
    BY <1>24, <1>task DEF StoppedWorkEnds, Unfinished, TaskDocs
  <2> QED
    BY <1>24, <1>kept, UndisturbedDelivery, <2>1 DEF StoppedWorkEnds, Undisturbed
<1>25. ASSUME NEW t \in Tasks, NEW a \in AllAnswers, WorkerAnswers(t, a) PROVE Delivery'
  <2>1. CASE Inboxed(t, a)
    <3>0. t = 1 /\ task' = [task EXCEPT ![t].phase = "AWAITING_RESULT", ![t].captured = FALSE]
      BY <1>25, <2>1 DEF WorkerAnswers, Inboxed
    <3>1. item'.state = "RECEIVED"
      <4>1. PICK c : item' = [item EXCEPT !.state = "RECEIVED", !.captured = c]
        BY <1>25, <2>1 DEF WorkerAnswers
      <4> QED
        BY <1>item, <4>1 DEF ItemDocs
    <3>2. task'[1].phase = "AWAITING_RESULT"
      BY <1>task, <3>0 DEF TaskDocs
    <3>3. Open'
      BY <1>25, <1>job, <2>1 DEF WorkerAnswers, JobDocs, Open
    <3> QED
      BY <3>1, <3>2, <3>3 DEF Delivery, Unfinished, ClosedOnAppliedResult, ByWork
  <2>2. CASE ~Inboxed(t, a)
    <3>1. UNCHANGED <<job, item>> /\ task[t].phase = "DISPATCHED"
      BY <1>25, <2>2 DEF WorkerAnswers
    <3>2. /\ task[1].phase = "AWAITING_RESULT" => task'[1].phase = "AWAITING_RESULT"
          /\ task'[1].phase \in Unfinished => task[1].phase \in Unfinished
      BY <1>25, <1>task, <2>2, <3>1 DEF WorkerAnswers, TaskDocs, Unfinished
    <3> QED
      BY <1>kept, <3>1, <3>2, UndisturbedDelivery DEF Undisturbed
  <2> QED
    BY <2>1, <2>2
<1>redriven. ASSUME NEW r, Redriven(r), task' = task, Open, item.state \in {"FAILED_RETRYABLE", "QUARANTINED"}
             PROVE  Delivery'
  <2>1. item'.state = "PENDING_REDRIVE"
    BY <1>redriven, <1>item DEF Redriven, ItemDocs
  <2>2. /\ job'.outcome = job.outcome /\ job'.high = job.high /\ job'.control = job.control
    BY <1>redriven, <1>job DEF Redriven, JobDocs
  <2>3. task[1].phase \notin Unfinished
    BY <1>redriven, <1>kept DEF Delivery, None
  <2> QED
    BY <1>redriven, <1>kept, <2>1, <2>2, <2>3 DEF Delivery, ClosedOnAppliedResult, ByWork, Open, None
<1>26. ASSUME RetryTimerFires PROVE Delivery'
  BY <1>26, <1>redriven DEF RetryTimerFires
<1>27. ASSUME OperatorRedrives PROVE Delivery'
  BY <1>27, <1>redriven DEF OperatorRedrives
<1>28. ASSUME ReWake PROVE Delivery'
  BY <1>28, <1>kept, UndisturbedDelivery DEF ReWake, Undisturbed
<1>29. ASSUME RowsVanish PROVE Delivery'
  BY <1>29, <1>kept, UndisturbedDelivery DEF RowsVanish, Undisturbed
<1>30. ASSUME RowsReturn PROVE Delivery'
  BY <1>30, <1>kept, UndisturbedDelivery DEF RowsReturn, Undisturbed
<1>31. ASSUME Pause PROVE Delivery'
  <2>1. /\ job'.high = job.high /\ job'.outcome = job.outcome
        /\ job'.control = "STOP_REQUESTED" <=> job.control = "STOP_REQUESTED"
    BY <1>31, <1>job DEF Pause, JobDocs, Command
  <2>2. \/ task'[1].phase = task[1].phase
        \/ task[1].phase = "DISPATCHED" /\ task'[1].phase = "READY"
    BY <1>31, <1>task DEF Pause, Live, TaskDocs
  <2> QED
    BY <1>31, <1>kept, UndisturbedDelivery, <2>1, <2>2 DEF Pause, Undisturbed, Unfinished
<1>32. ASSUME Resume PROVE Delivery'
  <2>1. /\ job'.high = job.high /\ job'.outcome = job.outcome
        /\ job'.control = "STOP_REQUESTED" <=> job.control = "STOP_REQUESTED"
    BY <1>32, <1>job DEF Resume, JobDocs, Command
  <2> QED
    BY <1>32, <1>kept, UndisturbedDelivery, <2>1 DEF Resume, Undisturbed
<1>33. ASSUME Steer PROVE Delivery'
  <2>1. /\ job'.high = job.high /\ job'.outcome = job.outcome
        /\ job'.control = "STOP_REQUESTED" <=> job.control = "STOP_REQUESTED"
    BY <1>33, <1>job DEF Steer, JobDocs, Command
  <2> QED
    BY <1>33, <1>kept, UndisturbedDelivery, <2>1 DEF Steer, Undisturbed
<1>34. ASSUME AppendInstruction PROVE Delivery'
  BY <1>34, <1>kept, UndisturbedDelivery DEF AppendInstruction, Undisturbed
<1>35. ASSUME Cancel PROVE Delivery'
  <2>1. job'.high = job.high /\ job'.outcome = job.outcome /\ job'.control = "STOP_REQUESTED"
    BY <1>35, <1>job DEF Cancel, Command, JobDocs
  <2>2. task'[1].phase = IF 1 \in Live THEN "RECONCILING"
                         ELSE IF task[1].phase \in TerminalTask \cup {"ABSENT"}
                         THEN task[1].phase ELSE "CANCELLED"
    BY <1>35, <1>task DEF Cancel, TaskDocs
  <2>3. task'[1].phase \in Unfinished => task[1].phase \in Unfinished
    BY <2>2 DEF Unfinished, TerminalTask
  <2>4. item'.state \in {item.state, "REJECTED_STALE"} /\ item'.retries = item.retries
    BY <1>35, <1>item DEF Cancel, ItemDocs
  <2>5. item.state = None => item'.state = None
    BY <1>35, <1>item DEF Cancel, ItemDocs, None
  <2> QED
    BY <1>35, <1>kept, <2>1, <2>3, <2>4, <2>5
    DEF Cancel, Delivery, ClosedOnAppliedResult, ByWork, Open
<1>36. ASSUME StopCommits PROVE Delivery'
  <2>1. /\ UNCHANGED <<task, item>> /\ job'.high = job.high /\ job'.outcome = "CANCELLED"
    BY <1>36, <1>job DEF StopCommits, Terminate, JobDocs
  <2> QED
    BY <1>36, <1>kept, <2>1 DEF Delivery, ClosedOnAppliedResult, ByWork, Open, None
<1>37. ASSUME AnswerQuestion PROVE Delivery'
  <2>1. /\ job'.high = job.high /\ job'.outcome = job.outcome
        /\ job'.control = "STOP_REQUESTED" <=> job.control = "STOP_REQUESTED"
    BY <1>37, <1>job DEF AnswerQuestion, JobDocs
  <2> QED
    BY <1>37, <1>kept, UndisturbedDelivery, <2>1 DEF AnswerQuestion, Undisturbed
<1>38. ASSUME ExpireQuestion PROVE Delivery'
  BY <1>38, <1>kept, UndisturbedDelivery DEF ExpireQuestion, Undisturbed
<1> QED
  BY <1>1, <1>2, <1>3, <1>4, <1>5, <1>6, <1>7, <1>8, <1>9, <1>10, <1>11, <1>12, <1>13, <1>14,
     <1>15, <1>16, <1>17, <1>18, <1>19, <1>20, <1>21, <1>22, <1>23, <1>24, <1>25, <1>26, <1>27,
     <1>28, <1>29, <1>30, <1>31, <1>32, <1>33, <1>34, <1>35, <1>36, <1>37, <1>38
  DEF Next, Lane, Planner

\* The invariant of the documents.
LEMMA InitTyped == Init => Documents
<1> SUFFICES ASSUME Init PROVE Documents
  OBVIOUS
<1>1. job \in JobDocs
  <2>1. 0 \in 0 .. MaxRecoveries
    BY Limits
  <2> QED
    BY <2>1 DEF Init, JobDocs, JobPhases
<1>2. task \in [Tasks -> TaskDocs] /\ lane \in [Lanes -> LaneMemories]
  BY DEF Init, TaskDocs, TaskPhases, LaneMemories, Asleep, LaneSteps
<1>3. item \in ItemDocs
  BY Limits DEF Init, ItemDocs, ItemStates
<1>4. TypeOK
  BY <1>1, <1>2, <1>3, NoSlotTyped DEF Init, TypeOK, Environments
<1>5. task[1].phase = "ABSENT" /\ job.high = 0 /\ item.state = None /\ job.outcome = None
  BY TasksAreNumbered DEF Init
<1>6. Delivery
  BY <1>5 DEF Delivery, ClosedOnAppliedResult, ByWork, Open, None
<1> QED
  BY <1>4, <1>6 DEF Documents

LEMMA DocumentsHold == Spec => []Documents
<1>1. Init => Documents
  BY InitTyped
<1>2. Documents /\ [Next]_vars => Documents'
  <2>1. Documents /\ UNCHANGED vars => Documents'
    BY DEF Documents, TypeOK, Delivery, vars, Generations, ClosedOnAppliedResult, ByWork, Open
  <2> QED
    BY <2>1, TypesKept, DeliveryKept DEF Documents
<1> QED
  BY <1>1, <1>2, PTL DEF Spec

\* For any scenarios every document and memory has its type.
THEOREM TypeCorrect == Spec => []TypeOK
<1>1. Documents => TypeOK
  BY DEF Documents
<1> QED
  BY <1>1, DocumentsHold, PTL

\* For any scenarios a job that is not cancelled closes on a result that was applied: never
\* on one that is in the inbox, on its timer, or with the operator.
THEOREM ClosesOnAppliedResult == Spec => []ClosedOnAppliedResult
<1>1. Documents => ClosedOnAppliedResult
  BY DEF Documents, Delivery
<1> QED
  BY <1>1, DocumentsHold, PTL

-----------------------------------------------------------------------------
(* A pause.                                                                 *)

\* What a pause forbids: another task, another dispatch, another question, and the
\* application of a result it did not let finish.
Frozen ==
  /\ Existing' = Existing
  /\ Live' \subseteq Live
  /\ open' => open
  /\ item.state # "APPLIED" /\ item'.state = "APPLIED" => item.captured = job.pauses

\* A task that exists and moves on, but not into execution.
LEMMA TaskMoves ==
  ASSUME task \in [Tasks -> TaskDocs], NEW t \in Tasks, task[t].phase # "ABSENT",
         NEW x \in TaskPhases \ {"ABSENT", "DISPATCHED"}, task' = [task EXCEPT ![t].phase = x]
  PROVE  Existing' = Existing /\ Live' \subseteq Live
<1>1. task'[t].phase = x /\ \A u \in Tasks \ {t} : task'[u] = task[u]
  BY DEF TaskDocs
<1> QED
  BY <1>1 DEF Existing, Live

\* These steps move tasks on, and make none.
LEMMA SameTasks ==
  ASSUME task \in [Tasks -> TaskDocs]
  PROVE  (\/ \E l \in Lanes : LaneDispatches(l)
          \/ DrainApplies
          \/ \E t \in Tasks : StoppedWorkEnds(t) \/ \E a \in AllAnswers : WorkerAnswers(t, a)
          \/ Pause \/ Cancel) => Existing' = Existing
<1>1. 1 \in Tasks
  BY TasksAreNumbered
<1>2. ASSUME NEW l \in Lanes, LaneDispatches(l) PROVE Existing' = Existing
  BY <1>2 DEF LaneDispatches, DispatchGranted, Ready, Existing, TaskDocs
<1>3. ASSUME DrainApplies PROVE Existing' = Existing
  <2>1. task[1].phase = "AWAITING_RESULT"
    BY <1>3 DEF DrainApplies, DrainGranted, Authorized, Decision, Eligible, None
  <2>2. PICK x \in TerminalTask : x = TaskPhaseOf(latest)
    BY DEF TaskPhaseOf, TerminalTask
  <2>3. task' = [task EXCEPT ![1].phase = x]
    BY <1>3, <2>2 DEF DrainApplies
  <2> QED
    BY <1>1, <2>1, <2>3, TaskMoves DEF TaskPhases, TerminalTask
<1>4. ASSUME NEW t \in Tasks, StoppedWorkEnds(t) PROVE Existing' = Existing
  BY <1>4, TaskMoves DEF StoppedWorkEnds, TaskPhases, TerminalTask
<1>5. ASSUME NEW t \in Tasks, NEW a \in AllAnswers, WorkerAnswers(t, a)
      PROVE  Existing' = Existing
  <2>1. PICK x \in TaskPhases :
          /\ x # "ABSENT"
          /\ task' = [task EXCEPT ![t].phase = x, ![t].captured = FALSE]
    BY <1>5 DEF WorkerAnswers, TaskPhaseOf, TaskPhases, TerminalTask
  <2>2. /\ task[t].phase = "DISPATCHED" /\ task'[t].phase = x
        /\ \A u \in Tasks \ {t} : task'[u] = task[u]
    BY <1>5, <2>1 DEF WorkerAnswers, TaskDocs
  <2> QED
    BY <2>1, <2>2 DEF Existing
<1>6. Pause => Existing' = Existing
  BY DEF Pause, Live, Existing, TaskDocs
<1>7. ASSUME Cancel PROVE Existing' = Existing
  <2>1. ASSUME NEW t \in Tasks
        PROVE  task'[t].phase = IF t \in Live THEN "RECONCILING"
                                ELSE IF task[t].phase \in TerminalTask \cup {"ABSENT"}
                                THEN task[t].phase ELSE "CANCELLED"
    BY <1>7, <2>1 DEF Cancel, TaskDocs
  <2> QED
    BY <2>1 DEF Existing, Live, TerminalTask
<1> QED
  BY <1>2, <1>3, <1>4, <1>5, <1>6, <1>7

\* Every action under a pause that goes on is harmless.
LEMMA PauseFreezes ==
  Documents /\ Next /\ job.control = "PAUSE_REQUESTED" /\ job'.control = "PAUSE_REQUESTED" => Frozen
<1> SUFFICES ASSUME Documents, Next, job.control = "PAUSE_REQUESTED",
                    job'.control = "PAUSE_REQUESTED"
             PROVE  Frozen
  OBVIOUS
<1>paused. job.control = "PAUSE_REQUESTED" /\ job'.control = "PAUSE_REQUESTED"
  OBVIOUS
<1>job. job \in JobDocs
  BY DEF Documents, TypeOK
<1>task. task \in [Tasks -> TaskDocs] /\ 1 \in Tasks
  BY TasksAreNumbered DEF Documents, TypeOK
<1>item. item \in ItemDocs
  BY DEF Documents, TypeOK
<1>1. ASSUME NEW l \in Lanes, LaneClaimsWake(l) PROVE Frozen
  BY <1>1 DEF LaneClaimsWake, Frozen, Existing, Live
<1>2. ASSUME NEW l \in Lanes, LaneReads(l) PROVE Frozen
  BY <1>2 DEF LaneReads, Frozen, Existing, Live
<1>3. ASSUME NEW l \in Lanes, LaneAdvances(l) PROVE Frozen
  BY <1>3 DEF LaneAdvances, Frozen, Existing, Live
<1>4. ASSUME NEW l \in Lanes, LaneDispatches(l) PROVE Frozen
  BY <1>4, <1>paused DEF LaneDispatches, DispatchGranted, Frozen, Existing, Live
<1>5. ASSUME NEW l \in Lanes, JudgeReads(l) PROVE Frozen
  BY <1>5 DEF JudgeReads, Frozen, Existing, Live
<1>6. ASSUME NEW l \in Lanes, JudgeAsks(l) PROVE Frozen
  BY <1>6, <1>paused DEF JudgeAsks, AskGranted, Frozen, Existing, Live
<1>7. ASSUME NEW l \in Lanes, JudgeReplans(l) PROVE Frozen
  BY <1>7, <1>paused DEF JudgeReplans, ReplanGranted, Frozen, Existing, Live
<1>8. ASSUME NEW l \in Lanes, JudgeReopens(l) PROVE Frozen
  BY <1>8 DEF JudgeReopens, Frozen, Existing, Live
<1>9. ASSUME NEW l \in Lanes, JudgeFinishes(l) PROVE Frozen
  BY <1>9 DEF JudgeFinishes, Frozen, Existing, Live
<1>10. ASSUME NEW l \in Lanes, LaneDies(l) PROVE Frozen
  BY <1>10 DEF LaneDies, Frozen, Existing, Live
<1>11. ASSUME ActivationClaims PROVE Frozen
  BY <1>11 DEF ActivationClaims, Frozen, Existing, Live
<1>12. ASSUME ActivationStarts PROVE Frozen
  BY <1>12 DEF ActivationStarts, Frozen, Existing, Live
<1>13. ASSUME PlanningCommits PROVE Frozen
  BY <1>13, <1>paused DEF PlanningCommits, Authorized, PlanningCandidate
<1>14. ASSUME NEW p \in Generations, PlannerProposes(p) PROVE Frozen
  BY <1>14 DEF PlannerProposes, Frozen, Existing, Live
<1>15. ASSUME NEW p \in Generations, PlannerAsks(p) PROVE Frozen
  BY <1>15, <1>paused DEF PlannerAsks, AskGranted
<1>16. ASSUME NEW p \in Generations, PlannerEnds(p) PROVE Frozen
  BY <1>16 DEF PlannerEnds, Frozen, Existing, Live
<1>17. ASSUME NEW p \in Generations, PlannerSettles(p) PROVE Frozen
  BY <1>17 DEF PlannerSettles, Frozen, Existing, Live
<1>18. ASSUME NEW p \in Generations, PlannerDies(p) PROVE Frozen
  BY <1>18 DEF PlannerDies, Frozen, Existing, Live
<1>19. ASSUME DrainApplies PROVE Frozen
  <2>1. /\ task[1].phase = "AWAITING_RESULT"
        /\ item.captured = job.pauses
    BY <1>19, <1>paused
    DEF DrainApplies, DrainGranted, Authorized, Decision, Eligible, ResultControlIsCurrent, None
  <2>2. PICK x \in TerminalTask : x = TaskPhaseOf(latest)
    BY DEF TaskPhaseOf, TerminalTask
  <2>3. task' = [task EXCEPT ![1].phase = x]
    BY <1>19, <2>2 DEF DrainApplies
  <2>4. Existing' = Existing /\ Live' \subseteq Live
    BY <1>task, <2>1, <2>3, TaskMoves DEF TaskPhases, TerminalTask
  <2> QED
    BY <1>19, <2>1, <2>4 DEF DrainApplies, Frozen
<1>20. ASSUME DrainPostpones PROVE Frozen
  <2>1. item'.state # "APPLIED"
    BY <1>20, <1>item DEF DrainPostpones, ItemDocs
  <2> QED
    BY <1>20, <2>1 DEF DrainPostpones, Frozen, Existing, Live
<1>21. ASSUME ControlCommits PROVE Frozen
  BY <1>21 DEF ControlCommits, Frozen, Existing, Live
<1>22. ASSUME ActivationAges PROVE Frozen
  BY <1>22 DEF ActivationAges, Frozen, Existing, Live
<1>23. ASSUME ActivationReaped PROVE Frozen
  BY <1>23 DEF ActivationReaped, Frozen, Existing, Live
<1>24. ASSUME NEW t \in Tasks, StoppedWorkEnds(t) PROVE Frozen
  <2>1. Existing' = Existing /\ Live' \subseteq Live
    BY <1>24, <1>task, TaskMoves DEF StoppedWorkEnds, TaskPhases, TerminalTask
  <2> QED
    BY <1>24, <2>1 DEF StoppedWorkEnds, Frozen
<1>25. ASSUME NEW t \in Tasks, NEW a \in AllAnswers, WorkerAnswers(t, a) PROVE Frozen
  <2>1. PICK x \in TaskPhases :
          /\ x \notin {"ABSENT", "DISPATCHED"}
          /\ task' = [task EXCEPT ![t].phase = x, ![t].captured = FALSE]
    BY <1>25 DEF WorkerAnswers, TaskPhaseOf, TaskPhases, TerminalTask
  <2>2. /\ task[t].phase = "DISPATCHED" /\ task'[t].phase = x
        /\ \A u \in Tasks \ {t} : task'[u] = task[u]
    BY <1>25, <1>task, <2>1 DEF WorkerAnswers, TaskDocs
  <2>3. Existing' = Existing /\ Live' \subseteq Live
    BY <2>1, <2>2 DEF Existing, Live
  <2>4. item' = item \/ item'.state = "RECEIVED"
    <3>1. PICK c : item' = item \/ item' = [item EXCEPT !.state = "RECEIVED", !.captured = c]
      BY <1>25 DEF WorkerAnswers
    <3> QED
      BY <1>item, <3>1 DEF ItemDocs
  <2> QED
    BY <1>25, <2>3, <2>4 DEF WorkerAnswers, Frozen
<1>26. ASSUME RetryTimerFires PROVE Frozen
  <2>1. item'.state = "PENDING_REDRIVE"
    BY <1>26, <1>item DEF RetryTimerFires, Redriven, ItemDocs
  <2> QED
    BY <1>26, <2>1 DEF RetryTimerFires, Frozen, Existing, Live
<1>27. ASSUME OperatorRedrives PROVE Frozen
  <2>1. item'.state = "PENDING_REDRIVE"
    BY <1>27, <1>item DEF OperatorRedrives, Redriven, ItemDocs
  <2> QED
    BY <1>27, <2>1 DEF OperatorRedrives, Frozen, Existing, Live
<1>28. ASSUME ReWake PROVE Frozen
  BY <1>28 DEF ReWake, Frozen, Existing, Live
<1>29. ASSUME RowsVanish PROVE Frozen
  BY <1>29 DEF RowsVanish, Frozen, Existing, Live
<1>30. ASSUME RowsReturn PROVE Frozen
  BY <1>30 DEF RowsReturn, Frozen, Existing, Live
<1>31. ASSUME Pause PROVE Frozen
  BY <1>31, <1>paused DEF Pause
<1>32. ASSUME Resume PROVE Frozen
  <2>1. job'.control = "NONE"
    BY <1>32, <1>job, CommandTyped DEF Resume, JobDocs
  <2> QED
    BY <1>paused, <2>1
<1>33. ASSUME Steer PROVE Frozen
  BY <1>33 DEF Steer, Frozen, Existing, Live
<1>34. ASSUME AppendInstruction PROVE Frozen
  BY <1>34 DEF AppendInstruction, Frozen, Existing, Live
<1>35. ASSUME Cancel PROVE Frozen
  <2>1. job'.control = "STOP_REQUESTED"
    BY <1>35, <1>job, CommandTyped DEF Cancel, JobDocs
  <2> QED
    BY <1>paused, <2>1
<1>36. ASSUME StopCommits PROVE Frozen
  BY <1>36 DEF StopCommits, Frozen, Existing, Live
<1>37. ASSUME AnswerQuestion PROVE Frozen
  BY <1>37 DEF AnswerQuestion, Frozen, Existing, Live
<1>38. ASSUME ExpireQuestion PROVE Frozen
  BY <1>38 DEF ExpireQuestion, Frozen, Existing, Live
<1> QED
  BY <1>1, <1>2, <1>3, <1>4, <1>5, <1>6, <1>7, <1>8, <1>9, <1>10, <1>11, <1>12, <1>13, <1>14,
     <1>15, <1>16, <1>17, <1>18, <1>19, <1>20, <1>21, <1>22, <1>23, <1>24, <1>25, <1>26, <1>27,
     <1>28, <1>29, <1>30, <1>31, <1>32, <1>33, <1>34, <1>35, <1>36, <1>37, <1>38
  DEF Next, Lane, Planner

\* For any scenarios nothing new happens behind a pause, in however many transactions the
\* judge, a planner or an activation was interrupted.
THEOREM PauseIsRespected == Spec => NothingBehindAPause
<1>1. Documents /\ [Next]_vars =>
        [job.control = "PAUSE_REQUESTED" /\ job'.control = "PAUSE_REQUESTED" => Frozen]_vars
  BY PauseFreezes
<1> QED
  BY <1>1, DocumentsHold, PTL DEF Spec, NothingBehindAPause, Frozen

-----------------------------------------------------------------------------
(* The planner.                                                             *)

\* Lanes judge only where there are tasks to judge.
NoNewJudgement ==
  \A l \in Lanes :
    /\ lane'[l].step \in Judging => lane[l].step \in Judging \/ Existing # {}
    /\ lane'[l].next \in Judging => lane'[l].next = lane[l].next

LEMMA LanesUndisturbed ==
  ASSUME lane \in [Lanes -> LaneMemories], NEW l \in Lanes
  PROVE  /\ Sleep(l) => NoNewJudgement
         /\ \A s \in LaneSteps \ Judging : To(l, s) => NoNewJudgement
<1>1. Sleep(l) => NoNewJudgement
  BY DEF Sleep, Asleep, NoNewJudgement, Judging, LaneMemories
<1>2. ASSUME NEW s \in LaneSteps \ Judging, To(l, s)
      PROVE  NoNewJudgement
  BY <1>2 DEF To, NoNewJudgement, LaneMemories
<1> QED
  BY <1>1, <1>2

\* A step that starts no planner, takes no slot from one, and leaves alone what the
\* demand for a plan depends on, unless there are tasks already.
Calm ==
  /\ Existing' = Existing
  /\ NoNewJudgement
  /\ UNCHANGED <<thinking, settling>>
  /\ job'.starts = job.starts /\ job'.plan = job.plan /\ job'.planned = job.planned
  /\ Open' /\ Existing = {} =>
       /\ Held => Held' /\ slot'.gen = slot.gen
       /\ job'.gen = job.gen /\ job'.phase = job.phase /\ job'.control = job.control
       /\ job'.outcome = job.outcome /\ open' = open

LEMMA CalmOwnership ==
  ASSUME Ownership, Calm
  PROVE  Ownership'
<1>1. PlannedOnce' /\ (thinking \cap settling = {})'
  BY DEF Ownership, Calm, PlannedOnce
<1>2. ASSUME NEW l \in Lanes
      PROVE  /\ lane'[l].step \in Judging => Existing' # {}
             /\ lane'[l].next \notin Judging
  BY DEF Ownership, Calm, NoNewJudgement
<1>3. ASSUME Open', Existing' = {}
      PROVE  /\ open' => job'.phase = "AWAITING_USER"
             /\ job'.gen \in thinking' \cup settling' => Held' /\ slot'.gen = job'.gen
             /\ PlanningCandidate' /\ job'.starts = 1 => Held' /\ slot'.gen \notin settling'
  BY <1>3 DEF Ownership, Calm, PlanningCandidate, Open
<1> QED
  BY <1>1, <1>2, <1>3 DEF Ownership

\* A step that calls for a plan anew, in a generation nobody has planned in or next to the
\* planner that still holds its slot.
Fresh ==
  /\ Existing' = Existing
  /\ UNCHANGED <<lane, thinking, settling>>
  /\ job'.starts = 0
  /\ Existing # {} => job'.planned = job.planned /\ job'.plan = job.plan
  /\ open' => open /\ job'.phase = job.phase
  /\ Open
  /\ job'.gen = job.gen + 1 \/ (job'.gen = job.gen /\ slot' = slot)

LEMMA FreshOwnership ==
  ASSUME Documents, Ownership, Fresh
  PROVE  Ownership'
<1>1. PlannedOnce' /\ (thinking \cap settling = {})'
  BY DEF Ownership, Fresh, PlannedOnce
<1>2. ASSUME NEW l \in Lanes
      PROVE  /\ lane'[l].step \in Judging => Existing' # {}
             /\ lane'[l].next \notin Judging
  BY DEF Ownership, Fresh
<1>3. job.gen + 1 \notin thinking \cup settling
  BY JobFields DEF Documents, TypeOK, Generations
<1>4. ASSUME Open', Existing' = {}
      PROVE  /\ open' => job'.phase = "AWAITING_USER"
             /\ job'.gen \in thinking' \cup settling' => Held' /\ slot'.gen = job'.gen
             /\ ~(job'.starts = 1)
  BY <1>3, <1>4 DEF Ownership, Fresh, Held
<1> QED
  BY <1>1, <1>2, <1>4 DEF Ownership

\* Every action keeps the planner's ownership of its slot.
LEMMA OwnershipKept == Documents /\ Ownership /\ Next => Ownership'
<1> SUFFICES ASSUME Documents, Ownership, Next PROVE Ownership'
  OBVIOUS
<1>kept. Documents /\ Ownership
  OBVIOUS
<1>job. job \in JobDocs
  BY DEF Documents, TypeOK
<1>task. task \in [Tasks -> TaskDocs] /\ 1 \in Tasks
  BY TasksAreNumbered DEF Documents, TypeOK
<1>slot. slot \in SlotDocs
  BY DEF Documents, TypeOK
<1>lane. lane \in [Lanes -> LaneMemories]
  BY DEF Documents, TypeOK
<1>first. Ready # {} => FirstReady \in Tasks
  <2>1. Ready \in SUBSET (1 .. (MaxLaneTasks + Cardinality(Lanes)))
    BY DEF Ready, Tasks
  <2> QED
    BY <2>1, FirstAndLast, TasksAreNumbered DEF FirstReady, Ready
<1>judging. ASSUME NEW l \in Lanes
            PROVE  (lane[l].step \in Judging => Existing # {}) /\ lane[l].next \notin Judging
  BY DEF Ownership
<1>1. ASSUME NEW l \in Lanes, LaneClaimsWake(l) PROVE Ownership'
  <2>1. NoNewJudgement
    BY <1>1, <1>lane DEF LaneClaimsWake, NoNewJudgement, Judging, LaneMemories
  <2>2. Held => slot' = slot
    BY <1>1 DEF LaneClaimsWake, Materialized, Held, NoSlot, None
  <2> QED
    BY <1>1, <1>kept, <2>1, <2>2, CalmOwnership DEF LaneClaimsWake, Calm, NoNewJudgement, Existing, Open, Held
<1>2. ASSUME NEW l \in Lanes, LaneReads(l) PROVE Ownership'
  <2>1. PICK n \in LaneSteps \ Judging : n = AfterJudge
    BY DEF AfterJudge, LaneSteps, Judging
  <2>2. PICK q \in Tasks \cup {NoTask} :
          q = IF AfterJudge = "dispatch" THEN FirstReady ELSE NoTask
    BY <1>first DEF AfterJudge
  <2>3. \/ Sleep(l)
        \/ \E s \in LaneSteps \ Judging :
             lane' = [lane EXCEPT ![l].next = n, ![l].step = s, ![l].pick = q]
    BY <1>2, <2>1, <2>2 DEF LaneReads, LaneSteps, Judging
  <2>4. NoNewJudgement
    <3>1. ASSUME NEW s \in LaneSteps \ Judging,
                 lane' = [lane EXCEPT ![l].next = n, ![l].step = s, ![l].pick = q]
          PROVE  NoNewJudgement
      BY <1>lane, <2>1, <3>1 DEF LaneMemories, NoNewJudgement
    <3> QED
      BY <1>lane, <2>3, <3>1, LanesUndisturbed
  <2>5. UNCHANGED <<job, task, slot, open, thinking, settling>>
    BY <1>2 DEF LaneReads
  <2> QED
    BY <1>kept, <2>4, <2>5, CalmOwnership DEF Calm, Existing, Open, Held
<1>3. ASSUME NEW l \in Lanes, LaneAdvances(l) PROVE Ownership'
  <2>1. NoNewJudgement
    BY <1>3, <1>lane, LanesUndisturbed DEF LaneAdvances
  <2>2. /\ job'.starts = job.starts /\ job'.plan = job.plan /\ job'.planned = job.planned
        /\ Open' => job' = job
    BY <1>3, <1>job DEF LaneAdvances, Terminate, OutcomeOfRoots, JobDocs, Open, None
  <2> QED
    BY <1>3, <1>kept, <2>1, <2>2, CalmOwnership DEF LaneAdvances, Calm, NoNewJudgement, Existing, Open, Held
<1>4. ASSUME NEW l \in Lanes, LaneDispatches(l) PROVE Ownership'
  <2>1. NoNewJudgement
    <3>1. PICK g \in Nat : g = lane[l].gen
      BY <1>lane DEF LaneMemories
    <3>2. \/ Sleep(l)
          \/ lane' = [lane EXCEPT ![l] = [Asleep EXCEPT !.step = "awake", !.gen = g]]
      BY <1>4, <3>1 DEF LaneDispatches
    <3>3. CASE lane' = [lane EXCEPT ![l] = [Asleep EXCEPT !.step = "awake", !.gen = g]]
      BY <1>lane, <3>3 DEF Asleep, LaneMemories, NoNewJudgement, Judging
    <3> QED
      BY <1>lane, <3>2, <3>3, LanesUndisturbed
  <2>2. Existing' = Existing
    BY <1>4, <1>task, SameTasks
  <2> QED
    BY <1>4, <1>kept, <2>1, <2>2, CalmOwnership DEF LaneDispatches, Calm, NoNewJudgement, Open, Held
<1>5. ASSUME NEW l \in Lanes, JudgeReads(l) PROVE Ownership'
  <2>1. NoNewJudgement
    <3>1. CASE Open /\ job.control = "NONE" /\ AllTerminal
      <4>1. PICK choice \in JudgeChoices :
              lane' = [lane EXCEPT ![l].step = choice, ![l].pick = Last,
                                   ![l].boundary = ProsePassedOff]
        BY <1>5, <3>1 DEF JudgeReads
      <4>2. ASSUME NEW u \in Lanes PROVE lane'[u].next = lane[u].next
        BY <1>lane, <4>1 DEF LaneMemories
      <4> QED
        BY <3>1, <4>2 DEF NoNewJudgement, AllTerminal
    <3>2. CASE GoOn(l, lane[l].next)
      BY <1>lane, <1>judging, <3>2, LanesUndisturbed DEF GoOn, LaneMemories
    <3> QED
      BY <1>5, <3>1, <3>2 DEF JudgeReads
  <2>2. UNCHANGED <<job, task, slot, open, thinking, settling>>
    BY <1>5 DEF JudgeReads
  <2> QED
    BY <1>kept, <2>1, <2>2, CalmOwnership DEF Calm, Existing, Open, Held
<1>6. ASSUME NEW l \in Lanes, JudgeAsks(l) PROVE Ownership'
  <2>1. NoNewJudgement
    BY <1>6, <1>lane, LanesUndisturbed DEF JudgeAsks, LaneSteps, Judging
  <2>2. job'.starts = job.starts /\ job'.plan = job.plan /\ job'.planned = job.planned
    BY <1>6, <1>job DEF JudgeAsks, OpenQuestion, JobDocs
  <2>3. Existing # {}
    BY <1>6, <1>judging DEF JudgeAsks, Judging
  <2> QED
    BY <1>6, <1>kept, <2>1, <2>2, <2>3, CalmOwnership DEF JudgeAsks, Calm, NoNewJudgement, Existing, Open
<1>7. ASSUME NEW l \in Lanes, JudgeReplans(l) PROVE Ownership'
  <2>1. Existing # {}
    BY <1>7, <1>judging DEF JudgeReplans, Judging
  <2>2. Existing \subseteq Existing'
    BY <1>7, <1>task DEF JudgeReplans, Existing, TaskDocs
  <2>3. ASSUME NEW u \in Lanes PROVE lane'[u].next = lane[u].next
    <3>1. To(l, "reopen") \/ To(l, "finish")
      BY <1>7 DEF JudgeReplans
    <3> QED
      BY <1>lane, <3>1 DEF To, LaneMemories
  <2> QED
    BY <1>7, <1>kept, <2>1, <2>2, <2>3 DEF JudgeReplans, Ownership, PlannedOnce
<1>8. ASSUME NEW l \in Lanes, JudgeReopens(l) PROVE Ownership'
  <2>1. NoNewJudgement
    BY <1>8, <1>lane, LanesUndisturbed DEF JudgeReopens
  <2>2. job'.starts = job.starts /\ job'.plan = job.plan /\ job'.planned = job.planned
    BY <1>8, <1>job DEF JudgeReopens, JobDocs
  <2>3. Existing # {}
    BY <1>8, <1>judging DEF JudgeReopens, Judging
  <2> QED
    BY <1>8, <1>kept, <2>1, <2>2, <2>3, CalmOwnership DEF JudgeReopens, Calm, NoNewJudgement, Existing, Open
<1>9. ASSUME NEW l \in Lanes, JudgeFinishes(l) PROVE Ownership'
  <2>1. NoNewJudgement
    BY <1>9, <1>lane, <1>judging, LanesUndisturbed DEF JudgeFinishes, GoOn, LaneMemories
  <2>2. /\ job'.starts = job.starts /\ job'.plan = job.plan /\ job'.planned = job.planned
        /\ Open' => job' = job /\ slot' = slot
    BY <1>9, <1>job DEF JudgeFinishes, Terminate, FinalOutcome, JobDocs, Open, None
  <2> QED
    BY <1>9, <1>kept, <2>1, <2>2, CalmOwnership DEF JudgeFinishes, Calm, NoNewJudgement, Existing, Open, Held
<1>10. ASSUME NEW l \in Lanes, LaneDies(l) PROVE Ownership'
  <2>1. NoNewJudgement
    BY <1>10, <1>lane, LanesUndisturbed DEF LaneDies
  <2>2. UNCHANGED <<job, task, slot, open, thinking, settling>>
    BY <1>10 DEF LaneDies
  <2> QED
    BY <1>kept, <2>1, <2>2, CalmOwnership DEF Calm, Existing, Open, Held
<1>11. ASSUME ActivationClaims PROVE Ownership'
  <2>1. Held => Held' /\ slot'.gen = slot.gen
    BY <1>11, <1>slot DEF ActivationClaims, Held, SlotDocs
  <2> QED
    BY <1>11, <1>kept, <2>1, CalmOwnership DEF ActivationClaims, Calm, NoNewJudgement, Existing, Open
<1>12. ASSUME ActivationStarts PROVE Ownership'
  <2>1. CASE slot.kind # "BUSINESS"
    BY <1>12, <1>kept, <2>1, CalmOwnership DEF ActivationStarts, Calm, NoNewJudgement, Held, Existing, Open
  <2>2. CASE slot.kind = "BUSINESS"
    <3>1. Open /\ Existing = {} /\ PlanningCandidate /\ slot.gen = job.gen /\ ~Held
      BY <1>12, <2>2 DEF ActivationStarts, Authorized, PlanningCandidate, Held
    <3>2. job.starts = 0 /\ job.gen \notin thinking \cup settling
      BY <1>kept, <1>job, <3>1, JobFields DEF Ownership, PlannedOnce
    <3>3. /\ job'.starts = 1 /\ job'.plan = job.plan /\ job'.planned = job.planned
          /\ job'.gen = job.gen /\ job'.phase = job.phase /\ job'.outcome = job.outcome
      BY <1>12, <1>job, <2>2, <3>2 DEF ActivationStarts, JobDocs
    <3>4. Held' /\ slot'.gen = job.gen
      BY <1>12, <1>slot, <2>2, <3>1 DEF ActivationStarts, Held, SlotDocs
    <3>5. thinking' = thinking \cup {job.gen} /\ UNCHANGED <<task, settling, open, lane>>
      BY <1>12, <2>2, <3>1 DEF ActivationStarts
    <3>6. Existing' = Existing /\ Open'
      BY <3>1, <3>3, <3>5 DEF Existing, Open
    <3> QED
      BY <1>kept, <3>1, <3>2, <3>3, <3>4, <3>5, <3>6 DEF Ownership, PlannedOnce
  <2> QED
    BY <2>1, <2>2
<1>13. ASSUME PlanningCommits PROVE Ownership'
  <2>1. slot.plan = job.plan
    BY <1>13 DEF PlanningCommits, Authorized
  <2>2. job'.starts = 0 /\ job'.planned = slot.plan /\ job'.plan = job.plan
    BY <1>13, <1>job DEF PlanningCommits, JobDocs
  <2>3. 1 \in Existing'
    BY <1>13, <1>task DEF PlanningCommits, Existing, TaskDocs
  <2> QED
    BY <1>13, <1>kept, <2>1, <2>2, <2>3 DEF PlanningCommits, Ownership, PlannedOnce
<1>14. ASSUME NEW p \in Generations, PlannerProposes(p) PROVE Ownership'
  <2>1. (Held <=> Held') /\ slot'.gen = slot.gen
    BY <1>14, <1>slot DEF PlannerProposes, Held, SlotDocs
  <2>2. UNCHANGED <<job, task, open, lane, settling>> /\ thinking' \subseteq thinking
    BY <1>14 DEF PlannerProposes
  <2> QED
    BY <1>kept, <2>1, <2>2 DEF Ownership, PlannedOnce, Existing, Open, PlanningCandidate
<1>15. ASSUME NEW p \in Generations, PlannerAsks(p) PROVE Ownership'
  <2>1. /\ UNCHANGED <<task, slot, lane>> /\ Open
        /\ thinking' = thinking \ {p} /\ settling' = settling \cup {p} /\ p \in thinking
    BY <1>15 DEF PlannerAsks, AskGranted
  <2>2. /\ job'.starts = job.starts /\ job'.plan = job.plan /\ job'.planned = job.planned
        /\ job'.gen = job.gen /\ job'.outcome = job.outcome
        /\ (job' = job /\ open) \/ job'.phase = "AWAITING_USER"
    BY <1>15, <1>job DEF PlannerAsks, OpenQuestion, JobDocs
  <2>3. Existing' = Existing /\ Held' = Held
    BY <2>1 DEF Existing, Held
  <2>4. thinking' \cup settling' = thinking \cup settling
    BY <2>1
  <2>5. (thinking \cap settling = {})'
    BY <1>kept, <2>1 DEF Ownership
  <2>6. ASSUME Open', Existing = {}
        PROVE  job'.phase = "AWAITING_USER"
    BY <1>kept, <2>1, <2>2, <2>6 DEF Ownership
  <2> QED
    BY <1>kept, <2>1, <2>2, <2>3, <2>4, <2>5, <2>6
    DEF Ownership, PlannedOnce, PlanningCandidate
<1>16. ASSUME NEW p \in Generations, PlannerEnds(p) PROVE Ownership'
  <2>1. /\ UNCHANGED <<job, task, slot, open, lane>>
        /\ thinking' \subseteq thinking /\ settling' \subseteq settling
    BY <1>16 DEF PlannerEnds
  <2> QED
    BY <1>kept, <2>1 DEF Ownership, PlannedOnce, Existing, Open, PlanningCandidate, Held
<1>17. ASSUME NEW p \in Generations, PlannerSettles(p) PROVE Ownership'
  <2>1. /\ UNCHANGED <<job, task, open, lane, thinking>>
        /\ p \in settling /\ settling' = settling \ {p}
        /\ slot' = slot \/ slot.gen = p
    BY <1>17 DEF PlannerSettles
  <2>2. Existing' = Existing /\ Open' = Open /\ PlanningCandidate' = PlanningCandidate
    BY <2>1 DEF Existing, Open, PlanningCandidate
  <2>3. ASSUME Open, Existing = {}, job.gen \in thinking' \cup settling'
        PROVE  Held' /\ slot'.gen = job.gen
    <3>1. Held /\ slot.gen = job.gen
      BY <1>kept, <2>1, <2>3 DEF Ownership
    <3>2. p # job.gen
      BY <1>kept, <2>1, <2>3 DEF Ownership
    <3> QED
      BY <2>1, <3>1, <3>2 DEF Held
  <2>4. ASSUME Open, Existing = {}, PlanningCandidate, job.starts = 1
        PROVE  Held' /\ slot'.gen \notin settling'
    BY <1>kept, <2>1, <2>4 DEF Ownership, Held
  <2> QED
    BY <1>kept, <2>1, <2>2, <2>3, <2>4 DEF Ownership, PlannedOnce
<1>18. ASSUME NEW p \in Generations, PlannerDies(p) PROVE Ownership'
  <2>1. /\ UNCHANGED <<job, task, slot, open, lane>>
        /\ thinking' \subseteq thinking /\ settling' \subseteq settling
    BY <1>18 DEF PlannerDies
  <2> QED
    BY <1>kept, <2>1 DEF Ownership, PlannedOnce, Existing, Open, PlanningCandidate, Held
<1>19. ASSUME DrainApplies PROVE Ownership'
  <2>1. Existing' = Existing
    BY <1>19, <1>task, SameTasks
  <2>2. Existing # {}
    BY <1>19, <1>task DEF DrainApplies, DrainGranted, Authorized, Decision, Eligible, None
  <2>3. job'.starts = job.starts /\ job'.plan = job.plan /\ job'.planned = job.planned
    BY <1>19, <1>job DEF DrainApplies, Drained, JobDocs
  <2> QED
    BY <1>19, <1>kept, <2>1, <2>2, <2>3, CalmOwnership DEF DrainApplies, Calm, NoNewJudgement
<1>20. ASSUME DrainPostpones PROVE Ownership'
  <2>1. Existing # {}
    BY <1>20, <1>task DEF DrainPostpones, DrainGranted, Authorized, Decision, Eligible, None
  <2>2. job'.starts = job.starts /\ job'.plan = job.plan /\ job'.planned = job.planned
    BY <1>20, <1>job DEF DrainPostpones, JobDocs
  <2> QED
    BY <1>20, <1>kept, <2>1, <2>2, CalmOwnership DEF DrainPostpones, Calm, NoNewJudgement, Existing, Open
<1>21. ASSUME ControlCommits PROVE Ownership'
  BY <1>21, <1>kept, CalmOwnership DEF ControlCommits, Calm, NoNewJudgement, Held, Existing, Open
<1>22. ASSUME ActivationAges PROVE Ownership'
  <2>1. Held => Held' /\ slot'.gen = slot.gen
    BY <1>22, <1>slot DEF ActivationAges, Held, SlotDocs
  <2> QED
    BY <1>22, <1>kept, <2>1, CalmOwnership DEF ActivationAges, Calm, NoNewJudgement, Existing, Open
<1>23. ASSUME ActivationReaped PROVE Ownership'
  <2>1. UNCHANGED <<task, open, lane, thinking, settling>>
    BY <1>23 DEF ActivationReaped
  <2>2. CASE slot' = [slot EXCEPT !.life = "FAILED"] /\ job' = job
    <3>1. Held => Held' /\ slot'.gen = slot.gen
      BY <1>slot, <2>2 DEF Held, SlotDocs
    <3> QED
      BY <1>kept, <2>1, <2>2, <3>1, CalmOwnership DEF Calm, NoNewJudgement, Existing, Open
  <2>3. CASE /\ ~Ambiguous
             /\ job' = [job EXCEPT !.gen = @ + 1, !.tries = @ + 1,
                                   !.root = IF slot.kind = "CONTROL_RECOVERY" THEN @ ELSE slot.kind]
    <3>1. ~Held
      BY <1>23, <2>3 DEF ActivationReaped, Expired, ActiveLives, Ambiguous, Held
    <3>2. /\ job'.starts = job.starts /\ job'.plan = job.plan /\ job'.planned = job.planned
          /\ job'.phase = job.phase /\ job'.outcome = job.outcome /\ job'.control = job.control
      BY <1>job, <2>3 DEF JobDocs
    <3>3. job'.gen = job.gen + 1
      BY <1>job, <2>3 DEF JobDocs
    <3>4. job'.gen \notin thinking \cup settling
      BY <1>kept, <1>job, <3>3, JobFields DEF Documents, TypeOK, Generations
    <3>5. Existing' = Existing /\ Open' = Open /\ PlanningCandidate' = PlanningCandidate
      BY <2>1, <3>2 DEF Existing, Open, PlanningCandidate
    <3> QED
      BY <1>kept, <2>1, <3>1, <3>2, <3>4, <3>5 DEF Ownership, PlannedOnce
  <2> QED
    BY <1>23, <2>2, <2>3 DEF ActivationReaped
<1>24. ASSUME NEW t \in Tasks, StoppedWorkEnds(t) PROVE Ownership'
  <2>1. Existing' = Existing
    BY <1>24, <1>task, SameTasks
  <2> QED
    BY <1>24, <1>kept, <2>1, CalmOwnership DEF StoppedWorkEnds, Calm, NoNewJudgement, Open, Held
<1>25. ASSUME NEW t \in Tasks, NEW a \in AllAnswers, WorkerAnswers(t, a) PROVE Ownership'
  <2>1. Existing' = Existing
    BY <1>25, <1>task, SameTasks
  <2>2. Existing # {}
    BY <1>25 DEF WorkerAnswers, Existing
  <2>3. job'.starts = job.starts /\ job'.plan = job.plan /\ job'.planned = job.planned
    BY <1>25, <1>job DEF WorkerAnswers, JobDocs
  <2> QED
    BY <1>25, <1>kept, <2>1, <2>2, <2>3, CalmOwnership DEF WorkerAnswers, Calm, NoNewJudgement
<1>26. ASSUME RetryTimerFires PROVE Ownership'
  <2>1. 1 \in Existing
    BY <1>26, <1>kept, <1>task DEF RetryTimerFires, Documents, Delivery, Unfinished, Existing, None
  <2>2. job'.starts = job.starts /\ job'.plan = job.plan /\ job'.planned = job.planned
    BY <1>26, <1>job DEF RetryTimerFires, Redriven, JobDocs
  <2> QED
    BY <1>26, <1>kept, <2>1, <2>2, CalmOwnership DEF RetryTimerFires, Calm, NoNewJudgement, Existing, Open
<1>27. ASSUME OperatorRedrives PROVE Ownership'
  <2>1. 1 \in Existing
    BY <1>27, <1>kept, <1>task DEF OperatorRedrives, Documents, Delivery, Unfinished, Existing, None
  <2>2. job'.starts = job.starts /\ job'.plan = job.plan /\ job'.planned = job.planned
    BY <1>27, <1>job DEF OperatorRedrives, Redriven, JobDocs
  <2>3. UNCHANGED <<task, slot, open, lane, thinking, settling>>
    BY <1>27 DEF OperatorRedrives
  <2>4. Open /\ Open'
    BY <1>27, <1>job DEF OperatorRedrives, Redriven, Open, JobDocs
  <2> QED
    BY <1>kept, <2>1, <2>2, <2>3, <2>4, CalmOwnership DEF Calm, NoNewJudgement, Existing
<1>28. ASSUME ReWake PROVE Ownership'
  <2>1. UNCHANGED <<job, task, slot, open, lane, thinking, settling>>
    BY <1>28 DEF ReWake
  <2> QED
    BY <1>kept, <2>1, CalmOwnership DEF Calm, NoNewJudgement, Existing, Open, Held
<1>29. ASSUME RowsVanish PROVE Ownership'
  <2>1. UNCHANGED <<job, task, slot, open, lane, thinking, settling>>
    BY <1>29 DEF RowsVanish
  <2> QED
    BY <1>kept, <2>1, CalmOwnership DEF Calm, NoNewJudgement, Existing, Open, Held
<1>30. ASSUME RowsReturn PROVE Ownership'
  <2>1. UNCHANGED <<job, task, slot, open, lane, thinking, settling>>
    BY <1>30 DEF RowsReturn
  <2> QED
    BY <1>kept, <2>1, CalmOwnership DEF Calm, NoNewJudgement, Existing, Open, Held
<1>31. ASSUME Pause PROVE Ownership'
  <2>1. PICK c \in JobDocs : c = Command
    BY <1>job, CommandTyped
  <2>2. c.starts = 0 /\ c.gen = job.gen + 1 /\ c.planned = job.planned /\ c.plan = job.plan /\ c.phase = job.phase
    BY <1>job, <2>1, CommandTyped DEF Command, JobDocs
  <2>3. job'.starts = 0 /\ job'.gen = job.gen + 1 /\ job'.planned = job.planned /\ job'.plan = job.plan /\ job'.phase = job.phase
    BY <1>31, <2>1, <2>2 DEF Pause, JobDocs
  <2>4. Existing' = Existing
    BY <1>31, <1>task, SameTasks
  <2> QED
    BY <1>31, <1>kept, <2>3, <2>4, FreshOwnership DEF Pause, Fresh
<1>32. ASSUME Resume PROVE Ownership'
  <2>1. PICK c \in JobDocs : c = Command
    BY <1>job, CommandTyped
  <2>2. c.starts = 0 /\ c.gen = job.gen + 1 /\ c.planned = job.planned /\ c.plan = job.plan /\ c.phase = job.phase
    BY <1>job, <2>1, CommandTyped DEF Command, JobDocs
  <2>3. job'.starts = 0 /\ job'.gen = job.gen + 1 /\ job'.planned = job.planned /\ job'.plan = job.plan /\ job'.phase = job.phase
    BY <1>32, <2>1, <2>2 DEF Resume, JobDocs
  <2> QED
    BY <1>32, <1>kept, <2>3, FreshOwnership DEF Resume, Fresh, Existing
<1>33. ASSUME Steer PROVE Ownership'
  <2>1. PICK c \in JobDocs : c = Command
    BY <1>job, CommandTyped
  <2>2. c.starts = 0 /\ c.gen = job.gen + 1 /\ c.planned = job.planned /\ c.plan = job.plan /\ c.phase = job.phase
    BY <1>job, <2>1, CommandTyped DEF Command, JobDocs
  <2>3. job'.starts = 0 /\ job'.gen = job.gen + 1 /\ job'.planned = job.planned /\ job'.phase = job.phase
    BY <1>33, <2>1, <2>2 DEF Steer, JobDocs
  <2> QED
    BY <1>33, <1>kept, <2>3, FreshOwnership DEF Steer, SteerGranted, Fresh, Existing
<1>34. ASSUME AppendInstruction PROVE Ownership'
  <2>1. UNCHANGED <<job, task, slot, open, lane, thinking, settling>>
    BY <1>34 DEF AppendInstruction
  <2> QED
    BY <1>kept, <2>1, CalmOwnership DEF Calm, NoNewJudgement, Existing, Open, Held
<1>35. ASSUME Cancel PROVE Ownership'
  <2>1. PICK c \in JobDocs : c = Command
    BY <1>job, CommandTyped
  <2>2. c.starts = 0 /\ c.gen = job.gen + 1 /\ c.planned = job.planned /\ c.plan = job.plan /\ c.phase = job.phase
    BY <1>job, <2>1, CommandTyped DEF Command, JobDocs
  <2>3. job'.starts = 0 /\ job'.gen = job.gen + 1 /\ job'.planned = job.planned /\ job'.plan = job.plan
    BY <1>35, <2>1, <2>2 DEF Cancel, JobDocs
  <2>4. Existing' = Existing
    BY <1>35, <1>task, SameTasks
  <2> QED
    BY <1>35, <1>kept, <2>3, <2>4, FreshOwnership DEF Cancel, Fresh
<1>36. ASSUME StopCommits PROVE Ownership'
  <2>1. ~Open' /\ job'.starts = job.starts /\ job'.plan = job.plan /\ job'.planned = job.planned
    BY <1>36, <1>job DEF StopCommits, Terminate, JobDocs, Open, None
  <2> QED
    BY <1>36, <1>kept, <2>1, CalmOwnership DEF StopCommits, Calm, NoNewJudgement, Existing
<1>37. ASSUME AnswerQuestion PROVE Ownership'
  <2>1. job'.starts = 0 /\ job'.gen = job.gen /\ job'.plan = job.plan /\ job'.planned = job.planned
    BY <1>37, <1>job DEF AnswerQuestion, JobDocs
  <2> QED
    BY <1>37, <1>kept, <2>1, FreshOwnership DEF AnswerQuestion, Fresh, Existing
<1>38. ASSUME ExpireQuestion PROVE Ownership'
  <2>1. UNCHANGED <<job, task, slot, lane, thinking, settling>> /\ ~open'
    BY <1>38 DEF ExpireQuestion
  <2> QED
    BY <1>kept, <2>1 DEF Ownership, PlannedOnce, Existing, Open, PlanningCandidate, Held
<1> QED
  BY <1>1, <1>2, <1>3, <1>4, <1>5, <1>6, <1>7, <1>8, <1>9, <1>10, <1>11, <1>12, <1>13, <1>14,
     <1>15, <1>16, <1>17, <1>18, <1>19, <1>20, <1>21, <1>22, <1>23, <1>24, <1>25, <1>26, <1>27,
     <1>28, <1>29, <1>30, <1>31, <1>32, <1>33, <1>34, <1>35, <1>36, <1>37, <1>38
  DEF Next, Lane, Planner

LEMMA OwnershipHolds == Spec => []Ownership
<1>1. Init => Ownership
  BY TasksAreNumbered
  DEF Init, Ownership, PlannedOnce, Existing, Asleep, Judging, NoSlot, Held
<1>2. Documents /\ Ownership /\ [Next]_vars => Ownership'
  <2>1. Ownership /\ UNCHANGED vars => Ownership'
    BY DEF Ownership, PlannedOnce, Existing, Open, PlanningCandidate, Held, vars
  <2> QED
    BY <2>1, OwnershipKept
<1> QED
  BY <1>1, <1>2, DocumentsHold, PTL DEF Spec

\* For any scenarios the decider is asked once for one demand, whatever recovery, the owner
\* and other planners do meanwhile, and no work is done under a plan that was replaced.
THEOREM AsksThePlannerOnce == Spec => []PlannedOnce
<1>1. Ownership => PlannedOnce
  BY DEF Ownership
<1> QED
  BY <1>1, OwnershipHolds, PTL

-----------------------------------------------------------------------------
(* The judge.                                                               *)

\* The sets that the budget counts are finite, and there is a lane to count.
LEMMA FiniteCounts ==
  ASSUME TypeOK
  PROVE  /\ IsFiniteSet(Existing) /\ Cardinality(Existing) \in Nat
         /\ IsFiniteSet(config.lanes) /\ Cardinality(config.lanes) \in Nat \ {0}
         /\ IsFiniteSet(Retrying) /\ Cardinality(Retrying) \in Nat
         /\ Cardinality(Retrying) <= Cardinality(config.lanes)
<1>1. IsFiniteSet(Tasks)
  BY TasksAreNumbered, FS_Interval DEF Tasks
<1>2. IsFiniteSet(Existing) /\ Cardinality(Existing) \in Nat
  BY <1>1, FS_Subset, FS_CardinalityType DEF Existing
<1>3. IsFiniteSet(config.lanes) /\ config.lanes # {}
  BY ScenarioAssumption DEF TypeOK, IsScenario
<1>4. Cardinality(config.lanes) \in Nat \ {0}
  BY <1>3, FS_CardinalityType, FS_EmptySet
<1>5. Retrying \subseteq config.lanes
  BY DEF Retrying
<1> QED
  BY <1>2, <1>3, <1>4, <1>5, FS_Subset, FS_CardinalityType

\* Lanes that go to sleep, or on without a decision for another attempt.
LanesThrifty ==
  \A l \in Lanes :
    /\ lane'[l].step = "retry" => lane[l].step = "retry"
    /\ lane'[l].step # "asleep" => lane[l].step # "asleep" \/ l \in config.lanes

\* A step after which there are the same tasks, and no lane has decided to add one.
Thrifty ==
  /\ config' = config /\ Existing' = Existing
  /\ LanesThrifty

LEMMA ThriftyBudget ==
  ASSUME TypeOK, Budget, Thrifty
  PROVE  Budget'
<1>1. config.lanes \subseteq Lanes
  BY DEF TypeOK, Lanes
<1>2. Retrying' \subseteq Retrying
  BY <1>1 DEF Thrifty, LanesThrifty, Retrying
<1>3. Cardinality(Retrying') <= Cardinality(Retrying)
  BY <1>2, FiniteCounts, FS_Subset
<1>4. /\ Cardinality(Retrying') \in Nat /\ Cardinality(Retrying) \in Nat
      /\ Cardinality(Existing) \in Nat /\ Cardinality(config.lanes) \in Nat
      /\ MaxLaneTasks \in Nat
  BY FiniteCounts, <1>2, FS_Subset, FS_CardinalityType, Limits
<1>5. Cardinality(Existing') = Cardinality(Existing) /\ config' = config
  BY DEF Thrifty
<1>6. Cardinality(Existing') + Cardinality(Retrying')
        <= MaxLaneTasks + Cardinality(config'.lanes) - 1
  BY <1>3, <1>4, <1>5 DEF Budget
<1>7. \A l \in Lanes : lane'[l].step # "asleep" => l \in config'.lanes
  BY <1>5 DEF Budget, Thrifty, LanesThrifty
<1> QED
  BY <1>6, <1>7 DEF Budget

LEMMA LanesSpendNothing ==
  ASSUME lane \in [Lanes -> LaneMemories], NEW l \in Lanes
  PROVE  /\ Sleep(l) => LanesThrifty
         /\ \A s \in LaneSteps \ {"retry"} :
              lane[l].step # "asleep" /\ To(l, s) => LanesThrifty
<1>1. Sleep(l) => LanesThrifty
  BY DEF Sleep, Asleep, LanesThrifty, LaneMemories
<1>2. ASSUME NEW s \in LaneSteps \ {"retry"}, lane[l].step # "asleep", To(l, s)
      PROVE  LanesThrifty
  BY <1>2 DEF To, LanesThrifty, LaneMemories
<1> QED
  BY <1>1, <1>2

\* Every action keeps tasks and decided attempts, together, within the bound.
LEMMA BudgetKept == Documents /\ Ownership /\ Budget /\ Next => Budget'
<1> SUFFICES ASSUME Documents, Ownership, Budget, Next PROVE Budget'
  OBVIOUS
<1>kept. TypeOK /\ Ownership /\ Budget
  BY DEF Documents
<1>task. task \in [Tasks -> TaskDocs] /\ 1 \in Tasks
  BY TasksAreNumbered DEF TypeOK, Documents
<1>lane. lane \in [Lanes -> LaneMemories]
  BY DEF TypeOK, Documents
<1>next. ASSUME NEW l \in Lanes PROVE lane[l].next # "retry" /\ lane[l].next \in LaneSteps
  BY <1>lane DEF Ownership, Judging, LaneMemories
<1>1. ASSUME NEW l \in Lanes, LaneClaimsWake(l) PROVE Budget'
  <2>1. UNCHANGED <<config, task>>
    BY <1>1 DEF LaneClaimsWake
  <2>2. LanesThrifty
    BY <1>1, <1>lane DEF LaneClaimsWake, LaneMemories, LanesThrifty
  <2> QED
    BY <1>kept, <2>1, <2>2, ThriftyBudget DEF Thrifty, Existing
<1>2. ASSUME NEW l \in Lanes, LaneReads(l) PROVE Budget'
  <2>1. UNCHANGED <<config, task>> /\ lane[l].step = "awake"
    BY <1>2 DEF LaneReads
  <2>2. PICK n \in LaneSteps \ {"retry"} : n = AfterJudge
    BY DEF AfterJudge, LaneSteps
  <2>3. PICK q : q = IF AfterJudge = "dispatch" THEN FirstReady ELSE NoTask
    OBVIOUS
  <2>4. \/ Sleep(l)
        \/ \E s \in LaneSteps \ {"retry"} :
             lane' = [lane EXCEPT ![l].next = n, ![l].step = s, ![l].pick = q]
    BY <1>2, <2>2, <2>3 DEF LaneReads, LaneSteps
  <2>5. LanesThrifty
    <3>1. ASSUME NEW s \in LaneSteps \ {"retry"},
                 lane' = [lane EXCEPT ![l].next = n, ![l].step = s, ![l].pick = q]
          PROVE  LanesThrifty
      BY <1>lane, <2>1, <3>1 DEF LaneMemories, LanesThrifty
    <3> QED
      BY <1>lane, <2>4, <3>1, LanesSpendNothing
  <2> QED
    BY <1>kept, <2>1, <2>5, ThriftyBudget DEF Thrifty, Existing
<1>3. ASSUME NEW l \in Lanes, LaneAdvances(l) PROVE Budget'
  <2>1. UNCHANGED <<config, task>>
    BY <1>3 DEF LaneAdvances
  <2>2. LanesThrifty
    BY <1>3, <1>lane, LanesSpendNothing DEF LaneAdvances
  <2> QED
    BY <1>kept, <2>1, <2>2, ThriftyBudget DEF Thrifty, Existing
<1>4. ASSUME NEW l \in Lanes, LaneDispatches(l) PROVE Budget'
  <2>1. config' = config /\ Existing' = Existing
    BY <1>4, <1>task, SameTasks DEF LaneDispatches
  <2>2. LanesThrifty
    <3>1. PICK g \in Nat : g = lane[l].gen
      BY <1>lane DEF LaneMemories
    <3>2. /\ lane[l].step = "dispatch"
          /\ \/ Sleep(l)
             \/ lane' = [lane EXCEPT ![l] = [Asleep EXCEPT !.step = "awake", !.gen = g]]
      BY <1>4, <3>1 DEF LaneDispatches
    <3>3. CASE lane' = [lane EXCEPT ![l] = [Asleep EXCEPT !.step = "awake", !.gen = g]]
      BY <1>lane, <3>2, <3>3 DEF Asleep, LaneMemories, LanesThrifty
    <3> QED
      BY <1>lane, <3>2, <3>3, LanesSpendNothing
  <2> QED
    BY <1>kept, <2>1, <2>2, ThriftyBudget DEF Thrifty
<1>5. ASSUME NEW l \in Lanes, JudgeReads(l) PROVE Budget'
  <2>1. UNCHANGED <<config, task>> /\ lane[l].step = "judge" /\ Existing' = Existing
    BY <1>5 DEF JudgeReads, Existing
  <2>2. CASE Open /\ job.control = "NONE" /\ AllTerminal
    <3>1. PICK choice \in JudgeChoices :
            lane' = [lane EXCEPT ![l].step = choice, ![l].pick = Last,
                                 ![l].boundary = ProsePassedOff]
      BY <1>5, <2>2 DEF JudgeReads
    <3>2. /\ lane'[l].step = choice
          /\ \A u \in Lanes \ {l} : lane'[u] = lane[u]
      BY <1>lane, <3>1 DEF LaneMemories
    <3>3. CASE choice # "retry"
      BY <1>kept, <2>1, <3>2, <3>3, ThriftyBudget DEF Thrifty, LanesThrifty
    <3>4. CASE choice = "retry"
      <4>1. ~Exhausted
        BY <3>1, <3>4 DEF JudgeChoices
      <4>2. Retrying' \subseteq config.lanes
        BY <2>1 DEF Retrying
      <4>3. /\ Cardinality(Existing) \in Nat /\ Cardinality(config.lanes) \in Nat
            /\ Cardinality(Retrying') \in Nat /\ MaxLaneTasks \in Nat
            /\ Cardinality(Retrying') <= Cardinality(config.lanes)
        BY <1>kept, <4>2, FiniteCounts, FS_Subset, FS_CardinalityType, Limits
      <4>4. Cardinality(Existing) + Cardinality(Retrying')
              <= MaxLaneTasks + Cardinality(config.lanes) - 1
        BY <2>1, <4>1, <4>3 DEF Exhausted
      <4>5. \A u \in Lanes : lane'[u].step # "asleep" => u \in config.lanes
        BY <1>kept, <2>1, <3>2 DEF Budget
      <4> QED
        BY <2>1, <4>4, <4>5 DEF Budget
    <3> QED
      BY <3>3, <3>4
  <2>3. CASE GoOn(l, lane[l].next)
    <3>1. LanesThrifty
      BY <1>lane, <1>next, <2>1, <2>3, LanesSpendNothing DEF GoOn
    <3> QED
      BY <1>kept, <2>1, <3>1, ThriftyBudget DEF Thrifty
  <2> QED
    BY <1>5, <2>2, <2>3 DEF JudgeReads
<1>6. ASSUME NEW l \in Lanes, JudgeAsks(l) PROVE Budget'
  <2>1. UNCHANGED <<config, task>>
    BY <1>6 DEF JudgeAsks
  <2>2. LanesThrifty
    BY <1>6, <1>lane, LanesSpendNothing DEF JudgeAsks, LaneSteps
  <2> QED
    BY <1>kept, <2>1, <2>2, ThriftyBudget DEF Thrifty, Existing
<1>7. ASSUME NEW l \in Lanes, JudgeReplans(l) PROVE Budget'
  <2>1. config' = config /\ lane[l].step = "retry"
    BY <1>7 DEF JudgeReplans
  <2>2. CASE ReplanGranted
    <3>1. PICK t \in Tasks \ Existing :
            /\ task' = [task EXCEPT ![t].phase = "READY", ![t].replaces = lane[l].pick]
            /\ To(l, "reopen")
      BY <1>7, <2>2 DEF JudgeReplans
    <3>2. Existing' = Existing \cup {t}
      BY <1>task, <3>1 DEF Existing, TaskDocs
    <3>3. lane'[l].step = "reopen" /\ \A u \in Lanes \ {l} : lane'[u] = lane[u]
      BY <1>lane, <3>1 DEF To, LaneMemories
    <3>4. l \in Retrying /\ config.lanes \subseteq Lanes
      BY <1>kept, <2>1 DEF Budget, Retrying, TypeOK, Lanes
    <3>5. Retrying' = Retrying \ {l}
      BY <2>1, <3>3, <3>4 DEF Retrying
    <3>6. /\ Cardinality(Existing') = Cardinality(Existing) + 1
          /\ Cardinality(Retrying') = Cardinality(Retrying) - 1
      BY <1>kept, <3>1, <3>2, <3>4, <3>5, FiniteCounts, FS_AddElement, FS_RemoveElement
    <3>7. /\ Cardinality(Existing) \in Nat /\ Cardinality(Retrying) \in Nat
          /\ Cardinality(config.lanes) \in Nat /\ MaxLaneTasks \in Nat
      BY <1>kept, FiniteCounts, Limits
    <3>8. Cardinality(Existing') + Cardinality(Retrying')
            <= MaxLaneTasks + Cardinality(config.lanes) - 1
      BY <1>kept, <3>6, <3>7 DEF Budget
    <3>9. \A u \in Lanes : lane'[u].step # "asleep" => u \in config.lanes
      BY <1>kept, <3>3, <3>4 DEF Budget, Retrying
    <3> QED
      BY <2>1, <3>8, <3>9 DEF Budget
  <2>3. CASE ~ReplanGranted
    <3>1. task' = task /\ To(l, "finish")
      BY <1>7, <2>3 DEF JudgeReplans
    <3>2. LanesThrifty
      BY <1>lane, <2>1, <3>1, LanesSpendNothing DEF LaneSteps
    <3> QED
      BY <1>kept, <2>1, <3>1, <3>2, ThriftyBudget DEF Thrifty, Existing
  <2> QED
    BY <2>2, <2>3
<1>8. ASSUME NEW l \in Lanes, JudgeReopens(l) PROVE Budget'
  <2>1. UNCHANGED <<config, task>>
    BY <1>8 DEF JudgeReopens
  <2>2. LanesThrifty
    BY <1>8, <1>lane, LanesSpendNothing DEF JudgeReopens
  <2> QED
    BY <1>kept, <2>1, <2>2, ThriftyBudget DEF Thrifty, Existing
<1>9. ASSUME NEW l \in Lanes, JudgeFinishes(l) PROVE Budget'
  <2>1. UNCHANGED <<config, task>>
    BY <1>9 DEF JudgeFinishes
  <2>2. LanesThrifty
    BY <1>9, <1>lane, <1>next, LanesSpendNothing DEF JudgeFinishes, GoOn
  <2> QED
    BY <1>kept, <2>1, <2>2, ThriftyBudget DEF Thrifty, Existing
<1>10. ASSUME NEW l \in Lanes, LaneDies(l) PROVE Budget'
  <2>1. UNCHANGED <<config, task>>
    BY <1>10 DEF LaneDies
  <2>2. LanesThrifty
    BY <1>10, <1>lane, LanesSpendNothing DEF LaneDies
  <2> QED
    BY <1>kept, <2>1, <2>2, ThriftyBudget DEF Thrifty, Existing
<1>11. ASSUME ActivationClaims PROVE Budget'
  <2>1. UNCHANGED <<config, task, lane>>
    BY <1>11 DEF ActivationClaims
  <2> QED
    BY <1>kept, <2>1, ThriftyBudget DEF Thrifty, LanesThrifty, Existing
<1>12. ASSUME ActivationStarts PROVE Budget'
  <2>1. UNCHANGED <<config, task, lane>>
    BY <1>12 DEF ActivationStarts
  <2> QED
    BY <1>kept, <2>1, ThriftyBudget DEF Thrifty, LanesThrifty, Existing
<1>13. ASSUME PlanningCommits PROVE Budget'
  <2>1. Existing = {} /\ UNCHANGED <<config, lane>>
    BY <1>13 DEF PlanningCommits, Authorized
  <2>2. Retrying' = {}
    BY <2>1, <1>kept DEF Ownership, Judging, Retrying, TypeOK, Lanes
  <2>3. Existing' = {1}
    BY <1>13, <1>task, <2>1 DEF PlanningCommits, Existing, TaskDocs
  <2>4. Cardinality(Existing') = 1 /\ Cardinality(Retrying') = 0
    BY <2>2, <2>3, FS_Singleton, FS_EmptySet
  <2>5. Cardinality(config.lanes) \in Nat \ {0} /\ MaxLaneTasks \in Nat \ {0}
    BY <1>kept, FiniteCounts, LimitAssumption
  <2> QED
    BY <1>kept, <2>1, <2>4, <2>5 DEF Budget
<1>14. ASSUME NEW p \in Generations, PlannerProposes(p) PROVE Budget'
  <2>1. UNCHANGED <<config, task, lane>>
    BY <1>14 DEF PlannerProposes
  <2> QED
    BY <1>kept, <2>1, ThriftyBudget DEF Thrifty, LanesThrifty, Existing
<1>15. ASSUME NEW p \in Generations, PlannerAsks(p) PROVE Budget'
  <2>1. UNCHANGED <<config, task, lane>>
    BY <1>15 DEF PlannerAsks
  <2> QED
    BY <1>kept, <2>1, ThriftyBudget DEF Thrifty, LanesThrifty, Existing
<1>16. ASSUME NEW p \in Generations, PlannerEnds(p) PROVE Budget'
  <2>1. UNCHANGED <<config, task, lane>>
    BY <1>16 DEF PlannerEnds
  <2> QED
    BY <1>kept, <2>1, ThriftyBudget DEF Thrifty, LanesThrifty, Existing
<1>17. ASSUME NEW p \in Generations, PlannerSettles(p) PROVE Budget'
  <2>1. UNCHANGED <<config, task, lane>>
    BY <1>17 DEF PlannerSettles
  <2> QED
    BY <1>kept, <2>1, ThriftyBudget DEF Thrifty, LanesThrifty, Existing
<1>18. ASSUME NEW p \in Generations, PlannerDies(p) PROVE Budget'
  <2>1. UNCHANGED <<config, task, lane>>
    BY <1>18 DEF PlannerDies
  <2> QED
    BY <1>kept, <2>1, ThriftyBudget DEF Thrifty, LanesThrifty, Existing
<1>19. ASSUME DrainApplies PROVE Budget'
  <2>1. UNCHANGED <<config, lane>>
    BY <1>19 DEF DrainApplies
  <2>2. Existing' = Existing
    BY <1>19, <1>task, SameTasks
  <2> QED
    BY <1>kept, <2>1, <2>2, ThriftyBudget DEF Thrifty, LanesThrifty
<1>20. ASSUME DrainPostpones PROVE Budget'
  <2>1. UNCHANGED <<config, task, lane>>
    BY <1>20 DEF DrainPostpones
  <2> QED
    BY <1>kept, <2>1, ThriftyBudget DEF Thrifty, LanesThrifty, Existing
<1>21. ASSUME ControlCommits PROVE Budget'
  <2>1. UNCHANGED <<config, task, lane>>
    BY <1>21 DEF ControlCommits
  <2> QED
    BY <1>kept, <2>1, ThriftyBudget DEF Thrifty, LanesThrifty, Existing
<1>22. ASSUME ActivationAges PROVE Budget'
  <2>1. UNCHANGED <<config, task, lane>>
    BY <1>22 DEF ActivationAges
  <2> QED
    BY <1>kept, <2>1, ThriftyBudget DEF Thrifty, LanesThrifty, Existing
<1>23. ASSUME ActivationReaped PROVE Budget'
  <2>1. UNCHANGED <<config, task, lane>>
    BY <1>23 DEF ActivationReaped
  <2> QED
    BY <1>kept, <2>1, ThriftyBudget DEF Thrifty, LanesThrifty, Existing
<1>24. ASSUME NEW t \in Tasks, StoppedWorkEnds(t) PROVE Budget'
  <2>1. UNCHANGED <<config, lane>>
    BY <1>24 DEF StoppedWorkEnds
  <2>2. Existing' = Existing
    BY <1>24, <1>task, SameTasks
  <2> QED
    BY <1>kept, <2>1, <2>2, ThriftyBudget DEF Thrifty, LanesThrifty
<1>25. ASSUME NEW t \in Tasks, NEW a \in AllAnswers, WorkerAnswers(t, a) PROVE Budget'
  <2>1. UNCHANGED <<config, lane>>
    BY <1>25 DEF WorkerAnswers
  <2>2. Existing' = Existing
    BY <1>25, <1>task, SameTasks
  <2> QED
    BY <1>kept, <2>1, <2>2, ThriftyBudget DEF Thrifty, LanesThrifty
<1>26. ASSUME RetryTimerFires PROVE Budget'
  <2>1. UNCHANGED <<config, task, lane>>
    BY <1>26 DEF RetryTimerFires
  <2> QED
    BY <1>kept, <2>1, ThriftyBudget DEF Thrifty, LanesThrifty, Existing
<1>27. ASSUME OperatorRedrives PROVE Budget'
  <2>1. UNCHANGED <<config, task, lane>>
    BY <1>27 DEF OperatorRedrives
  <2> QED
    BY <1>kept, <2>1, ThriftyBudget DEF Thrifty, LanesThrifty, Existing
<1>28. ASSUME ReWake PROVE Budget'
  <2>1. UNCHANGED <<config, task, lane>>
    BY <1>28 DEF ReWake
  <2> QED
    BY <1>kept, <2>1, ThriftyBudget DEF Thrifty, LanesThrifty, Existing
<1>29. ASSUME RowsVanish PROVE Budget'
  <2>1. UNCHANGED <<config, task, lane>>
    BY <1>29 DEF RowsVanish
  <2> QED
    BY <1>kept, <2>1, ThriftyBudget DEF Thrifty, LanesThrifty, Existing
<1>30. ASSUME RowsReturn PROVE Budget'
  <2>1. UNCHANGED <<config, task, lane>>
    BY <1>30 DEF RowsReturn
  <2> QED
    BY <1>kept, <2>1, ThriftyBudget DEF Thrifty, LanesThrifty, Existing
<1>31. ASSUME Pause PROVE Budget'
  <2>1. UNCHANGED <<config, lane>>
    BY <1>31 DEF Pause
  <2>2. Existing' = Existing
    BY <1>31, <1>task, SameTasks
  <2> QED
    BY <1>kept, <2>1, <2>2, ThriftyBudget DEF Thrifty, LanesThrifty
<1>32. ASSUME Resume PROVE Budget'
  <2>1. UNCHANGED <<config, task, lane>>
    BY <1>32 DEF Resume
  <2> QED
    BY <1>kept, <2>1, ThriftyBudget DEF Thrifty, LanesThrifty, Existing
<1>33. ASSUME Steer PROVE Budget'
  <2>1. UNCHANGED <<config, task, lane>>
    BY <1>33 DEF Steer
  <2> QED
    BY <1>kept, <2>1, ThriftyBudget DEF Thrifty, LanesThrifty, Existing
<1>34. ASSUME AppendInstruction PROVE Budget'
  <2>1. UNCHANGED <<config, task, lane>>
    BY <1>34 DEF AppendInstruction
  <2> QED
    BY <1>kept, <2>1, ThriftyBudget DEF Thrifty, LanesThrifty, Existing
<1>35. ASSUME Cancel PROVE Budget'
  <2>1. UNCHANGED <<config, lane>>
    BY <1>35 DEF Cancel
  <2>2. Existing' = Existing
    BY <1>35, <1>task, SameTasks
  <2> QED
    BY <1>kept, <2>1, <2>2, ThriftyBudget DEF Thrifty, LanesThrifty
<1>36. ASSUME StopCommits PROVE Budget'
  <2>1. UNCHANGED <<config, task, lane>>
    BY <1>36 DEF StopCommits
  <2> QED
    BY <1>kept, <2>1, ThriftyBudget DEF Thrifty, LanesThrifty, Existing
<1>37. ASSUME AnswerQuestion PROVE Budget'
  <2>1. UNCHANGED <<config, task, lane>>
    BY <1>37 DEF AnswerQuestion
  <2> QED
    BY <1>kept, <2>1, ThriftyBudget DEF Thrifty, LanesThrifty, Existing
<1>38. ASSUME ExpireQuestion PROVE Budget'
  <2>1. UNCHANGED <<config, task, lane>>
    BY <1>38 DEF ExpireQuestion
  <2> QED
    BY <1>kept, <2>1, ThriftyBudget DEF Thrifty, LanesThrifty, Existing
<1> QED
  BY <1>1, <1>2, <1>3, <1>4, <1>5, <1>6, <1>7, <1>8, <1>9, <1>10, <1>11, <1>12, <1>13, <1>14,
     <1>15, <1>16, <1>17, <1>18, <1>19, <1>20, <1>21, <1>22, <1>23, <1>24, <1>25, <1>26, <1>27,
     <1>28, <1>29, <1>30, <1>31, <1>32, <1>33, <1>34, <1>35, <1>36, <1>37, <1>38
  DEF Next, Lane, Planner

LEMMA BudgetHolds == Spec => []Budget
<1>1. Init => Budget
  <2>1. ASSUME Init PROVE TypeOK /\ Existing = {} /\ Retrying = {}
    BY <2>1, InitTyped DEF Documents, Init, Existing, Retrying, Asleep, TypeOK, Lanes
  <2>2. ASSUME Init PROVE \A l \in Lanes : lane[l].step = "asleep"
    BY <2>2 DEF Init, Asleep
  <2> QED
    BY <2>1, <2>2, FiniteCounts, FS_EmptySet, LimitAssumption DEF Budget
<1>2. Documents /\ Ownership /\ Budget /\ [Next]_vars => Budget'
  <2>1. Budget /\ UNCHANGED vars => Budget'
    BY DEF Budget, Existing, Retrying, vars
  <2> QED
    BY <2>1, BudgetKept
<1> QED
  BY <1>1, <1>2, DocumentsHold, OwnershipHolds, PTL DEF Spec

\* However the lanes interleave, the judge orders at most MaxLaneTasks attempts, and one
\* more for every further lane.
THEOREM TheJudgeIsBounded == Spec => []ReplansAreBounded
<1>1. Documents /\ Budget => ReplansAreBounded
  <2>1. ASSUME Documents, Budget PROVE ReplansAreBounded
    <3>1. /\ Cardinality(Existing) \in Nat /\ Cardinality(Retrying) \in Nat
          /\ Cardinality(config.lanes) \in Nat /\ MaxLaneTasks \in Nat
      BY <2>1, FiniteCounts, Limits DEF Documents
    <3> QED
      BY <2>1, <3>1 DEF Budget, ReplansAreBounded
  <2> QED
    BY <2>1
<1> QED
  BY <1>1, DocumentsHold, BudgetHolds, PTL
=============================================================================
