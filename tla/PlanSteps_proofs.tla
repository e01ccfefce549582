--------------------------- MODULE PlanSteps_proofs ---------------------------
(***************************************************************************)
(* Theorems about PlanSteps for every length of the plan, every number of  *)
(* lane processes, losses, pauses and questions, and however often the     *)
(* plan is turned into tasks.                                              *)
(*                                                                         *)
(* The argument is one inductive invariant, Inductive.  Most steps move a  *)
(* single task that is not terminal: StepMoves is what they share.  Steps  *)
(* that move many at once share PlanMoves.                                 *)
(***************************************************************************)
EXTENDS PlanSteps, TLAPS

USE PlanAssumption, AnswersAssumption

\* The step before a step is another step of the same chain.
LEMMA PredecessorIsStep ==
  ASSUME NEW t \in Steps, Awaits(t)
  PROVE  /\ Predecessor(t) \in Steps
         /\ Predecessor(t)[1] = t[1]
         /\ First(Predecessor(t)) = First(t)
  BY DEF Steps, Chains, Awaits, Predecessor, First

\* A chain has a first step, which waits for no other.
LEMMA FirstIsStep ==
  ASSUME NEW t \in Steps
  PROVE  First(t) \in Steps /\ First(First(t)) = First(t) /\ First(t)[1] = t[1]
  BY DEF Steps, Chains, First

\* The parent is no step, and no task is NoTask.
LEMMA ParentIsNoStep == Parent \notin Steps /\ NoTask \notin Tasks /\ Parent \in Tasks
  BY DEF Parent, NoTask, Tasks, Steps, Chains

\* The initial state satisfies the invariant.
LEMMA InitInductive == Init => Inductive
<1> SUFFICES ASSUME Init PROVE Inductive
  OBVIOUS
<1>1. TypeOK
  BY ParentIsNoStep DEF Init, TypeOK, JobDocs, TaskDocs, LaneMemories, JobPhases, TaskPhases,
         TerminalTask, LaneSteps, Asleep, None, Tasks
<1>2. \A t \in Steps : task[t] = [phase |-> "ABSENT", live |-> "none", losses |-> 0]
  BY ParentIsNoStep DEF Init, Tasks
<1>3. task[Parent] = [phase |-> "WAITING_DEPENDENCY", live |-> "none", losses |-> 0]
  BY ParentIsNoStep DEF Init
<1>4. ChainsAreWhole
  BY <1>2, FirstIsStep DEF ChainsAreWhole, Exists, Init, Tasks
<1>5. OrderedSteps /\ LiveMatchesPhase /\ EdgesCover
  BY <1>2 DEF OrderedSteps, LiveMatchesPhase, EdgesCover, Untouched, Exists, Terminal,
              TerminalTask
<1>6. QuestionsWait
  BY DEF Init, QuestionsWait, Tasks
<1>7. ParentWaits /\ ParentSettlesLast /\ SilentPlan
  BY <1>3, ParentIsNoStep DEF Init, ParentWaits, ParentSettlesLast, SilentPlan, Open, Tasks
<1>8. LaneKnows
  BY ParentIsNoStep DEF Init, LaneKnows, Asleep, Open, None, NoTask, Parent
<1> QED
  BY <1>1, <1>4, <1>5, <1>6, <1>7, <1>8 DEF Inductive

\* A phase and a budget a step may take next, given the step before it.
Follows(t, d) ==
  /\ d.phase # "ABSENT"
  /\ Awaits(t) /\ (d.phase \notin Untouched \/ d.live # "none" \/ d.losses > 0)
       => task[Predecessor(t)].phase = "SUCCEEDED"
  /\ Awaits(t) /\ d.phase = "BLOCKED" =>
       Terminal(Predecessor(t)) /\ task[Predecessor(t)].phase # "SUCCEEDED"

\* Steps that are not terminal move under their predecessors, nothing else moves:
\* the order of the plan, its edges and its verdict stay what they were.
LEMMA PlanMoves ==
  ASSUME Inductive,
         edges' = edges,
         ~Open' => ~Open,
         Terminal(Parent) \/ task'[Parent].phase \in {"SUCCEEDED", "FAILED"}
           => task'[Parent] = task[Parent],
         \A u \in Steps :
           \/ task'[u] = task[u]
           \/ Exists(u) /\ ~Terminal(u) /\ Follows(u, task'[u]),
         \A u \in Steps : ~Exists(u) => open'[u] = 0
  PROVE  /\ ChainsAreWhole' /\ EdgesCover' /\ OrderedSteps'
         /\ ParentSettlesLast' /\ SilentPlan'
<1>1. \A u \in Steps : Exists(u)' <=> Exists(u)
  BY DEF Exists, Follows
<1>2. \A u \in Steps : Terminal(u) => task'[u] = task[u] /\ Terminal(u)'
  BY DEF Terminal
<1>3. ChainsAreWhole'
  <2> SUFFICES ASSUME NEW t \in Steps
               PROVE  /\ Exists(t)' <=> Exists(First(t))'
                      /\ ~Exists(t)' => /\ task'[t].live = "none" /\ task'[t].losses = 0
                                        /\ open'[t] = 0 /\ t \notin edges'
    BY DEF ChainsAreWhole
  <2> QED
    BY <1>1, FirstIsStep DEF Inductive, ChainsAreWhole
<1>4. EdgesCover'
  BY <1>1, <1>2 DEF Inductive, EdgesCover
<1>5. OrderedSteps'
  <2> SUFFICES ASSUME NEW t \in Steps, Awaits(t)
               PROVE  /\ task'[t].phase \notin Untouched \/ task'[t].live # "none"
                         \/ task'[t].losses > 0
                           => task'[Predecessor(t)].phase = "SUCCEEDED"
                      /\ task'[t].phase = "BLOCKED" =>
                           Terminal(Predecessor(t))' /\ task'[Predecessor(t)].phase # "SUCCEEDED"
    BY DEF OrderedSteps, Untouched
  <2>1. Predecessor(t) \in Steps
    BY PredecessorIsStep
  <2>2. task[Predecessor(t)].phase = "SUCCEEDED" => Terminal(Predecessor(t))
    BY DEF Terminal, TerminalTask
  <2>3. Follows(t, task[t]) \/ ~Exists(t)
    BY DEF Inductive, OrderedSteps, Follows, Exists
  <2>4. CASE ~Exists(t)
    <3>1. task'[t] = task[t]
      BY <2>4
    <3> QED
      BY <2>4, <3>1 DEF Inductive, ChainsAreWhole, Exists, Untouched
  <2>5. CASE Exists(t)
    <3>1. Follows(t, task'[t])
      BY <2>3, <2>5
    <3> QED
      BY <1>2, <2>1, <2>2, <3>1 DEF Follows
  <2> QED
    BY <2>4, <2>5
<1>6. ParentSettlesLast'
  <2> SUFFICES ASSUME task'[Parent].phase \in {"SUCCEEDED", "FAILED"}
               PROVE  /\ \A t \in Steps : Exists(t)' => Terminal(t)'
                      /\ edges' = {}
                      /\ task'[Parent].phase = "FAILED" =>
                           \E t \in Steps : task'[t].phase \in FailedTask
    BY DEF ParentSettlesLast, FailedTask
  <2>1. task'[Parent] = task[Parent]
    OBVIOUS
  <2>2. \A t \in Steps : Exists(t) => Terminal(t)
    BY <2>1 DEF Inductive, ParentSettlesLast
  <2>3. \A t \in Steps : task'[t] = task[t]
    BY <2>2
  <2> QED
    BY <1>1, <1>2, <2>1, <2>2, <2>3 DEF Inductive, ParentSettlesLast
<1>7. SilentPlan'
  <2> SUFFICES ASSUME ~Open' PROVE AllTerminal' /\ edges' = {}
    BY DEF SilentPlan
  <2>1. AllTerminal /\ edges = {}
    BY DEF Inductive, SilentPlan
  <2>2. Exists(Parent)
    BY DEF Inductive, ParentWaits, Exists
  <2>3. Terminal(Parent) /\ Terminal(Parent)'
    BY <2>1, <2>2, ParentIsNoStep DEF AllTerminal, Terminal
  <2> QED
    BY <1>1, <1>2, <2>1, <2>3 DEF AllTerminal, Tasks
<1> QED
  BY <1>3, <1>4, <1>5, <1>6, <1>7

\* What the invariant asks of one step document under a control of the job.
Fits(d, control) ==
  /\ d.live \in {"queued", "running"} => d.phase = "DISPATCHED" /\ control # "STOP_REQUESTED"
  /\ d.live = "queued" => control = "NONE"
  /\ d.live = "stopping" => d.phase = "RECONCILING"
  /\ d.phase = "RECONCILING" => control = "STOP_REQUESTED"
  /\ d.phase \notin TerminalTask => d.losses < MaxLosses

\* LaneKnows of the new lane memories.
KnowsNext ==
  /\ lane' \in [Lanes -> LaneMemories]
  /\ \A l \in Lanes : /\ lane'[l].step = "dispatch" => lane'[l].ready # NoTask
                      /\ lane'[l].ready # Parent

\* One step that is not terminal moves, and its question with it.
LEMMA StepMoves ==
  ASSUME Inductive, Open,
         NEW t \in Steps, Exists(t), ~Terminal(t),
         NEW d \in TaskDocs, Follows(t, d), Fits(d, job.control),
         task' = [task EXCEPT ![t] = d],
         edges' = edges,
         job' \in JobDocs, job'.outcome = job.outcome, job'.control = job.control,
         job'.pending = job.pending \/ job'.pending # None,
         job'.asked >= job.asked,
         open' \in [Tasks -> 0 .. MaxQuestions],
         \A u \in Tasks : u # t => open'[u] = open[u],
         open'[t] <= job'.asked,
         Awaits(t) /\ open'[t] > 0 => task[Predecessor(t)].phase = "SUCCEEDED",
         "blocked_external" \notin Answers /\ open'[t] > 0 => d.phase = "WAITING_INPUT" /\ open'[t] = 1,
         wakes' \subseteq Nat,
         KnowsNext
  PROVE  Inductive'
<1>1. t \in Tasks /\ t # Parent
  BY ParentIsNoStep DEF Tasks
<1>2. task \in [Tasks -> TaskDocs] /\ job \in JobDocs
  BY DEF Inductive, TypeOK
<1>3. task'[t] = d /\ \A u \in Tasks : u # t => task'[u] = task[u]
  BY <1>1, <1>2
<1>4. TypeOK'
  BY <1>1, <1>2 DEF Inductive, TypeOK, KnowsNext
<1>5. ParentWaits'
  BY <1>1, <1>3, ParentIsNoStep DEF Inductive, ParentWaits
<1>6. LiveMatchesPhase'
  <2> SUFFICES ASSUME NEW u \in Steps
               PROVE  /\ task'[u].live \in {"queued", "running"} =>
                           /\ task'[u].phase = "DISPATCHED" /\ Open'
                           /\ job'.control # "STOP_REQUESTED"
                      /\ task'[u].live = "queued" => job'.control = "NONE"
                      /\ task'[u].live = "stopping" => task'[u].phase = "RECONCILING"
                      /\ task'[u].phase = "RECONCILING" => job'.control = "STOP_REQUESTED"
                      /\ ~Terminal(u)' => task'[u].losses < MaxLosses
    BY DEF LiveMatchesPhase
  <2>1. CASE u = t
    BY <1>3, <2>1 DEF Fits, Open, Terminal
  <2>2. CASE u # t
    <3>1. task'[u] = task[u]
      BY <1>3, <2>2 DEF Tasks
    <3> QED
      BY <3>1 DEF Inductive, LiveMatchesPhase, Terminal, Open
  <2> QED
    BY <2>1, <2>2
<1>7. QuestionsWait'
  <2> SUFFICES ASSUME NEW u \in Steps
               PROVE  /\ open'[u] <= job'.asked
                      /\ Awaits(u) /\ open'[u] > 0 =>
                           task'[Predecessor(u)].phase = "SUCCEEDED"
                      /\ "blocked_external" \notin Answers /\ open'[u] > 0 =>
                           task'[u].phase = "WAITING_INPUT" /\ open'[u] = 1
    BY DEF QuestionsWait
  <2>1. ASSUME Awaits(u), task[Predecessor(u)].phase = "SUCCEEDED"
        PROVE  task'[Predecessor(u)].phase = "SUCCEEDED"
    <3>1. Predecessor(u) # t /\ Predecessor(u) \in Tasks
      BY <2>1, PredecessorIsStep DEF Terminal, TerminalTask, Tasks
    <3> QED
      BY <1>3, <2>1, <3>1
  <2>2. CASE u = t
    BY <1>3, <2>1, <2>2
  <2>3. CASE u # t
    <3>1. task'[u] = task[u] /\ open'[u] = open[u]
      BY <1>3, <2>3 DEF Tasks
    <3>2. open[u] \in Nat /\ job.asked \in Nat /\ job'.asked \in Nat
      BY <1>2 DEF Inductive, TypeOK, Tasks, JobDocs
    <3> QED
      BY <2>1, <3>1, <3>2 DEF Inductive, QuestionsWait
  <2> QED
    BY <2>2, <2>3
<1>8. LaneKnows'
  BY DEF Inductive, LaneKnows, KnowsNext, Open
<1>9. ChainsAreWhole' /\ EdgesCover' /\ OrderedSteps' /\ ParentSettlesLast' /\ SilentPlan'
  <2>1. \A u \in Steps : task'[u] = task[u] \/ (Exists(u) /\ ~Terminal(u) /\ Follows(u, task'[u]))
    <3> SUFFICES ASSUME NEW u \in Steps
                 PROVE  task'[u] = task[u]
                        \/ (Exists(u) /\ ~Terminal(u) /\ Follows(u, task'[u]))
      OBVIOUS
    <3> QED
      BY <1>3 DEF Tasks
  <2>2. \A u \in Steps : ~Exists(u) => open'[u] = 0
    BY DEF Inductive, ChainsAreWhole, Tasks
  <2>3. task'[Parent] = task[Parent]
    BY <1>1, <1>3, ParentIsNoStep
  <2>4. ~Open' => ~Open
    BY DEF Open
  <2> QED
    BY <2>1, <2>2, <2>3, <2>4, PlanMoves
<1> QED
  BY <1>4, <1>5, <1>6, <1>7, <1>8, <1>9 DEF Inductive

-----------------------------------------------------------------------------
(* Lane memories.                                                          *)

\* A lane that goes to sleep remembers nothing.
LEMMA SleepKnows ==
  ASSUME Inductive, NEW l \in Lanes, Sleep(l)
  PROVE  KnowsNext
<1>1. Asleep \in LaneMemories /\ Asleep.ready # Parent /\ Asleep.step # "dispatch"
  BY ParentIsNoStep DEF Asleep, LaneMemories, LaneSteps, Tasks, NoTask, Parent
<1>2. lane \in [Lanes -> LaneMemories]
  BY DEF Inductive, TypeOK
<1> QED
  BY <1>1, <1>2 DEF Inductive, LaneKnows, KnowsNext, Sleep

\* A lane that goes to any step but the dispatch keeps what it read.
LEMMA ToKnows ==
  ASSUME Inductive, NEW l \in Lanes, NEW s \in LaneSteps, s # "dispatch", To(l, s)
  PROVE  KnowsNext
<1>1. lane \in [Lanes -> LaneMemories]
  BY DEF Inductive, TypeOK
<1>2. lane' = [lane EXCEPT ![l] = [lane[l] EXCEPT !.step = s]]
  BY DEF To
<1>3. [lane[l] EXCEPT !.step = s] \in LaneMemories
  BY <1>1 DEF LaneMemories
<1>4. lane[l].ready # Parent
  BY DEF Inductive, LaneKnows
<1>5. [lane[l] EXCEPT !.step = s].ready # Parent /\ [lane[l] EXCEPT !.step = s].step # "dispatch"
  BY <1>1, <1>4 DEF LaneMemories
<1> QED
  BY <1>1, <1>2, <1>3, <1>5 DEF Inductive, LaneKnows, KnowsNext

\* A lane that goes on to the dispatch has a task to dispatch.
LEMMA ContinueKnows ==
  ASSUME Inductive, NEW l \in Lanes, NEW s \in LaneSteps,
         s = "dispatch" => lane[l].ready # NoTask, Continue(l, s)
  PROVE  KnowsNext
<1>1. lane \in [Lanes -> LaneMemories]
  BY DEF Inductive, TypeOK
<1>2. CASE s = "asleep"
  BY <1>2, SleepKnows DEF Continue
<1>3. CASE s # "asleep"
  <2> DEFINE m == [lane[l] EXCEPT !.step = s, !.todo = {}]
  <2>1. lane' = [lane EXCEPT ![l] = m]
    BY <1>1, <1>3 DEF Continue, LaneMemories
  <2>2. m \in LaneMemories /\ m.ready = lane[l].ready /\ m.step = s
    BY <1>1 DEF LaneMemories
  <2>3. lane[l].ready # Parent
    BY DEF Inductive, LaneKnows
  <2> HIDE DEF m
  <2> QED
    BY <1>1, <2>1, <2>2, <2>3 DEF Inductive, LaneKnows, KnowsNext
<1> QED
  BY <1>2, <1>3

\* What the lane does after the sequence is one of its steps.
LEMMA AfterSequenceIsStep ==
  ASSUME NEW l \in Lanes
  PROVE  /\ AfterSequence(l) \in LaneSteps
         /\ AfterSequence(l) = "dispatch" => lane[l].ready # NoTask
  BY DEF AfterSequence, LaneSteps

\* A step that moves only lanes and wakes preserves the invariant.
LEMMA LaneMoves ==
  ASSUME Inductive, UNCHANGED <<job, task, edges, open>>, wakes' \subseteq Nat, KnowsNext
  PROVE  Inductive'
<1>1. TypeOK'
  BY DEF Inductive, TypeOK, KnowsNext
<1>2. ParentWaits' /\ ChainsAreWhole' /\ EdgesCover' /\ QuestionsWait' /\ OrderedSteps'
  BY DEF Inductive, ParentWaits, ChainsAreWhole, EdgesCover, QuestionsWait, OrderedSteps,
         Exists, Terminal, Open
<1>3. LiveMatchesPhase' /\ ParentSettlesLast' /\ SilentPlan'
  BY DEF Inductive, LiveMatchesPhase, ParentSettlesLast, SilentPlan, AllTerminal, Exists,
         Terminal, Open
<1>4. LaneKnows'
  BY DEF Inductive, LaneKnows, KnowsNext, Open
<1> QED
  BY <1>1, <1>2, <1>3, <1>4 DEF Inductive

\* The lanes of a step that leaves them alone know what they knew.
LEMMA SameLanesKnow == ASSUME Inductive, lane' = lane PROVE KnowsNext
  BY DEF Inductive, TypeOK, LaneKnows, KnowsNext

\* A wake of the job's generation is a generation.
LEMMA WakeTyped == ASSUME Inductive, Wake PROVE wakes' \subseteq Nat
  BY DEF Inductive, TypeOK, JobDocs, Wake

-----------------------------------------------------------------------------
(* Steps of the lane.                                                      *)

\* Claiming a wake touches only the queue and one memory.
LEMMA LaneClaimsWakeStep ==
  ASSUME Inductive, NEW l \in Lanes, LaneClaimsWake(l)
  PROVE  Inductive'
<1>1. PICK g \in wakes : /\ wakes' = wakes \ {g}
                         /\ lane' = IF g = job.gen
                                    THEN [lane EXCEPT ![l].gen = g, ![l].step = "read"]
                                    ELSE lane
  BY DEF LaneClaimsWake
<1>2. wakes' \subseteq Nat /\ g \in Nat
  BY <1>1 DEF Inductive, TypeOK
<1>3. KnowsNext
  <2>1. lane \in [Lanes -> LaneMemories]
    BY DEF Inductive, TypeOK
  <2>2. CASE g = job.gen
    <3> DEFINE m == [lane[l] EXCEPT !.gen = g, !.step = "read"]
    <3>1. lane' = [lane EXCEPT ![l] = m]
      BY <1>1, <2>1, <2>2 DEF LaneMemories
    <3>2. m \in LaneMemories /\ m.ready = lane[l].ready /\ m.step = "read"
      BY <1>2, <2>1 DEF LaneMemories, LaneSteps
    <3>3. lane[l].ready # Parent
      BY DEF Inductive, LaneKnows
    <3> HIDE DEF m
    <3> QED
      BY <2>1, <3>1, <3>2, <3>3 DEF Inductive, LaneKnows, KnowsNext
  <2>3. CASE g # job.gen
    BY <1>1, <2>3, SameLanesKnow
  <2> QED
    BY <2>2, <2>3
<1> QED
  BY <1>2, <1>3, LaneMoves DEF LaneClaimsWake

\* A lane that reads its snapshot remembers a task that is not the parent.
LEMMA LaneReadsStep ==
  ASSUME Inductive, NEW l \in Lanes, LaneReads(l)
  PROVE  Inductive'
<1>1. wakes' \subseteq Nat
  BY DEF LaneReads, Inductive, TypeOK
<1>2. CASE Sleep(l)
  BY <1>1, <1>2, SleepKnows, LaneMoves DEF LaneReads
<1>3. CASE ~Sleep(l)
  <2> DEFINE m(r) == [gen |-> lane[l].gen,
                      step |-> IF AllTerminal THEN "advance" ELSE "plan",
                      ready |-> r,
                      parent |-> task[Parent].phase = "WAITING_DEPENDENCY",
                      todo |-> {}, moved |-> FALSE,
                      unpaused |-> job.control = "NONE"]
  <2>1. PICK r \in Dispatchable \cup {NoTask} : lane' = [lane EXCEPT ![l] = m(r)]
    BY <1>3 DEF LaneReads
  <2>2. lane \in [Lanes -> LaneMemories]
    BY DEF Inductive, TypeOK
  <2>3. r \in Tasks \cup {NoTask} /\ r # Parent
    BY ParentIsNoStep DEF Dispatchable, Inductive, ParentWaits, NoTask, Parent
  <2>4. m(r) \in LaneMemories /\ m(r).ready # Parent /\ m(r).step # "dispatch"
    BY <2>2, <2>3 DEF LaneMemories, LaneSteps
  <2> HIDE DEF m
  <2>5. KnowsNext
    BY <2>1, <2>2, <2>4 DEF Inductive, LaneKnows, KnowsNext
  <2> QED
    BY <1>1, <2>5, LaneMoves DEF LaneReads
<1> QED
  BY <1>2, <1>3

\* A verdict is given only over terminal tasks, and their edges are settled.
LEMMA LaneAdvancesStep ==
  ASSUME Inductive, NEW l \in Lanes, LaneAdvances(l)
  PROVE  Inductive'
<1>1. wakes' \subseteq Nat
  BY DEF LaneAdvances, Inductive, TypeOK
<1>2. CASE ~AdvanceGranted(l)
  <2>1. KnowsNext
    BY <1>2, SleepKnows, ToKnows DEF LaneAdvances, LaneSteps
  <2> QED
    BY <1>1, <1>2, <2>1, LaneMoves DEF LaneAdvances
<1>3. CASE AdvanceGranted(l)
  <2>1. /\ job' = [job EXCEPT !.phase = "TERMINAL", !.outcome = OutcomeOfRoot, !.gen = @ + 1]
        /\ UNCHANGED <<task, edges, open, wakes>>
        /\ KnowsNext
    BY <1>3, SleepKnows DEF LaneAdvances
  <2>2. job \in JobDocs
    BY DEF Inductive, TypeOK
  <2>3. OutcomeOfRoot \in JobOutcomes /\ task[Parent].phase \in {"SUCCEEDED", "FAILED"}
    <3>1. Terminal(Parent) /\ job.control # "STOP_REQUESTED"
      BY <1>3, ParentIsNoStep DEF AdvanceGranted, AllTerminal, Exists, Inductive, ParentWaits
    <3>2. task[Parent].phase \in {"SUCCEEDED", "FAILED"}
      BY <3>1 DEF Inductive, ParentWaits, Terminal, TerminalTask
    <3> QED
      BY <3>2 DEF OutcomeOfRoot, JobOutcomes
  <2>4. job.gen + 1 \in Nat
    BY <2>2 DEF JobDocs
  <2>5. job' \in JobDocs
    BY <2>1, <2>2, <2>3, <2>4 DEF JobDocs, JobPhases
  <2>6. /\ job'.control = job.control /\ job'.pending = job.pending /\ job'.asked = job.asked
        /\ ~Open'
    BY <2>1, <2>2, <2>3 DEF JobDocs, Open, JobOutcomes, None
  <2>7. TypeOK'
    BY <1>1, <2>1, <2>5 DEF Inductive, TypeOK, KnowsNext
  <2>8. ParentWaits' /\ ChainsAreWhole' /\ EdgesCover' /\ QuestionsWait' /\ OrderedSteps'
        /\ ParentSettlesLast'
    BY <2>1, <2>6 DEF Inductive, ParentWaits, ChainsAreWhole, EdgesCover, QuestionsWait,
         OrderedSteps, ParentSettlesLast, Exists, Terminal
  <2>9. LiveMatchesPhase'
    <3>1. \A t \in Steps : task[t].live \notin {"queued", "running"}
      BY <1>3 DEF AdvanceGranted, AllTerminal, Inductive, LiveMatchesPhase, Tasks, Exists,
                  Terminal, TerminalTask
    <3> QED
      BY <2>1, <2>6, <3>1 DEF Inductive, LiveMatchesPhase, Terminal
  <2>10. SilentPlan'
    BY <1>3, <2>1, <2>3 DEF SilentPlan, AdvanceGranted, AllTerminal, Inductive,
         ParentSettlesLast, Exists, Terminal
  <2>11. LaneKnows'
    BY <2>1, <2>6 DEF LaneKnows, KnowsNext
  <2> QED
    BY <2>7, <2>8, <2>9, <2>10, <2>11 DEF Inductive
<1> QED
  BY <1>2, <1>3

\* Reading what is to be materialized or released changes no document.
LEMMA LanePlansStep ==
  ASSUME Inductive, NEW l \in Lanes, LanePlans(l)
  PROVE  Inductive'
<1>1. wakes' \subseteq Nat
  BY DEF LanePlans, Inductive, TypeOK
<1>2. CASE To(l, "spawn")
  BY <1>1, <1>2, ToKnows, LaneMoves DEF LanePlans, LaneSteps
<1>3. CASE Continue(l, AfterSequence(l))
  BY <1>1, <1>3, AfterSequenceIsStep, ContinueKnows, LaneMoves DEF LanePlans
<1>4. CASE lane' = [lane EXCEPT ![l].step = "promote", ![l].todo = Sequenced]
  <2> DEFINE m == [lane[l] EXCEPT !.step = "promote", !.todo = Sequenced]
  <2>1. lane \in [Lanes -> LaneMemories]
    BY DEF Inductive, TypeOK
  <2>2. lane' = [lane EXCEPT ![l] = m]
    BY <1>4, <2>1 DEF LaneMemories
  <2>3. m \in LaneMemories /\ m.ready = lane[l].ready /\ m.step = "promote"
    BY <2>1 DEF LaneMemories, LaneSteps, Sequenced
  <2>4. lane[l].ready # Parent
    BY DEF Inductive, LaneKnows
  <2> HIDE DEF m
  <2>5. KnowsNext
    BY <2>1, <2>2, <2>3, <2>4 DEF Inductive, LaneKnows, KnowsNext
  <2> QED
    BY <1>1, <2>5, LaneMoves DEF LanePlans
<1> QED
  BY <1>2, <1>3, <1>4 DEF LanePlans

\* A refused materialization changes nothing but the memory of the lane.
LEMMA LaneLosesSpawnStep ==
  ASSUME Inductive, NEW l \in Lanes, LaneLosesSpawn(l) \/ LaneCrashes(l)
  PROVE  Inductive'
<1>1. wakes' \subseteq Nat /\ UNCHANGED <<job, task, edges, open>> /\ Sleep(l)
  BY DEF LaneLosesSpawn, LaneCrashes, Inductive, TypeOK
<1> QED
  BY <1>1, SleepKnows, LaneMoves

\* A new chain comes to wait under the parent; the older ones stay as they are.
LEMMA LaneSpawnsStep ==
  ASSUME Inductive, NEW l \in Lanes, LaneSpawns(l)
  PROVE  Inductive'
<1>1. PICK c \in Chains :
        /\ \A d \in Chains : Exists(<<d, 1>>) <=> d < c
        /\ task' = [t \in Tasks |->
                      IF t = Parent THEN [task[t] EXCEPT !.phase = "WAITING_DEPENDENCY"]
                      ELSE IF t[1] = c THEN [task[t] EXCEPT !.phase = PhaseOfNewStep(t)]
                      ELSE task[t]]
        /\ edges' = edges \cup {t \in Steps : t[1] = c}
  BY DEF LaneSpawns
<1>2. /\ Open /\ job.control = "NONE" /\ UNCHANGED <<job, open>>
      /\ wakes' \subseteq Nat /\ KnowsNext
  BY SleepKnows, WakeTyped DEF LaneSpawns, SpawnGranted
<1>3. task \in [Tasks -> TaskDocs]
  BY DEF Inductive, TypeOK
<1>4. \A t \in Steps : t[1] = c => ~Exists(t)
  <2> SUFFICES ASSUME NEW t \in Steps, t[1] = c PROVE ~Exists(t)
    OBVIOUS
  <2>1. First(t) = <<c, 1>> /\ ~(c < c)
    BY DEF First, Chains
  <2> QED
    BY <1>1, <2>1 DEF Inductive, ChainsAreWhole
<1>5. ASSUME NEW t \in Steps, t[1] = c
      PROVE  /\ task'[t].phase = PhaseOfNewStep(t) /\ task'[t].live = "none"
             /\ task'[t].losses = 0 /\ task'[t] \in TaskDocs
             /\ PhaseOfNewStep(t) = IF Awaits(t) THEN "WAITING_DEPENDENCY" ELSE "READY"
             /\ open[t] = 0 /\ t \notin edges
  <2>1. t \in Tasks /\ t # Parent
    BY ParentIsNoStep DEF Tasks
  <2>2. task[t].live = "none" /\ task[t].losses = 0 /\ open[t] = 0 /\ t \notin edges
    BY <1>4, <1>5 DEF Inductive, ChainsAreWhole
  <2>3. task'[t] = [task[t] EXCEPT !.phase = PhaseOfNewStep(t)]
    BY <1>1, <1>5, <2>1
  <2>4. task[t] \in TaskDocs
    BY <1>3, <2>1
  <2>5. PhaseOfNewStep(t) = IF Awaits(t) THEN "WAITING_DEPENDENCY" ELSE "READY"
    BY DEF PhaseOfNewStep
  <2>6. PhaseOfNewStep(t) \in TaskPhases
    BY <2>5 DEF TaskPhases
  <2> QED
    BY <2>2, <2>3, <2>4, <2>5, <2>6 DEF TaskDocs
<1>6. ASSUME NEW t \in Steps, t[1] # c
      PROVE  task'[t] = task[t]
  BY <1>1, <1>6, ParentIsNoStep DEF Tasks
<1>7. /\ task'[Parent].phase = "WAITING_DEPENDENCY" /\ task'[Parent].live = task[Parent].live
      /\ task'[Parent] \in TaskDocs
  <2>1. task'[Parent] = [task[Parent] EXCEPT !.phase = "WAITING_DEPENDENCY"]
    BY <1>1, ParentIsNoStep
  <2> QED
    BY <1>3, <2>1, ParentIsNoStep DEF TaskDocs, TaskPhases
<1>9. \A t \in Steps : task'[t] \in TaskDocs
  <2> SUFFICES ASSUME NEW t \in Steps PROVE task'[t] \in TaskDocs
    OBVIOUS
  <2>1. CASE t[1] = c
    BY <1>5, <2>1
  <2>2. CASE t[1] # c
    BY <1>3, <1>6, <2>2 DEF Tasks
  <2> QED
    BY <2>1, <2>2
<1>10. TypeOK'
  <2>1. task' \in [Tasks -> TaskDocs]
    <3>1. \A t \in Tasks : task'[t] \in TaskDocs
      BY <1>7, <1>9 DEF Tasks
    <3>2. task' = [t \in Tasks |-> task'[t]]
      BY <1>1
    <3> QED
      BY <3>1, <3>2
  <2>2. edges' \subseteq Steps
    BY <1>1 DEF Inductive, TypeOK
  <2> QED
    BY <1>2, <2>1, <2>2 DEF Inductive, TypeOK, KnowsNext
<1>11. ASSUME NEW t \in Steps
       PROVE  Exists(t)' <=> (t[1] = c \/ Exists(t))
  <2>1. CASE t[1] = c
    BY <1>5, <2>1 DEF Exists
  <2>2. CASE t[1] # c
    BY <1>6, <2>2 DEF Exists
  <2> QED
    BY <2>1, <2>2
<1>12. ChainsAreWhole'
  <2> SUFFICES ASSUME NEW t \in Steps
               PROVE  /\ Exists(t)' <=> Exists(First(t))'
                      /\ ~Exists(t)' => /\ task'[t].live = "none" /\ task'[t].losses = 0
                                        /\ open'[t] = 0 /\ t \notin edges'
    BY DEF ChainsAreWhole
  <2>1. Exists(t) <=> Exists(First(t))
    BY DEF Inductive, ChainsAreWhole
  <2>2. Exists(t)' <=> Exists(First(t))'
    BY <1>11, <2>1, FirstIsStep
  <2>3. CASE Exists(t)'
    BY <2>2, <2>3
  <2>4. CASE ~Exists(t)'
    <3>1. t[1] # c /\ ~Exists(t)
      BY <1>11, <2>4
    <3> QED
      BY <1>1, <1>2, <1>6, <2>2, <3>1 DEF Inductive, ChainsAreWhole
  <2> QED
    BY <2>3, <2>4
<1>13. EdgesCover'
  <2> SUFFICES ASSUME NEW t \in Steps, Exists(t)', t \notin edges'
               PROVE  Terminal(t)'
    BY DEF EdgesCover
  <2>1. t[1] # c /\ t \notin edges
    BY <1>1
  <2>2. Exists(t)
    BY <1>11, <2>1
  <2> QED
    BY <1>6, <2>1, <2>2 DEF Inductive, EdgesCover, Terminal
<1>14. OrderedSteps'
  <2> SUFFICES ASSUME NEW t \in Steps, Awaits(t)
               PROVE  /\ task'[t].phase \notin Untouched \/ task'[t].live # "none"
                         \/ task'[t].losses > 0
                           => task'[Predecessor(t)].phase = "SUCCEEDED"
                      /\ task'[t].phase = "BLOCKED" =>
                           Terminal(Predecessor(t))' /\ task'[Predecessor(t)].phase # "SUCCEEDED"
    BY DEF OrderedSteps
  <2>1. Predecessor(t) \in Steps /\ Predecessor(t)[1] = t[1]
    BY PredecessorIsStep
  <2>2. CASE t[1] = c
    <3>1. task'[t].phase = "WAITING_DEPENDENCY" /\ task'[t].live = "none" /\ task'[t].losses = 0
      BY <1>5, <2>2
    <3> QED
      BY <3>1 DEF Untouched
  <2>3. CASE t[1] # c
    <3>1. task'[t] = task[t] /\ task'[Predecessor(t)] = task[Predecessor(t)]
      BY <1>6, <2>1, <2>3
    <3> QED
      BY <3>1, <2>1 DEF Inductive, OrderedSteps, Terminal
  <2> QED
    BY <2>2, <2>3
<1>15. LiveMatchesPhase'
  <2> SUFFICES ASSUME NEW t \in Steps
               PROVE  /\ task'[t].live \in {"queued", "running"} =>
                           /\ task'[t].phase = "DISPATCHED" /\ Open'
                           /\ job'.control # "STOP_REQUESTED"
                      /\ task'[t].live = "queued" => job'.control = "NONE"
                      /\ task'[t].live = "stopping" => task'[t].phase = "RECONCILING"
                      /\ task'[t].phase = "RECONCILING" => job'.control = "STOP_REQUESTED"
                      /\ ~Terminal(t)' => task'[t].losses < MaxLosses
    BY DEF LiveMatchesPhase
  <2>1. CASE t[1] = c
    <3>1. /\ task'[t].live = "none" /\ task'[t].losses = 0
          /\ task'[t].phase \in {"WAITING_DEPENDENCY", "READY"}
      BY <1>5, <2>1
    <3> QED
      BY <3>1
  <2>2. CASE t[1] # c
    BY <1>2, <1>6, <2>2 DEF Inductive, LiveMatchesPhase, Open, Terminal
  <2> QED
    BY <2>1, <2>2
<1>16. QuestionsWait'
  <2> SUFFICES ASSUME NEW t \in Steps
               PROVE  /\ open'[t] <= job'.asked
                      /\ Awaits(t) /\ open'[t] > 0 =>
                           task'[Predecessor(t)].phase = "SUCCEEDED"
                      /\ "blocked_external" \notin Answers /\ open'[t] > 0 =>
                           task'[t].phase = "WAITING_INPUT" /\ open'[t] = 1
    BY DEF QuestionsWait
  <2>1. CASE t[1] = c
    BY <1>2, <1>5, <2>1 DEF Inductive, QuestionsWait
  <2>2. CASE t[1] # c
    <3>1. Awaits(t) => task'[Predecessor(t)] = task[Predecessor(t)]
      BY <1>6, <2>2, PredecessorIsStep
    <3> QED
      BY <1>2, <1>6, <2>2, <3>1 DEF Inductive, QuestionsWait
  <2> QED
    BY <2>1, <2>2
<1>17. ParentWaits' /\ ParentSettlesLast' /\ SilentPlan' /\ LaneKnows'
  BY <1>2, <1>7 DEF Inductive, ParentWaits, ParentSettlesLast, SilentPlan, LaneKnows,
     KnowsNext, Open
<1> QED
  BY <1>10, <1>12, <1>13, <1>14, <1>15, <1>16, <1>17 DEF Inductive

\* A step is released after a delivered predecessor, blocked after any other.
LEMMA LanePromotesStep ==
  ASSUME Inductive, NEW l \in Lanes, NEW t \in Steps, LanePromotes(l, t)
  PROVE  Inductive'
<1> DEFINE rest == lane[l].todo \ {t}
           moved == lane[l].moved \/ PromoteGranted(t)
<1>1. KnowsNext
  <2>1. CASE rest # {}
    <3> DEFINE m == [lane[l] EXCEPT !.todo = rest, !.moved = moved]
    <3>1. lane \in [Lanes -> LaneMemories]
      BY DEF Inductive, TypeOK
    <3>2. lane' = [lane EXCEPT ![l] = m]
      BY <2>1, <3>1 DEF LanePromotes, LaneMemories
    <3>3. m \in LaneMemories /\ m.ready = lane[l].ready /\ m.step = lane[l].step
      BY <3>1 DEF LaneMemories, PromoteGranted
    <3>4. lane[l].ready # Parent /\ lane[l].step = "promote"
      BY DEF Inductive, LaneKnows, LanePromotes
    <3> HIDE DEF m
    <3> QED
      BY <3>1, <3>2, <3>3, <3>4 DEF Inductive, LaneKnows, KnowsNext
  <2>2. CASE rest = {}
    <3> DEFINE s == IF moved THEN "asleep" ELSE AfterSequence(l)
    <3>1. s \in LaneSteps /\ (s = "dispatch" => lane[l].ready # NoTask)
      BY AfterSequenceIsStep DEF LaneSteps
    <3>2. Continue(l, s)
      BY <2>2 DEF LanePromotes
    <3> HIDE DEF s
    <3> QED
      BY <3>1, <3>2, ContinueKnows
  <2> QED
    BY <2>1, <2>2
<1>2. CASE ~PromoteGranted(t)
  <2>1. wakes' \subseteq Nat /\ UNCHANGED <<job, task, edges, open>>
    BY <1>2 DEF LanePromotes, Inductive, TypeOK
  <2> QED
    BY <1>1, <2>1, LaneMoves
<1>3. CASE PromoteGranted(t)
  <2> DEFINE p == IF Releases(task[Predecessor(t)].phase) THEN "READY" ELSE "BLOCKED"
             d == [phase |-> p, live |-> task[t].live, losses |-> task[t].losses]
  <2>1. task \in [Tasks -> TaskDocs] /\ t \in Tasks /\ job \in JobDocs
    BY DEF Inductive, TypeOK, Tasks
  <2>2. task[t].phase = "WAITING_DEPENDENCY" /\ Exists(t) /\ ~Terminal(t) /\ Open
    BY <1>3 DEF PromoteGranted, Exists, Terminal, TerminalTask
  <2>3. task' = [task EXCEPT ![t] = d]
    BY <1>3, <2>1 DEF LanePromotes, TaskDocs
  <2>4. d \in TaskDocs /\ p \in {"READY", "BLOCKED"}
    BY <2>1 DEF TaskDocs, TaskPhases, TerminalTask
  <2>5. Follows(t, d)
    BY <1>3, <2>4 DEF Follows, Inductive, OrderedSteps, PromoteGranted, Releases, Untouched
  <2>6. Fits(d, job.control)
    BY <2>2, <2>4 DEF Fits, Inductive, LiveMatchesPhase
  <2>7. wakes' \subseteq Nat
    BY <1>3, WakeTyped DEF LanePromotes
  <2>8. /\ open' \in [Tasks -> 0 .. MaxQuestions] /\ open'[t] <= job'.asked
        /\ "blocked_external" \notin Answers /\ open'[t] > 0 => p = "WAITING_INPUT" /\ open'[t] = 1
        /\ Awaits(t) /\ open'[t] > 0 => task[Predecessor(t)].phase = "SUCCEEDED"
        /\ edges' = edges /\ open' = open /\ job' = job /\ job.asked >= job.asked
    BY <2>1, <2>2 DEF LanePromotes, Inductive, TypeOK, QuestionsWait, JobDocs
  <2> HIDE DEF p
  <2>9. "blocked_external" \notin Answers /\ open'[t] > 0 => d.phase = "WAITING_INPUT" /\ open'[t] = 1
    BY <2>8
  <2> HIDE DEF d
  <2> QED
    BY <1>1, <2>1, <2>2, <2>3, <2>4, <2>5, <2>6, <2>7, <2>8, <2>9, StepMoves
<1> QED
  BY <1>2, <1>3

\* The fan-in gives the parent its verdict when every step has one.
LEMMA LaneResolvesStep ==
  ASSUME Inductive, NEW l \in Lanes, LaneResolves(l)
  PROVE  Inductive'
<1>1. CASE ~ResolveGranted(l)
  <2> DEFINE s == IF lane[l].ready # NoTask THEN "dispatch" ELSE "asleep"
  <2>1. s \in LaneSteps /\ (s = "dispatch" => lane[l].ready # NoTask)
    BY DEF LaneSteps
  <2>2. Continue(l, s)
    BY <1>1 DEF LaneResolves
  <2> HIDE DEF s
  <2>3. KnowsNext
    BY <2>1, <2>2, ContinueKnows
  <2> QED
    BY <1>1, <2>3, LaneMoves DEF LaneResolves, Inductive, TypeOK
<1>2. CASE ResolveGranted(l)
  <2> DEFINE v == IF \E t \in edges : task[t].phase \in FailedTask
                  THEN "FAILED" ELSE "SUCCEEDED"
  <2>1. /\ task' = [task EXCEPT ![Parent].phase = v]
        /\ edges' = {} /\ UNCHANGED <<job, open>>
        /\ wakes' \subseteq Nat /\ KnowsNext
    BY <1>2, WakeTyped, ToKnows DEF LaneResolves, LaneSteps
  <2>2. /\ task[Parent].phase = "WAITING_DEPENDENCY" /\ Open /\ job.control = "NONE"
        /\ \A t \in edges : Terminal(t)
    BY <1>2 DEF ResolveGranted, ChildrenSettled
  <2>3. v \in {"SUCCEEDED", "FAILED"}
        /\ (v = "FAILED" => \E t \in edges : task[t].phase \in FailedTask)
    OBVIOUS
  <2> HIDE DEF v
  <2>4. task \in [Tasks -> TaskDocs] /\ edges \subseteq Steps
    BY DEF Inductive, TypeOK
  <2>5. /\ task'[Parent] = [task[Parent] EXCEPT !.phase = v]
        /\ \A t \in Steps : task'[t] = task[t]
    BY <2>1, <2>4, ParentIsNoStep DEF Tasks
  <2>6. /\ task'[Parent].phase = v /\ task'[Parent].live = task[Parent].live
        /\ task'[Parent] \in TaskDocs
    BY <2>3, <2>4, <2>5, ParentIsNoStep DEF TaskDocs, TaskPhases, TerminalTask
  <2>7. TypeOK'
    <3>1. task' \in [Tasks -> TaskDocs]
      <4>1. \A t \in Tasks : task'[t] \in TaskDocs
        BY <2>4, <2>5, <2>6 DEF Tasks
      <4>2. task' = [t \in Tasks |-> task'[t]]
        BY <2>1, <2>4
      <4> QED
        BY <4>1, <4>2
    <3> QED
      BY <2>1, <3>1 DEF Inductive, TypeOK, KnowsNext
  <2>8. ParentWaits' /\ LaneKnows'
    BY <2>1, <2>3, <2>6 DEF Inductive, ParentWaits, LaneKnows, KnowsNext, Open
  <2>9. ChainsAreWhole'
    BY <2>1, <2>5, FirstIsStep DEF Inductive, ChainsAreWhole, Exists
  <2>10. \A t \in Steps : Exists(t) => Terminal(t)
    BY <2>2 DEF Inductive, EdgesCover
  <2>11. EdgesCover' /\ LiveMatchesPhase'
    <3>1. EdgesCover'
      BY <2>5, <2>10 DEF EdgesCover, Exists, Terminal
    <3>2. LiveMatchesPhase'
      BY <2>1, <2>5 DEF Inductive, LiveMatchesPhase, Terminal, Open
    <3> QED
      BY <3>1, <3>2
  <2>12. QuestionsWait'
    BY <2>1, <2>5, PredecessorIsStep DEF Inductive, QuestionsWait
  <2>13. OrderedSteps'
    <3> SUFFICES ASSUME NEW t \in Steps, Awaits(t)
                 PROVE  /\ task'[t].phase \notin Untouched \/ task'[t].live # "none"
                           \/ task'[t].losses > 0
                             => task'[Predecessor(t)].phase = "SUCCEEDED"
                        /\ task'[t].phase = "BLOCKED" =>
                             Terminal(Predecessor(t))' /\ task'[Predecessor(t)].phase # "SUCCEEDED"
      BY DEF OrderedSteps
    <3>1. task'[t] = task[t] /\ task'[Predecessor(t)] = task[Predecessor(t)]
      BY <2>5, PredecessorIsStep
    <3> QED
      BY <3>1, PredecessorIsStep DEF Inductive, OrderedSteps, Terminal
  <2>14. ParentSettlesLast'
    <3>1. \A t \in Steps : Exists(t)' => Terminal(t)'
      BY <2>5, <2>10 DEF Exists, Terminal
    <3>2. v = "FAILED" => \E t \in Steps : task'[t].phase \in FailedTask
      BY <2>3, <2>4, <2>5
    <3> QED
      BY <2>1, <2>6, <3>1, <3>2 DEF ParentSettlesLast, FailedTask
  <2>15. SilentPlan'
    BY <2>1, <2>2 DEF SilentPlan, Open
  <2> QED
    BY <2>7, <2>8, <2>9, <2>11, <2>12, <2>13, <2>14, <2>15 DEF Inductive
<1> QED
  BY <1>1, <1>2

\* A dispatched step was released before: the ready task a lane read is a step.
LEMMA LaneDispatchesStep ==
  ASSUME Inductive, NEW l \in Lanes, LaneDispatches(l)
  PROVE  Inductive'
<1>1. CASE ~DispatchGranted(l)
  BY <1>1, SleepKnows, LaneMoves DEF LaneDispatches, Inductive, TypeOK
<1>2. CASE DispatchGranted(l)
  <2>1. PICK t \in Steps : t = lane[l].ready
    <3>1. lane[l].ready \in Tasks \cup {NoTask} /\ lane[l].ready # NoTask
          /\ lane[l].ready # Parent
      BY DEF Inductive, TypeOK, LaneMemories, LaneKnows, LaneDispatches
    <3> QED
      BY <3>1 DEF Tasks
  <2>2. t \in Tasks /\ job \in JobDocs
    BY <2>1 DEF Inductive, TypeOK, Tasks
  <2>3. /\ task[t].phase \in {"READY", "RETRY_PENDING"} /\ Exists(t) /\ ~Terminal(t)
        /\ Open /\ job.control = "NONE"
    BY <1>2, <2>1 DEF DispatchGranted, Exists, Terminal, TerminalTask
  <2>4. /\ task' = [task EXCEPT ![t].phase = "DISPATCHED", ![t].live = "queued"]
        /\ KnowsNext /\ UNCHANGED <<job, edges, open, wakes>>
    BY <1>2, <2>1, ToKnows DEF LaneDispatches, LaneSteps
  <2> DEFINE d == [task[t] EXCEPT !.phase = "DISPATCHED", !.live = "queued"]
  <2>5. task \in [Tasks -> TaskDocs] /\ task[t] \in TaskDocs
    BY <2>2 DEF Inductive, TypeOK
  <2>6. /\ d \in TaskDocs
        /\ d.phase = "DISPATCHED" /\ d.live = "queued" /\ d.losses = task[t].losses
    BY <2>5 DEF TaskDocs, TaskPhases
  <2>11. task' = [task EXCEPT ![t] = d]
    BY <2>4, <2>5
  <2> HIDE DEF d
  <2>7. Follows(t, d)
    BY <2>1, <2>3, <2>6 DEF Follows, Inductive, OrderedSteps, Untouched
  <2>8. Fits(d, job.control)
    BY <2>1, <2>3, <2>6 DEF Fits, Inductive, LiveMatchesPhase
  <2>9. /\ open' \in [Tasks -> 0 .. MaxQuestions] /\ open'[t] <= job'.asked
        /\ "blocked_external" \notin Answers => ~(open'[t] > 0)
        /\ Awaits(t) /\ open'[t] > 0 => task[Predecessor(t)].phase = "SUCCEEDED"
        /\ wakes' \subseteq Nat /\ job'.asked >= job.asked
    BY <2>1, <2>2, <2>3, <2>4 DEF Inductive, TypeOK, QuestionsWait, JobDocs
  <2>10. /\ \A u \in Tasks : u # t => open'[u] = open[u]
         /\ job' \in JobDocs /\ job' = job /\ edges' = edges
    BY <2>2, <2>4
  <2> QED
    BY <2>1, <2>3, <2>4, <2>6, <2>7, <2>8, <2>9, <2>10, <2>11, StepMoves
<1> QED
  BY <1>1, <1>2

-----------------------------------------------------------------------------
(* Steps of the workers, the reconciler and the owner on one task.         *)

\* What executes is a step that is not terminal, of an open job.
LEMMA LiveStep ==
  ASSUME Inductive, NEW t \in Tasks, task[t].live # "none"
  PROVE  /\ t \in Steps /\ Exists(t) /\ ~Terminal(t) /\ Open
         /\ task[t].phase \in {"DISPATCHED", "RECONCILING"}
         /\ task[t].losses < MaxLosses
         /\ Awaits(t) => task[Predecessor(t)].phase = "SUCCEEDED"
         /\ "blocked_external" \notin Answers => ~(open[t] > 0)
<1>1. t \in Steps
  BY DEF Inductive, ParentWaits, Tasks
<1>2. task[t].live \in {"queued", "running", "stopping"}
  BY DEF Inductive, TypeOK, TaskDocs
<1>3. task[t].phase \in {"DISPATCHED", "RECONCILING"}
  BY <1>1, <1>2 DEF Inductive, LiveMatchesPhase
<1>4. Exists(t) /\ ~Terminal(t)
  BY <1>3 DEF Exists, Terminal, TerminalTask
<1>5. Open
  BY <1>4 DEF Inductive, SilentPlan, AllTerminal
<1> QED
  BY <1>1, <1>3, <1>4, <1>5 DEF Inductive, LiveMatchesPhase, OrderedSteps, QuestionsWait

\* A question belongs to a step that was created and released.
LEMMA AskingStep ==
  ASSUME Inductive, NEW t \in Tasks, open[t] > 0, Waits(t)
  PROVE  /\ t \in Steps /\ Exists(t) /\ ~Terminal(t)
         /\ Awaits(t) => task[Predecessor(t)].phase = "SUCCEEDED"
<1>1. t \in Steps
  BY DEF Inductive, ParentWaits, Tasks
<1>2. Exists(t) /\ ~Terminal(t)
  BY DEF Exists, Terminal, TerminalTask, Waits
<1> QED
  BY <1>1, <1>2 DEF Inductive, QuestionsWait

\* A step of one task that leaves the job, its questions and the lanes alone.
LEMMA QuietMove ==
  ASSUME Inductive, Open, NEW t \in Steps, Exists(t), ~Terminal(t),
         NEW d \in TaskDocs, Follows(t, d), Fits(d, job.control),
         task' = [task EXCEPT ![t] = d],
         UNCHANGED <<job, edges, open, lane>>, wakes' = wakes \/ Wake,
         "blocked_external" \notin Answers => ~(open[t] > 0)
  PROVE  Inductive'
<1>1. KnowsNext
  BY SameLanesKnow
<1>2. wakes' \subseteq Nat
  BY WakeTyped DEF Inductive, TypeOK
<1>3. /\ job' \in JobDocs /\ open' \in [Tasks -> 0 .. MaxQuestions]
      /\ job'.asked >= job.asked /\ open'[t] <= job'.asked
      /\ Awaits(t) /\ open'[t] > 0 => task[Predecessor(t)].phase = "SUCCEEDED"
      /\ "blocked_external" \notin Answers => ~(open'[t] > 0)
      /\ \A u \in Tasks : u # t => open'[u] = open[u]
  BY DEF Inductive, TypeOK, JobDocs, QuestionsWait
<1>4. job'.outcome = job.outcome /\ job'.control = job.control /\ job'.pending = job.pending
  OBVIOUS
<1> QED
  BY <1>1, <1>2, <1>3, <1>4, StepMoves

\* A started attempt keeps the phase of its step.
LEMMA StartStep ==
  ASSUME Inductive, NEW t \in Tasks, Start(t)
  PROVE  Inductive'
<1> DEFINE d == [task[t] EXCEPT !.live = "running"]
<1>1. task[t].live = "queued" /\ job.control = "NONE"
  BY DEF Start
<1>2. task \in [Tasks -> TaskDocs] /\ task[t] \in TaskDocs
  BY DEF Inductive, TypeOK
<1>3. /\ t \in Steps /\ Exists(t) /\ ~Terminal(t) /\ Open /\ task[t].losses < MaxLosses
      /\ Awaits(t) => task[Predecessor(t)].phase = "SUCCEEDED"
      /\ "blocked_external" \notin Answers => ~(open[t] > 0)
  BY <1>1, LiveStep
<1>4. task[t].phase = "DISPATCHED"
  BY <1>1, <1>3 DEF Inductive, LiveMatchesPhase
<1>5. /\ d \in TaskDocs
      /\ d.phase = "DISPATCHED" /\ d.live = "running" /\ d.losses = task[t].losses
  BY <1>2, <1>4 DEF TaskDocs
<1>6. task' = [task EXCEPT ![t] = d]
  BY <1>2 DEF Start
<1> HIDE DEF d
<1>7. Follows(t, d) /\ Fits(d, job.control)
  BY <1>1, <1>3, <1>5 DEF Follows, Fits
<1> QED
  BY <1>3, <1>5, <1>6, <1>7, QuietMove DEF Start

\* An admission that expires before it starts fails its step.
LEMMA ExpireQueuedStep ==
  ASSUME Inductive, NEW t \in Tasks, ExpireQueued(t)
  PROVE  Inductive'
<1> DEFINE d == [task[t] EXCEPT !.phase = "FAILED", !.live = "none"]
<1>1. task[t].live = "queued"
  BY DEF ExpireQueued
<1>2. task \in [Tasks -> TaskDocs] /\ task[t] \in TaskDocs
  BY DEF Inductive, TypeOK
<1>3. /\ t \in Steps /\ Exists(t) /\ ~Terminal(t) /\ Open
      /\ Awaits(t) => task[Predecessor(t)].phase = "SUCCEEDED"
      /\ "blocked_external" \notin Answers => ~(open[t] > 0)
  BY <1>1, LiveStep
<1>4. d \in TaskDocs /\ d.phase = "FAILED" /\ d.live = "none"
  BY <1>2 DEF TaskDocs, TaskPhases, TerminalTask
<1>5. task' = [task EXCEPT ![t] = d]
  BY <1>2 DEF ExpireQueued
<1> HIDE DEF d
<1>6. Follows(t, d) /\ Fits(d, job.control)
  BY <1>3, <1>4 DEF Follows, Fits, TerminalTask
<1> QED
  BY <1>3, <1>4, <1>5, <1>6, QuietMove DEF ExpireQueued

\* A lost worker spends a loss, and the last one fails the step.
LEMMA ReapLostWorkerStep ==
  ASSUME Inductive, NEW t \in Tasks, ReapLostWorker(t)
  PROVE  Inductive'
<1> DEFINE n == task[t].losses + 1
           d == [phase |-> IF n >= MaxLosses THEN "FAILED" ELSE "RETRY_PENDING",
                 live |-> "none", losses |-> n]
<1>1. task[t].live # "none"
  BY DEF ReapLostWorker
<1>2. task \in [Tasks -> TaskDocs] /\ task[t].losses \in Nat
  BY DEF Inductive, TypeOK, TaskDocs
<1>3. /\ t \in Steps /\ Exists(t) /\ ~Terminal(t) /\ Open /\ task[t].losses < MaxLosses
      /\ Awaits(t) => task[Predecessor(t)].phase = "SUCCEEDED"
      /\ "blocked_external" \notin Answers => ~(open[t] > 0)
  BY <1>1, LiveStep
<1>4. n \in 0 .. MaxLosses
  BY <1>2, <1>3
<1>5. task' = [task EXCEPT ![t] = d]
  BY <1>2 DEF ReapLostWorker
<1> HIDE DEF n
<1>6. d \in TaskDocs
  BY <1>4 DEF TaskDocs, TaskPhases, TerminalTask
<1>7. Follows(t, d)
  BY <1>3 DEF Follows
<1>8. Fits(d, job.control)
  BY <1>4 DEF Fits, TerminalTask
<1> HIDE DEF d
<1> QED
  BY <1>3, <1>5, <1>6, <1>7, <1>8, QuietMove DEF ReapLostWorker

\* The grace takes the attempt away, not the reconciliation of its step.
LEMMA FireStopGraceStep ==
  ASSUME Inductive, NEW t \in Tasks, FireStopGrace(t)
  PROVE  Inductive'
<1> DEFINE d == [task[t] EXCEPT !.live = "none"]
<1>1. task[t].live = "stopping"
  BY DEF FireStopGrace
<1>2. task \in [Tasks -> TaskDocs] /\ task[t] \in TaskDocs /\ job \in JobDocs
  BY DEF Inductive, TypeOK
<1>3. /\ t \in Steps /\ Exists(t) /\ ~Terminal(t) /\ Open /\ task[t].losses < MaxLosses
      /\ Awaits(t) => task[Predecessor(t)].phase = "SUCCEEDED"
      /\ "blocked_external" \notin Answers => ~(open[t] > 0)
  BY <1>1, LiveStep
<1>4. task[t].phase = "RECONCILING" /\ job.control = "STOP_REQUESTED"
  BY <1>1, <1>3 DEF Inductive, LiveMatchesPhase
<1>5. d \in TaskDocs /\ d.phase = "RECONCILING" /\ d.live = "none" /\ d.losses = task[t].losses
  BY <1>2, <1>4 DEF TaskDocs
<1>6. task' = [task EXCEPT ![t] = d]
  BY <1>2 DEF FireStopGrace
<1> HIDE DEF d
<1>7. Follows(t, d) /\ Fits(d, job.control)
  BY <1>3, <1>4, <1>5 DEF Follows, Fits
<1>8. /\ job' \in JobDocs /\ job'.outcome = job.outcome /\ job'.control = job.control
      /\ job'.pending # None /\ job'.asked = job.asked
  BY <1>2 DEF FireStopGrace, JobDocs, None
<1>9. /\ UNCHANGED <<edges, open, wakes, lane>> /\ KnowsNext /\ wakes' \subseteq Nat
      /\ open' \in [Tasks -> 0 .. MaxQuestions]
      /\ \A u \in Tasks : u # t => open'[u] = open[u]
  BY SameLanesKnow DEF FireStopGrace, Inductive, TypeOK
<1>10. /\ open'[t] <= job'.asked /\ job'.asked >= job.asked
       /\ Awaits(t) /\ open'[t] > 0 => task[Predecessor(t)].phase = "SUCCEEDED"
       /\ "blocked_external" \notin Answers => ~(open'[t] > 0)
  BY <1>2, <1>3, <1>8, <1>9 DEF Inductive, QuestionsWait, JobDocs
<1> QED
  BY <1>3, <1>5, <1>6, <1>7, <1>8, <1>9, <1>10, StepMoves

\* A result settles its step; a blocked one leaves it waiting with one question more.
LEMMA SubmitResultStep ==
  ASSUME Inductive, NEW t \in Tasks, NEW p \in Answers, SubmitResult(t, p)
  PROVE  Inductive'
<1> DEFINE q == TaskPhaseOf[p]
           d == [task[t] EXCEPT !.phase = q, !.live = "none"]
<1>1. task[t].live = "running" /\ Open /\ job.control # "STOP_REQUESTED"
  BY DEF SubmitResult
<1>2. task \in [Tasks -> TaskDocs] /\ task[t] \in TaskDocs /\ job \in JobDocs
  BY DEF Inductive, TypeOK
<1>3. /\ t \in Steps /\ Exists(t) /\ ~Terminal(t) /\ task[t].losses < MaxLosses
      /\ Awaits(t) => task[Predecessor(t)].phase = "SUCCEEDED"
      /\ "blocked_external" \notin Answers => ~(open[t] > 0)
  BY <1>1, LiveStep
<1>4. /\ q \in {"SUCCEEDED", "PARTIAL", "FAILED", "WAITING_INPUT", "WAITING_DEPENDENCY"}
      /\ Blocks(p) => p \in {"blocked_user", "blocked_approval", "blocked_external"}
      /\ "blocked_external" \notin Answers /\ Blocks(p) => q = "WAITING_INPUT"
  BY DEF TaskPhaseOf, Blocks, AllAnswers
<1>5. task' = [task EXCEPT ![t] = d]
  BY <1>2 DEF SubmitResult
<1> HIDE DEF q
<1>6. d \in TaskDocs /\ d.phase = q /\ d.live = "none" /\ d.losses = task[t].losses
  BY <1>2, <1>4 DEF TaskDocs, TaskPhases, TerminalTask
<1> HIDE DEF d
<1>7. Follows(t, d) /\ Fits(d, job.control)
  BY <1>3, <1>4, <1>6 DEF Follows, Fits
<1>8. KnowsNext /\ edges' = edges
  BY SameLanesKnow DEF SubmitResult
<1>9. CASE ~Blocks(p)
  BY <1>1, <1>3, <1>5, <1>6, <1>7, <1>9, QuietMove DEF SubmitResult
<1>10. CASE Blocks(p)
  <2>1. /\ job.asked < MaxQuestions
        /\ job' = [job EXCEPT !.phase = JobPhaseOf[p], !.asked = @ + 1]
        /\ open' = [open EXCEPT ![t] = @ + 1]
        /\ wakes' = wakes
    BY <1>10 DEF SubmitResult
  <2>2. JobPhaseOf[p] \in JobPhases
    BY <1>4, <1>10 DEF JobPhaseOf, JobPhases
  <2>3. /\ job.asked \in Nat /\ job.asked + 1 \in 0 .. MaxQuestions
        /\ open \in [Tasks -> 0 .. MaxQuestions] /\ open[t] <= job.asked
    BY <1>2, <1>3, <2>1 DEF JobDocs, Inductive, TypeOK, QuestionsWait
  <2>4. /\ job' \in JobDocs /\ job'.outcome = job.outcome /\ job'.control = job.control
        /\ job'.pending = job.pending /\ job'.asked = job.asked + 1
    <3> DEFINE a == job.asked + 1
               w == JobPhaseOf[p]
    <3>1. job' = [job EXCEPT !.phase = w, !.asked = a] /\ a \in 0 .. MaxQuestions
      BY <2>1, <2>3
    <3>2. w \in JobPhases
      BY <2>2
    <3> HIDE DEF a, w
    <3>3. /\ job' \in JobDocs /\ job'.outcome = job.outcome /\ job'.control = job.control
          /\ job'.pending = job.pending /\ job'.asked = a
      BY <1>2, <3>1, <3>2 DEF JobDocs
    <3> QED
      BY <3>3 DEF a
  <2>5. /\ open' \in [Tasks -> 0 .. MaxQuestions] /\ open'[t] <= job'.asked
        /\ \A u \in Tasks : u # t => open'[u] = open[u]
    BY <2>1, <2>3, <2>4
  <2>6. /\ "blocked_external" \notin Answers /\ open'[t] > 0 => d.phase = "WAITING_INPUT" /\ open'[t] = 1
        /\ Awaits(t) /\ open'[t] > 0 => task[Predecessor(t)].phase = "SUCCEEDED"
        /\ wakes' \subseteq Nat /\ job'.asked >= job.asked
    BY <1>3, <1>4, <1>6, <1>10, <2>1, <2>3, <2>4 DEF Inductive, TypeOK
  <2> QED
    BY <1>1, <1>3, <1>5, <1>6, <1>7, <1>8, <2>4, <2>5, <2>6, StepMoves
<1> QED
  BY <1>9, <1>10

\* An answered or expired question leaves its step; the question goes with it.
LEMMA QuestionMove ==
  ASSUME Inductive, Open, NEW t \in Tasks, open[t] > 0, Waits(t),
         NEW p \in {"TIMED_OUT", "RETRY_PENDING"},
         task' = [task EXCEPT ![t].phase = p],
         open' = [open EXCEPT ![t] = @ - 1],
         job' = job \/ job' = [job EXCEPT !.phase = "READY"],
         Wake, UNCHANGED <<edges, lane>>
  PROVE  Inductive'
<1> DEFINE d == [task[t] EXCEPT !.phase = p]
<1>1. /\ task \in [Tasks -> TaskDocs] /\ task[t] \in TaskDocs /\ job \in JobDocs
      /\ open \in [Tasks -> 0 .. MaxQuestions]
  BY DEF Inductive, TypeOK
<1>2. /\ t \in Steps /\ Exists(t) /\ ~Terminal(t)
      /\ Awaits(t) => task[Predecessor(t)].phase = "SUCCEEDED"
  BY AskingStep
<1>3. task[t].live = "none" /\ task[t].losses < MaxLosses
  BY <1>1, <1>2 DEF Waits, Inductive, LiveMatchesPhase, TaskDocs
<1>4. d \in TaskDocs /\ d.phase = p /\ d.live = "none" /\ d.losses = task[t].losses
  BY <1>1, <1>3 DEF TaskDocs, TaskPhases, TerminalTask
<1>5. task' = [task EXCEPT ![t] = d]
  BY <1>1
<1> HIDE DEF d
<1>6. Follows(t, d) /\ Fits(d, job.control)
  BY <1>2, <1>3, <1>4 DEF Follows, Fits
<1>7. /\ job' \in JobDocs /\ job'.outcome = job.outcome /\ job'.control = job.control
      /\ job'.pending = job.pending /\ job'.asked = job.asked /\ job.asked \in Nat
  BY <1>1 DEF JobDocs, JobPhases
<1>8. open[t] \in Nat /\ open[t] <= job.asked /\ open[t] - 1 \in 0 .. MaxQuestions
  BY <1>1, <1>2 DEF Inductive, QuestionsWait
<1>9. /\ open' \in [Tasks -> 0 .. MaxQuestions] /\ open'[t] = open[t] - 1
      /\ \A u \in Tasks : u # t => open'[u] = open[u]
  BY <1>1, <1>8
<1>10. open'[t] <= job'.asked /\ job'.asked >= job.asked
  BY <1>7, <1>8, <1>9
<1>11. /\ "blocked_external" \notin Answers => ~(open'[t] > 0)
       /\ wakes' \subseteq Nat /\ KnowsNext
  BY <1>2, <1>9, WakeTyped, SameLanesKnow DEF Inductive, QuestionsWait
<1> QED
  BY <1>2, <1>4, <1>5, <1>6, <1>7, <1>9, <1>10, <1>11, StepMoves

\* An expired question times its step out, which had run before it asked.
LEMMA ExpireRequestStep ==
  ASSUME Inductive, NEW t \in Tasks, ExpireRequest(t)
  PROVE  Inductive'
  BY QuestionMove DEF ExpireRequest

\* An answered question makes its step dispatchable again, in its turn.
LEMMA AnswerStep ==
  ASSUME Inductive, NEW t \in Tasks, Answer(t)
  PROVE  Inductive'
  BY QuestionMove DEF Answer

\* Waking a stuck job touches only the queue of wakes.
LEMMA ReWakeStep == ASSUME Inductive, ReWake PROVE Inductive'
  BY WakeTyped, SameLanesKnow, LaneMoves DEF ReWake

\* The reduction of a stopped plan: every task has its verdict, the edges go.
LEMMA ReduceTerminalStep == ASSUME Inductive, ReduceTerminal PROVE Inductive'
<1>1. /\ Open /\ job.control = "STOP_REQUESTED" /\ AllTerminal
      /\ job' = [job EXCEPT !.phase = "TERMINAL", !.outcome = job.pending, !.pending = None]
      /\ edges' = {} /\ UNCHANGED <<task, open, wakes, lane>>
      /\ \A t \in Tasks : task[t].live = "none"
  BY DEF ReduceTerminal, PlanSettled, EdgesAfterStop
<1>2. job \in JobDocs /\ job.pending # None
  BY <1>1 DEF Inductive, TypeOK, LaneKnows
<1>3. job.pending \in JobOutcomes
  BY <1>2 DEF JobDocs, JobOutcomes
<1>4. /\ job' \in JobDocs /\ job'.control = job.control /\ job'.asked = job.asked
      /\ ~Open'
  BY <1>1, <1>2, <1>3 DEF JobDocs, JobPhases, Open
<1>5. TypeOK'
  BY <1>1, <1>4 DEF Inductive, TypeOK
<1>6. ParentWaits' /\ ChainsAreWhole' /\ QuestionsWait' /\ OrderedSteps' /\ ParentSettlesLast'
  BY <1>1, <1>4 DEF Inductive, ParentWaits, ChainsAreWhole, QuestionsWait, OrderedSteps,
     ParentSettlesLast, Exists, Terminal
<1>7. EdgesCover' /\ SilentPlan'
  BY <1>1 DEF EdgesCover, SilentPlan, AllTerminal, Exists, Terminal, Tasks
<1>8. LiveMatchesPhase'
  BY <1>1, <1>4 DEF Inductive, LiveMatchesPhase, Terminal, Tasks
<1>9. LaneKnows'
  BY <1>1, <1>4 DEF Inductive, LaneKnows
<1> QED
  BY <1>5, <1>6, <1>7, <1>8, <1>9 DEF Inductive

\* A pause sends back the admissions that had not started, late ones fail.
LEMMA PauseStep == ASSUME Inductive, Pause PROVE Inductive'
<1>1. PICK late \in SUBSET {t \in Tasks : task[t].live = "queued"} :
        task' = [t \in Tasks |->
                   IF task[t].live = "queued"
                   THEN [task[t] EXCEPT !.live = "none",
                                        !.phase = IF t \in late THEN "FAILED" ELSE "READY"]
                   ELSE task[t]]
  BY DEF Pause
<1>2. /\ Open /\ job.control = "NONE" /\ job.pauses < MaxPauses
      /\ job' = [job EXCEPT !.control = "PAUSE_REQUESTED", !.gen = @ + 1, !.pauses = @ + 1]
      /\ wakes' = wakes \cup {job.gen + 1} /\ UNCHANGED <<edges, open, lane>>
  BY DEF Pause
<1>3. task \in [Tasks -> TaskDocs] /\ job \in JobDocs
  BY DEF Inductive, TypeOK
<1>4. ASSUME NEW t \in Tasks, task[t].live = "queued"
      PROVE  /\ task'[t] \in TaskDocs /\ task'[t].live = "none"
             /\ task'[t].losses = task[t].losses /\ task'[t].phase \in {"FAILED", "READY"}
  <2> DEFINE p == IF t \in late THEN "FAILED" ELSE "READY"
  <2>1. task'[t] = [task[t] EXCEPT !.live = "none", !.phase = p] /\ task[t] \in TaskDocs
    BY <1>1, <1>3, <1>4
  <2>2. p \in {"FAILED", "READY"}
    OBVIOUS
  <2> HIDE DEF p
  <2> QED
    BY <2>1, <2>2 DEF TaskDocs, TaskPhases, TerminalTask
<1>5. ASSUME NEW t \in Tasks, task[t].live # "queued"
      PROVE  task'[t] = task[t]
  BY <1>1, <1>5
<1>6. /\ job' \in JobDocs /\ job'.outcome = job.outcome /\ job'.control = "PAUSE_REQUESTED"
      /\ job'.asked = job.asked /\ job'.pending = job.pending
  <2> DEFINE g == job.gen + 1
             n == job.pauses + 1
  <2>1. job' = [job EXCEPT !.control = "PAUSE_REQUESTED", !.gen = g, !.pauses = n]
    BY <1>2
  <2>2. g \in Nat /\ n \in 0 .. MaxPauses
    BY <1>2, <1>3 DEF JobDocs
  <2> HIDE DEF g, n
  <2> QED
    BY <1>3, <2>1, <2>2 DEF JobDocs
<1>7. TypeOK'
  <2>1. task' \in [Tasks -> TaskDocs]
    <3>1. \A t \in Tasks : task'[t] \in TaskDocs
      BY <1>3, <1>4, <1>5
    <3>2. task' = [t \in Tasks |-> task'[t]]
      BY <1>1
    <3> QED
      BY <3>1, <3>2
  <2>2. wakes' \subseteq Nat
    BY <1>2, <1>3 DEF Inductive, TypeOK, JobDocs
  <2> QED
    BY <1>2, <1>6, <2>1, <2>2 DEF Inductive, TypeOK
<1>8. task'[Parent] = task[Parent]
  BY <1>5, ParentIsNoStep DEF Inductive, ParentWaits
<1>9. ParentWaits' /\ LaneKnows'
  BY <1>2, <1>6, <1>8 DEF Inductive, ParentWaits, LaneKnows
<1>10. ChainsAreWhole' /\ EdgesCover' /\ OrderedSteps' /\ ParentSettlesLast' /\ SilentPlan'
  <2>1. ASSUME NEW u \in Steps
        PROVE  task'[u] = task[u] \/ (Exists(u) /\ ~Terminal(u) /\ Follows(u, task'[u]))
    <3>1. CASE task[u].live = "queued"
      <4>1. u \in Tasks /\ task[u].live # "none"
        BY <3>1 DEF Tasks
      <4> QED
        BY <1>4, <3>1, <4>1, LiveStep DEF Follows
    <3>2. CASE task[u].live # "queued"
      BY <1>5, <3>2 DEF Tasks
    <3> QED
      BY <3>1, <3>2
  <2>2. /\ \A u \in Steps : ~Exists(u) => open'[u] = 0
        /\ edges' = edges /\ (~Open' => ~Open)
    BY <1>2, <1>6 DEF Inductive, ChainsAreWhole, Open
  <2> QED
    BY <1>8, <2>1, <2>2, PlanMoves
<1>11. LiveMatchesPhase'
  <2> SUFFICES ASSUME NEW t \in Steps
               PROVE  /\ task'[t].live \in {"queued", "running"} =>
                           /\ task'[t].phase = "DISPATCHED" /\ Open'
                           /\ job'.control # "STOP_REQUESTED"
                      /\ task'[t].live = "queued" => job'.control = "NONE"
                      /\ task'[t].live = "stopping" => task'[t].phase = "RECONCILING"
                      /\ task'[t].phase = "RECONCILING" => job'.control = "STOP_REQUESTED"
                      /\ ~Terminal(t)' => task'[t].losses < MaxLosses
    BY DEF LiveMatchesPhase
  <2>1. t \in Tasks
    BY DEF Tasks
  <2>2. CASE task[t].live = "queued"
    BY <1>4, <2>1, <2>2, LiveStep
  <2>3. CASE task[t].live # "queued"
    BY <1>2, <1>5, <1>6, <2>1, <2>3 DEF Inductive, LiveMatchesPhase, Terminal, Open
  <2> QED
    BY <2>2, <2>3
<1>12. QuestionsWait'
  <2> SUFFICES ASSUME NEW t \in Steps
               PROVE  /\ open'[t] <= job'.asked
                      /\ Awaits(t) /\ open'[t] > 0 =>
                           task'[Predecessor(t)].phase = "SUCCEEDED"
                      /\ "blocked_external" \notin Answers /\ open'[t] > 0 =>
                           task'[t].phase = "WAITING_INPUT" /\ open'[t] = 1
    BY DEF QuestionsWait
  <2>1. t \in Tasks
    BY DEF Tasks
  <2>2. ASSUME Awaits(t), task[Predecessor(t)].phase = "SUCCEEDED"
        PROVE  task'[Predecessor(t)].phase = "SUCCEEDED"
    <3>1. Predecessor(t) \in Tasks /\ task[Predecessor(t)].live # "queued"
      BY <2>2, PredecessorIsStep DEF Tasks, Inductive, LiveMatchesPhase
    <3> QED
      BY <1>5, <2>2, <3>1
  <2>3. open'[t] = open[t] /\ job'.asked = job.asked
    BY <1>2, <1>6
  <2>4. "blocked_external" \notin Answers /\ open[t] > 0 => task[t].live # "queued"
    BY <2>1, LiveStep
  <2> QED
    BY <1>5, <2>1, <2>2, <2>3, <2>4 DEF Inductive, QuestionsWait
<1> QED
  BY <1>7, <1>9, <1>10, <1>11, <1>12 DEF Inductive

\* A resume changes the control of the job and nothing of its plan.
LEMMA ResumeStep == ASSUME Inductive, Resume PROVE Inductive'
<1>1. /\ Open /\ job.control = "PAUSE_REQUESTED"
      /\ job' = [job EXCEPT !.control = "NONE", !.gen = @ + 1]
      /\ wakes' = wakes \cup {job.gen + 1} /\ UNCHANGED <<task, edges, open, lane>>
  BY DEF Resume
<1>2. job \in JobDocs
  BY DEF Inductive, TypeOK
<1>3. job.gen + 1 \in Nat /\ wakes' \subseteq Nat
  BY <1>1, <1>2 DEF JobDocs, Inductive, TypeOK
<1>4. /\ job' \in JobDocs /\ job'.outcome = job.outcome /\ job'.control = "NONE"
      /\ job'.asked = job.asked
  BY <1>1, <1>2, <1>3 DEF JobDocs
<1>5. TypeOK'
  BY <1>1, <1>3, <1>4 DEF Inductive, TypeOK
<1>6. ParentWaits' /\ ChainsAreWhole' /\ EdgesCover' /\ QuestionsWait' /\ OrderedSteps'
  BY <1>1, <1>4 DEF Inductive, ParentWaits, ChainsAreWhole, EdgesCover, QuestionsWait,
     OrderedSteps, Exists, Terminal
<1>7. LiveMatchesPhase' /\ ParentSettlesLast' /\ SilentPlan' /\ LaneKnows'
  BY <1>1, <1>4 DEF Inductive, LiveMatchesPhase, ParentSettlesLast, SilentPlan, LaneKnows,
     AllTerminal, Exists, Terminal, Open
<1> QED
  BY <1>5, <1>6, <1>7 DEF Inductive

\* A stop cancels every task that is not terminal, but one that runs: that one
\* reconciles.
LEMMA CancelStep == ASSUME Inductive, Cancel PROVE Inductive'
<1>1. /\ Open /\ job.control # "STOP_REQUESTED"
      /\ job' = [job EXCEPT !.control = "STOP_REQUESTED", !.phase = "RECONCILING",
                            !.pending = "CANCELLED", !.gen = @ + 1]
      /\ task' = [t \in Tasks |->
                    IF ~Exists(t) \/ Terminal(t) THEN task[t]
                    ELSE IF task[t].live = "running"
                    THEN [task[t] EXCEPT !.phase = "RECONCILING", !.live = "stopping"]
                    ELSE [task[t] EXCEPT !.phase = "CANCELLED", !.live = "none"]]
      /\ open' = [t \in Tasks |-> 0] /\ wakes' = {} /\ UNCHANGED <<edges, lane>>
  BY DEF Cancel
<1>2. task \in [Tasks -> TaskDocs] /\ job \in JobDocs
  BY DEF Inductive, TypeOK
<1>3. /\ job' \in JobDocs /\ job'.outcome = job.outcome /\ job'.control = "STOP_REQUESTED"
      /\ job'.pending # None /\ job'.asked = job.asked
  <2> DEFINE g == job.gen + 1
  <2>1. job' = [job EXCEPT !.control = "STOP_REQUESTED", !.phase = "RECONCILING",
                           !.pending = "CANCELLED", !.gen = g]
    BY <1>1
  <2>2. g \in Nat
    BY <1>2 DEF JobDocs
  <2> HIDE DEF g
  <2> QED
    BY <1>2, <2>1, <2>2 DEF JobDocs, JobPhases, None
<1>4. ASSUME NEW t \in Tasks, ~Exists(t) \/ Terminal(t)
      PROVE  task'[t] = task[t]
  BY <1>1, <1>4
<1>5. ASSUME NEW t \in Tasks, Exists(t), ~Terminal(t), task[t].live = "running"
      PROVE  /\ task'[t] \in TaskDocs /\ task'[t].phase = "RECONCILING"
             /\ task'[t].live = "stopping" /\ task'[t].losses = task[t].losses
  <2>1. task'[t] = [task[t] EXCEPT !.phase = "RECONCILING", !.live = "stopping"]
    BY <1>1, <1>5
  <2>2. task[t] \in TaskDocs
    BY <1>2
  <2> QED
    BY <2>1, <2>2 DEF TaskDocs, TaskPhases
<1>6. ASSUME NEW t \in Tasks, Exists(t), ~Terminal(t), task[t].live # "running"
      PROVE  /\ task'[t] \in TaskDocs /\ task'[t].phase = "CANCELLED"
             /\ task'[t].live = "none" /\ task'[t].losses = task[t].losses
  <2>1. task'[t] = [task[t] EXCEPT !.phase = "CANCELLED", !.live = "none"]
    BY <1>1, <1>6
  <2>2. task[t] \in TaskDocs
    BY <1>2
  <2> QED
    BY <2>1, <2>2 DEF TaskDocs, TaskPhases, TerminalTask
<1>7. TypeOK'
  <2>1. \A t \in Tasks : task'[t] \in TaskDocs
    BY <1>2, <1>4, <1>5, <1>6
  <2>2. task' = [t \in Tasks |-> task'[t]]
    BY <1>1
  <2>3. task' \in [Tasks -> TaskDocs]
    BY <2>1, <2>2
  <2>4. open' \in [Tasks -> 0 .. MaxQuestions]
    <3>1. 0 \in 0 .. MaxQuestions
      OBVIOUS
    <3> QED
      BY <1>1, <3>1
  <2> QED
    BY <1>1, <1>3, <2>3, <2>4 DEF Inductive, TypeOK
<1>8. /\ Terminal(Parent) => task'[Parent] = task[Parent]
      /\ ~Terminal(Parent) => task'[Parent].phase = "CANCELLED"
      /\ task'[Parent].live = "none" /\ open'[Parent] = 0
  <2>1. Parent \in Tasks /\ Exists(Parent) /\ task[Parent].live = "none"
    BY ParentIsNoStep DEF Inductive, ParentWaits, Exists
  <2> QED
    BY <1>1, <1>4, <1>6, <2>1
<1>9. ParentWaits' /\ LaneKnows'
  BY <1>1, <1>3, <1>8 DEF Inductive, ParentWaits, LaneKnows
<1>10. ASSUME NEW u \in Steps, task'[u] # task[u]
       PROVE  Exists(u) /\ ~Terminal(u) /\ Follows(u, task'[u])
  <2>1. u \in Tasks /\ Exists(u) /\ ~Terminal(u)
    BY <1>4, <1>10 DEF Tasks
  <2>2. CASE task[u].live = "running"
    BY <1>5, <2>1, <2>2, LiveStep DEF Follows
  <2>3. CASE task[u].live # "running"
    <3>1. /\ task'[u].phase = "CANCELLED" /\ task'[u].live = "none"
          /\ task'[u].losses = task[u].losses
      BY <1>6, <2>1, <2>3
    <3> QED
      BY <2>1, <3>1 DEF Follows, Untouched, Inductive, OrderedSteps
  <2> QED
    BY <2>1, <2>2, <2>3
<1>11. ChainsAreWhole' /\ EdgesCover' /\ OrderedSteps' /\ ParentSettlesLast' /\ SilentPlan'
  <2>1. /\ Terminal(Parent) \/ task'[Parent].phase \in {"SUCCEEDED", "FAILED"}
             => task'[Parent] = task[Parent]
        /\ edges' = edges /\ (~Open' => ~Open)
        /\ \A u \in Steps : ~Exists(u) => open'[u] = 0
    BY <1>1, <1>3, <1>8 DEF Open, Tasks
  <2> QED
    BY <1>10, <2>1, PlanMoves
<1>12. LiveMatchesPhase'
  <2> SUFFICES ASSUME NEW t \in Steps
               PROVE  /\ task'[t].live \in {"queued", "running"} =>
                           /\ task'[t].phase = "DISPATCHED" /\ Open'
                           /\ job'.control # "STOP_REQUESTED"
                      /\ task'[t].live = "queued" => job'.control = "NONE"
                      /\ task'[t].live = "stopping" => task'[t].phase = "RECONCILING"
                      /\ task'[t].phase = "RECONCILING" => job'.control = "STOP_REQUESTED"
                      /\ ~Terminal(t)' => task'[t].losses < MaxLosses
    BY DEF LiveMatchesPhase
  <2>1. t \in Tasks
    BY DEF Tasks
  <2>2. CASE ~Exists(t) \/ Terminal(t)
    <3>1. task'[t] = task[t]
      BY <1>4, <2>1, <2>2
    <3>2. task[t].live = "none" \/ task[t].live = "stopping"
      <4>1. task[t].live = "none"
        BY <2>1, <2>2, LiveStep
      <4> QED
        BY <4>1
    <3> QED
      BY <1>3, <3>1, <3>2 DEF Inductive, LiveMatchesPhase, Terminal
  <2>3. CASE Exists(t) /\ ~Terminal(t) /\ task[t].live = "running"
    BY <1>3, <1>5, <2>1, <2>3 DEF Inductive, LiveMatchesPhase
  <2>4. CASE Exists(t) /\ ~Terminal(t) /\ task[t].live # "running"
    BY <1>3, <1>6, <2>1, <2>4 DEF Terminal, TerminalTask
  <2> QED
    BY <2>2, <2>3, <2>4
<1>13. QuestionsWait'
  <2>1. \A t \in Steps : open'[t] = 0
    BY <1>1 DEF Tasks
  <2>2. job'.asked \in Nat
    BY <1>3 DEF JobDocs
  <2> QED
    BY <2>1, <2>2 DEF QuestionsWait
<1> QED
  BY <1>7, <1>9, <1>11, <1>12, <1>13 DEF Inductive

-----------------------------------------------------------------------------
\* Every step of the specification preserves the invariant.
LEMMA NextInductive == Inductive /\ [Next]_vars => Inductive'
<1> SUFFICES ASSUME Inductive, [Next]_vars PROVE Inductive'
  OBVIOUS
<1>1. ASSUME NEW l \in Lanes,
             \/ LaneClaimsWake(l) \/ LaneReads(l) \/ LaneAdvances(l) \/ LanePlans(l)
             \/ LaneSpawns(l) \/ LaneLosesSpawn(l) \/ (\E t \in Steps : LanePromotes(l, t))
             \/ LaneResolves(l) \/ LaneDispatches(l) \/ LaneCrashes(l)
      PROVE  Inductive'
  BY <1>1, LaneClaimsWakeStep, LaneReadsStep, LaneAdvancesStep, LanePlansStep, LaneSpawnsStep,
     LaneLosesSpawnStep, LanePromotesStep, LaneResolvesStep, LaneDispatchesStep
<1>2. ASSUME NEW t \in Tasks,
             \/ Start(t) \/ (\E p \in Answers : SubmitResult(t, p)) \/ ExpireQueued(t)
             \/ ReapLostWorker(t) \/ FireStopGrace(t) \/ ExpireRequest(t) \/ Answer(t)
      PROVE  Inductive'
  BY <1>2, StartStep, SubmitResultStep, ExpireQueuedStep, ReapLostWorkerStep,
     FireStopGraceStep, ExpireRequestStep, AnswerStep
<1>3. CASE ReWake \/ ReduceTerminal \/ Pause \/ Resume \/ Cancel
  BY <1>3, ReWakeStep, ReduceTerminalStep, PauseStep, ResumeStep, CancelStep
<1>4. CASE UNCHANGED vars
  <2>1. wakes' \subseteq Nat /\ KnowsNext /\ UNCHANGED <<job, task, edges, open>>
    BY <1>4, SameLanesKnow DEF vars, Inductive, TypeOK
  <2> QED
    BY <2>1, LaneMoves
<1> QED
  BY <1>1, <1>2, <1>3, <1>4 DEF Next

\* The invariant holds in every reachable state.
THEOREM InductiveHolds == Spec => []Inductive
  BY InitInductive, NextInductive, PTL DEF Spec

\* Every document, queue and lane memory keeps its type.
THEOREM TypeCorrect == Spec => []TypeOK
<1>1. Inductive => TypeOK
  BY DEF Inductive
<1> QED
  BY <1>1, InductiveHolds, PTL

\* However many lanes race and however often the plan was materialized, no step
\* runs, or waits to run again, unless the one before it delivered in full.
THEOREM StepsInOrder == Spec => []OrderedSteps
<1>1. Inductive => OrderedSteps
  BY DEF Inductive
<1> QED
  BY <1>1, InductiveHolds, PTL

\* The parent is never settled under a step that could still move.
THEOREM ParentLast == Spec => []ParentSettlesLast
<1>1. Inductive => ParentSettlesLast
  BY DEF Inductive
<1> QED
  BY <1>1, InductiveHolds, PTL

\* If no worker answers blocked_external, a closed job leaves nothing behind; with
\* such answers a closed job can keep an OPEN question.
THEOREM ClosedPlanIsSilent ==
  ASSUME "blocked_external" \notin Answers
  PROVE  Spec => []TerminalIsSilent
<1>1. Inductive => TerminalIsSilent
  <2> SUFFICES ASSUME Inductive, ~Open
               PROVE  /\ AllTerminal /\ edges = {}
                      /\ \A t \in Tasks : task[t].live = "none" /\ open[t] = 0
    BY DEF TerminalIsSilent
  <2>1. AllTerminal /\ edges = {}
    BY DEF Inductive, SilentPlan
  <2>2. ASSUME NEW t \in Tasks PROVE task[t].live = "none" /\ open[t] = 0
    <3>1. task[t].live = "none"
      BY LiveStep
    <3>2. open[t] > 0 => t \in Steps
      BY DEF Inductive, ParentWaits, Tasks
    <3>3. open[t] > 0 => task[t].phase = "WAITING_INPUT"
      BY <3>2 DEF Inductive, QuestionsWait
    <3>4. task[t].phase # "WAITING_INPUT"
      BY <2>1 DEF AllTerminal, Exists, Terminal, TerminalTask
    <3>5. open[t] \in Nat
      BY DEF Inductive, TypeOK
    <3> QED
      BY <3>1, <3>3, <3>4, <3>5
  <2> QED
    BY <2>1, <2>2
<1> QED
  BY <1>1, InductiveHolds, PTL

\* A closed job is closed for good: a lane that read it open changes nothing.
THEOREM ClosedPlanIsFinal == Spec => PlanIsFinal
<1>1. Inductive /\ [Next]_vars => [~Open => UNCHANGED <<job, task, edges, open>>]_vars
  <2> SUFFICES ASSUME Inductive, Next, ~Open
               PROVE  UNCHANGED <<job, task, edges, open>>
    BY DEF vars
  <2>1. AllTerminal /\ \A t \in Tasks : task[t].live = "none"
    BY LiveStep DEF Inductive, SilentPlan
  <2>2. ASSUME NEW l \in Lanes,
               \/ LaneClaimsWake(l) \/ LaneReads(l) \/ LaneAdvances(l) \/ LanePlans(l)
               \/ LaneSpawns(l) \/ LaneLosesSpawn(l) \/ (\E t \in Steps : LanePromotes(l, t))
               \/ LaneResolves(l) \/ LaneDispatches(l) \/ LaneCrashes(l)
        PROVE  UNCHANGED <<job, task, edges, open>>
    BY <2>2 DEF LaneClaimsWake, LaneReads, LaneAdvances, AdvanceGranted, LanePlans,
         LaneSpawns, SpawnGranted, LaneLosesSpawn, LanePromotes, PromoteGranted,
         LaneResolves, ResolveGranted, LaneDispatches, DispatchGranted, LaneCrashes
  <2>3. ASSUME NEW t \in Tasks,
               \/ Start(t) \/ (\E p \in Answers : SubmitResult(t, p)) \/ ExpireQueued(t)
               \/ ReapLostWorker(t) \/ FireStopGrace(t) \/ ExpireRequest(t) \/ Answer(t)
        PROVE  UNCHANGED <<job, task, edges, open>>
    BY <2>1, <2>3 DEF Start, SubmitResult, ExpireQueued, ReapLostWorker, FireStopGrace,
         ExpireRequest, Answer
  <2>4. CASE ReWake \/ ReduceTerminal \/ Pause \/ Resume \/ Cancel
    BY <2>4 DEF ReWake, ReduceTerminal, Pause, Resume, Cancel
  <2> QED
    BY <2>2, <2>3, <2>4 DEF Next
<1> QED
  BY <1>1, InductiveHolds, PTL DEF Spec, PlanIsFinal

\* While the owner's pause stands no lane, whatever it had read before, creates,
\* releases, blocks or dispatches a step or settles the parent.
THEOREM PausedPlanIsFrozen == Spec => PauseFreezesPlan
<1> DEFINE Frozen ==
      /\ UNCHANGED <<edges, task[Parent]>>
      /\ \A t \in Steps :
           /\ ~Exists(t) => task'[t] = task[t]
           /\ t \in Sequenced => task'[t].phase \notin {"READY", "BLOCKED"}
           /\ task'[t].live = "queued" => task[t].live = "queued"
<1>1. ASSUME Inductive, Next, job.control = "PAUSE_REQUESTED", job'.control = "PAUSE_REQUESTED"
      PROVE  Frozen
  <2>1. task \in [Tasks -> TaskDocs] /\ job \in JobDocs
    BY <1>1 DEF Inductive, TypeOK
  <2>2. ASSUME UNCHANGED <<task, edges>> PROVE Frozen
    BY <2>2 DEF Sequenced
  <2>3. ASSUME NEW l \in Lanes,
               \/ LaneClaimsWake(l) \/ LaneReads(l) \/ LaneAdvances(l) \/ LanePlans(l)
               \/ LaneSpawns(l) \/ LaneLosesSpawn(l) \/ (\E t \in Steps : LanePromotes(l, t))
               \/ LaneResolves(l) \/ LaneDispatches(l) \/ LaneCrashes(l)
        PROVE  Frozen
    <3>1. UNCHANGED <<task, edges>>
      BY <1>1, <2>3 DEF LaneClaimsWake, LaneReads, LaneAdvances, LanePlans,
         LaneSpawns, SpawnGranted, LaneLosesSpawn, LanePromotes, PromoteGranted,
         LaneResolves, ResolveGranted, LaneDispatches, DispatchGranted, LaneCrashes
    <3> QED
      BY <3>1, <2>2
  <2>4. ASSUME NEW t \in Tasks, t \in Steps, Exists(t), edges' = edges,
               \A u \in Tasks : u # t => task'[u] = task[u],
               t \in Sequenced => task'[t].phase \notin {"READY", "BLOCKED"},
               task'[t].live # "queued"
        PROVE  Frozen
    <3>1. task'[Parent] = task[Parent]
      BY <2>4, ParentIsNoStep
    <3>2. ASSUME NEW u \in Steps
          PROVE  /\ ~Exists(u) => task'[u] = task[u]
                 /\ u \in Sequenced => task'[u].phase \notin {"READY", "BLOCKED"}
                 /\ task'[u].live = "queued" => task[u].live = "queued"
      <4>1. CASE u = t
        BY <2>4, <4>1
      <4>2. CASE u # t
        <5>1. task'[u] = task[u]
          BY <2>4, <4>2 DEF Tasks
        <5> QED
          BY <5>1 DEF Sequenced
      <4> QED
        BY <4>1, <4>2
    <3> QED
      BY <2>4, <3>1, <3>2
  <2>5. ASSUME NEW t \in Tasks,
               (\E p \in Answers : SubmitResult(t, p)) \/ ExpireQueued(t) \/ ReapLostWorker(t)
        PROVE  Frozen
    <3>1. /\ t \in Steps /\ Exists(t) /\ task[t].phase \in {"DISPATCHED", "RECONCILING"}
      BY <1>1, <2>5, LiveStep DEF SubmitResult, ExpireQueued, ReapLostWorker
    <3>2. task'[t].live = "none" /\ edges' = edges /\ \A u \in Tasks : u # t => task'[u] = task[u]
      <4>1. CASE \E p \in Answers : SubmitResult(t, p)
        BY <2>1, <4>1 DEF SubmitResult, TaskDocs
      <4>2. CASE ExpireQueued(t)
        BY <2>1, <4>2 DEF ExpireQueued, TaskDocs
      <4>3. CASE ReapLostWorker(t)
        BY <2>1, <4>3 DEF ReapLostWorker
      <4> QED
        BY <2>5, <4>1, <4>2, <4>3
    <3> QED
      BY <2>4, <3>1, <3>2 DEF Sequenced
  <2>6. ASSUME NEW t \in Tasks, ExpireRequest(t) \/ Answer(t) PROVE Frozen
    <3>1. t \in Steps /\ Exists(t)
      BY <1>1, <2>6, AskingStep DEF ExpireRequest, Answer
    <3>2. task[t].live # "queued"
      BY <1>1, <3>1 DEF Inductive, LiveMatchesPhase
    <3>3. PICK p \in {"TIMED_OUT", "RETRY_PENDING"} : task' = [task EXCEPT ![t].phase = p]
      BY <2>6 DEF ExpireRequest, Answer
    <3>4. task'[t] = [task[t] EXCEPT !.phase = p] /\ task[t] \in TaskDocs
      BY <2>1, <3>3
    <3>5. task'[t].phase = p /\ task'[t].live = task[t].live
      BY <3>4 DEF TaskDocs
    <3>6. edges' = edges /\ \A u \in Tasks : u # t => task'[u] = task[u]
      BY <2>1, <2>6, <3>3 DEF ExpireRequest, Answer
    <3> QED
      BY <2>4, <3>1, <3>2, <3>5, <3>6
  <2>7. ASSUME NEW t \in Tasks, FireStopGrace(t) PROVE FALSE
    <3>1. t \in Steps
      BY <1>1, <2>7, LiveStep DEF FireStopGrace
    <3> QED
      BY <1>1, <2>7, <3>1 DEF FireStopGrace, Inductive, LiveMatchesPhase
  <2>8. CASE ReWake \/ ReduceTerminal \/ Pause \/ Resume \/ Cancel
    <3>1. UNCHANGED <<task, edges>>
      BY <1>1, <2>1, <2>8 DEF ReWake, ReduceTerminal, Pause, Resume, Cancel, JobDocs
    <3> QED
      BY <3>1, <2>2
  <2>9. ASSUME NEW t \in Tasks, Start(t) PROVE FALSE
    BY <1>1, <2>9 DEF Start
  <2> QED
    BY <1>1, <2>3, <2>5, <2>6, <2>7, <2>8, <2>9 DEF Next
<1>2. Inductive /\ [Next]_vars =>
        [job.control = "PAUSE_REQUESTED" /\ job'.control = "PAUSE_REQUESTED" => Frozen]_vars
  BY <1>1
<1> QED
  BY <1>2, InductiveHolds, PTL DEF Spec, PauseFreezesPlan

=============================================================================
