----------------------- MODULE AttemptAuthority_proofs -----------------------
(***************************************************************************)
(* Theorems about AttemptAuthority for every number of attempts, losses,   *)
(* pauses, questions, workers and lane processes.                          *)
(*                                                                         *)
(* The argument is one inductive invariant, Inductive.  TypeStep preserves *)
(* its typing half by itself; AuthorityStep preserves the rest from both.  *)
(***************************************************************************)
EXTENDS AttemptAuthority, TLAPS

USE BoundsAssumption, PayloadsAssumption, BackoffAssumption

\* The initial state satisfies the whole invariant.
LEMMA InitInductive == Init => Inductive
  BY DEF Init, Inductive, TypeOK, HeldMemory, Authority, SingleExecution, Live,
         PreStartUnderCurrentAuthority, StopIsJobWide, BindingCleared, QuestionMatchesTask,
         TerminalIsSilent, UnderOnePause, MarkerBound, NeverSuperseded, AbsentAttempt, Idle,
         Asleep, Open, TaskTerminal, TerminalTaskPhases, LiveAttempt, Attempts, NoAttempt,
         None, JobDocs, TaskDocs, AttemptDocs, Memories, LaneMemories, Lifecycles,
         AttemptOutcomes, Controls, JobPhases, JobOutcomes, TaskPhases, Stages

\* Finishing an attempt leaves a well-formed document.
LEMMA FinishTyped ==
  ASSUME TypeOK, NEW a \in Attempts, NEW o \in AttemptOutcomes, NEW f \in Nat
  PROVE  Finish(a, o, f) \in AttemptDocs
<1>1. att[a] \in AttemptDocs
  BY DEF TypeOK
<1> QED
  BY <1>1 DEF Finish, AttemptDocs, Lifecycles

\* A stop request leaves a well-formed document.
LEMMA StopTyped ==
  ASSUME NEW b \in AttemptDocs, NEW m \in Nat
  PROVE  [b EXCEPT !.lifecycle = "STOP_REQUESTED", !.stopGen = @ + 1,
                   !.jobStopGenAtStop = m] \in AttemptDocs
<1>1. ASSUME NEW n \in Nat
      PROVE  [b EXCEPT !.lifecycle = "STOP_REQUESTED", !.stopGen = n,
                       !.jobStopGenAtStop = m] \in AttemptDocs
  BY DEF AttemptDocs, Lifecycles
<1>2. b.stopGen + 1 \in Nat
  BY DEF AttemptDocs
<1> QED
  BY <1>1, <1>2

\* The passing of a deadline or of a lease leaves a well-formed document.
LEMMA ClockTyped ==
  ASSUME NEW b \in AttemptDocs, NEW c \in {"open", "cutoff", "work", "hard"},
         NEW e \in {"none", "live", "expired"}
  PROVE  [b EXCEPT !.clock = c, !.lease = e] \in AttemptDocs
  BY DEF AttemptDocs

\* An answer in a worker's memory is a well-formed memory.
LEMMA ReturnTyped ==
  ASSUME NEW b \in Memories, NEW p \in Payloads
  PROVE  [b EXCEPT !.stage = "returned", !.payload = p] \in Memories
  BY DEF Memories, Stages

\* Clearing the binding leaves a well-formed task.
LEMMA UnbindTyped == ASSUME TypeOK, NEW p \in TaskPhases PROVE Unbind(p) \in TaskDocs
  BY DEF TypeOK, Unbind, TaskDocs, NoAttempt

\* Every step keeps documents, memories and queues in their types.
LEMMA TypeStep == TypeOK /\ HeldMemory /\ [Next]_vars => TypeOK' /\ HeldMemory'
<1> SUFFICES ASSUME TypeOK, HeldMemory, [Next]_vars PROVE TypeOK' /\ HeldMemory'
  OBVIOUS
<1>fin. \A a \in Attempts, o \in AttemptOutcomes, f \in Nat : Finish(a, o, f) \in AttemptDocs
  BY FinishTyped
<1>unb. \A p \in TaskPhases : Unbind(p) \in TaskDocs
  BY UnbindTyped
<1> USE DEF TypeOK
<1>fence. \A a \in Attempts : att[a].fence \in Nat /\ att[a].fence + 1 \in Nat
  BY DEF AttemptDocs
<1>job. job.gen + 1 \in Nat /\ job.stopGen + 1 \in Nat /\ job.pauseGen + 1 \in Nat
  BY DEF JobDocs
<1>stop. task.stopGen + 1 \in Nat
  BY DEF TaskDocs
<1>1. ASSUME NEW l \in Lanes, LaneClaimsWake(l)
      PROVE  TypeOK' /\ HeldMemory'
  <2>1. wakes' \subseteq Nat
    BY <1>1 DEF LaneClaimsWake, Wake
  <2>2. lane' \in [Lanes -> LaneMemories]
    <3> DEFINE g == Min(wakes)
    <3> HIDE DEF g
    <3>1. lane' = IF g = job.gen
                  THEN [lane EXCEPT ![l] = [gen |-> g, step |-> "read"]] ELSE lane
      BY <1>1 DEF LaneClaimsWake, g
    <3> QED
      BY <3>1 DEF LaneMemories, JobDocs
  <2>3. HeldMemory'
    BY <1>1 DEF LaneClaimsWake, HeldMemory
  <2> QED
    BY <1>1, <2>1, <2>2, <2>3 DEF LaneClaimsWake
<1>2. ASSUME NEW l \in Lanes, LaneReads(l)
      PROVE  TypeOK' /\ HeldMemory'
  <2>1. lane' \in [Lanes -> LaneMemories]
    BY <1>2 DEF LaneReads, LaneDecision, LaneMemories
  <2>2. HeldMemory'
    BY <1>2 DEF LaneReads, HeldMemory
  <2> QED
    BY <1>2, <2>1, <2>2 DEF LaneReads
<1>3. ASSUME NEW l \in Lanes, LaneAdvances(l)
      PROVE  TypeOK' /\ HeldMemory'
  <2>1. job' \in JobDocs
    <3>1. TaskTerminal => OutcomeOfTask \in JobOutcomes
      BY DEF TaskTerminal, TerminalTaskPhases, OutcomeOfTask, JobOutcomes
    <3>2. \/ job' = job
          \/ \E o \in JobOutcomes :
                job' = [job EXCEPT !.phase = "TERMINAL", !.outcome = o,
                                   !.gen = @ + 1, !.stopGen = @ + 1]
      BY <1>3, <3>1 DEF LaneAdvances, AdvanceGranted
    <3> QED
      BY <1>job, <3>2 DEF JobDocs, JobPhases
  <2>2. lane' \in [Lanes -> LaneMemories]
    BY <1>3 DEF LaneAdvances, Asleep, LaneMemories
  <2>3. HeldMemory'
    BY <1>3 DEF LaneAdvances, HeldMemory
  <2> QED
    BY <1>3, <2>1, <2>2, <2>3 DEF LaneAdvances
<1>4. ASSUME NEW l \in Lanes, LaneDispatches(l)
      PROVE  TypeOK' /\ HeldMemory'
  <2>1. att' \in [Attempts -> AttemptDocs]
    BY <1>4 DEF LaneDispatches, AbsentAttempt, JobDocs, TaskDocs, AttemptDocs, Lifecycles,
       AttemptOutcomes, None
  <2>2. task' \in TaskDocs
    BY <1>4 DEF LaneDispatches, TaskDocs, TaskPhases, TerminalTaskPhases, NoAttempt
  <2>3. lane' \in [Lanes -> LaneMemories]
    BY <1>4 DEF LaneDispatches, LaneMemories
  <2>4. HeldMemory'
    BY <1>4 DEF LaneDispatches, HeldMemory
  <2> QED
    BY <1>4, <2>1, <2>2, <2>3, <2>4 DEF LaneDispatches
<1>5. ASSUME NEW l \in Lanes, LaneLosesDispatch(l)
      PROVE  TypeOK' /\ HeldMemory'
  <2>1. lane' \in [Lanes -> LaneMemories]
    BY <1>5 DEF LaneLosesDispatch, Asleep, LaneMemories
  <2>2. HeldMemory'
    BY <1>5 DEF LaneLosesDispatch, HeldMemory
  <2> QED
    BY <1>5, <2>1, <2>2 DEF LaneLosesDispatch
<1>6. ASSUME NEW l \in Lanes, LaneCrashes(l)
      PROVE  TypeOK' /\ HeldMemory'
  <2>1. lane' \in [Lanes -> LaneMemories]
    BY <1>6 DEF LaneCrashes, Asleep, LaneMemories
  <2>2. HeldMemory'
    BY <1>6 DEF LaneCrashes, HeldMemory
  <2> QED
    BY <1>6, <2>1, <2>2 DEF LaneCrashes
<1>7. ASSUME NEW w \in Workers, NEW a \in Attempts, Claim(w, a)
      PROVE  TypeOK' /\ HeldMemory'
  <2>1. att' \in [Attempts -> AttemptDocs]
    BY <1>7 DEF Claim, AttemptDocs, Lifecycles, AttemptOutcomes, None
  <2>2. task' \in TaskDocs
    BY <1>7 DEF Claim, TaskDocs, TaskPhases, TerminalTaskPhases, NoAttempt
  <2>3. held' \in [Workers -> Memories]
    BY <1>7 DEF Claim, AttemptDocs, Memories, Stages, NoAttempt, None
  <2>4. HeldMemory'
    BY <1>7 DEF Claim, HeldMemory, Memories, Idle
  <2> QED
    BY <1>7, <2>1, <2>2, <2>3, <2>4 DEF Claim
<1>8. ASSUME NEW w \in Workers, Start(w)
      PROVE  TypeOK' /\ HeldMemory'
  <2>1. att' \in [Attempts -> AttemptDocs]
    BY <1>8 DEF Start, Owns, AttemptDocs, Lifecycles, AttemptOutcomes, None
  <2>2. held' \in [Workers -> Memories]
    BY <1>8 DEF Start, Memories, Stages, NoAttempt, None
  <2>3. HeldMemory'
    BY <1>8 DEF Start, HeldMemory, Memories, Idle
  <2> QED
    BY <1>8, <2>1, <2>2, <2>3 DEF Start
<1>9. ASSUME NEW w \in Workers, NEW p \in Payloads, WorkReturns(w, p)
      PROVE  TypeOK' /\ HeldMemory'
  <2>1. held' \in [Workers -> Memories]
    <3>1. held' = [held EXCEPT ![w] = [@ EXCEPT !.stage = "returned", !.payload = p]]
      BY <1>9 DEF WorkReturns
    <3> QED
      BY <3>1, ReturnTyped
  <2>2. HeldMemory'
    BY <1>9 DEF WorkReturns, HeldMemory, Memories, Idle
  <2> QED
    BY <1>9, <2>1, <2>2 DEF WorkReturns
<1>10. ASSUME NEW w \in Workers, RenewLease(w)
      PROVE  TypeOK' /\ HeldMemory'
  <2>1. att' \in [Attempts -> AttemptDocs]
    BY <1>10 DEF RenewLease, Owns, AttemptDocs, Lifecycles, AttemptOutcomes, None
  <2>2. HeldMemory'
    BY <1>10 DEF RenewLease, HeldMemory
  <2> QED
    BY <1>10, <2>1, <2>2 DEF RenewLease
<1>11. ASSUME NEW w \in Workers, MarkPayloadReady(w)
      PROVE  TypeOK' /\ HeldMemory'
  <2>1. att' \in [Attempts -> AttemptDocs]
    <3>1. att' = [att EXCEPT ![held[w].att].readyPause = job.pauseGen]
      BY <1>11 DEF MarkPayloadReady
    <3> QED
      BY <1>11, <3>1 DEF MarkPayloadReady, MarkerGranted, Owns, JobDocs, AttemptDocs
  <2>2. task' \in TaskDocs
    BY <1>11 DEF MarkPayloadReady, MarkerGranted, Owns, TaskDocs, TaskPhases,
       TerminalTaskPhases, NoAttempt
  <2>3. held' \in [Workers -> Memories]
    BY <1>11 DEF MarkPayloadReady, Memories, Stages, NoAttempt, None
  <2>4. HeldMemory'
    BY <1>11 DEF MarkPayloadReady, HeldMemory, Memories, Idle
  <2> QED
    BY <1>11, <2>1, <2>2, <2>3, <2>4 DEF MarkPayloadReady
<1>12. ASSUME NEW w \in Workers, NoMarkerNeeded(w)
      PROVE  TypeOK' /\ HeldMemory'
  <2>1. held' \in [Workers -> Memories]
    BY <1>12 DEF NoMarkerNeeded, Memories, Stages, NoAttempt, None
  <2>2. HeldMemory'
    BY <1>12 DEF NoMarkerNeeded, HeldMemory, Memories, Idle
  <2> QED
    BY <1>12, <2>1, <2>2 DEF NoMarkerNeeded
<1>13. ASSUME NEW w \in Workers, SubmitResult(w)
      PROVE  TypeOK' /\ HeldMemory'
  <2> DEFINE a == held[w].att
             p == held[w].payload
  <2>1. a \in Attempts /\ p \in Payloads /\ p \in AllPayloads
    BY <1>13 DEF SubmitResult, Owns, HeldMemory
  <2>2. att' \in [Attempts -> AttemptDocs]
    <3>1. AttemptOutcomeOf[p] \in AttemptOutcomes
      BY <2>1 DEF AllPayloads, AttemptOutcomeOf, AttemptOutcomes
    <3>2. att' = [att EXCEPT ![a] = Finish(a, AttemptOutcomeOf[p], att[a].fence)]
      BY <1>13 DEF SubmitResult
    <3> QED
      BY <1>fin, <1>fence, <2>1, <3>1, <3>2
  <2>3. task' \in TaskDocs
    <3>1. TaskPhaseOf[p] \in TaskPhases
      BY <2>1 DEF AllPayloads, TaskPhaseOf, TaskPhases, TerminalTaskPhases
    <3>2. task' = [task EXCEPT !.phase = TaskPhaseOf[p], !.active = NoAttempt]
      BY <1>13 DEF SubmitResult
    <3> QED
      BY <3>1, <3>2 DEF TaskDocs
  <2>4. job' \in JobDocs
    <3>1. Blocked(p) => JobPhaseOf[p] \in JobPhases
      BY DEF Blocked, JobPhaseOf, JobPhases
    <3>2. \/ Blocked(p) /\ job' = [job EXCEPT !.phase = JobPhaseOf[p]]
          \/ job' = job
      BY <1>13 DEF SubmitResult
    <3> QED
      BY <3>1, <3>2 DEF JobDocs
  <2>5. result' \in [Attempts -> Payloads \cup {None}]
    BY <1>13, <2>1 DEF SubmitResult
  <2>6. wakes' \subseteq Nat /\ request' \in {"NONE", "OPEN", "OPEN_DUE"}
    BY <1>13 DEF SubmitResult, Wake, JobDocs
  <2>7. held' \in [Workers -> Memories]
    BY <1>13 DEF SubmitResult, Idle, Memories, Stages
  <2>8. HeldMemory'
    BY <1>13 DEF SubmitResult, HeldMemory, Memories, Idle
  <2> QED
    BY <1>13, <2>2, <2>3, <2>4, <2>5, <2>6, <2>7, <2>8 DEF SubmitResult
<1>14. ASSUME NEW w \in Workers, Abandon(w)
      PROVE  TypeOK' /\ HeldMemory'
  <2>1. held' \in [Workers -> Memories]
    BY <1>14 DEF Abandon, Idle, Memories, Stages, NoAttempt, None
  <2>2. HeldMemory'
    BY <1>14 DEF Abandon, HeldMemory, Memories, Idle
  <2> QED
    BY <1>14, <2>1, <2>2 DEF Abandon
<1>15. ASSUME NEW a \in Attempts, LeaseExpires(a)
      PROVE  TypeOK' /\ HeldMemory'
  <2>1. att' \in [Attempts -> AttemptDocs]
    <3>1. att[a].clock \in {"open", "cutoff", "work", "hard"}
      BY DEF AttemptDocs
    <3>2. att' = [att EXCEPT ![a] = [@ EXCEPT !.clock = att[a].clock, !.lease = "expired"]]
      BY <1>15 DEF LeaseExpires, AttemptDocs
    <3> QED
      BY <3>1, <3>2, ClockTyped
  <2>2. HeldMemory'
    BY <1>15 DEF LeaseExpires, HeldMemory
  <2> QED
    BY <1>15, <2>1, <2>2 DEF LeaseExpires
<1>16. ASSUME NEW a \in Attempts, DeadlinePasses(a)
      PROVE  TypeOK' /\ HeldMemory'
  <2>1. att' \in [Attempts -> AttemptDocs]
    <3> DEFINE c == NextDeadline[att[a].clock]
               e == IF c = "hard" /\ att[a].lease = "live" THEN "expired" ELSE att[a].lease
    <3>1. c \in {"open", "cutoff", "work", "hard"} /\ e \in {"none", "live", "expired"}
      BY <1>16 DEF DeadlinePasses, NextDeadline, AttemptDocs
    <3>2. att' = [att EXCEPT ![a] = [@ EXCEPT !.clock = c, !.lease = e]]
      BY <1>16 DEF DeadlinePasses
    <3> QED
      BY <3>1, <3>2, ClockTyped
  <2>2. job' \in JobDocs
    BY <1>16 DEF DeadlinePasses, JobDocs, Controls, JobPhases, JobOutcomes, None
  <2>3. HeldMemory'
    BY <1>16 DEF DeadlinePasses, HeldMemory
  <2> QED
    BY <1>16, <2>1, <2>2, <2>3 DEF DeadlinePasses
<1>17. ASSUME NEW a \in Attempts, ExpireQueued(a)
      PROVE  TypeOK' /\ HeldMemory'
  <2>1. att' \in [Attempts -> AttemptDocs]
    BY <1>17, <1>fin, <1>fence DEF ExpireQueued, AttemptOutcomes
  <2>2. task' \in TaskDocs
    BY <1>17, <1>unb DEF ExpireQueued, TaskPhases, TerminalTaskPhases
  <2>3. wakes' \subseteq Nat
    BY <1>17 DEF ExpireQueued, JobDocs, Wake
  <2>4. HeldMemory'
    BY <1>17 DEF ExpireQueued, HeldMemory
  <2> QED
    BY <1>17, <2>1, <2>2, <2>3, <2>4 DEF ExpireQueued
<1>18. ASSUME NEW a \in Attempts, ReapLostWorker(a)
      PROVE  TypeOK' /\ HeldMemory'
  <2>1. att' \in [Attempts -> AttemptDocs]
    BY <1>18, <1>fin, <1>fence DEF ReapLostWorker, AttemptOutcomes
  <2>2. task' \in TaskDocs
    BY <1>18, <1>unb DEF ReapLostWorker, TaskDocs, TaskPhases, TerminalTaskPhases
  <2>3. wakes' \subseteq Nat
    BY <1>18 DEF ReapLostWorker, JobDocs, Wake
  <2>4. timers' \subseteq {"future", "due"}
    BY <1>18 DEF ReapLostWorker
  <2>5. HeldMemory'
    BY <1>18 DEF ReapLostWorker, HeldMemory
  <2> QED
    BY <1>18, <2>1, <2>2, <2>3, <2>4, <2>5 DEF ReapLostWorker
<1>19. ASSUME NEW a \in Attempts, ReapUnconfirmed(a)
      PROVE  TypeOK' /\ HeldMemory'
  <2>1. att' \in [Attempts -> AttemptDocs]
    BY <1>19, <1>fin, <1>fence DEF ReapUnconfirmed, AttemptOutcomes
  <2>2. task' \in TaskDocs
    BY <1>19, <1>unb DEF ReapUnconfirmed, TaskPhases
  <2>3. job' \in JobDocs
    BY <1>19 DEF ReapUnconfirmed, JobDocs, Controls, JobPhases, JobOutcomes, None
  <2>4. timers' \subseteq {"future", "due"}
    BY <1>19 DEF ReapUnconfirmed
  <2>5. HeldMemory'
    BY <1>19 DEF ReapUnconfirmed, HeldMemory
  <2> QED
    BY <1>19, <2>1, <2>2, <2>3, <2>4, <2>5 DEF ReapUnconfirmed
<1>20. ASSUME NEW a \in Attempts, FireStopGrace(a)
      PROVE  TypeOK' /\ HeldMemory'
  <2>1. att' \in [Attempts -> AttemptDocs]
    BY <1>20, <1>fin, <1>fence DEF FireStopGrace, AttemptOutcomes
  <2>2. task' \in TaskDocs
    BY <1>20, <1>unb DEF FireStopGrace, TaskPhases
  <2>3. job' \in JobDocs
    <3>1. \/ job' = job
          \/ \E p \in {job.pending, "UNKNOWN_OUTCOME"} :
                job' = [job EXCEPT !.phase = "RECONCILING", !.pending = p]
      BY <1>20 DEF FireStopGrace
    <3> QED
      BY <3>1 DEF JobDocs, JobPhases
  <2>4. HeldMemory'
    BY <1>20 DEF FireStopGrace, HeldMemory
  <2> QED
    BY <1>20, <2>1, <2>2, <2>3, <2>4 DEF FireStopGrace
<1>21. CASE GraceExpires
  <2>1. job' \in JobDocs
    BY <1>21 DEF GraceExpires, JobDocs, Controls, JobPhases, JobOutcomes, None
  <2>2. HeldMemory'
    BY <1>21 DEF GraceExpires, HeldMemory
  <2> QED
    BY <1>21, <2>1, <2>2 DEF GraceExpires
<1>22. CASE BackoffElapses
  <2>1. task' \in TaskDocs
    BY <1>22 DEF BackoffElapses, TaskDocs, TaskPhases, TerminalTaskPhases, NoAttempt
  <2>2. timers' \subseteq {"future", "due"}
    BY <1>22 DEF BackoffElapses
  <2>3. HeldMemory'
    BY <1>22 DEF BackoffElapses, HeldMemory
  <2> QED
    BY <1>22, <2>1, <2>2, <2>3 DEF BackoffElapses
<1>23. CASE RequestDeadlinePasses
  <2>1. request' \in {"NONE", "OPEN", "OPEN_DUE"}
    BY <1>23 DEF RequestDeadlinePasses
  <2>2. HeldMemory'
    BY <1>23 DEF RequestDeadlinePasses, HeldMemory
  <2> QED
    BY <1>23, <2>1, <2>2 DEF RequestDeadlinePasses
<1>24. CASE FireRetryTimer
  <2>1. timers' \subseteq {"future", "due"}
    BY <1>24 DEF FireRetryTimer
  <2>2. wakes' \subseteq Nat
    BY <1>24 DEF FireRetryTimer, JobDocs, Wake
  <2>3. HeldMemory'
    BY <1>24 DEF FireRetryTimer, HeldMemory
  <2> QED
    BY <1>24, <2>1, <2>2, <2>3 DEF FireRetryTimer
<1>25. CASE ExpireRequest
  <2>1. request' \in {"NONE", "OPEN", "OPEN_DUE"}
    BY <1>25 DEF ExpireRequest
  <2>2. task' \in TaskDocs
    BY <1>25 DEF ExpireRequest, TaskDocs, TaskPhases, TerminalTaskPhases, NoAttempt
  <2>3. wakes' \subseteq Nat
    BY <1>25 DEF ExpireRequest, JobDocs, Wake
  <2>4. HeldMemory'
    BY <1>25 DEF ExpireRequest, HeldMemory
  <2> QED
    BY <1>25, <2>1, <2>2, <2>3, <2>4 DEF ExpireRequest
<1>26. CASE ReWake
  <2>1. wakes' \subseteq Nat
    BY <1>26 DEF ReWake, JobDocs, Wake
  <2>2. HeldMemory'
    BY <1>26 DEF ReWake, HeldMemory
  <2> QED
    BY <1>26, <2>1, <2>2 DEF ReWake
<1>27. CASE ReduceFlatTerminal
  <2>1. job' \in JobDocs
    BY <1>27 DEF ReduceFlatTerminal, JobDocs, Controls, JobPhases, JobOutcomes, None
  <2>2. task' \in TaskDocs
    <3> DEFINE p == IF Uncertain THEN "UNKNOWN_OUTCOME" ELSE "CANCELLED"
    <3>1. Unbind(p) \in TaskDocs /\ Unbind(task.phase) \in TaskDocs
      BY <1>unb DEF TaskDocs, TaskPhases, TerminalTaskPhases
    <3>2. Unbind(p).stopGen \in Nat /\ Unbind(p).stopGen + 1 \in Nat
      BY <3>1 DEF TaskDocs
    <3>3. \A n \in Nat :
            [Unbind(p) EXCEPT !.control = "STOP_REQUESTED", !.stopGen = n] \in TaskDocs
      BY <3>1 DEF TaskDocs
    <3>4. [Unbind(task.phase) EXCEPT !.control = task.control] \in TaskDocs
      BY <3>1 DEF TaskDocs
    <3>5. \/ task' = [Unbind(task.phase) EXCEPT !.control = task.control]
          \/ \E n \in {Unbind(p).stopGen, Unbind(p).stopGen + 1} :
                task' = [Unbind(p) EXCEPT !.control = "STOP_REQUESTED", !.stopGen = n]
      BY <1>27 DEF ReduceFlatTerminal
    <3> HIDE DEF p, TypeOK
    <3> QED
      BY <3>2, <3>3, <3>4, <3>5
  <2>3. HeldMemory'
    BY <1>27 DEF ReduceFlatTerminal, HeldMemory
  <2> QED
    BY <1>27, <2>1, <2>2, <2>3 DEF ReduceFlatTerminal
<1>28. CASE Pause
  <2>1. job' \in JobDocs
    BY <1>28, <1>job DEF Pause, JobDocs, Controls, JobPhases, JobOutcomes, None
  <2>2. att' \in [Attempts -> AttemptDocs]
    BY <1>28, <1>fin, <1>fence, <1>job DEF Pause, AttemptOutcomes, AttemptDocs
  <2>3. task' \in TaskDocs
    BY <1>28, <1>unb DEF Pause, TaskPhases, TerminalTaskPhases
  <2>4. wakes' \subseteq Nat
    BY <1>28 DEF Pause, JobDocs, Wake
  <2>5. HeldMemory'
    BY <1>28 DEF Pause, HeldMemory
  <2> QED
    BY <1>28, <2>1, <2>2, <2>3, <2>4, <2>5 DEF Pause
<1>29. CASE Resume
  <2>1. job' \in JobDocs
    BY <1>29, <1>job DEF Resume, JobDocs, Controls, JobPhases, JobOutcomes, None
  <2>2. wakes' \subseteq Nat
    BY <1>29 DEF Resume, JobDocs, Wake
  <2>3. HeldMemory'
    BY <1>29 DEF Resume, HeldMemory
  <2> QED
    BY <1>29, <2>1, <2>2, <2>3 DEF Resume
<1>30. CASE Cancel
  <2>1. job' \in JobDocs
    BY <1>30, <1>job DEF Cancel, GraceAfterStop, JobDocs, Controls, JobPhases, JobOutcomes, None
  <2>2. att' \in [Attempts -> AttemptDocs]
    <3>1. \A a \in Attempts : Finish(a, "CANCELLED", att[a].fence + 1) \in AttemptDocs
      BY <1>fin, <1>fence DEF AttemptOutcomes
    <3>2. \A a \in Attempts :
            [att[a] EXCEPT !.lifecycle = "STOP_REQUESTED", !.stopGen = @ + 1,
                           !.jobStopGenAtStop = job.stopGen + 1] \in AttemptDocs
      BY <1>job, StopTyped
    <3> QED
      BY <1>30, <3>1, <3>2 DEF Cancel
  <2>3. task' \in TaskDocs
    <3> DEFINE u == Unbind("RECONCILING")
    <3>1. u \in TaskDocs /\ Unbind("CANCELLED") \in TaskDocs
      BY <1>unb DEF TaskPhases, TerminalTaskPhases
    <3>2. u.stopGen + 1 \in Nat
      BY <3>1 DEF TaskDocs
    <3>3. [u EXCEPT !.control = "STOP_REQUESTED", !.stopGen = @ + 1] \in TaskDocs
      BY <3>1, <3>2 DEF TaskDocs
    <3>4. [u EXCEPT !.active = task.active, !.control = "STOP_REQUESTED",
                    !.stopGen = @ + 1] \in TaskDocs
      BY <3>1, <3>2 DEF TaskDocs
    <3> QED
      BY <1>30, <3>1, <3>3, <3>4 DEF Cancel
  <2>4. timers' \subseteq {"future", "due"}
    BY <1>30 DEF Cancel
  <2>5. request' \in {"NONE", "OPEN", "OPEN_DUE"}
    BY <1>30 DEF Cancel
  <2>6. wakes' \subseteq Nat
    BY <1>30 DEF Cancel, Wake
  <2>7. HeldMemory'
    BY <1>30 DEF Cancel, HeldMemory
  <2> QED
    BY <1>30, <2>1, <2>2, <2>3, <2>4, <2>5, <2>6, <2>7 DEF Cancel
<1>31. CASE Answer
  <2>1. request' \in {"NONE", "OPEN", "OPEN_DUE"}
    BY <1>31 DEF Answer
  <2>2. task' \in TaskDocs
    BY <1>31 DEF Answer, TaskDocs, TaskPhases, TerminalTaskPhases, NoAttempt
  <2>3. job' \in JobDocs
    BY <1>31 DEF Answer, JobDocs, Controls, JobPhases, JobOutcomes, None
  <2>4. wakes' \subseteq Nat
    BY <1>31 DEF Answer, JobDocs, Wake
  <2>5. HeldMemory'
    BY <1>31 DEF Answer, HeldMemory
  <2> QED
    BY <1>31, <2>1, <2>2, <2>3, <2>4, <2>5 DEF Answer
<1>32. CASE UNCHANGED vars
  BY <1>32 DEF vars, HeldMemory
<1> QED
  BY <1>1, <1>2, <1>3, <1>4, <1>5, <1>6, <1>7, <1>8, <1>9, <1>10, <1>11, <1>12, <1>13, <1>14,
     <1>15, <1>16, <1>17, <1>18, <1>19, <1>20, <1>21, <1>22, <1>23, <1>24, <1>25,
     <1>26, <1>27, <1>28, <1>29, <1>30, <1>31, <1>32 DEF Next

-----------------------------------------------------------------------------
\* A finished attempt is dead, with the outcome it was given.
LEMMA FinishEnds ==
  ASSUME TypeOK, NEW a \in Attempts, NEW o, NEW f
  PROVE  Finish(a, o, f).lifecycle = "FINISHED" /\ Finish(a, o, f).outcome = o
<1>1. att[a] \in AttemptDocs
  BY DEF TypeOK
<1> QED
  BY <1>1 DEF Finish, AttemptDocs

\* A step that leaves the documents and the question alone keeps the authority.
LEMMA AuthorityKept ==
  ASSUME Authority, UNCHANGED <<job, task, att, request>>
  PROVE  Authority'
  BY DEF Authority, SingleExecution, Live, PreStartUnderCurrentAuthority, JobGrants,
         StopIsJobWide, BindingCleared, QuestionMatchesTask, TerminalIsSilent, TaskTerminal,
         UnderOnePause, RetryAuthority, MarkerBound, NeverSuperseded, Open

\* What the authority says of the attempt that may execute: nobody else does.
LEMMA AloneWhenLive ==
  ASSUME Authority, NEW a \in Attempts, Live(a)
  PROVE  /\ Open /\ ~TaskTerminal /\ request = "NONE"
         /\ \A b \in Attempts \ {a} : ~Live(b)
         /\ att[a].lifecycle = "QUEUED" => task.phase = "DISPATCHED" /\ task.active = NoAttempt
         /\ att[a].lifecycle \in {"LEASED", "RUNNING"} =>
              task.phase = "DISPATCHED" /\ task.active = a
         /\ att[a].lifecycle = "STOP_REQUESTED" =>
              task.phase = "RECONCILING" /\ task.active = a /\ job.control = "STOP_REQUESTED"
  BY DEF Authority, SingleExecution, StopIsJobWide, TerminalIsSilent, QuestionMatchesTask,
         Live, LiveAttempt, TaskTerminal, TerminalTaskPhases

\* Nobody executes while the task waits to be dispatched, waits for its owner or
\* has ended.
LEMMA IdleByPhase ==
  ASSUME Authority, task.phase \notin {"DISPATCHED", "RECONCILING"}
  PROVE  /\ \A b \in Attempts : ~Live(b)
         /\ task.active = NoAttempt
  BY DEF Authority, SingleExecution, BindingCleared, Live, LiveAttempt

\* Once no attempt may execute, the conjuncts about executing attempts hold.
LEMMA AuthorityIdle ==
  ASSUME StopIsJobWide', BindingCleared', QuestionMatchesTask', NeverSuperseded',
         (~Open => request = "NONE" /\ task.active = NoAttempt /\ TaskTerminal)',
         \A b \in Attempts : ~Live(b)'
  PROVE  Authority'
  BY DEF Authority, SingleExecution, Live, LiveAttempt, PreStartUnderCurrentAuthority,
         TerminalIsSilent, UnderOnePause, MarkerBound

\* Every step keeps the authority.
LEMMA AuthorityStep == Inductive /\ [Next]_vars => Authority'
<1> SUFFICES ASSUME TypeOK, HeldMemory, Authority, [Next]_vars PROVE Authority'
  BY DEF Inductive
<1>no. NoAttempt \notin Attempts
  BY DEF NoAttempt, Attempts
<1>nat. /\ job.pauseGen \in Nat /\ job.stopGen \in Nat
        /\ \A a \in Attempts : att[a].pauseGen \in Nat /\ att[a].readyPause \in Nat \cup {-1}
  BY DEF TypeOK, JobDocs, AttemptDocs
<1>1. ASSUME NEW l \in Lanes,
             LaneClaimsWake(l) \/ LaneReads(l) \/ LaneLosesDispatch(l) \/ LaneCrashes(l)
      PROVE  Authority'
  BY <1>1, AuthorityKept DEF LaneClaimsWake, LaneReads, LaneLosesDispatch, LaneCrashes
<1>2. ASSUME NEW w \in Workers,
             (\E p \in Payloads : WorkReturns(w, p)) \/ NoMarkerNeeded(w) \/ Abandon(w)
      PROVE  Authority'
  BY <1>2, AuthorityKept DEF WorkReturns, NoMarkerNeeded, Abandon
<1>3. CASE FireRetryTimer \/ ReWake \/ UNCHANGED vars
  BY <1>3, AuthorityKept DEF FireRetryTimer, ReWake, vars
<1>4. ASSUME NEW l \in Lanes, LaneAdvances(l)
      PROVE  Authority'
  <2>1. CASE ~AdvanceGranted(l)
    BY <1>4, <2>1, AuthorityKept DEF LaneAdvances
  <2>2. CASE AdvanceGranted(l)
    <3>1. /\ UNCHANGED <<task, att, request>>
          /\ job'.control = job.control
          /\ Open /\ TaskTerminal
      BY <1>4, <2>2 DEF LaneAdvances, AdvanceGranted, TypeOK, JobDocs
    <3>2. ~Open'
      <4>1. OutcomeOfTask # None
        BY <3>1 DEF OutcomeOfTask, TaskTerminal, TerminalTaskPhases, None
      <4> QED
        BY <1>4, <2>2, <4>1 DEF LaneAdvances, TypeOK, JobDocs, Open
    <3>3. task.phase \notin {"DISPATCHED", "RECONCILING", "WAITING_INPUT"}
      BY <3>1 DEF TaskTerminal, TerminalTaskPhases
    <3>4. task.active = NoAttempt /\ \A b \in Attempts : ~Live(b)
      BY <3>3, IdleByPhase
    <3>5. request = "NONE"
      BY <3>1, <3>3 DEF Authority, QuestionMatchesTask
    <3>6. StopIsJobWide'
      BY <3>1 DEF Authority, StopIsJobWide
    <3> QED
      BY <3>1, <3>2, <3>3, <3>4, <3>5, <3>6, AuthorityIdle
      DEF Live, BindingCleared, QuestionMatchesTask, NeverSuperseded, TaskTerminal
  <2> QED
    BY <2>1, <2>2
<1>5. ASSUME NEW l \in Lanes, LaneDispatches(l)
      PROVE  Authority'
  <2> DEFINE n == NextAttempt
  <2>1. n \in Attempts /\ job' = job /\ request' = request
    BY <1>5 DEF LaneDispatches
  <2>2. /\ task.phase \in {"READY", "RETRY_PENDING"}
        /\ Open /\ job.control = "NONE"
        /\ task.control = "NONE" /\ task.active = NoAttempt
    BY <1>5 DEF LaneDispatches, DispatchGranted
  <2>3. /\ att' = [att EXCEPT ![n] = att'[n]]
        /\ att'[n].lifecycle = "QUEUED" /\ att'[n].outcome = None
        /\ att'[n].pauseGen = job.pauseGen /\ att'[n].jobStopGen = job.stopGen
        /\ att'[n].taskStopGen = task.stopGen
        /\ att'[n].finishCurrent = -1 /\ att'[n].readyPause = -1
    BY <1>5, <2>1 DEF LaneDispatches, AbsentAttempt, TypeOK
  <2>4. /\ task'.phase = "DISPATCHED" /\ task'.active = NoAttempt
        /\ task'.control = "NONE" /\ task'.stopGen = task.stopGen
    BY <1>5, <2>2 DEF LaneDispatches, TypeOK, TaskDocs
  <2> HIDE DEF n
  <2>5. \A b \in Attempts : ~Live(b)
    BY <2>2, IdleByPhase
  <2>6. \A b \in Attempts \ {n} : att'[b] = att[b] /\ ~Live(b)'
    BY <2>1, <2>3, <2>5 DEF TypeOK, Live
  <2>7. SingleExecution'
    BY <2>1, <2>3, <2>4, <2>6 DEF SingleExecution, Live, LiveAttempt
  <2>8. PreStartUnderCurrentAuthority'
    BY <2>1, <2>2, <2>3, <2>6 DEF PreStartUnderCurrentAuthority, JobGrants, Open, Live, LiveAttempt
  <2>9. StopIsJobWide'
    BY <2>1, <2>2, <2>3, <2>6 DEF Authority, StopIsJobWide, None
  <2>10. /\ BindingCleared' /\ QuestionMatchesTask' /\ NeverSuperseded'
         /\ TerminalIsSilent'
    BY <2>1, <2>2, <2>4 DEF Authority, BindingCleared, QuestionMatchesTask, NeverSuperseded,
       TerminalIsSilent, Open
  <2>11. UnderOnePause'
    BY <2>1, <2>2, <2>3, <2>4, <2>6 DEF UnderOnePause, RetryAuthority, Open, Live, LiveAttempt
  <2>12. MarkerBound'
    BY <2>3, <2>6 DEF MarkerBound, Live, LiveAttempt
  <2> QED
    BY <2>7, <2>8, <2>9, <2>10, <2>11, <2>12 DEF Authority
<1>6. ASSUME NEW w \in Workers, NEW a \in Attempts, Claim(w, a)
      PROVE  Authority'
  <2>1. /\ UNCHANGED <<job, request>>
        /\ att[a].lifecycle = "QUEUED"
        /\ JobGrants(a) /\ TaskGrants(a, NoAttempt)
    BY <1>6 DEF Claim
  <2>2. /\ att'[a].lifecycle = "LEASED" /\ att'[a].outcome = att[a].outcome
        /\ att'[a].pauseGen = att[a].pauseGen /\ att'[a].jobStopGen = att[a].jobStopGen
        /\ att'[a].taskStopGen = att[a].taskStopGen
        /\ att'[a].finishCurrent = att[a].finishCurrent
        /\ att'[a].readyPause = att[a].readyPause
        /\ \A b \in Attempts \ {a} : att'[b] = att[b]
    BY <1>6 DEF Claim, TypeOK, AttemptDocs
  <2>3. /\ task'.phase = task.phase /\ task'.active = a
        /\ task'.control = task.control /\ task'.stopGen = task.stopGen
    BY <1>6 DEF Claim, TypeOK, TaskDocs
  <2>4. /\ \A b \in Attempts \ {a} : ~Live(b) /\ ~Live(b)'
        /\ Open /\ request = "NONE"
    BY <2>1, <2>2, AloneWhenLive DEF Live, LiveAttempt
  <2>5. SingleExecution'
    BY <2>1, <2>2, <2>3, <2>4 DEF SingleExecution, Live, LiveAttempt, TaskGrants
  <2>6. PreStartUnderCurrentAuthority'
    BY <2>1, <2>2, <2>4 DEF PreStartUnderCurrentAuthority, JobGrants, Open, Live, LiveAttempt
  <2>7. StopIsJobWide'
    BY <2>1, <2>2, <2>3 DEF Authority, StopIsJobWide
  <2>8. /\ BindingCleared' /\ QuestionMatchesTask' /\ NeverSuperseded' /\ TerminalIsSilent'
    BY <2>1, <2>3, <2>4 DEF BindingCleared, QuestionMatchesTask, NeverSuperseded,
       TerminalIsSilent, Open, TaskGrants
  <2>9. UnderOnePause'
    BY <2>1, <2>2, <2>3, <2>4 DEF Authority, UnderOnePause, RetryAuthority, Open, Live,
       LiveAttempt
  <2>10. MarkerBound'
    BY <2>2, <2>4 DEF MarkerBound, Live, LiveAttempt
  <2> QED
    BY <2>5, <2>6, <2>7, <2>8, <2>9, <2>10 DEF Authority
<1>7. ASSUME NEW w \in Workers, Start(w)
      PROVE  Authority'
  <2> DEFINE a == held[w].att
  <2>1. /\ UNCHANGED <<job, task, request>>
        /\ a \in Attempts /\ att[a].lifecycle = "LEASED"
        /\ JobGrants(a)
    BY <1>7 DEF Start, Owns
  <2>2. /\ att'[a].lifecycle = "RUNNING" /\ att'[a].outcome = att[a].outcome
        /\ att'[a].pauseGen = att[a].pauseGen /\ att'[a].jobStopGen = att[a].jobStopGen
        /\ att'[a].taskStopGen = att[a].taskStopGen
        /\ att'[a].finishCurrent = att[a].finishCurrent
        /\ att'[a].readyPause = att[a].readyPause
        /\ \A b \in Attempts \ {a} : att'[b] = att[b]
    BY <1>7, <2>1 DEF Start, TypeOK, AttemptDocs
  <2> HIDE DEF a
  <2>3. /\ \A b \in Attempts \ {a} : ~Live(b) /\ ~Live(b)'
        /\ task.phase = "DISPATCHED" /\ task.active = a
    BY <2>1, <2>2, AloneWhenLive DEF Live, LiveAttempt
  <2>4. SingleExecution'
    BY <2>1, <2>2, <2>3 DEF SingleExecution, Live, LiveAttempt
  <2>5. PreStartUnderCurrentAuthority'
    BY <2>2, <2>3 DEF PreStartUnderCurrentAuthority, Live, LiveAttempt
  <2>6. StopIsJobWide'
    BY <2>1, <2>2 DEF Authority, StopIsJobWide
  <2>7. /\ BindingCleared' /\ QuestionMatchesTask' /\ NeverSuperseded' /\ TerminalIsSilent'
    BY <2>1 DEF Authority, BindingCleared, QuestionMatchesTask, NeverSuperseded,
       TerminalIsSilent, Open, JobGrants
  <2>8. UnderOnePause'
    BY <2>1, <2>2, <2>3 DEF Authority, UnderOnePause, RetryAuthority, Open, Live, LiveAttempt
  <2>9. MarkerBound'
    <3>1. att[a].readyPause = -1 /\ job.control = "NONE"
      BY <2>1 DEF Authority, UnderOnePause, JobGrants
    <3> QED
      BY <2>1, <2>2, <2>3, <3>1 DEF MarkerBound, Live, LiveAttempt
  <2> QED
    BY <2>4, <2>5, <2>6, <2>7, <2>8, <2>9 DEF Authority
<1>8. ASSUME NEW w \in Workers, RenewLease(w)
      PROVE  Authority'
  <2>1. att' = att
    BY <1>8 DEF RenewLease, Owns, TypeOK, AttemptDocs
  <2> QED
    BY <1>8, <2>1, AuthorityKept DEF RenewLease
<1>9. ASSUME NEW w \in Workers, MarkPayloadReady(w)
      PROVE  Authority'
  <2> DEFINE a == held[w].att
  <2>1. /\ UNCHANGED <<job, request>>
        /\ a \in Attempts /\ att[a].lifecycle = "RUNNING"
        /\ JobGrants(a) /\ TaskGrants(a, a)
    BY <1>9 DEF MarkPayloadReady, MarkerGranted, Owns
  <2>2. /\ att'[a].lifecycle = "RUNNING" /\ att'[a].outcome = att[a].outcome
        /\ att'[a].pauseGen = att[a].pauseGen /\ att'[a].jobStopGen = att[a].jobStopGen
        /\ att'[a].taskStopGen = att[a].taskStopGen
        /\ att'[a].finishCurrent = att[a].finishCurrent
        /\ att'[a].readyPause = job.pauseGen
        /\ \A b \in Attempts \ {a} : att'[b] = att[b]
    BY <1>9, <2>1 DEF MarkPayloadReady, TypeOK, AttemptDocs
  <2>3. /\ task'.phase = task.phase /\ task'.active = task.active /\ task'.ready = a
        /\ task'.control = task.control /\ task'.stopGen = task.stopGen
    BY <1>9 DEF MarkPayloadReady, TypeOK, TaskDocs
  <2> HIDE DEF a
  <2>4. \A b \in Attempts \ {a} : ~Live(b) /\ ~Live(b)'
    BY <2>1, <2>2, AloneWhenLive DEF Live, LiveAttempt
  <2>5. SingleExecution'
    BY <2>1, <2>2, <2>3, <2>4 DEF SingleExecution, Live, LiveAttempt, TaskGrants
  <2>6. PreStartUnderCurrentAuthority'
    BY <2>2, <2>4 DEF PreStartUnderCurrentAuthority, Live, LiveAttempt
  <2>7. StopIsJobWide'
    BY <2>1, <2>2, <2>3 DEF Authority, StopIsJobWide
  <2>8. /\ BindingCleared' /\ QuestionMatchesTask' /\ NeverSuperseded' /\ TerminalIsSilent'
    BY <2>1, <2>3 DEF Authority, BindingCleared, QuestionMatchesTask, NeverSuperseded,
       TerminalIsSilent, Open, JobGrants
  <2>9. UnderOnePause'
    BY <2>1, <2>2, <2>3, <2>4 DEF Authority, UnderOnePause, RetryAuthority, Open, Live,
       LiveAttempt
  <2>10. MarkerBound'
    BY <2>1, <2>2, <2>3, <2>4 DEF MarkerBound, Live, LiveAttempt, JobGrants
  <2> QED
    BY <2>5, <2>6, <2>7, <2>8, <2>9, <2>10 DEF Authority
<1>10. ASSUME NEW w \in Workers, SubmitResult(w)
       PROVE  Authority'
  <2> DEFINE a == held[w].att
             p == held[w].payload
  <2>1. /\ a \in Attempts /\ att[a].lifecycle = "RUNNING"
        /\ att' = [att EXCEPT ![a] = Finish(a, AttemptOutcomeOf[p], att[a].fence)]
    BY <1>10 DEF SubmitResult, Owns
  <2>2. p \in AllPayloads
    BY <1>10 DEF SubmitResult, HeldMemory
  <2>3. /\ job'.control = job.control /\ job'.outcome = job.outcome
        /\ request' = IF Blocked(p) THEN "OPEN" ELSE request
    BY <1>10 DEF SubmitResult, TypeOK, JobDocs
  <2>4. task'.phase = TaskPhaseOf[p] /\ task'.active = NoAttempt
    BY <1>10 DEF SubmitResult, TypeOK, TaskDocs
  <2>5. /\ AttemptOutcomeOf[p] = "UNKNOWN_OUTCOME" => TaskPhaseOf[p] = "UNKNOWN_OUTCOME"
        /\ TaskPhaseOf[p] \notin {"SUPERSEDED", "DISPATCHED", "RECONCILING"}
        /\ TaskPhaseOf[p] = "WAITING_INPUT" <=> Blocked(p)
    BY <2>2 DEF AllPayloads, AttemptOutcomeOf, TaskPhaseOf, Blocked
  <2> HIDE DEF a, p
  <2>6. /\ att'[a].lifecycle = "FINISHED" /\ att'[a].outcome = AttemptOutcomeOf[p]
        /\ \A b \in Attempts \ {a} : att'[b] = att[b]
    BY <2>1 DEF Finish, TypeOK, AttemptDocs
  <2>7. Open /\ request = "NONE" /\ \A b \in Attempts : ~Live(b)'
    BY <2>1, <2>6, AloneWhenLive DEF Live, LiveAttempt
  <2>8. StopIsJobWide'
    <3>1. ~TaskTerminal
      BY <2>1, AloneWhenLive DEF Live, LiveAttempt
    <3> QED
      BY <2>1, <2>3, <2>4, <2>5, <2>6, <3>1 DEF Authority, StopIsJobWide, TaskTerminal,
         TerminalTaskPhases
  <2>9. BindingCleared' /\ QuestionMatchesTask' /\ NeverSuperseded' /\ Open'
    BY <2>3, <2>4, <2>5, <2>7 DEF BindingCleared, QuestionMatchesTask, NeverSuperseded, Open
  <2> QED
    BY <2>7, <2>8, <2>9, AuthorityIdle
<1>11. ASSUME NEW a \in Attempts, LeaseExpires(a) \/ DeadlinePasses(a)
       PROVE  Authority'
  <2>1. /\ UNCHANGED <<task, request>>
        /\ job'.control = job.control /\ job'.outcome = job.outcome
        /\ job'.pauseGen = job.pauseGen /\ job'.stopGen = job.stopGen
    BY <1>11 DEF LeaseExpires, DeadlinePasses, TypeOK, JobDocs
  <2>2. \A b \in Attempts :
          /\ att'[b].lifecycle = att[b].lifecycle /\ att'[b].outcome = att[b].outcome
          /\ att'[b].pauseGen = att[b].pauseGen /\ att'[b].jobStopGen = att[b].jobStopGen
          /\ att'[b].taskStopGen = att[b].taskStopGen
          /\ att'[b].finishCurrent = att[b].finishCurrent
          /\ att'[b].readyPause = att[b].readyPause
    BY <1>11 DEF LeaseExpires, DeadlinePasses, TypeOK, AttemptDocs
  <2>3. \A b \in Attempts :
          /\ att[b].lease # "live" => att'[b].lease # "live"
          /\ att[b].clock # "open" => att'[b].clock # "open"
          /\ att[b].clock = "hard" => att'[b].clock = "hard"
    <3>1. CASE LeaseExpires(a)
      BY <3>1 DEF LeaseExpires, TypeOK, AttemptDocs
    <3>2. CASE DeadlinePasses(a)
      <4>1. att'[a].clock = NextDeadline[att[a].clock] /\ att[a].clock # "hard"
        BY <3>2 DEF DeadlinePasses, TypeOK, AttemptDocs
      <4>2. att[a].clock # "open" => att'[a].clock # "open"
        BY <4>1 DEF NextDeadline, TypeOK, AttemptDocs
      <4>3. /\ att[a].lease # "live" => att'[a].lease # "live"
            /\ \A b \in Attempts \ {a} : att'[b] = att[b]
        BY <3>2 DEF DeadlinePasses, TypeOK, AttemptDocs
      <4> QED
        BY <4>1, <4>2, <4>3
    <3> QED
      BY <1>11, <3>1, <3>2
  <2>4. SingleExecution' /\ StopIsJobWide' /\ TerminalIsSilent'
    BY <2>1, <2>2 DEF Authority, SingleExecution, StopIsJobWide, TerminalIsSilent, Live, Open,
       TaskTerminal
  <2>5. PreStartUnderCurrentAuthority' /\ UnderOnePause'
    BY <2>1, <2>2 DEF Authority, PreStartUnderCurrentAuthority, JobGrants, UnderOnePause,
       RetryAuthority, Open
  <2>6. BindingCleared' /\ QuestionMatchesTask' /\ NeverSuperseded'
    BY <2>1 DEF Authority, BindingCleared, QuestionMatchesTask, NeverSuperseded, Open
  <2>7. MarkerBound'
    BY <2>1, <2>2, <2>3 DEF Authority, MarkerBound
  <2> QED
    BY <2>4, <2>5, <2>6, <2>7 DEF Authority
<1>12. ASSUME NEW a \in Attempts, ExpireQueued(a)
       PROVE  Authority'
  <2>1. /\ att[a].lifecycle = "QUEUED" /\ UNCHANGED <<job, request>>
        /\ att' = [att EXCEPT ![a] = Finish(a, "FAILED", att[a].fence + 1)]
    BY <1>12 DEF ExpireQueued
  <2>2. /\ ~TaskTerminal /\ Open /\ job.control = "NONE" /\ job.pauseGen = att[a].pauseGen
        /\ request = "NONE"
    BY <2>1, AloneWhenLive
    DEF Authority, PreStartUnderCurrentAuthority, JobGrants, Live, LiveAttempt
  <2>3. task'.phase = "FAILED" /\ task'.active = NoAttempt
    BY <1>12, <2>2 DEF ExpireQueued, Unbind, TypeOK, TaskDocs
  <2>4. /\ att'[a].lifecycle = "FINISHED" /\ att'[a].outcome = "FAILED"
        /\ \A b \in Attempts \ {a} : att'[b] = att[b]
    BY <2>1 DEF Finish, TypeOK, AttemptDocs
  <2>5. \A b \in Attempts : ~Live(b)'
    BY <2>1, <2>4, AloneWhenLive DEF Live, LiveAttempt
  <2>6. StopIsJobWide'
    BY <2>1, <2>2, <2>4 DEF Authority, StopIsJobWide, TaskTerminal, TerminalTaskPhases
  <2>7. BindingCleared' /\ QuestionMatchesTask' /\ NeverSuperseded' /\ Open'
    BY <2>1, <2>2, <2>3 DEF BindingCleared, QuestionMatchesTask, NeverSuperseded, Open
  <2> QED
    BY <2>5, <2>6, <2>7, AuthorityIdle
<1>13. ASSUME NEW a \in Attempts, ReapLostWorker(a)
       PROVE  Authority'
  <2>1. /\ att[a].lifecycle \in {"LEASED", "RUNNING"} /\ UNCHANGED <<job, request>>
        /\ att' = [att EXCEPT ![a] = Finish(a, "WORKER_LOST", att[a].fence + 1)]
    BY <1>13 DEF ReapLostWorker, Reapable
  <2>2. /\ ~TaskTerminal /\ Open /\ request = "NONE" /\ task.active = a
        /\ RetryAuthority(a)
    BY <2>1, AloneWhenLive DEF Authority, UnderOnePause, Live, LiveAttempt
  <2>3. task'.phase \in {"FAILED", "RETRY_PENDING"} /\ task'.active = NoAttempt
    BY <1>13, <2>2 DEF ReapLostWorker, Unbind, TypeOK, TaskDocs
  <2>4. /\ att'[a].lifecycle = "FINISHED" /\ att'[a].outcome = "WORKER_LOST"
        /\ \A b \in Attempts \ {a} : att'[b] = att[b]
    BY <2>1 DEF Finish, TypeOK, AttemptDocs
  <2>5. \A b \in Attempts : ~Live(b)'
    BY <2>1, <2>4, AloneWhenLive DEF Live, LiveAttempt
  <2>6. StopIsJobWide'
    BY <2>1, <2>2, <2>4 DEF Authority, StopIsJobWide, TaskTerminal, TerminalTaskPhases
  <2>7. BindingCleared' /\ QuestionMatchesTask' /\ NeverSuperseded' /\ Open'
    BY <2>1, <2>2, <2>3 DEF BindingCleared, QuestionMatchesTask, NeverSuperseded, Open
  <2> QED
    BY <2>5, <2>6, <2>7, AuthorityIdle
<1>14. ASSUME NEW a \in Attempts, ReapUnconfirmed(a) \/ FireStopGrace(a)
       PROVE  Authority'
  <2>1. /\ att[a].lifecycle = "STOP_REQUESTED" /\ UNCHANGED request
        /\ att' = [att EXCEPT ![a] = Finish(a, "UNKNOWN_OUTCOME", att[a].fence + 1)]
        /\ job'.control = job.control /\ job'.outcome = job.outcome
    BY <1>14 DEF ReapUnconfirmed, FireStopGrace, TypeOK, JobDocs
  <2>2. /\ Open /\ request = "NONE" /\ job.control = "STOP_REQUESTED"
        /\ task.phase = "RECONCILING"
    BY <2>1, AloneWhenLive DEF Live, LiveAttempt
  <2>3. task' = task \/ task' = Unbind("RECONCILING")
    BY <1>14 DEF ReapUnconfirmed, FireStopGrace
  <2>4. task'.phase = "RECONCILING"
    BY <2>2, <2>3 DEF Unbind, TypeOK, TaskDocs
  <2>5. /\ att'[a].lifecycle = "FINISHED" /\ att'[a].outcome = "UNKNOWN_OUTCOME"
        /\ \A b \in Attempts \ {a} : att'[b] = att[b]
    BY <2>1 DEF Finish, TypeOK, AttemptDocs
  <2>6. \A b \in Attempts : ~Live(b)'
    BY <2>1, <2>5, AloneWhenLive DEF Live, LiveAttempt
  <2>7. StopIsJobWide'
    BY <2>1, <2>2 DEF StopIsJobWide
  <2>8. BindingCleared' /\ QuestionMatchesTask' /\ NeverSuperseded' /\ Open'
    BY <2>1, <2>2, <2>4 DEF BindingCleared, QuestionMatchesTask, NeverSuperseded, Open
  <2> QED
    BY <2>6, <2>7, <2>8, AuthorityIdle
<1>15. CASE GraceExpires \/ BackoffElapses \/ RequestDeadlinePasses
  <2>1. /\ att' = att
        /\ job'.control = job.control /\ job'.outcome = job.outcome
        /\ job'.pauseGen = job.pauseGen /\ job'.stopGen = job.stopGen
    BY <1>15 DEF GraceExpires, BackoffElapses, RequestDeadlinePasses, TypeOK, JobDocs
  <2>2. /\ task'.phase = task.phase /\ task'.active = task.active /\ task'.ready = task.ready
        /\ task'.control = task.control /\ task'.stopGen = task.stopGen
        /\ request' = "NONE" <=> request = "NONE"
    BY <1>15 DEF GraceExpires, BackoffElapses, RequestDeadlinePasses, TypeOK, TaskDocs
  <2>3. SingleExecution' /\ StopIsJobWide' /\ TerminalIsSilent'
    BY <2>1, <2>2 DEF Authority, SingleExecution, StopIsJobWide, TerminalIsSilent, Live, Open,
       TaskTerminal
  <2>4. PreStartUnderCurrentAuthority' /\ UnderOnePause'
    BY <2>1, <2>2 DEF Authority, PreStartUnderCurrentAuthority, JobGrants, UnderOnePause,
       RetryAuthority, Open
  <2>5. BindingCleared' /\ QuestionMatchesTask' /\ NeverSuperseded'
    BY <2>1, <2>2 DEF Authority, BindingCleared, QuestionMatchesTask, NeverSuperseded, Open
  <2>6. MarkerBound'
    BY <2>1, <2>2 DEF Authority, MarkerBound
  <2> QED
    BY <2>3, <2>4, <2>5, <2>6 DEF Authority
<1>16. CASE ExpireRequest \/ Answer
  <2>1. /\ task.phase = "WAITING_INPUT" /\ Open
        /\ att' = att /\ request' = "NONE"
        /\ job'.control = job.control /\ job'.outcome = job.outcome
    BY <1>16 DEF ExpireRequest, Answer, TypeOK, JobDocs
  <2>2. task'.phase \in {"TIMED_OUT", "RETRY_PENDING"} /\ task'.active = task.active
    BY <1>16 DEF ExpireRequest, Answer, TypeOK, TaskDocs
  <2>3. task.active = NoAttempt /\ \A b \in Attempts : ~Live(b)
    BY <2>1, IdleByPhase
  <2>4. StopIsJobWide'
    BY <2>1 DEF Authority, StopIsJobWide
  <2>5. BindingCleared' /\ QuestionMatchesTask' /\ NeverSuperseded' /\ Open'
    BY <2>1, <2>2, <2>3 DEF BindingCleared, QuestionMatchesTask, NeverSuperseded, Open
  <2> QED
    BY <2>1, <2>3, <2>4, <2>5, AuthorityIdle DEF Live
<1>17. CASE ReduceFlatTerminal
  <2>1. /\ att' = att /\ UNCHANGED request /\ request = "NONE"
        /\ job.control = "STOP_REQUESTED" /\ job'.control = job.control
        /\ \A b \in Attempts : ~Live(b)
    BY <1>17 DEF ReduceFlatTerminal, TypeOK, JobDocs, Settled, Live, LiveAttempt
  <2>2. ~Open'
    <3>1. job'.outcome \in {"UNKNOWN_OUTCOME", job.pending}
      BY <1>17 DEF ReduceFlatTerminal, TypeOK, JobDocs
    <3> QED
      BY <1>17, <3>1 DEF ReduceFlatTerminal, Open, None
  <2>3. task'.active = NoAttempt /\ TaskTerminal'
    <3>1. \A p \in TaskPhases : Unbind(p) \in TaskDocs
      BY UnbindTyped
    <3>2. \A p \in TaskPhases : Unbind(p).phase = p /\ Unbind(p).active = NoAttempt
      BY DEF Unbind, TypeOK, TaskDocs
    <3>3. \/ TaskTerminal /\ task' = [Unbind(task.phase) EXCEPT !.control = task.control]
          \/ \E p \in {"UNKNOWN_OUTCOME", "CANCELLED"}, n \in {task.stopGen, task.stopGen + 1} :
                task' = [Unbind(p) EXCEPT !.control = "STOP_REQUESTED", !.stopGen = n]
      <4>1. \A p \in TaskPhases : Unbind(p).stopGen = task.stopGen
        BY DEF Unbind, TypeOK, TaskDocs
      <4>2. "UNKNOWN_OUTCOME" \in TaskPhases /\ "CANCELLED" \in TaskPhases
        BY DEF TaskPhases, TerminalTaskPhases
      <4> QED
        BY <1>17, <4>1, <4>2 DEF ReduceFlatTerminal
    <3>4. task.phase \in TaskPhases /\ {"UNKNOWN_OUTCOME", "CANCELLED"} \subseteq TaskPhases
      BY DEF TypeOK, TaskDocs, TaskPhases, TerminalTaskPhases
    <3>5. \A u \in TaskDocs :
            /\ [u EXCEPT !.control = task.control].phase = u.phase
            /\ [u EXCEPT !.control = task.control].active = u.active
            /\ \A n : /\ [u EXCEPT !.control = "STOP_REQUESTED", !.stopGen = n].phase = u.phase
                      /\ [u EXCEPT !.control = "STOP_REQUESTED", !.stopGen = n].active = u.active
      BY DEF TaskDocs
    <3>6. CASE TaskTerminal /\ task' = [Unbind(task.phase) EXCEPT !.control = task.control]
      BY <3>1, <3>2, <3>4, <3>5, <3>6 DEF TaskTerminal
    <3>7. ASSUME NEW p \in {"UNKNOWN_OUTCOME", "CANCELLED"}, NEW n,
                 task' = [Unbind(p) EXCEPT !.control = "STOP_REQUESTED", !.stopGen = n]
          PROVE  task'.active = NoAttempt /\ TaskTerminal'
      BY <3>1, <3>2, <3>4, <3>5, <3>7 DEF TaskTerminal, TerminalTaskPhases
    <3> QED
      BY <3>3, <3>6, <3>7
  <2>4. StopIsJobWide'
    BY <2>1 DEF StopIsJobWide
  <2>5. BindingCleared' /\ QuestionMatchesTask' /\ NeverSuperseded'
    BY <2>2, <2>3 DEF BindingCleared, QuestionMatchesTask, NeverSuperseded
  <2> QED
    BY <2>1, <2>2, <2>3, <2>4, <2>5, AuthorityIdle DEF Live
<1>18. CASE Pause
  <2>1. /\ Open /\ job.control = "NONE" /\ UNCHANGED request
        /\ job'.control = "PAUSE_REQUESTED" /\ job'.outcome = job.outcome
        /\ job'.pauseGen = job.pauseGen + 1 /\ job'.stopGen = job.stopGen
    BY <1>18 DEF Pause, TypeOK, JobDocs
  <2>2. \A b \in Attempts :
          att'[b] = IF b \in PreStart
                    THEN Finish(b, IF att[b].clock = "open" THEN "CANCELLED" ELSE "FAILED",
                                att[b].fence + 1)
                    ELSE IF Capturable(b) THEN [att[b] EXCEPT !.finishCurrent = job.pauseGen + 1]
                    ELSE att[b]
    BY <1>18 DEF Pause
  <2>3. \A b \in PreStart : /\ att'[b].lifecycle = "FINISHED"
                            /\ att'[b].outcome \in {"CANCELLED", "FAILED"}
    <3> SUFFICES ASSUME NEW b \in PreStart
                 PROVE  /\ att'[b].lifecycle = "FINISHED"
                        /\ att'[b].outcome \in {"CANCELLED", "FAILED"}
      OBVIOUS
    <3> DEFINE o == IF att[b].clock = "open" THEN "CANCELLED" ELSE "FAILED"
    <3>1. b \in Attempts
      BY DEF PreStart
    <3>2. att'[b] = Finish(b, o, att[b].fence + 1)
      BY <2>2, <3>1
    <3>3. att'[b].lifecycle = "FINISHED" /\ att'[b].outcome = o
      BY <3>1, <3>2, FinishEnds
    <3> QED
      BY <3>3
  <2>4. \A b \in Attempts \ PreStart :
          /\ att'[b].lifecycle = att[b].lifecycle /\ att'[b].outcome = att[b].outcome
          /\ att'[b].pauseGen = att[b].pauseGen /\ att'[b].jobStopGen = att[b].jobStopGen
          /\ att'[b].taskStopGen = att[b].taskStopGen
          /\ att'[b].readyPause = att[b].readyPause
          /\ att'[b].lease = att[b].lease /\ att'[b].clock = att[b].clock
          /\ att'[b].finishCurrent = IF Capturable(b) THEN job.pauseGen + 1
                                     ELSE att[b].finishCurrent
    <3> SUFFICES ASSUME NEW b \in Attempts \ PreStart
                 PROVE  /\ att'[b].lifecycle = att[b].lifecycle
                        /\ att'[b].outcome = att[b].outcome
                        /\ att'[b].pauseGen = att[b].pauseGen
                        /\ att'[b].jobStopGen = att[b].jobStopGen
                        /\ att'[b].taskStopGen = att[b].taskStopGen
                        /\ att'[b].readyPause = att[b].readyPause
                        /\ att'[b].lease = att[b].lease /\ att'[b].clock = att[b].clock
                        /\ att'[b].finishCurrent = IF Capturable(b) THEN job.pauseGen + 1
                                                   ELSE att[b].finishCurrent
      OBVIOUS
    <3>1. att[b] \in AttemptDocs
      BY DEF TypeOK
    <3>2. att'[b] = IF Capturable(b) THEN [att[b] EXCEPT !.finishCurrent = job.pauseGen + 1]
                    ELSE att[b]
      BY <2>2
    <3> QED
      BY <3>1, <3>2 DEF AttemptDocs
  <2>5. \A b \in Attempts : att[b].lifecycle \in {"QUEUED", "LEASED"} => b \in PreStart
    BY DEF Authority, PreStartUnderCurrentAuthority, JobGrants, PreStart
  <2>6. StopIsJobWide'
    <3>1. PreStart # {} => task.phase = "DISPATCHED"
      BY DEF PreStart, Authority, SingleExecution
    <3>2. PreStart = {} => task' = task
      BY <1>18 DEF Pause
    <3> QED
      BY <2>1, <2>3, <2>4, <3>1, <3>2 DEF Authority, StopIsJobWide
  <2>7. CASE PreStart # {}
    <3>1. PICK a \in Attempts : att[a].lifecycle \in {"QUEUED", "LEASED"} /\ a \in PreStart
      BY <2>7 DEF PreStart
    <3>2. \A b \in Attempts : ~Live(b)'
      BY <2>3, <2>4, <3>1, AloneWhenLive DEF Live, LiveAttempt
    <3>3. request = "NONE"
      BY <3>1, AloneWhenLive DEF Live, LiveAttempt
    <3>4. task'.phase \in {"READY", "FAILED"} /\ task'.active = NoAttempt
      BY <1>18, <2>7 DEF Pause, Unbind, TypeOK, TaskDocs
    <3>5. BindingCleared' /\ QuestionMatchesTask' /\ NeverSuperseded' /\ Open'
      BY <2>1, <3>3, <3>4 DEF BindingCleared, QuestionMatchesTask, NeverSuperseded, Open
    <3> QED
      BY <2>6, <3>2, <3>5, AuthorityIdle
  <2>8. CASE PreStart = {}
    <3>1. task' = task
      BY <1>18, <2>8 DEF Pause
    <3>2. SingleExecution'
      BY <2>4, <2>8, <3>1 DEF Authority, SingleExecution, Live
    <3>3. PreStartUnderCurrentAuthority'
      BY <2>4, <2>5, <2>8 DEF PreStartUnderCurrentAuthority
    <3>4. /\ BindingCleared' /\ QuestionMatchesTask' /\ NeverSuperseded' /\ TerminalIsSilent'
      BY <2>1, <3>1 DEF Authority, BindingCleared, QuestionMatchesTask, NeverSuperseded,
         TerminalIsSilent, Open
    <3>5. \A b \in Attempts : att[b].lifecycle = "RUNNING" =>
            att[b].finishCurrent = -1 /\ att[b].pauseGen = job.pauseGen
      BY <2>1 DEF Authority, UnderOnePause, RetryAuthority
    <3>6. UnderOnePause'
      BY <1>nat, <2>1, <2>4, <2>5, <2>8, <3>1, <3>5
      DEF Authority, UnderOnePause, RetryAuthority, Open
    <3>7. MarkerBound'
      BY <1>nat, <2>1, <2>4, <2>8, <3>1, <3>5 DEF Authority, MarkerBound, Capturable
    <3> QED
      BY <2>6, <3>2, <3>3, <3>4, <3>6, <3>7 DEF Authority
  <2> QED
    BY <2>7, <2>8
<1>19. CASE Resume
  <2>1. /\ Open /\ job.control = "PAUSE_REQUESTED"
        /\ UNCHANGED <<task, att, request>> /\ job'.outcome = job.outcome
        /\ \A b \in Attempts : att[b].lifecycle # "RUNNING"
    BY <1>19 DEF Resume, TypeOK, JobDocs
  <2>2. \A b \in Attempts : ~Live(b)
    BY <2>1 DEF Authority, PreStartUnderCurrentAuthority, JobGrants, StopIsJobWide, Live,
       LiveAttempt
  <2>3. StopIsJobWide'
    BY <2>1 DEF Authority, StopIsJobWide
  <2>4. BindingCleared' /\ QuestionMatchesTask' /\ NeverSuperseded' /\ Open'
    BY <2>1 DEF Authority, BindingCleared, QuestionMatchesTask, NeverSuperseded, Open
  <2> QED
    BY <2>1, <2>2, <2>3, <2>4, AuthorityIdle DEF Live
<1>20. CASE Cancel
  <2>1. /\ Open /\ job.control # "STOP_REQUESTED" /\ request' = "NONE"
        /\ job'.control = "STOP_REQUESTED" /\ job'.outcome = job.outcome
    BY <1>20 DEF Cancel, TypeOK, JobDocs
  <2>2. /\ UnknownAttempts = {} \/ TaskTerminal
        /\ \A b \in Attempts : att[b].lifecycle # "STOP_REQUESTED"
    BY <2>1 DEF Authority, StopIsJobWide, UnknownAttempts, TaskTerminal, TerminalTaskPhases
  <2>3. \A b \in Attempts :
          att'[b].lifecycle = CASE att[b].lifecycle \in {"QUEUED", "LEASED"} -> "FINISHED"
                                [] att[b].lifecycle = "RUNNING" -> "STOP_REQUESTED"
                                [] OTHER -> att[b].lifecycle
    BY <1>20 DEF Cancel, Finish, TypeOK, AttemptDocs
  <2>4. StopIsJobWide'
    BY <2>1 DEF StopIsJobWide
  <2>5. CASE \E a \in Attempts : att[a].lifecycle = "RUNNING"
    <3>1. PICK a \in Attempts : att[a].lifecycle = "RUNNING"
      BY <2>5
    <3>2. task.active = a /\ ~TaskTerminal /\ \A b \in Attempts \ {a} : ~Live(b)
      BY <3>1, AloneWhenLive DEF Live, LiveAttempt
    <3>3. a \in Stoppable
      BY <3>1 DEF Stoppable
    <3>4. task'.phase = "RECONCILING" /\ task'.active = a
      <4>1. task' = [Unbind("RECONCILING") EXCEPT !.active = task.active,
                       !.control = "STOP_REQUESTED", !.stopGen = @ + 1]
        BY <1>20, <2>2, <3>2, <3>3 DEF Cancel
      <4> QED
        BY <3>2, <4>1 DEF Unbind, TypeOK, TaskDocs
    <3>5. /\ att'[a].lifecycle = "STOP_REQUESTED"
          /\ \A b \in Attempts \ {a} : ~Live(b)'
      BY <2>3, <3>1, <3>2 DEF Live, LiveAttempt
    <3>6. SingleExecution'
      BY <3>4, <3>5 DEF SingleExecution, Live, LiveAttempt
    <3>7. PreStartUnderCurrentAuthority' /\ UnderOnePause' /\ MarkerBound'
      BY <3>5 DEF PreStartUnderCurrentAuthority, UnderOnePause, MarkerBound, Live, LiveAttempt
    <3>8. /\ BindingCleared' /\ QuestionMatchesTask' /\ NeverSuperseded' /\ TerminalIsSilent'
      BY <2>1, <3>4 DEF BindingCleared, QuestionMatchesTask, NeverSuperseded, TerminalIsSilent,
         Open
    <3> QED
      BY <2>4, <3>6, <3>7, <3>8 DEF Authority
  <2>6. CASE \A a \in Attempts : att[a].lifecycle # "RUNNING"
    <3>1. Stoppable = {}
      BY <2>2, <2>6 DEF Stoppable
    <3>2. \A b \in Attempts : ~Live(b)'
      BY <2>2, <2>3, <2>6 DEF Live, LiveAttempt
    <3>3. IF TaskTerminal THEN task' = task
          ELSE task'.phase = "CANCELLED" /\ task'.active = NoAttempt
      BY <1>20, <2>2, <3>1 DEF Cancel, Unbind, TypeOK, TaskDocs
    <3>4. BindingCleared' /\ QuestionMatchesTask' /\ NeverSuperseded' /\ Open'
      BY <2>1, <3>3 DEF Authority, BindingCleared, QuestionMatchesTask, NeverSuperseded, Open,
         TaskTerminal, TerminalTaskPhases
    <3> QED
      BY <2>4, <3>2, <3>4, AuthorityIdle
  <2> QED
    BY <2>5, <2>6
<1> QED
  BY <1>1, <1>2, <1>3, <1>4, <1>5, <1>6, <1>7, <1>8, <1>9, <1>10, <1>11, <1>12, <1>13, <1>14,
     <1>15, <1>16, <1>17, <1>18, <1>19, <1>20 DEF Next

-----------------------------------------------------------------------------
\* The invariant holds throughout every behaviour.
THEOREM Safety == Spec => []Inductive
<1>1. Inductive /\ [Next]_vars => Inductive'
  BY TypeStep, AuthorityStep DEF Inductive
<1> QED
  BY InitInductive, <1>1, PTL DEF Spec

\* Documents, memories and queues stay in their types.
THEOREM TypeCorrect == Spec => []TypeOK
<1>1. Inductive => TypeOK
  BY DEF Inductive
<1> QED
  BY Safety, <1>1, PTL

\* At most one attempt of the task may have effects, and the binding names it,
\* for any number of lanes, workers, attempts and pauses.
THEOREM ExecutionIsSingle == Spec => []SingleExecution
<1>1. Inductive => SingleExecution
  BY DEF Inductive, Authority
<1> QED
  BY Safety, <1>1, PTL

\* An admission that has not started is always under today's authority.
THEOREM AdmissionsAreCurrent == Spec => []PreStartUnderCurrentAuthority
<1>1. Inductive => PreStartUnderCurrentAuthority
  BY DEF Inductive, Authority
<1> QED
  BY Safety, <1>1, PTL

\* The reaper's and the queue expiry's SUPERSEDED exit is never taken while the
\* job is open.
THEOREM LossNeverSupersedes == Spec => []NeverSuperseded
<1>1. Inductive => NeverSuperseded
  BY DEF Inductive, Authority
<1> QED
  BY Safety, <1>1, PTL

\* A task of an open job waits for input exactly while a request is open.
THEOREM QuestionsMatch == Spec => []QuestionMatchesTask
<1>1. Inductive => QuestionMatchesTask
  BY DEF Inductive, Authority
<1> QED
  BY Safety, <1>1, PTL

\* Nothing of a closed job can act: no attempt, question or binding is left.
THEOREM ClosedJobsAreSilent == Spec => []TerminalIsSilent
<1>1. Inductive => TerminalIsSilent
  BY DEF Inductive, Authority
<1> QED
  BY Safety, <1>1, PTL

\* A pause never strands an answer whose marker is durable: while the lease and the
\* work deadline hold, A still accepts it (finish-current).
THEOREM FrozenAnswersSurvivePauses == Spec => []FrozenAnswerIsAccepted
<1>1. Inductive => FrozenAnswerIsAccepted
  <2> SUFFICES ASSUME Inductive, NEW a \in Attempts,
                      att[a].lifecycle = "RUNNING", att[a].readyPause >= 0,
                      att[a].lease = "live", att[a].clock \in {"open", "cutoff"}
               PROVE  JobTakesResult(a) /\ TaskTakesResult(a)
    BY DEF FrozenAnswerIsAccepted
  <2>1. task.phase = "DISPATCHED" /\ task.active = a
    BY DEF Inductive, Authority, SingleExecution
  <2>2. /\ RetryAuthority(a) /\ job.stopGen = att[a].jobStopGen
        /\ task.control = "NONE" /\ task.stopGen = att[a].taskStopGen
    BY DEF Inductive, Authority, UnderOnePause
  <2>3. att[a].readyPause # -1
    BY DEF Inductive, TypeOK, AttemptDocs
  <2>4. /\ att[a].readyPause = att[a].pauseGen /\ task.ready = a
        /\ job.control = "PAUSE_REQUESTED" => att[a].finishCurrent = job.pauseGen
    BY <2>3 DEF Inductive, Authority, MarkerBound
  <2>5. JobTakesResult(a)
    BY <2>2, <2>4 DEF JobTakesResult, RetryAuthority, Open
  <2> QED
    BY <2>1, <2>2, <2>4, <2>5 DEF TaskTakesResult, TaskGrants
<1> QED
  BY Safety, <1>1, PTL

\* Between a pause and its resume no attempt is minted and none starts.
THEOREM PausesAdmitNothing == Spec => PauseAdmitsNothing
<1> DEFINE Quiet == job.control = "PAUSE_REQUESTED" =>
       \A a \in Attempts :
         /\ att'[a].lifecycle = "QUEUED" => att[a].lifecycle = "QUEUED"
         /\ att'[a].lifecycle = "RUNNING" => att[a].lifecycle = "RUNNING"
<1>1. Inductive /\ [Next]_vars => Quiet
  <2> SUFFICES ASSUME TypeOK, [Next]_vars, job.control = "PAUSE_REQUESTED", NEW a \in Attempts,
                      att'[a].lifecycle \in {"QUEUED", "RUNNING"}
               PROVE  att'[a].lifecycle = att[a].lifecycle
    BY DEF Inductive
  <2>1. att[a] \in AttemptDocs /\ att \in [Attempts -> AttemptDocs]
    BY DEF TypeOK
  <2>2. \A b \in Attempts : \A o, f : Finish(b, o, f).lifecycle = "FINISHED"
    BY FinishEnds
  <2>3. ASSUME NEW l \in Lanes,
               LaneClaimsWake(l) \/ LaneReads(l) \/ LaneAdvances(l) \/ LaneDispatches(l)
               \/ LaneLosesDispatch(l) \/ LaneCrashes(l)
        PROVE  att' = att
    BY <2>3 DEF LaneClaimsWake, LaneReads, LaneAdvances, LaneDispatches, LaneLosesDispatch,
       LaneCrashes, DispatchGranted
  <2>4. ASSUME NEW w \in Workers,
               \/ \E b \in Attempts : Claim(w, b)
               \/ Start(w)
               \/ \E p \in Payloads : WorkReturns(w, p)
               \/ NoMarkerNeeded(w) \/ Abandon(w) \/ MarkPayloadReady(w)
        PROVE  att' = att
    BY <2>4 DEF Claim, Start, WorkReturns, NoMarkerNeeded, Abandon, MarkPayloadReady,
       MarkerGranted, JobGrants
  <2>5. ASSUME NEW w \in Workers, RenewLease(w)
        PROVE  att'[a].lifecycle = att[a].lifecycle
    BY <2>1, <2>5 DEF RenewLease, Owns, AttemptDocs
  <2>6. ASSUME NEW w \in Workers, SubmitResult(w)
        PROVE  att'[a] = att[a]
    <3>1. held[w].att \in Attempts /\ \E o, f :
            att' = [att EXCEPT ![held[w].att] = Finish(held[w].att, o, f)]
      BY <2>6 DEF SubmitResult, Owns
    <3> QED
      BY <2>1, <2>2, <3>1
  <2>7. ASSUME NEW b \in Attempts, LeaseExpires(b) \/ DeadlinePasses(b)
        PROVE  att'[a].lifecycle = att[a].lifecycle
    BY <2>1, <2>7 DEF LeaseExpires, DeadlinePasses, AttemptDocs
  <2>8. ASSUME NEW b \in Attempts,
               ExpireQueued(b) \/ ReapLostWorker(b) \/ ReapUnconfirmed(b) \/ FireStopGrace(b)
        PROVE  att'[a] = att[a]
    <3>1. \E o, f : att' = [att EXCEPT ![b] = Finish(b, o, f)]
      BY <2>8 DEF ExpireQueued, ReapLostWorker, ReapUnconfirmed, FireStopGrace
    <3> QED
      BY <2>1, <2>2, <3>1
  <2>9. CASE Cancel
    <3>1. att'[a].lifecycle = CASE att[a].lifecycle \in {"QUEUED", "LEASED"} -> "FINISHED"
                                [] att[a].lifecycle = "RUNNING" -> "STOP_REQUESTED"
                                [] OTHER -> att[a].lifecycle
      BY <2>1, <2>9 DEF Cancel, Finish, AttemptDocs
    <3> QED
      BY <3>1
  <2>10. CASE \/ GraceExpires \/ BackoffElapses \/ RequestDeadlinePasses \/ FireRetryTimer
              \/ ExpireRequest \/ ReWake \/ ReduceFlatTerminal \/ Pause \/ Resume \/ Answer
              \/ UNCHANGED vars
    BY <2>10 DEF GraceExpires, BackoffElapses, RequestDeadlinePasses, FireRetryTimer,
       ExpireRequest, ReWake, ReduceFlatTerminal, Pause, Resume, Answer, vars
  <2> QED
    BY <2>3, <2>4, <2>5, <2>6, <2>7, <2>8, <2>9, <2>10 DEF Next
<1> QED
  BY Safety, <1>1, PTL DEF Spec, PauseAdmitsNothing

\* Terminal is monotonic: no late lane, worker, reaper, timer or command changes
\* the verdict of a closed job, or its task, attempts, question or results.
THEOREM VerdictsAreFinal == Spec => VerdictIsFinal
<1> DEFINE Final == ~Open =>
       /\ UNCHANGED <<job.outcome, job.phase, job.control, job.gen>>
       /\ UNCHANGED <<task.phase, task.control, task.active, result, request>>
       /\ \A a \in Attempts : /\ att'[a].lifecycle = att[a].lifecycle
                              /\ att'[a].outcome = att[a].outcome
                              /\ att'[a].fence = att[a].fence
<1>1. Inductive /\ [Next]_vars => Final
  <2> SUFFICES ASSUME TypeOK, Authority, [Next]_vars, ~Open
               PROVE  /\ UNCHANGED <<job.outcome, job.phase, job.control, job.gen>>
                      /\ UNCHANGED <<task.phase, task.control, task.active, result, request>>
                      /\ \A a \in Attempts : /\ att'[a].lifecycle = att[a].lifecycle
                                             /\ att'[a].outcome = att[a].outcome
                                             /\ att'[a].fence = att[a].fence
    BY DEF Inductive
  <2>1. request = "NONE" /\ \A a \in Attempts : ~Live(a)
    BY DEF Authority, TerminalIsSilent
  <2>2. ASSUME NEW l \in Lanes,
               LaneClaimsWake(l) \/ LaneReads(l) \/ LaneAdvances(l) \/ LaneDispatches(l)
               \/ LaneLosesDispatch(l) \/ LaneCrashes(l)
        PROVE  UNCHANGED <<job, task, att, result, request>>
    BY <2>2 DEF LaneClaimsWake, LaneReads, LaneAdvances, AdvanceGranted, LaneDispatches,
       DispatchGranted, LaneLosesDispatch, LaneCrashes
  <2>3. ASSUME NEW w \in Workers,
               \/ \E b \in Attempts : Claim(w, b)
               \/ Start(w)
               \/ \E p \in Payloads : WorkReturns(w, p)
               \/ RenewLease(w) \/ NoMarkerNeeded(w) \/ Abandon(w) \/ MarkPayloadReady(w)
               \/ SubmitResult(w)
        PROVE  UNCHANGED <<job, task, att, result, request>>
    BY <2>1, <2>3 DEF Claim, Start, WorkReturns, RenewLease, Owns, NoMarkerNeeded, Abandon,
       MarkPayloadReady, MarkerGranted, SubmitResult, JobGrants, JobTakesResult, Live, LiveAttempt
  <2>4. ASSUME NEW b \in Attempts,
               \/ DeadlinePasses(b) \/ ExpireQueued(b) \/ ReapLostWorker(b)
               \/ ReapUnconfirmed(b) \/ FireStopGrace(b)
        PROVE  FALSE
    BY <2>1, <2>4 DEF DeadlinePasses, ExpireQueued, ReapLostWorker, Reapable, ReapUnconfirmed,
       FireStopGrace, Live, LiveAttempt
  <2>5. ASSUME NEW b \in Attempts, LeaseExpires(b)
        PROVE  /\ UNCHANGED <<job, task, result, request>>
               /\ \A a \in Attempts : /\ att'[a].lifecycle = att[a].lifecycle
                                      /\ att'[a].outcome = att[a].outcome
                                      /\ att'[a].fence = att[a].fence
    BY <2>5 DEF LeaseExpires, TypeOK, AttemptDocs
  <2>6. CASE GraceExpires \/ BackoffElapses
    BY <2>6 DEF GraceExpires, BackoffElapses, TypeOK, JobDocs, TaskDocs
  <2>7. CASE FireRetryTimer \/ ReWake \/ UNCHANGED vars
    BY <2>7 DEF FireRetryTimer, ReWake, vars
  <2>8. ASSUME \/ RequestDeadlinePasses \/ ExpireRequest \/ ReduceFlatTerminal
               \/ Pause \/ Resume \/ Cancel \/ Answer
        PROVE  FALSE
    BY <2>1, <2>8 DEF RequestDeadlinePasses, ExpireRequest, ReduceFlatTerminal, Pause, Resume,
       Cancel, Answer
  <2> QED
    BY <2>2, <2>3, <2>4, <2>5, <2>6, <2>7, <2>8 DEF Next
<1> QED
  BY Safety, <1>1, PTL DEF Spec, VerdictIsFinal

=============================================================================
