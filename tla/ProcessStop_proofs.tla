------------------------- MODULE ProcessStop_proofs -------------------------
(***************************************************************************)
(* Theorems about ProcessStop for every number of attempts, every retry    *)
(* budget and every number of worker deaths, reboots and reused pids.      *)
(*                                                                         *)
(* One inductive invariant, Inductive.  It has a part about each attempt   *)
(* on its own (Local) and a part that counts attempts over the job; Step   *)
(* says what a step of one attempt owes to both.  What processes do, and   *)
(* what signals do to them, is one relation, Quieter: nothing starts that  *)
(* was not ordered, and what is dead stays dead.                           *)
(***************************************************************************)
EXTENDS ProcessStop, TLAPS

USE BoundsAssumption

\* What the invariant says of one attempt.
Local(a) ==
  /\ RowAgrees(a) /\ WorkerAgrees(a) /\ ProcessAgrees(a)
  /\ att[a].owner /\ att[a].confirmed = "yes" => ~Alive(a)

\* What the parts of a type-correct state are.
LEMMA TypeParts ==
  ASSUME TypeOK, NEW a \in Attempts
  PROVE  /\ att[a] \in AttemptRows /\ os[a] \in ProcessRows /\ wk[a] \in WorkerSteps
         /\ DOMAIN att = Attempts /\ DOMAIN os = Attempts /\ DOMAIN wk = Attempts
  BY DEF TypeOK

\* The invariant, attempt by attempt.
LEMMA InductiveParts ==
  Inductive <=> /\ TypeOK
                /\ \A a \in Attempts : Local(a)
                /\ AtMostOne /\ GrantsAreSafe /\ VerdictPending /\ Climbing
  BY DEF Inductive, Local, ProofIsTrue

\* Nothing of an attempt changes.
LEMMA LocalFrame ==
  ASSUME NEW b \in Attempts, Local(b),
         att'[b] = att[b], os'[b] = os[b], wk'[b] = wk[b]
  PROVE  Local(b)'
  BY DEF Local, RowAgrees, WorkerAgrees, ProcessAgrees, Alive, InGroup

\* The initial state: no attempt, no process.
LEMMA InitInductive == Init => Inductive
<1> SUFFICES ASSUME Init PROVE Inductive
  OBVIOUS
<1>1. \A a \in Attempts : att[a] = Absent /\ os[a] = NoProcess /\ wk[a] = "none"
  BY DEF Init
<1>2. TypeOK
  <2>1. Absent \in AttemptRows
    BY DEF Absent, AttemptRows, Lives, Outcomes
  <2>2. NoProcess \in ProcessRows
    BY DEF NoProcess, ProcessRows
  <2>3. Idle \in [att : Attempts \cup {NoAttempt}, rung : Rungs \cup {"idle"}]
    BY DEF Idle
  <2> QED
    BY <2>1, <2>2, <2>3 DEF Init, TypeOK, WorkerSteps
<1>3. \A a \in Attempts : Local(a)
  BY <1>1 DEF Local, RowAgrees, WorkerAgrees, ProcessAgrees, Absent, NoProcess, Rungs
<1>4. AtMostOne /\ GrantsAreSafe
  BY <1>1 DEF AtMostOne, GrantsAreSafe, Accounted, Absent
<1>5. VerdictPending /\ Climbing
  BY DEF Init, VerdictPending, Climbing, Idle
<1> QED
  BY <1>2, <1>3, <1>4, <1>5, InductiveParts

-----------------------------------------------------------------------------
(* Processes.                                                               *)

Living(p) ==
  p.wrapper \in {"inert", "started"} \/ p.target = "alive" \/ p.kid \in {"group", "stray"}
Begun(p) == p.wrapper = "started" \/ p.ordered \/ p.target # "none" \/ p.kid # "none"

\* From p to q no process begins that was not ordered, and none comes back.
Quieter(p, q) ==
  /\ q \in ProcessRows
  /\ p.wrapper # "none" => q.wrapper # "none"
  /\ p = NoProcess => q = NoProcess
  /\ q.wrapper = "none" => q = NoProcess
  /\ Begun(q) => Begun(p)
  /\ q.ordered => q.wrapper = "inert"
  /\ q.wrapper = "inert" => q.target = "none"
  /\ q.result => q.target = "dead"
  /\ Living(q) => Living(p)

\* What a workload does is done under its owner, and by a process that lives.
LEMMA WorkloadIsOwned ==
  ASSUME TypeOK, NEW a \in Attempts, Local(a), Workload(a)
  PROVE  att[a].owner /\ att[a].released /\ (att[a].confirmed # "yes")
<1>1. os[a] \in ProcessRows
  BY TypeParts
<1>2. att[a].owner /\ att[a].released
  BY DEF Local, Workload, ProcessAgrees
<1>3. Alive(a)
  BY <1>1 DEF Workload, Alive, InGroup, ProcessRows
<1> QED
  BY <1>2, <1>3 DEF Local

LEMMA QuietSelf ==
  ASSUME TypeOK, NEW a \in Attempts, Local(a)
  PROVE  Quieter(os[a], os[a])
  BY TypeParts DEF Quieter, Local, ProcessAgrees

\* Signals tell or kill, and start nothing but a target whose START was on its way.
LEMMA ToldIsQuieter ==
  ASSUME TypeOK, NEW a \in Attempts, Local(a), NEW q \in Told(os[a])
  PROVE  os[a].wrapper # "none" => Quieter(os[a], q)
<1> SUFFICES ASSUME os[a].wrapper # "none" PROVE Quieter(os[a], q)
  OBVIOUS
<1>1. os[a] \in ProcessRows /\ os[a] # NoProcess
  BY TypeParts DEF NoProcess
<1>2. /\ os[a].ordered => os[a].wrapper = "inert"
      /\ os[a].wrapper = "inert" => os[a].target = "none"
      /\ os[a].result => os[a].target = "dead"
  BY DEF Local, ProcessAgrees
<1>3. \/ q = [os[a] EXCEPT !.wrapper = "gone", !.told = TRUE, !.ordered = FALSE]
         /\ os[a].wrapper = "inert"
      \/ q = [os[a] EXCEPT !.wrapper = "started", !.told = TRUE, !.ordered = FALSE,
                           !.target = "alive"]
         /\ os[a].wrapper = "inert" /\ os[a].ordered
      \/ q = [os[a] EXCEPT !.told = TRUE]
  BY DEF Told
<1>4. q \in ProcessRows
  BY <1>1, <1>3 DEF ProcessRows
<1>5. /\ q.wrapper # "none"
      /\ q.ordered => q.wrapper = "inert"
      /\ q.wrapper = "inert" => q.target = "none"
      /\ q.result => q.target = "dead"
  BY <1>1, <1>2, <1>3 DEF ProcessRows
<1>6. (Begun(q) => Begun(os[a])) /\ (Living(q) => Living(os[a]))
  BY <1>1, <1>3 DEF ProcessRows, Begun, Living
<1> QED
  BY <1>1, <1>4, <1>5, <1>6 DEF Quieter

LEMMA KilledIsQuieter ==
  ASSUME TypeOK, NEW a \in Attempts, Local(a), os[a].wrapper # "none"
  PROVE  Quieter(os[a], Killed(os[a]))
<1>1. /\ os[a] \in ProcessRows /\ os[a] # NoProcess
      /\ os[a].result => os[a].target = "dead"
  BY TypeParts DEF NoProcess, Local, ProcessAgrees
<1> QED
  BY <1>1 DEF Killed, Quieter, ProcessRows, Begun, Living

\* Quieter processes keep what the invariant says of their attempt.
LEMMA QuietLocal ==
  ASSUME TypeOK, NEW a \in Attempts, Local(a),
         att'[a] = att[a], Quieter(os[a], os'[a]), WorkerAgrees(a)',
         wk'[a] = wk[a] \/ att[a].life # "ABSENT"
  PROVE  Local(a)'
<1>1. Alive(a)' => Alive(a)
  BY DEF Quieter, Alive, InGroup, Living
<1>2. RowAgrees(a)'
  BY DEF Local, RowAgrees, Quieter
<1>3. ProcessAgrees(a)'
  BY DEF Local, ProcessAgrees, Quieter, Begun
<1> QED
  BY <1>1, <1>2, <1>3 DEF Local

LEMMA QuietWorker ==
  ASSUME TypeOK, NEW a \in Attempts, Local(a),
         att'[a] = att[a], Quieter(os[a], os'[a]), wk'[a] = wk[a]
  PROVE  WorkerAgrees(a)'
<1>1. Alive(a)' => Alive(a)
  BY DEF Quieter, Alive, InGroup, Living
<1> QED
  BY <1>1 DEF Local, WorkerAgrees, Quieter

\* What the operating system does to the processes of an attempt.
LEMMA ProcessesAreQuieter ==
  ASSUME Inductive, NEW a \in Attempts, Processes(a)
  PROVE  /\ Quieter(os[a], os'[a])
         /\ os' = [os EXCEPT ![a] = os'[a]]
         /\ UNCHANGED <<job, task, att, wk, sup>>
         /\ limits' \in [attempts : 1 .. MaxAttempts, faults : Nat]
<1>1. TypeOK /\ Local(a)
  BY InductiveParts
<1>2. os[a] \in ProcessRows /\ os \in [Attempts -> ProcessRows]
  BY <1>1 DEF TypeOK
<1>3. /\ os[a].ordered => os[a].wrapper = "inert"
      /\ os[a].wrapper = "inert" => os[a].target = "none"
      /\ os[a].result => os[a].target = "dead"
      /\ os[a].wrapper = "none" => os[a] = NoProcess
  BY <1>1 DEF Local, ProcessAgrees
<1>4. limits \in [attempts : 1 .. MaxAttempts, faults : Nat]
  BY <1>1 DEF TypeOK
<1>5. CASE WrapperStarts(a)
  <2>1. os'[a] = [os[a] EXCEPT !.wrapper = "started", !.ordered = FALSE, !.target = "alive"]
    BY <1>2, <1>5 DEF WrapperStarts
  <2> QED
    BY <1>2, <1>3, <1>4, <1>5, <2>1
       DEF WrapperStarts, Quieter, ProcessRows, NoProcess, Begun, Living
<1>6. CASE InertExits(a)
  <2>1. os'[a] = [os[a] EXCEPT !.wrapper = "gone", !.ordered = FALSE]
    BY <1>2, <1>6 DEF InertExits
  <2>2. os'[a] \in ProcessRows
    BY <1>2, <2>1 DEF ProcessRows
  <2>3. /\ os[a] # NoProcess /\ os'[a].wrapper \notin {"none", "inert"}
        /\ ~os'[a].ordered /\ (os'[a].result => os'[a].target = "dead")
    BY <1>2, <1>3, <1>6, <2>1 DEF InertExits, ProcessRows, NoProcess
  <2>4. (Begun(os'[a]) => Begun(os[a])) /\ (Living(os'[a]) => Living(os[a]))
    BY <1>2, <1>6, <2>1 DEF InertExits, ProcessRows, Begun, Living
  <2> QED
    BY <1>2, <1>4, <1>6, <2>2, <2>3, <2>4 DEF InertExits, Quieter
<1>7. CASE TargetEnds(a)
  <2>1. os'[a] = [os[a] EXCEPT !.target = "dead", !.result = os[a].conn,
                    !.wrapper = IF os[a].told \/ ~os[a].conn THEN "gone" ELSE @]
    BY <1>2, <1>7 DEF TargetEnds
  <2>2. os'[a] \in ProcessRows
    BY <1>2, <2>1 DEF ProcessRows
  <2>3. /\ os[a] # NoProcess /\ os'[a].wrapper \notin {"none", "inert"}
        /\ ~os'[a].ordered /\ os'[a].target = "dead"
    BY <1>2, <1>3, <1>7, <2>1 DEF TargetEnds, ProcessRows, NoProcess
  <2>4. (Begun(os'[a]) => Begun(os[a])) /\ (Living(os'[a]) => Living(os[a]))
    BY <1>2, <1>7, <2>1 DEF TargetEnds, ProcessRows, Begun, Living
  <2> QED
    BY <1>2, <1>4, <1>7, <2>2, <2>3, <2>4 DEF TargetEnds, Quieter
<1>8. CASE Forks(a)
  <2>1. PICK where \in {"group", "stray"} : os' = [os EXCEPT ![a].kid = where]
    BY <1>8 DEF Forks
  <2>2. os'[a] = [os[a] EXCEPT !.kid = where]
    BY <1>2, <2>1
  <2> QED
    BY <1>2, <1>3, <1>4, <1>8, <2>1, <2>2
       DEF Forks, Quieter, ProcessRows, NoProcess, Begun, Living
<1>9. CASE KidEnds(a)
  <2>1. os'[a] = [os[a] EXCEPT !.kid = "none"]
    BY <1>2, <1>9 DEF KidEnds
  <2> QED
    BY <1>2, <1>3, <1>4, <1>9, <2>1
       DEF KidEnds, Quieter, ProcessRows, NoProcess, Begun, Living
<1>10. CASE PidReused(a)
  <2>1. os'[a] = [os[a] EXCEPT !.place = "reused"]
    BY <1>2, <1>10 DEF PidReused
  <2> QED
    BY <1>2, <1>3, <1>4, <1>10, <2>1
       DEF PidReused, Quieter, ProcessRows, NoProcess, Begun, Living
<1>11. CASE PidFreed(a)
  <2>1. os'[a] = [os[a] EXCEPT !.place = "here"]
    BY <1>2, <1>11 DEF PidFreed
  <2> QED
    BY <1>2, <1>3, <1>4, <1>11, <2>1
       DEF PidFreed, Quieter, ProcessRows, NoProcess, Begun, Living
<1> QED
  BY <1>5, <1>6, <1>7, <1>8, <1>9, <1>10, <1>11 DEF Processes

-----------------------------------------------------------------------------
(* Steps.                                                                   *)

\* A step of one attempt: it keeps what is said of that attempt, it makes none
\* unaccounted for, and it grants a retry or an end only where all are accounted for.
LEMMA Step ==
  ASSUME Inductive, NEW a \in Attempts, TypeOK',
         \A b \in Attempts \ {a} : att'[b] = att[b] /\ os'[b] = os[b] /\ wk'[b] = wk[b],
         Local(a)',
         Accounted(a) => Accounted(a)',
         task' = task \/ task'.phase \notin {"READY", "RETRY_PENDING", "DONE"}
           \/ (~Accounted(a) /\ Accounted(a)'),
         UNCHANGED job \/ job'.outcome = job.outcome,
         VerdictPending', Climbing'
  PROVE  Inductive'
<1>1. \A b \in Attempts : Local(b)'
  BY LocalFrame, InductiveParts
<1>2. \A b \in Attempts : Accounted(b) => Accounted(b)'
  BY DEF Accounted
<1>3. AtMostOne'
  BY <1>2 DEF Inductive, AtMostOne
<1>4. GrantsAreSafe'
  <2>1. CASE ~Accounted(a) /\ Accounted(a)'
    BY <1>2, <2>1 DEF Inductive, AtMostOne, GrantsAreSafe
  <2>2. CASE Accounted(a) \/ ~Accounted(a)'
    BY <1>2, <2>2 DEF Inductive, GrantsAreSafe
  <2> QED
    BY <2>1, <2>2
<1> QED
  BY <1>1, <1>3, <1>4 DEF Inductive, Local, ProofIsTrue

\* A step that leaves the store alone and starts no process that was not ordered.
LEMMA QuietStep ==
  ASSUME Inductive, NEW a \in Attempts,
         UNCHANGED <<job, task, att>>,
         NEW q, Quieter(os[a], q), os' = [os EXCEPT ![a] = q],
         NEW pc \in WorkerSteps, wk' = [wk EXCEPT ![a] = pc],
         pc = wk[a] \/ (att[a].life # "ABSENT" /\ WorkerAgrees(a)'),
         sup' = sup \/ sup' = Idle,
         limits' \in [attempts : 1 .. MaxAttempts, faults : Nat]
  PROVE  Inductive'
<1>1. TypeOK /\ Local(a)
  BY InductiveParts
<1>2. /\ os'[a] = q /\ wk'[a] = pc
      /\ \A b \in Attempts \ {a} : att'[b] = att[b] /\ os'[b] = os[b] /\ wk'[b] = wk[b]
  BY <1>1, TypeParts
<1>3. TypeOK'
  BY <1>1 DEF TypeOK, Quieter, Idle
<1>4. WorkerAgrees(a)'
  BY <1>1, <1>2, QuietWorker
<1>5. Local(a)'
  BY <1>1, <1>2, <1>4, QuietLocal
<1>6. VerdictPending' /\ Climbing'
  BY DEF Inductive, VerdictPending, Open, Climbing
<1> QED
  BY <1>2, <1>3, <1>5, <1>6, Step DEF Accounted

LEMMA ProcessesStep == ASSUME Inductive, NEW a \in Attempts, Processes(a) PROVE Inductive'
<1>1. TypeOK
  BY InductiveParts
<1>2. wk' = [wk EXCEPT ![a] = wk[a]] /\ wk[a] \in WorkerSteps
  BY <1>1, ProcessesAreQuieter, TypeParts DEF TypeOK
<1> QED
  BY <1>2, ProcessesAreQuieter, QuietStep

\* Dispatch is granted only where every attempt is accounted for.
LEMMA DispatchStep == ASSUME Inductive, NEW a \in Attempts, Dispatch(a) PROVE Inductive'
<1>1. TypeOK /\ att[a].life = "ABSENT" /\ Local(a)
  BY InductiveParts DEF Dispatch, Attempts
<1>2. /\ att'[a] = [att[a] EXCEPT !.life = "LEASED"] /\ wk'[a] = "claimed" /\ os' = os
      /\ \A b \in Attempts \ {a} : att'[b] = att[b] /\ os'[b] = os[b] /\ wk'[b] = wk[b]
  BY <1>1, TypeParts DEF Dispatch
<1>3. att'[a] \in AttemptRows
  BY <1>1, <1>2, TypeParts DEF AttemptRows, Lives
<1>4. TypeOK'
  BY <1>1, <1>2, <1>3 DEF Dispatch, TypeOK, WorkerSteps
<1>5. \A b \in Attempts : Local(b)'
  <2>1. Local(a)'
    BY <1>1, <1>2, TypeParts DEF Local, RowAgrees, WorkerAgrees, ProcessAgrees, AttemptRows,
       Rungs, NoProcess
  <2> QED
    BY <1>2, <2>1, LocalFrame, InductiveParts
<1>6. \A b \in Attempts : Accounted(b)
  BY DEF Inductive, GrantsAreSafe, Dispatch
<1>7. \A b \in Attempts \ {a} : Accounted(b)'
  BY <1>2, <1>6 DEF Accounted
<1>8. AtMostOne'
  BY <1>7 DEF AtMostOne
<1>9. GrantsAreSafe' /\ VerdictPending' /\ Climbing'
  BY DEF Dispatch, Open, GrantsAreSafe, Inductive, VerdictPending, Climbing
<1> QED
  BY <1>4, <1>5, <1>8, <1>9 DEF Inductive, Local, ProofIsTrue

-----------------------------------------------------------------------------
(* The worker.                                                              *)

\* An attempt whose worker took it is dispatched, and stays so.
LEMMA WorkerHasAttempt ==
  ASSUME Inductive, NEW a \in Attempts, wk[a] # "none"
  PROVE  att[a].life # "ABSENT"
  BY DEF Inductive, RowAgrees

LEMMA PrepareStep == ASSUME Inductive, NEW a \in Attempts, Prepare(a) PROVE Inductive'
<1>1. /\ TypeOK /\ Local(a) /\ os[a] = NoProcess /\ ~att[a].owner
      /\ att[a].life # "ABSENT"
  BY InductiveParts, WorkerHasAttempt DEF Prepare, At, Local, WorkerAgrees
<1>2. PICK q \in {[NoProcess EXCEPT !.wrapper = "inert", !.conn = TRUE],
                  [NoProcess EXCEPT !.wrapper = "gone"]} : os' = [os EXCEPT ![a] = q]
  <2>1. CASE os' = [os EXCEPT ![a].wrapper = "inert", ![a].conn = TRUE]
    BY <1>1, <2>1, TypeParts
  <2>2. CASE os' = [os EXCEPT ![a].wrapper = "gone"]
    BY <1>1, <2>2, TypeParts
  <2> QED
    BY <2>1, <2>2 DEF Prepare
<1>3. q \in ProcessRows /\ q.wrapper # "none"
      /\ ~q.result /\ ~q.ordered /\ q.target = "none" /\ q.kid = "none" /\ q.wrapper # "started"
  BY DEF ProcessRows, NoProcess
<1>4. /\ att' = att /\ wk'[a] \in {"prepared", "cleanup"} /\ os'[a] = q
      /\ \A b \in Attempts \ {a} : att'[b] = att[b] /\ os'[b] = os[b] /\ wk'[b] = wk[b]
  BY <1>1, <1>2, TypeParts DEF Prepare, Goto
<1>5. TypeOK'
  BY <1>1, <1>2, <1>3 DEF Prepare, Goto, TypeOK, WorkerSteps
<1>6. Local(a)'
  BY <1>1, <1>3, <1>4 DEF Local, RowAgrees, WorkerAgrees, ProcessAgrees, Rungs
<1>7. VerdictPending' /\ Climbing'
  BY DEF Prepare, Inductive, VerdictPending, Open, Climbing
<1> QED
  BY <1>4, <1>5, <1>6, <1>7, Step DEF Prepare, Accounted

\* A step of the worker alone.
LEMMA GotoStep ==
  ASSUME Inductive, NEW a \in Attempts, NEW pc \in WorkerSteps, Goto(a, pc),
         UNCHANGED <<job, task, att, os, sup, limits>>,
         wk[a] # "none", WorkerAgrees(a)'
  PROVE  Inductive'
<1>1. TypeOK /\ Local(a) /\ os = [os EXCEPT ![a] = os[a]]
  BY InductiveParts DEF TypeOK
<1> QED
  BY <1>1, QuietSelf, WorkerHasAttempt, QuietStep DEF Goto, TypeOK

\* A step that ends the task's attempt a, or leaves the task alone.
TaskMoves(a) ==
  \/ task' = task
  \/ task' \in [phase : {"RECONCILING", "SUPERSEDED"}, active : Attempts \cup {NoAttempt}]
  \/ /\ task' \in [phase : {"DONE", "RETRY_PENDING"}, active : Attempts \cup {NoAttempt}]
     /\ Accounted(a)'

\* A step of the worker and of its row: the row keeps its owner's promise.
LEMMA RowStep ==
  ASSUME Inductive, NEW a \in Attempts,
         wk[a] # "none", wk' = [wk EXCEPT ![a] = wk'[a]], wk'[a] \in WorkerSteps,
         att[a].life # "FINISHED",
         att' = [att EXCEPT ![a] = att'[a]], att'[a] \in AttemptRows,
         UNCHANGED <<job, os, sup, limits>>,
         TaskMoves(a), Local(a)'
  PROVE  Inductive'
<1>1. TypeOK
  BY InductiveParts
<1>2. \A b \in Attempts \ {a} : att'[b] = att[b] /\ os'[b] = os[b] /\ wk'[b] = wk[b]
  BY <1>1, TypeParts
<1>3. TypeOK'
  BY <1>1 DEF TypeOK, TaskMoves
<1>4. att[a].life # "ABSENT" /\ ~Accounted(a)
  BY WorkerHasAttempt DEF Accounted
<1>5. VerdictPending' /\ Climbing'
  BY DEF Inductive, VerdictPending, Open, Climbing
<1> QED
  BY <1>2, <1>3, <1>4, <1>5, Step DEF TaskMoves

LEMMA RegisterStep == ASSUME Inductive, NEW a \in Attempts, RegisterOwner(a) PROVE Inductive'
<1>1. /\ TypeOK /\ Local(a) /\ wk[a] = "prepared" /\ ~att[a].owner
      /\ att[a].life # "ABSENT"
  BY InductiveParts, WorkerHasAttempt DEF RegisterOwner, At, Local, WorkerAgrees
<1>2. CASE Goto(a, "cleanup") /\ UNCHANGED att
  <2>1. WorkerAgrees(a)'
    BY <1>1, <1>2, TypeParts DEF Goto, WorkerAgrees, Rungs
  <2> QED
    BY <1>1, <1>2, <2>1, GotoStep DEF RegisterOwner, WorkerSteps
<1>4. att[a] \in AttemptRows
  BY <1>1, TypeParts
<1>3. ASSUME Register(a), NEW pc \in {"registered", "cleanup"}, Goto(a, pc)
      PROVE  Inductive'
  <2>1. /\ att'[a] = [att[a] EXCEPT !.life = "RUNNING", !.owner = TRUE, !.state = "OWNED"]
        /\ att' = [att EXCEPT ![a] = att'[a]]
        /\ wk' = [wk EXCEPT ![a] = wk'[a]] /\ wk'[a] = pc /\ os' = os
    BY <1>1, <1>3, TypeParts DEF Register, Goto, RegisterOwner
  <2>2. att'[a] \in AttemptRows
    BY <1>4, <2>1 DEF AttemptRows, Lives
  <2>3. Local(a)'
    BY <1>1, <1>3, <2>1, TypeParts DEF Local, Register, RowAgrees, WorkerAgrees, ProcessAgrees,
       Rungs, Alive, InGroup, AttemptRows
  <2>4. att[a].life = "LEASED" /\ pc \in WorkerSteps
    BY <1>3 DEF Register, WorkerSteps
  <2>5. UNCHANGED <<job, os, sup, limits>> /\ TaskMoves(a)
    BY DEF RegisterOwner, TaskMoves
  <2> QED
    BY <1>1, <2>1, <2>2, <2>3, <2>4, <2>5, RowStep
<1> QED
  BY <1>2, <1>3 DEF RegisterOwner, Commits

LEMMA ReleaseStep == ASSUME Inductive, NEW a \in Attempts, ReleaseWorkload(a) PROVE Inductive'
<1>1. TypeOK /\ Local(a) /\ wk[a] = "registered" /\ att[a].owner
  BY InductiveParts DEF ReleaseWorkload, At, Local, WorkerAgrees
<1>2. ASSUME UNCHANGED att, NEW pc \in {"cleanup", "stopping"}, Goto(a, pc)
      PROVE  Inductive'
  <2>1. WorkerAgrees(a)'
    BY <1>1, <1>2, TypeParts DEF Goto, WorkerAgrees, Rungs
  <2> QED
    BY <1>1, <1>2, <2>1, GotoStep DEF ReleaseWorkload, WorkerSteps
<1>4. att[a] \in AttemptRows
  BY <1>1, TypeParts
<1>3. ASSUME Release(a), NEW pc \in {"released", "stopping"}, Goto(a, pc)
      PROVE  Inductive'
  <2>1. /\ att'[a] = [att[a] EXCEPT !.released = TRUE]
        /\ att' = [att EXCEPT ![a] = att'[a]]
        /\ wk' = [wk EXCEPT ![a] = wk'[a]] /\ wk'[a] = pc /\ os' = os
    BY <1>1, <1>3, TypeParts DEF Release, Goto, ReleaseWorkload
  <2>2. att'[a] \in AttemptRows
    BY <1>4, <2>1 DEF AttemptRows
  <2>3. Local(a)'
    BY <1>1, <1>3, <2>1, TypeParts DEF Local, RowAgrees, WorkerAgrees, ProcessAgrees,
       Rungs, Alive, InGroup, AttemptRows
  <2>4. att[a].life = "RUNNING" /\ pc \in WorkerSteps
    BY <1>3 DEF Release, WorkerSteps
  <2>5. UNCHANGED <<job, os, sup, limits>> /\ TaskMoves(a)
    BY DEF ReleaseWorkload, TaskMoves
  <2> QED
    BY <1>1, <2>1, <2>2, <2>3, <2>4, <2>5, RowStep
<1> QED
  BY <1>2, <1>3 DEF ReleaseWorkload, Commits

LEMMA SendStartStep == ASSUME Inductive, NEW a \in Attempts, SendStart(a) PROVE Inductive'
<1>1. TypeOK /\ Local(a) /\ wk[a] = "released" /\ att[a].owner /\ att[a].released
  BY InductiveParts DEF SendStart, At, Local, WorkerAgrees
<1>2. CASE Goto(a, "stopping") /\ UNCHANGED os
  <2>1. WorkerAgrees(a)'
    BY <1>1, <1>2, TypeParts DEF SendStart, Goto, WorkerAgrees, Rungs
  <2> QED
    BY <1>1, <1>2, <2>1, GotoStep DEF SendStart, WorkerSteps
<1>3. ASSUME os[a].wrapper = "inert", os' = [os EXCEPT ![a].ordered = TRUE],
             NEW pc \in {"running", "stopping"}, Goto(a, pc)
      PROVE  Inductive'
  <2>1. /\ os'[a] = [os[a] EXCEPT !.ordered = TRUE] /\ wk'[a] = pc /\ att' = att
        /\ \A b \in Attempts \ {a} : os'[b] = os[b] /\ wk'[b] = wk[b]
    BY <1>1, <1>3, TypeParts DEF SendStart, Goto
  <2>2. os'[a] \in ProcessRows
    BY <1>1, <2>1, TypeParts DEF ProcessRows
  <2>3. TypeOK'
    BY <1>1, <1>3, <2>1, <2>2 DEF SendStart, TypeOK, Goto, WorkerSteps
  <2>4. att[a].life # "ABSENT" /\ (att[a].owner /\ att[a].confirmed = "yes" => FALSE)
    BY <1>1, <1>3 DEF Local, RowAgrees, Alive, InGroup
  <2>5. Local(a)'
    BY <1>1, <1>3, <2>1, <2>4, TypeParts DEF Local, RowAgrees, WorkerAgrees, ProcessAgrees,
       Rungs, ProcessRows
  <2>6. VerdictPending' /\ Climbing'
    BY DEF SendStart, Inductive, VerdictPending, Open, Climbing
  <2> QED
    BY <2>1, <2>3, <2>5, <2>6, Step DEF SendStart, Accounted
<1> QED
  BY <1>2, <1>3 DEF SendStart

LEMMA GiveUpStep == ASSUME Inductive, NEW a \in Attempts, GiveUp(a) PROVE Inductive'
<1>1. TypeOK /\ Local(a) /\ wk[a] = "running" /\ att[a].owner
  BY InductiveParts DEF GiveUp, At, Local, WorkerAgrees
<1>2. WorkerAgrees(a)'
  BY <1>1, TypeParts DEF GiveUp, Goto, WorkerAgrees, Rungs
<1> QED
  BY <1>1, <1>2, GotoStep DEF GiveUp, WorkerSteps

\* What requestAttemptStopInSession makes of a running row.
LEMMA StoppedRow ==
  ASSUME NEW row \in AttemptRows, NEW n \in {0, 1}
  PROVE  /\ Stopped(row, n) \in AttemptRows
         /\ Stopped(row, n).life = "STOP_REQUESTED" /\ Stopped(row, n).confirmed = "null"
         /\ Stopped(row, n).owner = row.owner /\ Stopped(row, n).released = row.released
  BY DEF Stopped, AttemptRows, Lives

\* A stop asked of a running attempt keeps what is said of it.
LEMMA StoppedLocal ==
  ASSUME TypeOK, NEW a \in Attempts, Local(a), att[a].life = "RUNNING",
         att' = [att EXCEPT ![a] = Stopped(@, job.stop)], os' = os,
         wk' = wk \/ (wk' = [wk EXCEPT ![a] = "look"] /\ wk[a] = "stopping")
  PROVE  /\ Local(a)' /\ att'[a] \in AttemptRows /\ att' = [att EXCEPT ![a] = att'[a]]
         /\ ~Accounted(a) /\ ~Accounted(a)'
<1>1. /\ att[a] \in AttemptRows /\ job.stop \in {0, 1}
      /\ att'[a] = Stopped(att[a], job.stop) /\ att' = [att EXCEPT ![a] = att'[a]]
  BY TypeParts DEF TypeOK
<1>2. /\ att'[a] \in AttemptRows /\ att'[a].life = "STOP_REQUESTED"
      /\ att'[a].confirmed = "null"
      /\ att'[a].owner = att[a].owner /\ att'[a].released = att[a].released
  BY <1>1, StoppedRow
<1>3. wk'[a] = wk[a] \/ (wk'[a] = "look" /\ wk[a] = "stopping")
  BY TypeParts
<1>4. Local(a)'
  BY <1>2, <1>3 DEF Local, RowAgrees, WorkerAgrees, ProcessAgrees, Rungs, Alive, InGroup
<1> QED
  BY <1>1, <1>2, <1>4 DEF Accounted

LEMMA EnsureStopStep == ASSUME Inductive, NEW a \in Attempts, EnsureStop(a) PROVE Inductive'
<1>1. TypeOK /\ Local(a) /\ wk[a] = "stopping" /\ att[a].owner
  BY InductiveParts DEF EnsureStop, At, Local, WorkerAgrees
<1>2. CASE UNCHANGED att
  <2>1. PICK pc \in {"look", "cleanup"} : Goto(a, pc)
    BY DEF EnsureStop
  <2>2. WorkerAgrees(a)'
    BY <1>1, <1>2, <2>1, TypeParts DEF EnsureStop, Goto, WorkerAgrees, Rungs
  <2> QED
    BY <1>1, <1>2, <2>1, <2>2, GotoStep DEF EnsureStop, WorkerSteps, Rungs
<1>3. CASE /\ att[a].life = "RUNNING" /\ Goto(a, "look")
           /\ att' = [att EXCEPT ![a] = Stopped(@, job.stop)]
  <2>1. wk' = [wk EXCEPT ![a] = "look"] /\ wk' = [wk EXCEPT ![a] = wk'[a]] /\ wk'[a] = "look"
    BY <1>1, <1>3, TypeParts DEF Goto
  <2>2. os' = os /\ UNCHANGED <<job, os, sup, limits>> /\ TaskMoves(a)
    BY DEF EnsureStop, TaskMoves
  <2>3. Local(a)' /\ att'[a] \in AttemptRows /\ att' = [att EXCEPT ![a] = att'[a]]
    BY <1>1, <1>3, <2>1, <2>2, StoppedLocal
  <2>4. "look" \in WorkerSteps
    BY DEF WorkerSteps, Rungs
  <2> QED
    BY <1>1, <1>3, <2>1, <2>2, <2>3, <2>4, RowStep
<1> QED
  BY <1>2, <1>3 DEF EnsureStop

\* A rung of the ladder either acts on processes, under a stop it has just read, or
\* records that nothing of the tree is left.
LEMMA RungEffect ==
  ASSUME Inductive, NEW a \in Attempts, NEW from, NEW to, Rung(a, from, to)
  PROVE  \/ /\ UNCHANGED <<job, task, att>>
            /\ os' = [os EXCEPT ![a] = os'[a]] /\ Quieter(os[a], os'[a])
         \/ /\ StopObserved(a) /\ TreeEmpty(a) /\ RecordStopReceipt(a)
            /\ os' = os /\ to = "done"
<1>1. TypeOK /\ Local(a)
  BY InductiveParts
<1>2. CASE os' = os /\ UNCHANGED <<job, task, att>>
  BY <1>1, <1>2, QuietSelf DEF TypeOK
<1>3. CASE StopObserved(a) /\ UNCHANGED store /\ os' # os
  <2>1. os[a].wrapper # "none"
    BY <1>1, <1>3 DEF StopObserved, Local, RowAgrees, ProcessAgrees
  <2>2. CASE \E proc \in Told(os[a]) : os' = [os EXCEPT ![a] = proc]
    <3>1. PICK proc \in Told(os[a]) : os' = [os EXCEPT ![a] = proc]
      BY <2>2
    <3>2. Quieter(os[a], proc)
      BY <1>1, <2>1, ToldIsQuieter
    <3> QED
      BY <1>1, <1>3, <3>1, <3>2 DEF TypeOK, store
  <2>3. CASE os' = [os EXCEPT ![a] = Killed(@)]
    <3>1. Quieter(os[a], Killed(os[a]))
      BY <1>1, <2>1, KilledIsQuieter
    <3> QED
      BY <1>1, <1>3, <2>3, <3>1 DEF TypeOK, store
  <2> QED
    BY <1>3, <2>2, <2>3 DEF Rung
<1> QED
  BY <1>2, <1>3 DEF Rung, store

LEMMA ReceiptRow ==
  ASSUME NEW row \in AttemptRows
  PROVE  LET r == [row EXCEPT !.life = "FINISHED", !.outcome = "STOPPED", !.fenced = TRUE,
                              !.state = "EXITED", !.confirmed = "yes",
                              !.stopReceipt = TRUE, !.timer = "CANCELLED"]
         IN  /\ r \in AttemptRows /\ r.owner = row.owner /\ r.released = row.released
             /\ r.life = "FINISHED" /\ r.confirmed = "yes"
<1> DEFINE r == [row EXCEPT !.life = "FINISHED", !.outcome = "STOPPED", !.fenced = TRUE,
                            !.state = "EXITED", !.confirmed = "yes",
                            !.stopReceipt = TRUE, !.timer = "CANCELLED"]
<1>1. r \in AttemptRows
  BY DEF AttemptRows, Lives, Outcomes
<1>2. r.owner = row.owner /\ r.released = row.released
  BY DEF AttemptRows
<1>3. r.life = "FINISHED" /\ r.confirmed = "yes"
  BY DEF AttemptRows
<1> QED
  BY <1>1, <1>2, <1>3

\* A receipt is true when it is recorded, and it accounts for the attempt.
LEMMA ReceiptStep ==
  ASSUME Inductive, NEW a \in Attempts,
         StopObserved(a), TreeEmpty(a), RecordStopReceipt(a), UNCHANGED <<os, limits>>,
         wk' \in [Attempts -> WorkerSteps], \A b \in Attempts \ {a} : wk'[b] = wk[b],
         wk'[a] = wk[a] \/ (att[a].owner /\ wk'[a] = "cleanup"),
         sup' = sup \/ sup' = Idle
  PROVE  Inductive'
<1> DEFINE r == [att[a] EXCEPT !.life = "FINISHED", !.outcome = "STOPPED", !.fenced = TRUE,
                               !.state = "EXITED", !.confirmed = "yes",
                               !.stopReceipt = TRUE, !.timer = "CANCELLED"]
<1>1. TypeOK /\ Local(a) /\ att[a].owner /\ att[a] \in AttemptRows /\ ~Accounted(a)
  BY InductiveParts, TypeParts DEF StopObserved, Local, RowAgrees, Accounted
<1>2. /\ job' = job
      /\ task' = task \/ task' = [phase |-> "RECONCILING", active |-> NoAttempt]
      /\ att' = att \/ att' = [att EXCEPT ![a] = r]
  BY <1>1 DEF RecordStopReceipt, MoveToReconciling, store
<1>3. /\ r \in AttemptRows /\ r.owner = att[a].owner /\ r.released = att[a].released
      /\ r.life = "FINISHED" /\ r.confirmed = "yes"
  BY <1>1, ReceiptRow
<1> HIDE DEF r
<1>4. /\ \A b \in Attempts \ {a} : att'[b] = att[b]
      /\ att'[a] = att[a] \/ att'[a] = r
      /\ att' \in [Attempts -> AttemptRows]
  BY <1>1, <1>2, <1>3, TypeParts DEF TypeOK
<1>5. TypeOK'
  BY <1>1, <1>2, <1>4 DEF TypeOK, Idle
<1>6. ~Alive(a)'
  BY DEF TreeEmpty, Alive, InGroup
<1>7. Local(a)'
  <2>1. att'[a].owner = att[a].owner /\ att'[a].released = att[a].released
        /\ att'[a].life \in {"FINISHED", "STOP_REQUESTED"}
    BY <1>3, <1>4 DEF StopObserved
  <2> QED
    BY <1>1, <1>6, <2>1 DEF Local, RowAgrees, WorkerAgrees, ProcessAgrees, Rungs
<1>8. VerdictPending' /\ Climbing'
  BY <1>2 DEF Inductive, VerdictPending, Open, Climbing
<1> QED
  BY <1>1, <1>2, <1>4, <1>5, <1>7, <1>8, Step

LEMMA WorkerClimbsStep ==
  ASSUME Inductive, NEW a \in Attempts, WorkerClimbs(a)
  PROVE  Inductive'
<1>1. TypeOK /\ Local(a) /\ wk[a] \in Rungs /\ att[a].owner /\ att[a].life # "ABSENT"
  BY InductiveParts DEF WorkerClimbs, Local, WorkerAgrees, RowAgrees
<1>2. PICK to \in Rungs \cup {"done"} :
        Rung(a, wk[a], to) /\ Goto(a, IF to = "done" THEN "cleanup" ELSE to)
             /\ UNCHANGED <<sup, limits>> /\ (wk[a] = "look" => to # "term")
  BY DEF WorkerClimbs
<1>3. PICK pc \in Rungs \cup {"cleanup"} : Goto(a, pc) /\ (to = "done" <=> pc = "cleanup")
  BY <1>2 DEF Rungs
<1>4. CASE UNCHANGED <<job, task, att>> /\ os' = [os EXCEPT ![a] = os'[a]]
             /\ Quieter(os[a], os'[a])
  <2>1. wk'[a] = pc
    BY <1>1, <1>3, TypeParts DEF Goto
  <2>2. WorkerAgrees(a)'
    BY <1>1, <1>4, <2>1 DEF WorkerAgrees, Rungs
  <2>3. pc \in WorkerSteps /\ limits \in [attempts : 1 .. MaxAttempts, faults : Nat]
    BY <1>1 DEF WorkerSteps, TypeOK
  <2> QED
    BY <1>1, <1>2, <1>3, <1>4, <2>2, <2>3, QuietStep DEF Goto
<1>5. CASE StopObserved(a) /\ TreeEmpty(a) /\ RecordStopReceipt(a) /\ os' = os
             /\ to = "done"
  <2>1. wk'[a] = pc /\ (\A b \in Attempts \ {a} : wk'[b] = wk[b])
        /\ wk' \in [Attempts -> WorkerSteps]
    BY <1>1, <1>3, TypeParts DEF Goto, TypeOK, WorkerSteps
  <2>2. wk'[a] = "cleanup" /\ UNCHANGED <<os, limits>> /\ sup' = sup
    BY <1>2, <1>3, <1>5, <2>1
  <2> QED
    BY <1>1, <1>5, <2>1, <2>2, ReceiptStep
<1> QED
  BY <1>2, <1>4, <1>5, RungEffect

\* A wrapper that may go away is one without a target to wait for.
LEMMA WrapperLeaves ==
  ASSUME TypeOK, NEW a \in Attempts, Local(a), os[a].wrapper # "none",
         os[a].ordered => os[a].wrapper = "started",
         NEW q \in {[os[a] EXCEPT !.wrapper = "gone"], os[a]}
  PROVE  Quieter(os[a], q)
<1>1. /\ os[a] \in ProcessRows /\ os[a] # NoProcess /\ ~os[a].ordered
      /\ os[a].wrapper = "inert" => os[a].target = "none"
      /\ os[a].result => os[a].target = "dead"
  BY TypeParts DEF NoProcess, Local, ProcessAgrees
<1>2. CASE q = os[a]
  BY <1>1, <1>2 DEF Quieter
<1>3. CASE q = [os[a] EXCEPT !.wrapper = "gone"]
  <2>1. q \in ProcessRows /\ q.wrapper = "gone" /\ ~q.ordered
        /\ (q.result => q.target = "dead")
    BY <1>1, <1>3 DEF ProcessRows
  <2>2. (Begun(q) => Begun(os[a])) /\ (Living(q) => Living(os[a]))
    BY <1>1, <1>3 DEF ProcessRows, Begun, Living
  <2> QED
    BY <1>1, <2>1, <2>2 DEF Quieter
<1> QED
  BY <1>2, <1>3

LEMMA FinalizeStep == ASSUME Inductive, NEW a \in Attempts, Finalize(a) PROVE Inductive'
<1>1. /\ TypeOK /\ Local(a) /\ wk[a] = "running" /\ att[a].owner /\ os[a].wrapper # "none"
      /\ att[a].life # "ABSENT" /\ os[a].result /\ ~os[a].ordered
  BY InductiveParts DEF Finalize, At, Local, WorkerAgrees, RowAgrees, ProcessAgrees
<1>2. PICK left \in {os[a].wrapper, "gone"} : os' = [os EXCEPT ![a].wrapper = left]
  BY DEF Finalize
<1>3. PICK q \in {[os[a] EXCEPT !.wrapper = "gone"], os[a]} : os' = [os EXCEPT ![a] = q]
  <2>1. CASE left = "gone"
    BY <1>1, <1>2, <2>1, TypeParts
  <2>2. CASE left = os[a].wrapper
    <3>1. [os[a] EXCEPT !.wrapper = left] = os[a]
      BY <1>1, <2>2, TypeParts DEF ProcessRows
    <3> QED
      BY <1>1, <1>2, <3>1, TypeParts
  <2> QED
    BY <2>1, <2>2
<1>4. Quieter(os[a], q)
  BY <1>1, WrapperLeaves
<1>5. wk' = [wk EXCEPT ![a] = "waiting"] /\ wk'[a] = "waiting" /\ "waiting" \in WorkerSteps
      /\ UNCHANGED <<job, task, att>> /\ sup' = sup
      /\ limits' \in [attempts : 1 .. MaxAttempts, faults : Nat]
  BY <1>1, TypeParts DEF Finalize, Goto, WorkerSteps, TypeOK
<1>6. WorkerAgrees(a)'
  BY <1>1, <1>5 DEF WorkerAgrees, Rungs
<1> QED
  BY <1>1, <1>3, <1>4, <1>5, <1>6, QuietStep

LEMMA AwaitTreeStep == ASSUME Inductive, NEW a \in Attempts, AwaitTree(a) PROVE Inductive'
<1>1. TypeOK /\ Local(a) /\ wk[a] = "waiting" /\ att[a].owner
  BY InductiveParts DEF AwaitTree, At, Local, WorkerAgrees
<1>2. PICK pc \in {"proven", "stopping"} : Goto(a, pc) /\ (pc = "proven" => TreeEmpty(a))
  BY DEF AwaitTree
<1>3. WorkerAgrees(a)'
  BY <1>1, <1>2, TypeParts DEF AwaitTree, Goto, WorkerAgrees, Rungs, TreeEmpty, Alive, InGroup
<1> QED
  BY <1>1, <1>2, <1>3, GotoStep DEF AwaitTree, WorkerSteps

LEMMA CleanupStep == ASSUME Inductive, NEW a \in Attempts, Cleanup(a) PROVE Inductive'
<1>1. /\ TypeOK /\ Local(a) /\ wk[a] = "cleanup" /\ att[a].life # "ABSENT"
  BY InductiveParts DEF Cleanup, At, Local, RowAgrees
<1>2. /\ wk' = [wk EXCEPT ![a] = "ended"] /\ wk'[a] = "ended" /\ "ended" \in WorkerSteps
      /\ UNCHANGED <<job, task, att, sup, limits>>
  BY <1>1, TypeParts DEF Cleanup, Goto, WorkerSteps
<1>3. WorkerAgrees(a)'
  BY <1>1, <1>2 DEF WorkerAgrees, Rungs
<1>4. CASE os' = os
  BY <1>1, <1>2, <1>3, <1>4, GotoStep DEF Cleanup
<1>5. CASE /\ (os[a].wrapper = "inert" /\ ~os[a].ordered) \/ os[a].result
           /\ os' = [os EXCEPT ![a].wrapper = "gone"]
  <2>1. os[a].wrapper # "none" /\ ~os[a].ordered
    BY <1>1, <1>5 DEF Local, ProcessAgrees
  <2>2. Quieter(os[a], [os[a] EXCEPT !.wrapper = "gone"])
    BY <1>1, <2>1, WrapperLeaves
  <2>3. os' = [os EXCEPT ![a] = [os[a] EXCEPT !.wrapper = "gone"]]
    BY <1>1, <1>5, TypeParts
  <2>4. limits' \in [attempts : 1 .. MaxAttempts, faults : Nat] /\ sup' = sup
    BY <1>1, <1>2 DEF TypeOK
  <2> QED
    BY <1>1, <1>2, <1>3, <2>2, <2>3, <2>4, QuietStep
<1> QED
  BY <1>4, <1>5 DEF Cleanup

LEMMA WorkerDiesStep == ASSUME Inductive, NEW a \in Attempts, WorkerDies(a) PROVE Inductive'
<1> DEFINE q == [os[a] EXCEPT !.conn = FALSE,
                   !.wrapper = IF @ = "started" /\ os[a].target = "dead" THEN "gone" ELSE @]
<1>1. /\ TypeOK /\ Local(a) /\ wk[a] # "none" /\ att[a].life # "ABSENT"
      /\ os[a] \in ProcessRows
  BY InductiveParts, TypeParts, WorkerHasAttempt DEF WorkerDies
<1>2. /\ os[a].ordered => os[a].wrapper = "inert"
      /\ os[a].wrapper = "inert" => os[a].target = "none"
      /\ os[a].result => os[a].target = "dead"
      /\ os[a].wrapper = "none" => os[a] = NoProcess
  BY <1>1 DEF Local, ProcessAgrees
<1>3. os' = [os EXCEPT ![a] = q]
  BY <1>1, TypeParts DEF WorkerDies
<1>4. Quieter(os[a], q)
  <2>1. /\ q \in ProcessRows
        /\ os[a].wrapper # "none" => q.wrapper # "none"
        /\ q.ordered = os[a].ordered /\ q.target = os[a].target /\ q.kid = os[a].kid
        /\ q.result = os[a].result
        /\ q.wrapper = os[a].wrapper \/ (q.wrapper = "gone" /\ os[a].wrapper = "started")
    BY <1>1 DEF ProcessRows
  <2>2. os[a] = NoProcess => q = NoProcess
    <3> SUFFICES ASSUME os[a] = NoProcess PROVE q = NoProcess
      OBVIOUS
    <3>1. /\ q.wrapper = "none" /\ q.target = "none" /\ q.kid = "none" /\ ~q.told
          /\ ~q.ordered /\ ~q.result /\ ~q.conn /\ q.place = "here"
      BY DEF NoProcess
    <3> HIDE DEF q
    <3> QED
      BY <2>1, <3>1 DEF ProcessRows, NoProcess
  <2>3. (Begun(q) => Begun(os[a])) /\ (Living(q) => Living(os[a]))
    BY <1>1, <2>1 DEF ProcessRows, Begun, Living
  <2> QED
    BY <1>2, <2>1, <2>2, <2>3 DEF Quieter
<1>5. /\ wk' = [wk EXCEPT ![a] = "gone"] /\ wk'[a] = "gone" /\ "gone" \in WorkerSteps
      /\ UNCHANGED <<job, task, att>> /\ sup' = sup
      /\ limits' \in [attempts : 1 .. MaxAttempts, faults : Nat]
  BY <1>1, TypeParts DEF WorkerDies, Goto, WorkerSteps, TypeOK
<1>6. WorkerAgrees(a)'
  BY <1>1, <1>5 DEF WorkerAgrees, Rungs
<1> HIDE DEF q
<1> QED
  BY <1>1, <1>3, <1>4, <1>5, <1>6, QuietStep

LEMMA SubmitAnswerStep == ASSUME Inductive, NEW a \in Attempts, SubmitAnswer(a) PROVE Inductive'
<1>1. TypeOK /\ Local(a) /\ wk[a] = "proven" /\ att[a].owner /\ ~Alive(a)
  BY InductiveParts DEF SubmitAnswer, At, Local, WorkerAgrees
<1>2. CASE UNCHANGED store
  <2>1. PICK pc \in {"look", "cleanup", "stopping"} : Goto(a, pc)
    BY DEF SubmitAnswer
  <2>2. WorkerAgrees(a)'
    BY <1>1, <1>2, <2>1, TypeParts DEF SubmitAnswer, store, Goto, WorkerAgrees, Rungs
  <2> QED
    BY <1>1, <1>2, <2>1, <2>2, GotoStep DEF SubmitAnswer, store, WorkerSteps, Rungs
<1>3. CASE Submit(a) /\ Goto(a, "cleanup")
  <2>1. att[a] \in AttemptRows /\ att[a].life = "RUNNING"
    BY <1>1, <1>3, TypeParts DEF Submit
  <2>2. /\ att'[a] = [att[a] EXCEPT !.state = "EXITED", !.confirmed = "yes",
                        !.exitReceipt = "normal", !.life = "FINISHED", !.outcome = "ANSWERED"]
        /\ att' = [att EXCEPT ![a] = att'[a]]
    BY <1>1, <1>3, TypeParts DEF Submit, ExitRecorded
  <2>3. att'[a] \in AttemptRows
    BY <2>1, <2>2 DEF AttemptRows, Lives, Outcomes
  <2>4. /\ att'[a].life = "FINISHED" /\ att'[a].confirmed = "yes"
        /\ att'[a].owner = att[a].owner /\ att'[a].released = att[a].released
    BY <2>1, <2>2 DEF AttemptRows
  <2>5. wk' = [wk EXCEPT ![a] = wk'[a]] /\ wk'[a] = "cleanup" /\ "cleanup" \in WorkerSteps
    BY <1>1, <1>3, TypeParts DEF Goto, WorkerSteps
  <2>6. UNCHANGED <<job, os, sup, limits>> /\ TaskMoves(a)
    BY <1>3, <2>4 DEF SubmitAnswer, Submit, TaskMoves, Accounted
  <2>7. Local(a)'
    BY <1>1, <2>4, <2>5, <2>6
       DEF Local, RowAgrees, WorkerAgrees, ProcessAgrees, Rungs, Alive, InGroup
  <2> QED
    BY <1>1, <2>1, <2>2, <2>3, <2>5, <2>6, <2>7, RowStep
<1> QED
  BY <1>2, <1>3 DEF SubmitAnswer

-----------------------------------------------------------------------------
(* Time, timers and the reaper.                                             *)

\* A row moves under its owner: a proof of termination is added only when it is true.
RowMoves(a) ==
  /\ att'[a].owner = att[a].owner /\ att'[a].released = att[a].released
  /\ att'[a].confirmed = "yes" =>
       att[a].confirmed = "yes" \/ ~att[a].owner \/ ~Alive(a)
  /\ \/ att'[a].life = att[a].life /\ att'[a].confirmed = att[a].confirmed
     \/ att[a].life \in {"RUNNING", "FINISHED"} /\ att'[a].life = att[a].life
     \/ /\ att[a].life \in {"LEASED", "RUNNING", "STOP_REQUESTED"}
        /\ att'[a].life = "FINISHED"
     \/ att[a].life = "RUNNING" /\ att'[a].life = "STOP_REQUESTED"

LEMMA RowLocal ==
  ASSUME NEW a \in Attempts, Local(a), RowMoves(a), os'[a] = os[a], wk'[a] = wk[a]
  PROVE  Local(a)'
<1>1. Alive(a)' <=> Alive(a)
  BY DEF Alive, InGroup
<1>2. RowAgrees(a)'
  BY DEF Local, RowAgrees, RowMoves
<1>3. WorkerAgrees(a)' /\ ProcessAgrees(a)'
  BY <1>1 DEF Local, WorkerAgrees, ProcessAgrees, RowMoves
<1> QED
  BY <1>1, <1>2, <1>3 DEF Local, RowMoves

\* A step of the store on one attempt, its task and the pending verdict.
LEMMA StoreStep ==
  ASSUME Inductive, NEW a \in Attempts,
         att' = [att EXCEPT ![a] = att'[a]], att'[a] \in AttemptRows, RowMoves(a),
         Accounted(a) => Accounted(a)' /\ task' = task,
         UNCHANGED <<os, wk, limits>>, TaskMoves(a),
         job' = job \/ job' = [job EXCEPT !.pending = "UNKNOWN_OUTCOME"],
         sup' = sup \/ sup' \in [att : Attempts, rung : Rungs]
  PROVE  Inductive'
<1>1. TypeOK /\ Local(a)
  BY InductiveParts
<1>2. \A b \in Attempts \ {a} : att'[b] = att[b] /\ os'[b] = os[b] /\ wk'[b] = wk[b]
  BY <1>1, TypeParts
<1>3. TypeOK'
  BY <1>1 DEF TypeOK, TaskMoves
<1>4. Local(a)'
  BY <1>1, RowLocal
<1>5. job'.outcome = job.outcome /\ VerdictPending'
  BY <1>1 DEF TypeOK, Inductive, VerdictPending, Open
<1>6. Climbing'
  BY DEF Inductive, Climbing
<1>7. task' = task \/ task'.phase \notin {"READY", "RETRY_PENDING", "DONE"}
        \/ (~Accounted(a) /\ Accounted(a)')
  BY DEF TaskMoves
<1> QED
  BY <1>2, <1>3, <1>4, <1>5, <1>6, <1>7, Step

LEMMA LeaseEndsStep == ASSUME Inductive, NEW a \in Attempts, LeaseEnds(a) PROVE Inductive'
<1>1. TypeOK /\ att[a] \in AttemptRows
  BY InductiveParts, TypeParts
<1>2. /\ att'[a] = [att[a] EXCEPT !.leaseOver = TRUE]
      /\ att' = [att EXCEPT ![a] = att'[a]]
  BY <1>1, TypeParts DEF LeaseEnds
<1>3. att'[a] \in AttemptRows
  BY <1>1, <1>2 DEF AttemptRows
<1>4. RowMoves(a) /\ ~Accounted(a)
  BY <1>1, <1>2 DEF AttemptRows, RowMoves, LeaseEnds, InProgress, Accounted
<1>5. UNCHANGED <<os, wk, limits>> /\ TaskMoves(a) /\ job' = job /\ sup' = sup
  BY DEF LeaseEnds, TaskMoves
<1> QED
  BY <1>2, <1>3, <1>4, <1>5, StoreStep

LEMMA GraceEndsStep == ASSUME Inductive, NEW a \in Attempts, GraceEnds(a) PROVE Inductive'
<1>1. TypeOK /\ att[a] \in AttemptRows
  BY InductiveParts, TypeParts
<1>2. /\ att'[a] = [att[a] EXCEPT !.graceOver = TRUE]
      /\ att' = [att EXCEPT ![a] = att'[a]]
  BY <1>1, TypeParts DEF GraceEnds
<1>3. att'[a] \in AttemptRows /\ RowMoves(a) /\ (Accounted(a) => Accounted(a)')
  BY <1>1, <1>2 DEF AttemptRows, RowMoves, Accounted
<1>4. UNCHANGED <<os, wk, limits>> /\ TaskMoves(a) /\ task' = task /\ job' = job /\ sup' = sup
  BY DEF GraceEnds, TaskMoves
<1> QED
  BY <1>2, <1>3, <1>4, StoreStep

\* What moveTaskAndJobToReconciling may change.
LEMMA ReconcilingMoves ==
  ASSUME NEW a \in Attempts, NEW unknown \in BOOLEAN, MoveToReconciling(a, unknown)
  PROVE  TaskMoves(a) /\ (job' = job \/ job' = [job EXCEPT !.pending = "UNKNOWN_OUTCOME"])
  BY DEF MoveToReconciling, TaskMoves

LEMMA GraceFiresStep == ASSUME Inductive, NEW a \in Attempts, GraceFires(a) PROVE Inductive'
<1>1. TypeOK /\ att[a] \in AttemptRows /\ att[a].life = "STOP_REQUESTED"
  BY InductiveParts, TypeParts DEF GraceFires, StopObserved
<1>2. /\ att'[a] = [att[a] EXCEPT !.life = "FINISHED", !.outcome = "UNKNOWN_OUTCOME",
                      !.fenced = TRUE, !.state = "UNKNOWN", !.confirmed = "no",
                      !.timer = "FIRED"]
      /\ att' = [att EXCEPT ![a] = att'[a]]
  BY <1>1, TypeParts DEF GraceFires
<1>3. att'[a] \in AttemptRows
  BY <1>1, <1>2 DEF AttemptRows, Lives, Outcomes
<1>4. RowMoves(a) /\ ~Accounted(a)
  BY <1>1, <1>2 DEF AttemptRows, RowMoves, Accounted
<1>5. /\ UNCHANGED <<os, wk, limits>> /\ TaskMoves(a) /\ sup' = sup
      /\ job' = job \/ job' = [job EXCEPT !.pending = "UNKNOWN_OUTCOME"]
  BY ReconcilingMoves DEF GraceFires
<1> QED
  BY <1>2, <1>3, <1>4, <1>5, StoreStep

\* What the reaper makes of a row: the worker is lost, or its outcome is.
LEMMA LostRow ==
  ASSUME NEW row \in AttemptRows
  PROVE  LET r == [row EXCEPT !.life = "FINISHED", !.fenced = TRUE,
                              !.outcome = "WORKER_LOST"]
         IN  /\ r \in AttemptRows /\ r.owner = row.owner /\ r.released = row.released
             /\ r.life = "FINISHED" /\ r.confirmed = row.confirmed
<1> DEFINE r == [row EXCEPT !.life = "FINISHED", !.fenced = TRUE, !.outcome = "WORKER_LOST"]
<1>1. r \in AttemptRows
  BY DEF AttemptRows, Lives, Outcomes
<1>2. r.owner = row.owner /\ r.released = row.released
  BY DEF AttemptRows
<1>3. r.life = "FINISHED" /\ r.confirmed = row.confirmed
  BY DEF AttemptRows
<1> QED
  BY <1>1, <1>2, <1>3

LEMMA UnknownRow ==
  ASSUME NEW row \in AttemptRows
  PROVE  LET r == [row EXCEPT !.life = "FINISHED", !.fenced = TRUE,
                              !.outcome = "UNKNOWN_OUTCOME", !.state = "UNKNOWN",
                              !.confirmed = "no", !.stop = 1]
         IN  /\ r \in AttemptRows /\ r.owner = row.owner /\ r.released = row.released
             /\ r.life = "FINISHED" /\ r.confirmed = "no"
<1> DEFINE r == [row EXCEPT !.life = "FINISHED", !.fenced = TRUE,
                            !.outcome = "UNKNOWN_OUTCOME", !.state = "UNKNOWN",
                            !.confirmed = "no", !.stop = 1]
<1>1. r \in AttemptRows
  BY DEF AttemptRows, Lives, Outcomes
<1>2. r.owner = row.owner /\ r.released = row.released
  BY DEF AttemptRows
<1>3. r.life = "FINISHED" /\ r.confirmed = "no"
  BY DEF AttemptRows
<1> QED
  BY <1>1, <1>2, <1>3

\* The reaper leaves a registered process alone until its end is proved.
LEMMA ReapStep == ASSUME Inductive, NEW a \in Attempts, Reap(a) PROVE Inductive'
<1> DEFINE lost == [att[a] EXCEPT !.life = "FINISHED", !.fenced = TRUE,
                                  !.outcome = "WORKER_LOST"]
           gone == [att[a] EXCEPT !.life = "FINISHED", !.fenced = TRUE,
                                  !.outcome = "UNKNOWN_OUTCOME", !.state = "UNKNOWN",
                                  !.confirmed = "no", !.stop = 1]
           unknown == att[a].life = "STOP_REQUESTED"
                        \/ (att[a].state \in {"OWNED", "STOP_REQUESTED"} /\ Unproven(a))
<1>1. /\ TypeOK /\ att[a] \in AttemptRows /\ ~Unproven(a) /\ ~Accounted(a)
      /\ att[a].life \in {"LEASED", "RUNNING", "STOP_REQUESTED"} /\ DOMAIN att = Attempts
  BY InductiveParts, TypeParts DEF Reap, InProgress, Accounted
<1>2. att' = [att EXCEPT ![a] = IF unknown THEN gone ELSE lost]
  BY DEF Reap
<1>3. task' = task \/ task' = [phase |-> "RECONCILING", active |-> NoAttempt]
        \/ (~unknown /\ task' \in [phase : {"SUPERSEDED", "DONE", "RETRY_PENDING"},
                                    active : Attempts \cup {NoAttempt}])
  BY DEF Reap
<1>4. UNCHANGED <<os, wk, limits>> /\ job' = job /\ sup' = sup
  BY DEF Reap
<1>5. /\ lost \in AttemptRows /\ lost.owner = att[a].owner /\ lost.released = att[a].released
      /\ lost.life = "FINISHED" /\ lost.confirmed = att[a].confirmed
  BY <1>1, LostRow
<1>6. /\ gone \in AttemptRows /\ gone.owner = att[a].owner /\ gone.released = att[a].released
      /\ gone.life = "FINISHED" /\ gone.confirmed = "no"
  BY <1>1, UnknownRow
<1> HIDE DEF lost, gone, unknown
<1>7. CASE unknown
  <2>1. att'[a] = gone /\ att' = [att EXCEPT ![a] = att'[a]]
    BY <1>1, <1>2, <1>7
  <2>2. RowMoves(a) /\ att'[a] \in AttemptRows
    BY <1>1, <1>6, <2>1 DEF RowMoves
  <2>3. TaskMoves(a)
    BY <1>3, <1>7 DEF TaskMoves
  <2> QED
    BY <1>1, <1>4, <2>1, <2>2, <2>3, StoreStep
<1>8. CASE ~unknown
  <2>1. att'[a] = lost /\ att' = [att EXCEPT ![a] = att'[a]]
    BY <1>1, <1>2, <1>8
  <2>2. RowMoves(a) /\ att'[a] \in AttemptRows
    BY <1>1, <1>5, <2>1 DEF RowMoves
  <2>3. Accounted(a)'
    BY <1>1, <1>5, <2>1 DEF Accounted, Unproven, Unconfirmed
  <2>4. TaskMoves(a)
    BY <1>3, <2>3 DEF TaskMoves
  <2> QED
    BY <1>1, <1>4, <2>1, <2>2, <2>4, StoreStep
<1> QED
  BY <1>7, <1>8

-----------------------------------------------------------------------------
(* The supervisor.                                                          *)

LEMMA FindStopStep == ASSUME Inductive, NEW a \in Attempts, FindStop(a) PROVE Inductive'
<1>1. TypeOK /\ att[a] \in AttemptRows /\ att' = [att EXCEPT ![a] = att'[a]] /\ att' = att
  BY InductiveParts, TypeParts DEF FindStop, TypeOK
<1>2. RowMoves(a) /\ TaskMoves(a) /\ (Accounted(a) => Accounted(a)')
  BY <1>1 DEF RowMoves, TaskMoves, FindStop, Accounted
<1>3. /\ UNCHANGED <<os, wk, limits>> /\ job' = job /\ task' = task
      /\ sup' \in [att : Attempts, rung : Rungs]
  BY DEF FindStop, Rungs
<1> QED
  BY <1>1, <1>2, <1>3, StoreStep

LEMMA FindLostOwnerStep ==
  ASSUME Inductive, NEW a \in Attempts, FindLostOwner(a)
  PROVE  Inductive'
<1>1. /\ TypeOK /\ Local(a) /\ att[a].life = "RUNNING" /\ os' = os /\ wk' = wk
      /\ att' = [att EXCEPT ![a] = Stopped(@, job.stop)] /\ att[a] \in AttemptRows
      /\ job.stop \in {0, 1}
  BY InductiveParts, TypeParts DEF FindLostOwner, TypeOK
<1>2. att'[a] \in AttemptRows /\ att' = [att EXCEPT ![a] = att'[a]] /\ ~Accounted(a)
  BY <1>1, StoppedLocal
<1>3. att'[a] = Stopped(att[a], job.stop)
  BY <1>1, TypeParts
<1>4. RowMoves(a)
  BY <1>1, <1>3, StoppedRow DEF RowMoves
<1>5. /\ UNCHANGED <<os, wk, limits>> /\ job' = job /\ TaskMoves(a)
      /\ sup' = sup \/ sup' \in [att : Attempts, rung : Rungs]
  BY DEF FindLostOwner, Watched, TaskMoves, Rungs
<1> QED
  BY <1>2, <1>4, <1>5, StoreStep

LEMMA FindEmptyTreeStep ==
  ASSUME Inductive, NEW a \in Attempts, FindEmptyTree(a)
  PROVE  Inductive'
<1>1. /\ TypeOK /\ att[a] \in AttemptRows /\ att[a].life \in {"RUNNING", "FINISHED"}
      /\ ~Alive(a) /\ ~Accounted(a)
  BY InductiveParts, TypeParts
     DEF FindEmptyTree, NormalExitAdmitted, PostStopExitAdmitted, TreeEmpty, Watched, Unproven,
         Unconfirmed, Accounted
<1>2. PICK kind \in {"normal", "post"} : att' = [att EXCEPT ![a] = ExitRecorded(@, kind)]
  BY DEF FindEmptyTree
<1>3. /\ att'[a] = [att[a] EXCEPT !.state = "EXITED", !.confirmed = "yes", !.exitReceipt = kind]
      /\ att' = [att EXCEPT ![a] = att'[a]]
  BY <1>1, <1>2, TypeParts DEF ExitRecorded
<1>4. att'[a] \in AttemptRows
  BY <1>1, <1>3 DEF AttemptRows
<1>5. RowMoves(a)
  BY <1>1, <1>3 DEF AttemptRows, RowMoves
<1>6. UNCHANGED <<os, wk, limits>> /\ TaskMoves(a) /\ job' = job /\ sup' = sup
  BY DEF FindEmptyTree, TaskMoves
<1> QED
  BY <1>1, <1>3, <1>4, <1>5, <1>6, StoreStep

\* A rung the supervisor climbs, on the attempt it is at.
LEMMA SupervisedRung ==
  ASSUME Inductive, NEW a \in Attempts, NEW from, NEW to, Rung(a, from, to),
         UNCHANGED <<wk, limits>>,
         sup' = Idle \/ (sup' \in [att : Attempts, rung : Rungs] /\ to # "done")
  PROVE  Inductive'
<1>1. /\ TypeOK /\ Local(a) /\ wk[a] \in WorkerSteps
      /\ limits' \in [attempts : 1 .. MaxAttempts, faults : Nat]
      /\ wk' \in [Attempts -> WorkerSteps]
  BY InductiveParts DEF TypeOK
<1>2. CASE UNCHANGED <<job, task, att>> /\ os' = [os EXCEPT ![a] = os'[a]]
             /\ Quieter(os[a], os'[a])
  <2>1. \A b \in Attempts \ {a} : att'[b] = att[b] /\ os'[b] = os[b] /\ wk'[b] = wk[b]
    BY <1>1, <1>2, TypeParts
  <2>2. os' \in [Attempts -> ProcessRows]
    BY <1>1, <1>2 DEF TypeOK, Quieter
  <2>3. TypeOK'
    BY <1>1, <1>2, <2>2 DEF TypeOK, Idle
  <2>4. att'[a] = att[a] /\ wk'[a] = wk[a]
    BY <1>2
  <2>5. WorkerAgrees(a)'
    BY <1>1, <1>2, <2>4, QuietWorker
  <2>6. Local(a)'
    BY <1>1, <1>2, <2>4, <2>5, QuietLocal
  <2>7. VerdictPending' /\ Climbing'
    BY <1>2 DEF Inductive, VerdictPending, Open, Climbing
  <2> QED
    BY <1>2, <2>1, <2>3, <2>6, <2>7, Step DEF Accounted
<1>3. CASE StopObserved(a) /\ TreeEmpty(a) /\ RecordStopReceipt(a) /\ os' = os
             /\ to = "done"
  <2>1. sup' = Idle /\ UNCHANGED <<os, limits>> /\ wk'[a] = wk[a]
        /\ \A b \in Attempts \ {a} : wk'[b] = wk[b]
    BY <1>3
  <2> QED
    BY <1>1, <1>3, <2>1, ReceiptStep
<1> QED
  BY <1>2, <1>3, RungEffect

LEMMA SupervisorClimbsStep == ASSUME Inductive, SupervisorClimbs PROVE Inductive'
<1>1. PICK to \in (Rungs \ {"abort"}) \cup {"done"} :
        /\ Rung(sup.att, sup.rung, to)
        /\ sup' = IF to = "done" THEN Idle ELSE [sup EXCEPT !.rung = to]
  BY DEF SupervisorClimbs
<1>2. TypeOK /\ sup.att \in Attempts /\ UNCHANGED <<wk, limits>>
  BY InductiveParts DEF SupervisorClimbs, Climbing
<1>3. sup' = Idle \/ (sup' \in [att : Attempts, rung : Rungs] /\ to # "done")
  BY <1>1, <1>2 DEF TypeOK
<1> QED
  BY <1>1, <1>2, <1>3, SupervisedRung

-----------------------------------------------------------------------------
(* The job and the host.                                                    *)

\* The job closes where its task is done, so every attempt is accounted for.
LEMMA CloseJobStep == ASSUME Inductive, CloseJob PROVE Inductive'
<1>1. /\ TypeOK /\ UNCHANGED <<task, att, os, wk, sup, limits>> /\ task.phase = "DONE"
      /\ job' = [job EXCEPT !.outcome = "CLOSED"]
  BY DEF CloseJob, Inductive
<1>2. TypeOK' /\ ~Open'
  BY <1>1 DEF TypeOK, Open
<1>3. \A a \in Attempts : Local(a)'
  BY <1>1, InductiveParts, LocalFrame
<1>4. \A a \in Attempts : Accounted(a)' /\ Accounted(a)
  BY <1>1 DEF Inductive, GrantsAreSafe, Accounted
<1>5. AtMostOne' /\ GrantsAreSafe' /\ VerdictPending' /\ Climbing'
  BY <1>1, <1>2, <1>4 DEF AtMostOne, GrantsAreSafe, VerdictPending, Inductive, Climbing
<1> QED
  BY <1>2, <1>3, <1>5 DEF Inductive, Local, ProofIsTrue

\* What cancelJob makes of a row that ends at once.
LEMMA CancelledRow ==
  ASSUME NEW row \in AttemptRows
  PROVE  LET r == [row EXCEPT !.life = "FINISHED", !.outcome = "CANCELLED",
                              !.fenced = TRUE]
             s == [r EXCEPT !.confirmed = "yes"]
         IN  /\ r \in AttemptRows /\ r.owner = row.owner /\ r.released = row.released
             /\ r.life = "FINISHED" /\ r.confirmed = row.confirmed
             /\ s \in AttemptRows /\ s.owner = row.owner /\ s.released = row.released
             /\ s.life = "FINISHED"
<1> DEFINE r == [row EXCEPT !.life = "FINISHED", !.outcome = "CANCELLED", !.fenced = TRUE]
           s == [r EXCEPT !.confirmed = "yes"]
<1>1. r \in AttemptRows
  BY DEF AttemptRows, Lives, Outcomes
<1>2. r.owner = row.owner /\ r.released = row.released /\ r.life = "FINISHED"
  BY DEF AttemptRows
<1>3. r.confirmed = row.confirmed
  BY DEF AttemptRows
<1> HIDE DEF r
<1>4. s \in AttemptRows
  BY <1>1 DEF AttemptRows
<1>5. s.owner = r.owner /\ s.released = r.released /\ s.life = r.life
  BY <1>1 DEF AttemptRows
<1> HIDE DEF s
<1>6. s = [r EXCEPT !.confirmed = "yes"]
  BY DEF s
<1> QED
  BY <1>1, <1>2, <1>3, <1>4, <1>5 DEF r, s

\* cancelJob ends what has no process, asks the rest to stop, and leaves what is over.
LEMMA CancelJobRows ==
  ASSUME Inductive, CancelJob, NEW a \in Attempts
  PROVE  /\ att'[a] \in AttemptRows /\ RowMoves(a)
         /\ Accounted(a) => Accounted(a)'
<1> DEFINE cancelled == [att[a] EXCEPT !.life = "FINISHED", !.outcome = "CANCELLED",
                                       !.fenced = TRUE]
           confirmed == [cancelled EXCEPT !.confirmed = "yes"]
<1>1. TypeOK /\ Local(a) /\ att[a] \in AttemptRows
  BY InductiveParts, TypeParts
<1>2. \/ att[a].life = "LEASED" /\ att'[a] = confirmed
      \/ att[a].life = "RUNNING" /\ att'[a] = Stopped(att[a], 1)
      \/ att[a].life = "RUNNING" /\ att'[a] = cancelled
      \/ att'[a] = att[a]
  BY DEF CancelJob
<1>3. /\ cancelled \in AttemptRows /\ cancelled.owner = att[a].owner
      /\ cancelled.released = att[a].released
      /\ cancelled.life = "FINISHED" /\ cancelled.confirmed = att[a].confirmed
      /\ confirmed \in AttemptRows /\ confirmed.owner = att[a].owner
      /\ confirmed.released = att[a].released /\ confirmed.life = "FINISHED"
  BY <1>1, CancelledRow
<1> HIDE DEF cancelled, confirmed
<1>4. CASE att[a].life = "LEASED" /\ att'[a] = confirmed
  BY <1>1, <1>3, <1>4 DEF Local, RowAgrees, RowMoves, Accounted
<1>5. CASE att[a].life = "RUNNING" /\ att'[a] = Stopped(att[a], 1)
  BY <1>1, <1>5, StoppedRow DEF RowMoves, Accounted
<1>6. CASE att[a].life = "RUNNING" /\ att'[a] = cancelled
  BY <1>1, <1>3, <1>6 DEF RowMoves, Accounted
<1>7. CASE att'[a] = att[a]
  BY <1>1, <1>7 DEF RowMoves, Accounted
<1> QED
  BY <1>2, <1>4, <1>5, <1>6, <1>7

LEMMA CancelJobStep == ASSUME Inductive, CancelJob PROVE Inductive'
<1>1. TypeOK /\ UNCHANGED <<os, wk, sup, limits>>
  BY DEF Inductive, CancelJob
<1>2. /\ job'.control = "STOP_REQUESTED" /\ job'.outcome = job.outcome /\ Open
      /\ job'.pending # "none"
      /\ job' \in [control : {"NONE", "STOP_REQUESTED"},
                    pending : {"none", "CANCELLED", "UNKNOWN_OUTCOME"},
                    due : {"none", "now", "grace"}, stop : {0, 1}, blocked : BOOLEAN,
                    outcome : {"none", "CLOSED", "CANCELLED", "UNKNOWN_OUTCOME"}]
  BY <1>1 DEF CancelJob, TypeOK
<1>3. /\ task' = task \/ task'.phase \notin {"READY", "RETRY_PENDING", "DONE"}
      /\ task' \in [phase : {"READY", "DISPATCHED", "RETRY_PENDING", "DONE", "SUPERSEDED",
                             "RECONCILING", "CANCELLED", "UNKNOWN_OUTCOME"},
                     active : Attempts \cup {NoAttempt}]
  BY <1>1 DEF CancelJob, TypeOK
<1>4. att' \in [Attempts -> AttemptRows]
  <2>1. DOMAIN att' = Attempts /\ att' = [a \in Attempts |-> att'[a]]
    BY DEF CancelJob
  <2> QED
    BY <2>1, CancelJobRows
<1>5. TypeOK'
  BY <1>1, <1>2, <1>3, <1>4 DEF TypeOK
<1>6. \A a \in Attempts : Local(a)'
  BY <1>1, CancelJobRows, RowLocal, InductiveParts
<1>7. \A a \in Attempts : Accounted(a) => Accounted(a)'
  BY CancelJobRows
<1>8. AtMostOne' /\ GrantsAreSafe'
  BY <1>2, <1>3, <1>7 DEF Inductive, AtMostOne, GrantsAreSafe
<1>9. VerdictPending' /\ Climbing'
  BY <1>1, <1>2 DEF Inductive, VerdictPending, Climbing
<1> QED
  BY <1>5, <1>6, <1>8, <1>9 DEF Inductive, Local, ProofIsTrue

\* A settled attempt that nothing makes uncertain is accounted for.
LEMMA SettledIsAccounted ==
  ASSUME NEW a \in Attempts, Local(a), Settlement(a) = "settled", ~Uncertain(a)
  PROVE  Accounted(a)
  BY DEF Settlement, Uncertain, Accounted, Unproven, Unconfirmed, Local, RowAgrees

\* The barrier gives a verdict other than unknown where all attempts are accounted for.
LEMMA ReduceStep == ASSUME Inductive, Reduce PROVE Inductive'
<1> DEFINE uncertain == job.pending = "UNKNOWN_OUTCOME" \/ \E a \in Attempts : Uncertain(a)
           verdict == IF uncertain THEN "UNKNOWN_OUTCOME" ELSE job.pending
<1>1. /\ TypeOK /\ UNCHANGED <<att, os, wk, sup, limits>> /\ Open
      /\ job.control = "STOP_REQUESTED" /\ job.pending \in {"CANCELLED", "UNKNOWN_OUTCOME"}
  BY DEF Inductive, Reduce, VerdictPending, TypeOK
<1>2. \A a \in Attempts : Local(a)'
  BY <1>1, InductiveParts, LocalFrame
<1>3. AtMostOne' /\ Climbing'
  BY <1>1 DEF Inductive, AtMostOne, Climbing, Accounted
<1>4. CASE job' = [job EXCEPT !.blocked = TRUE] /\ UNCHANGED task
  <2>1. TypeOK' /\ job'.outcome = job.outcome /\ job'.pending = job.pending
    BY <1>1, <1>4 DEF TypeOK
  <2>2. GrantsAreSafe' /\ VerdictPending'
    BY <1>1, <1>4, <2>1 DEF Inductive, GrantsAreSafe, VerdictPending, Accounted
  <2> QED
    BY <1>2, <1>3, <2>1, <2>2 DEF Inductive, Local, ProofIsTrue
<1>5. CASE /\ \A a \in Attempts : Settlement(a) = "settled"
           /\ job' = [job EXCEPT !.outcome = verdict, !.pending = "none"]
           /\ task' = IF TaskTerminal THEN task ELSE [phase |-> verdict, active |-> NoAttempt]
  <2>1. verdict \in {"CANCELLED", "UNKNOWN_OUTCOME"}
    BY <1>1
  <2>2. verdict = "CANCELLED" => \A a \in Attempts : ~Uncertain(a)
    OBVIOUS
  <2> HIDE DEF verdict, uncertain
  <2>3. TypeOK' /\ job'.outcome = verdict /\ ~Open'
    BY <1>1, <1>5, <2>1 DEF TypeOK, Open
  <2>4. task' = task \/ task'.phase = verdict
    BY <1>5
  <2>5. verdict = "CANCELLED" => \A a \in Attempts : Accounted(a)
    BY <1>5, <2>2, SettledIsAccounted, InductiveParts
  <2>6. \A a \in Attempts : Accounted(a)' <=> Accounted(a)
    BY <1>1 DEF Accounted
  <2>7. GrantsAreSafe' /\ VerdictPending'
    BY <2>1, <2>3, <2>4, <2>5, <2>6 DEF Inductive, GrantsAreSafe, VerdictPending
  <2> QED
    BY <1>2, <1>3, <2>3, <2>7 DEF Inductive, Local, ProofIsTrue
<1> QED
  BY <1>4, <1>5 DEF Reduce

\* A reboot ends every process and starts none.
LEMMA RebootStep == ASSUME Inductive, Reboot PROVE Inductive'
<1> DEFINE ended == [NoProcess EXCEPT !.wrapper = "gone", !.place = "elsewhere"]
<1>1. TypeOK /\ UNCHANGED <<job, task, att>> /\ sup' = Idle
      /\ limits' \in [attempts : 1 .. MaxAttempts, faults : Nat]
  BY DEF Inductive, Reboot, store, TypeOK
<1>2. /\ ended \in ProcessRows /\ ended.wrapper = "gone" /\ ~ended.ordered /\ ~ended.result
      /\ ended.target = "none" /\ ended.kid = "none"
  BY DEF NoProcess, ProcessRows
<1>3. \A a \in Attempts :
        /\ os'[a] = IF os[a].wrapper = "none" THEN os[a] ELSE ended
        /\ wk'[a] = IF wk[a] = "none" THEN "none" ELSE "gone"
  BY DEF Reboot
<1> HIDE DEF ended
<1>4. ASSUME NEW a \in Attempts PROVE Local(a)' /\ os'[a] \in ProcessRows
  <2>1. Local(a) /\ os[a] \in ProcessRows /\ (os[a].wrapper = "none" => os[a] = NoProcess)
    BY <1>1, InductiveParts, TypeParts DEF Local, ProcessAgrees
  <2>2. Quieter(os[a], os'[a])
    BY <1>2, <1>3, <2>1 DEF Quieter, Begun, Living, NoProcess
  <2>3. wk'[a] \in {"none", "gone"} /\ (wk'[a] = "none" => wk[a] = "none")
    BY <1>3
  <2>4. WorkerAgrees(a)'
    BY <1>1, <2>1, <2>2, <2>3 DEF Local, WorkerAgrees, Quieter, Rungs
  <2>5. wk'[a] = wk[a] \/ att[a].life # "ABSENT"
    BY <1>3, WorkerHasAttempt
  <2>6. att'[a] = att[a]
    BY <1>1
  <2> QED
    BY <1>1, <2>1, <2>2, <2>4, <2>5, <2>6, QuietLocal DEF Quieter
<1>5. os' \in [Attempts -> ProcessRows] /\ wk' \in [Attempts -> WorkerSteps]
  <2>1. /\ os' = [a \in Attempts |-> os'[a]]
        /\ wk' = [a \in Attempts |-> wk'[a]]
    BY DEF Reboot
  <2>2. \A a \in Attempts : wk'[a] \in WorkerSteps
    BY <1>3 DEF WorkerSteps
  <2> QED
    BY <1>4, <2>1, <2>2
<1>6. TypeOK'
  BY <1>1, <1>5 DEF TypeOK, Idle
<1>7. AtMostOne' /\ GrantsAreSafe' /\ VerdictPending' /\ Climbing'
  BY <1>1 DEF Inductive, AtMostOne, GrantsAreSafe, Accounted, VerdictPending, Open, Climbing
<1> QED
  BY <1>4, <1>6, <1>7 DEF Inductive, Local, ProofIsTrue

LEMMA StutterStep == ASSUME Inductive, UNCHANGED vars PROVE Inductive'
<1>1. UNCHANGED <<job, task, att, os, wk, sup, limits>>
  BY DEF vars
<1>2. TypeOK'
  BY <1>1 DEF Inductive, TypeOK
<1>3. \A a \in Attempts : Local(a)'
  BY <1>1, InductiveParts, LocalFrame
<1>4. AtMostOne' /\ GrantsAreSafe' /\ VerdictPending' /\ Climbing'
  BY <1>1 DEF Inductive, AtMostOne, GrantsAreSafe, Accounted, VerdictPending, Open, Climbing
<1> QED
  BY <1>2, <1>3, <1>4 DEF Inductive, Local, ProofIsTrue

-----------------------------------------------------------------------------
(* The theorems.                                                            *)

\* A step of the worker of one attempt.
LEMMA WorkerStep == ASSUME Inductive, NEW a \in Attempts, Worker(a) PROVE Inductive'
  BY PrepareStep, RegisterStep, ReleaseStep, SendStartStep, GiveUpStep, EnsureStopStep,
     WorkerClimbsStep, FinalizeStep, AwaitTreeStep, SubmitAnswerStep, CleanupStep
     DEF Worker

\* A step of the reconciler's supervision.
LEMMA SupervisorStep == ASSUME Inductive, Supervisor PROVE Inductive'
  BY SupervisorClimbsStep, FindStopStep, FindLostOwnerStep, FindEmptyTreeStep DEF Supervisor

\* Worker, supervisor, kernel, timers, reaper, cancel, barrier and reboot together.
LEMMA NextInductive == ASSUME Inductive, [Next]_vars PROVE Inductive'
<1>1. ASSUME NEW a \in Attempts,
             Dispatch(a) \/ Worker(a) \/ WorkerDies(a) \/ Processes(a) \/ LeaseEnds(a)
               \/ GraceEnds(a) \/ GraceFires(a) \/ Reap(a)
      PROVE  Inductive'
  BY <1>1, DispatchStep, WorkerStep, WorkerDiesStep, ProcessesStep, LeaseEndsStep,
     GraceEndsStep, GraceFiresStep, ReapStep
<1>2. CASE Supervisor \/ CloseJob \/ CancelJob \/ Reduce \/ Reboot
  BY <1>2, SupervisorStep, CloseJobStep, CancelJobStep, ReduceStep, RebootStep
<1>3. CASE UNCHANGED vars
  BY <1>3, StutterStep
<1> QED
  BY <1>1, <1>2, <1>3 DEF Next

\* Row, worker, processes and grants agree in every reachable state: the invariant the
\* other theorems follow from.
THEOREM InductiveHolds == Spec => []Inductive
<1>1. Init => Inductive
  BY InitInductive
<1>2. Inductive /\ [Next]_vars => Inductive'
  BY NextInductive
<1> QED
  BY <1>1, <1>2, PTL DEF Spec

\* Every row, process, worker and rung keeps the shape the code gives it.
THEOREM TypeCorrect == Spec => []TypeOK
<1>1. Inductive => TypeOK
  BY DEF Inductive
<1> QED
  BY <1>1, InductiveHolds, PTL

\* No stop receipt and no exit receipt the store accepts (recordAttemptStopReceipt,
\* recordAttemptProcessExitReceipt, submitAttemptResult) is ever false: nothing of the
\* tree of a registered process runs once its termination is confirmed, and nothing
\* of it comes back.  The tree is the one of a trusted, non-daemonizing workload
\* (process-supervisor.ts:10): a child leaves the group, if at all, with its tokens.
THEOREM ProofsAreTrue == Spec => []ProofIsTrue
<1>1. Inductive => ProofIsTrue
  BY DEF Inductive
<1> QED
  BY <1>1, InductiveHolds, PTL

\* No program runs before its owner is registered (startAttemptOperation) and its
\* release committed (authorizeAttemptProcessRelease).
THEOREM StartIsAuthorized == Spec => []ReleasedFirst
<1>1. Inductive => ReleasedFirst
  BY WorkloadIsOwned, InductiveParts DEF ReleasedFirst
<1> QED
  BY <1>1, InductiveHolds, PTL

\* What runs is not accounted for.
LEMMA WorkloadIsUnaccounted ==
  ASSUME Inductive, NEW a \in Attempts, Workload(a)
  PROVE  ~Accounted(a)
  BY WorkloadIsOwned, InductiveParts DEF Accounted

\* A retry is dispatched only when the process of the attempt it replaces is proved
\* gone, so the workloads of two attempts never run at once.
THEOREM RetriesDoNotOverlap == Spec => []NoOverlap
<1>1. Inductive => NoOverlap
  BY WorkloadIsUnaccounted DEF NoOverlap, Inductive, AtMostOne
<1> QED
  BY <1>1, InductiveHolds, PTL

\* A job the lane closes, or the terminal barrier cancels, leaves no program behind;
\* only the verdict UNKNOWN_OUTCOME may.
THEOREM EndsAreClean == Spec => []EndedMeansDead
<1>1. Inductive => EndedMeansDead
  BY WorkloadIsUnaccounted DEF EndedMeansDead, Inductive, GrantsAreSafe
<1> QED
  BY <1>1, InductiveHolds, PTL
=============================================================================
