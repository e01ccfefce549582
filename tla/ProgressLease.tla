--------------------------- MODULE ProgressLease ---------------------------
(***************************************************************************)
(* Earned deadlines: an attempt under a progressive policy starts with a   *)
(* short window and earns more of it, milestone by milestone, from the     *)
(* store.  The store owns the instants (recordAttemptProgressAndExtend);   *)
(* the worker's process keeps two watchdogs of its own, the gateway's      *)
(* abort (runBoundedModelCall) and the harness's hard cap, which follow    *)
(* the store's replies.  Reports are in flight while time passes, and      *)
(* replies arrive late, in any order, or never.  The harness's cap has a   *)
(* second writer, which asks no store: a reflector that deepens the run    *)
(* gives it the cap of the deeper profile (upgradeRunDepth).               *)
(*                                                                         *)
(* Time is a number here: a tick is any unit, and store and worker read    *)
(* the same clock (one host).  The attempt's life is what deadlines need:  *)
(* AttemptAuthority models the rest, and proves that a RUNNING attempt of  *)
(* an unpaused job is under the job's current generations, so they are not *)
(* repeated.  The job is never stopped, and the harness runs under liveness *)
(* (FEATURE_ORCHESTRATION_V2_LIVENESS).                                    *)
(***************************************************************************)
EXTENDS Integers, FiniteSets

CONSTANTS
  InitialWindow,   \* policy.initialWindowMs
  Extension,       \* policy.extensionMs
  Lead,            \* policy.extensionLeadMs
  MaxCap,          \* policy.maxCapMs, the attempt cap
  MaxExtensions,   \* policy.maxExtensions
  FinalizeReserve, \* reserveForFinalizeMs
  CommitReserve,   \* resultCommitReserveMs
  LeaseTtl,        \* leaseTtlMs of claim, heartbeat and progress
  Grace,           \* PROGRESS_REPORT_RESPONSE_GRACE_MS
  HarnessReserve,  \* the harness's own reserve inside the gateway window
  MinHarness,      \* MIN_HARNESS_TIMEOUT_MS
  IdleFloor,       \* the caller's idle floor for the harness's liveness
  IdleTimeouts,    \* idleTimeoutMs of each depth profile
  HardCaps,        \* hardCapMs of each depth profile
  Prints,          \* content fingerprints of milestones
  MaxAttempts,     \* opts.maxAttempts of the reaper
  MaxReports,      \* bound: reports of one model call in flight
  MaxPauses,       \* bound: pause commands
  Classified,      \* bound: depths a run may be classified as when it starts
  LastDispatch     \* bound: the last instant at which an attempt is minted

\* isProgressiveAttemptPolicy, and dispatchAttempt's check of the reserves.
ASSUME PolicyAssumption ==
  /\ {InitialWindow, Extension, Lead, MaxCap, LeaseTtl} \subseteq Nat \ {0}
  /\ {MaxExtensions, FinalizeReserve, CommitReserve, Grace} \subseteq Nat
  /\ Lead >= Extension
  /\ MaxCap >= InitialWindow
  /\ InitialWindow + Extension * MaxExtensions >= MaxCap
  /\ FinalizeReserve + CommitReserve < InitialWindow

\* DepthLevel, and the level a triggered reflector takes a run to
\* (applySignalSideEffects); a deep or critical run stays where it is.
Depths == {"fast", "standard", "deep", "critical"}
Deeper == [fast |-> "standard", standard |-> "deep"]
Deepened == {"standard", "deep"}

ASSUME HarnessAssumption ==
  /\ {HarnessReserve, MinHarness, IdleFloor} \subseteq Nat
  /\ IdleTimeouts \in [Depths -> Nat]
  /\ HardCaps \in [Depths -> Nat]
ASSUME BoundsAssumption ==
  /\ MaxAttempts \in Nat \ {0}
  /\ {MaxReports, MaxPauses, LastDispatch} \subseteq Nat
  /\ Classified \subseteq Depths

Attempts == 1 .. MaxAttempts
NoAttempt == 0
LastInstant == LastDispatch + MaxCap

VARIABLES
  now,     \* the clock of the host
  job,     \* control state and number of pauses
  task,    \* phase, binding and durableProgressFingerprints
  att,     \* the attempt documents
  gw,      \* the worker's model call of each attempt and its two watchdogs
  reports  \* milestone reports on their way to the store, or replies on theirs back

vars == <<now, job, task, att, gw, reports>>

Absent ==
  [lifecycle |-> "ABSENT", since |-> 0, cutoff |-> 0, work |-> 0, hard |-> 0, lease |-> 0,
   count |-> 0, prints |-> {}, marked |-> FALSE, captured |-> FALSE]
NoCall ==
  [state |-> "none", earned |-> 0, work |-> 0, innerWork |-> 0, inner |-> 0, maxInner |-> 0,
   started |-> 0, depth |-> "fast", idle |-> 0]

\* A reply that never had the attempt carries no deadlines (progressDecision(null)).
NoReply == [reason |-> "none", cutoff |-> 0, work |-> 0]

Init ==
  /\ now = 0
  /\ job = [control |-> "NONE", pauses |-> 0]
  /\ task = [phase |-> "READY", active |-> NoAttempt, earned |-> {}]
  /\ att = [a \in Attempts |-> Absent]
  /\ gw = [a \in Attempts |-> NoCall]
  /\ reports = {}

Lower(x, y) == IF x <= y THEN x ELSE y
Higher(x, y) == IF x >= y THEN x ELSE y

-----------------------------------------------------------------------------
(* The store.                                                              *)

Absolute(a) == att[a].since + MaxCap
LeaseAt(hard) == Lower(now + LeaseTtl, hard)

\* deriveAttemptDeadlines: the inner deadlines of a hard deadline.
Deadlines(hard) ==
  [work |-> hard - FinalizeReserve, cutoff |-> hard - FinalizeReserve - CommitReserve]

\* dispatchAttempt freezes the initial window.
Dispatch(a) ==
  /\ task.phase \in {"READY", "RETRY_PENDING"}
  /\ job.control = "NONE"
  /\ \A b \in Attempts : att[b].lifecycle = "ABSENT" <=> b >= a
  /\ now <= LastDispatch
  /\ att' = [att EXCEPT ![a] =
               [Absent EXCEPT !.lifecycle = "QUEUED", !.since = now,
                              !.cutoff = Deadlines(now + InitialWindow).cutoff,
                              !.work = Deadlines(now + InitialWindow).work,
                              !.hard = now + InitialWindow]]
  /\ task' = [task EXCEPT !.phase = "DISPATCHED"]
  /\ UNCHANGED <<now, job, gw, reports>>

Claim(a) ==
  /\ att[a].lifecycle = "QUEUED"
  /\ job.control = "NONE"
  /\ att[a].cutoff > now
  /\ att' = [att EXCEPT ![a].lifecycle = "LEASED", ![a].lease = LeaseAt(att[a].hard)]
  /\ task' = [task EXCEPT !.active = a]
  /\ UNCHANGED <<now, job, gw, reports>>

\* The harness's cap for what is left of a window: never below its minimum or its
\* idle timeout.
ShortestCall(idle) == Higher(MinHarness, idle)
HarnessCap(idle, deadline) == now + Higher(ShortestCall(idle), deadline - now - HarnessReserve)

\* The call the worker opens under its snapshot of the deadlines: the gateway timer,
\* and the harness's liveness cap under the profile of the depth it classifies the run as.
OpenedCall(a, depth) ==
  LET idle == Higher(IdleTimeouts[depth], IdleFloor)
      longest == Higher(now + HardCaps[depth],
                        HarnessCap(idle, Deadlines(Absolute(a)).work))
  IN [state |-> "running", earned |-> att[a].cutoff, work |-> att[a].work,
      innerWork |-> att[a].work, maxInner |-> longest, started |-> now,
      inner |-> Lower(longest, HarnessCap(idle, att[a].cutoff)),
      depth |-> depth, idle |-> idle]

\* startAttemptOperation, and the model call.
Start(a) ==
  /\ att[a].lifecycle = "LEASED"
  /\ job.control = "NONE"
  /\ att[a].lease > now
  /\ att[a].cutoff > now
  /\ att' = [att EXCEPT ![a].lifecycle = "RUNNING"]
  /\ \E depth \in Classified : gw' = [gw EXCEPT ![a] = OpenedCall(a, depth)]
  /\ UNCHANGED <<now, job, task, reports>>

Renewable(a) ==
  /\ att[a].lifecycle \in {"LEASED", "RUNNING"}
  /\ att[a].lease > now
  /\ att[a].hard > now

\* A heartbeat of a worker that is alive.
RenewLease(a) ==
  /\ gw[a].state # "gone"
  /\ Renewable(a)
  /\ att' = [att EXCEPT ![a].lease = LeaseAt(att[a].hard)]
  /\ UNCHANGED <<now, job, task, gw, reports>>

\* Mutant: a milestone may still revive a window whose cutoff has passed.
EarningPastTheCutoff(a) ==
  /\ att[a].lifecycle = "RUNNING"
  /\ ~att[a].marked
  /\ att[a].lease > now
  /\ att[a].hard > now
  /\ task.phase = "DISPATCHED"
  /\ task.active = a

\* Owner, fence, marker and all three store-time guards of progress.
StillEarning(a) ==
  /\ att[a].lifecycle = "RUNNING"
  /\ ~att[a].marked
  /\ att[a].lease > now
  /\ att[a].cutoff > now
  /\ att[a].hard > now
  /\ task.phase = "DISPATCHED"
  /\ task.active = a

\* Mutants: the fingerprints of earlier attempts, or the lead, are not looked at.
SeenByAttempt(a, f) == f \in att[a].prints
AnyTime(a) == FALSE

SeenBefore(a, f) == f \in att[a].prints \cup task.earned
TooEarly(a) == att[a].cutoff - now > Lead

\* The order of the early returns of recordAttemptProgressAndExtend.
Decision(a, f) ==
  IF ~StillEarning(a) THEN "stale"
  ELSE IF job.control = "PAUSE_REQUESTED" /\ att[a].captured THEN "control_frozen"
  ELSE IF job.control # "NONE" THEN "stale"
  ELSE IF SeenBefore(a, f) THEN "duplicate"
  ELSE IF att[a].count >= MaxExtensions THEN "extension_limit"
  ELSE IF att[a].hard >= Absolute(a) THEN "absolute_cap"
  ELSE IF TooEarly(a) THEN "too_early"
  ELSE "accepted"

\* Mutant: every deadline moves by the full extension, the cap clips one of them.
ExtendedUnevenly(a, f) ==
  [att[a] EXCEPT !.hard = Lower(@ + Extension, Absolute(a)),
                 !.work = @ + Extension, !.cutoff = @ + Extension,
                 !.lease = Higher(@, LeaseAt(Lower(att[a].hard + Extension, Absolute(a)))),
                 !.count = @ + 1, !.prints = @ \cup {f}]

\* Mutant: an extension is counted from now, not from the deadline it extends.
ExtendedFromNow(a, f) ==
  LET hard == Lower(Higher(att[a].hard, now + Extension), Absolute(a))
      delta == hard - att[a].hard
  IN [att[a] EXCEPT !.hard = hard, !.work = @ + delta, !.cutoff = @ + delta,
                    !.lease = Higher(@, LeaseAt(hard)),
                    !.count = @ + 1, !.prints = @ \cup {f}]

\* All three deadlines move by what the absolute cap leaves of one extension.
Extended(a, f) ==
  LET hard == Lower(att[a].hard + Extension, Absolute(a))
      delta == hard - att[a].hard
  IN [att[a] EXCEPT !.hard = hard, !.work = @ + delta, !.cutoff = @ + delta,
                    !.lease = Higher(@, LeaseAt(hard)),
                    !.count = @ + 1, !.prints = @ \cup {f}]

\* One transaction of the store decides one report.
RecordProgress(r) ==
  LET a == r.att
      reason == Decision(a, r.print)
  IN /\ r.reply = NoReply
     /\ att' = IF reason = "accepted" THEN [att EXCEPT ![a] = Extended(a, r.print)] ELSE att
     /\ task' = IF reason = "accepted" THEN [task EXCEPT !.earned = @ \cup {r.print}] ELSE task
     /\ reports' = (reports \ {r}) \cup
          {[r EXCEPT !.reply = [reason |-> reason,
                                cutoff |-> IF reason = "stale" THEN 0 ELSE att'[a].cutoff,
                                work |-> IF reason = "stale" THEN 0 ELSE att'[a].work]]}
     /\ UNCHANGED <<now, job, gw>>

-----------------------------------------------------------------------------
(* The worker's process: the gateway around the model call and the harness. *)

\* setRunLivenessHardCapAt: the harness's cap only moves forward, and not once passed.
RaiseInner(call, deadline) ==
  IF now >= call.inner THEN call
  ELSE [call EXCEPT !.inner = Higher(@, Lower(call.maxInner, deadline))]

\* upgradeRunDeadline: cap, ceiling and idle timeout of the deeper profile, counted from
\* the call's start.  Neither the attempt's deadlines nor a passed cap are looked at.
Upgraded(call, depth) ==
  LET cap == call.started + HardCaps[depth] IN
  [call EXCEPT !.inner = Higher(@, cap), !.maxInner = Higher(@, cap),
               !.idle = Higher(@, IdleTimeouts[depth]), !.depth = depth]

\* upgradeRunDepth: the reflector of the run, between two steps of the model, takes it
\* one level deeper.
UpgradeRunDepth(a) ==
  /\ gw[a].state = "running"
  /\ gw[a].depth \in DOMAIN Deeper
  /\ gw' = [gw EXCEPT ![a] = Upgraded(@, Deeper[gw[a].depth])]
  /\ UNCHANGED <<now, job, task, att, reports>>

InFlight(a) == {r \in reports : r.att = a}

\* The model stored a document: the harness lends itself the A window, and the
\* gateway refuses locally once its own deadline passed.
Report(a, f) ==
  /\ gw[a].state = "running"
  /\ Cardinality(InFlight(a)) < MaxReports
  /\ gw' = [gw EXCEPT ![a] = RaiseInner(@, gw[a].innerWork)]
  /\ reports' = IF now < gw[a].earned
                THEN reports \cup {[att |-> a, print |-> f, reply |-> NoReply]}
                ELSE reports
  /\ UNCHANGED <<now, job, task, att>>

\* A live reply, accepted or not, re-arms both watchdogs; `max` keeps an older one
\* from moving them back.
Heard(call, reply) ==
  RaiseInner([call EXCEPT !.earned = Higher(@, reply.cutoff), !.work = Higher(@, reply.work),
                          !.innerWork = Higher(@, reply.work)],
             reply.cutoff - HarnessReserve)

ReplyArrives(r) ==
  LET a == r.att IN
  /\ r.reply # NoReply
  /\ reports' = reports \ {r}
  /\ gw' = IF gw[a].state # "running" THEN gw
           ELSE IF r.reply.reason = "stale" THEN [gw EXCEPT ![a].state = "cancelled"]
           ELSE [gw EXCEPT ![a] = Heard(@, r.reply)]
  /\ UNCHANGED <<now, job, task, att>>

\* The report never reached the store, or its reply was lost.
ReplyLost(r) ==
  /\ reports' = reports \ {r}
  /\ UNCHANGED <<now, job, task, att, gw>>

\* Mutants: a report in flight holds the timer back without a limit of its own,
\* or keeps the timer off.
TimerDeadlineByWork(a) == IF InFlight(a) # {} THEN gw[a].work + Grace ELSE gw[a].earned
TimerDeadlineOff(a) == IF InFlight(a) # {} THEN LastInstant + 1 ELSE gw[a].earned

TimerDeadline(a) ==
  IF InFlight(a) # {} THEN Lower(gw[a].work, gw[a].earned + Grace) ELSE gw[a].earned

DeadlineFires(a) ==
  /\ gw[a].state = "running"
  /\ now >= TimerDeadline(a)
  /\ gw' = [gw EXCEPT ![a].state = "timed_out"]
  /\ UNCHANGED <<now, job, task, att, reports>>

\* HARNESS_LIVENESS_HARD_CAP, or _IDLE_TIMEOUT when the model has been silent: the
\* gateway maps both to a deadline.
HarnessCuts(a) ==
  /\ gw[a].state = "running"
  /\ now >= gw[a].inner \/ now >= gw[a].started + gw[a].idle
  /\ gw' = [gw EXCEPT ![a].state = "timed_out"]
  /\ UNCHANGED <<now, job, task, att, reports>>

WorkReturns(a) ==
  /\ gw[a].state = "running"
  /\ gw' = [gw EXCEPT ![a].state = "ok"]
  /\ UNCHANGED <<now, job, task, att, reports>>

\* The worker dies, or gives up after a refused heartbeat, marker or A.
WorkerGone(a) ==
  /\ gw[a].state \notin {"none", "gone"}
  /\ gw' = [gw EXCEPT ![a].state = "gone"]
  /\ UNCHANGED <<now, job, task, att, reports>>

MarkPayloadReady(a) ==
  /\ gw[a].state = "ok"
  /\ att[a].lifecycle = "RUNNING"
  /\ ~att[a].marked
  /\ job.control = "NONE"
  /\ att[a].lease > now
  /\ att[a].cutoff > now
  /\ att' = [att EXCEPT ![a].marked = TRUE]
  /\ UNCHANGED <<now, job, task, gw, reports>>

PhaseOf == [ok |-> "SUCCEEDED", timed_out |-> "TIMED_OUT", cancelled |-> "CANCELLED"]

\* A: `timed_out` and `cancelled` need no marker.
SubmitResult(a) ==
  /\ gw[a].state \in {"ok", "timed_out", "cancelled"}
  /\ att[a].lifecycle = "RUNNING"
  /\ gw[a].state = "ok" => att[a].marked
  /\ job.control = "PAUSE_REQUESTED" => att[a].captured
  /\ att[a].lease > now
  /\ att[a].work > now
  /\ att' = [att EXCEPT ![a].lifecycle = "FINISHED"]
  /\ task' = [task EXCEPT !.phase = PhaseOf[gw[a].state], !.active = NoAttempt]
  /\ gw' = [gw EXCEPT ![a].state = "gone"]
  /\ UNCHANGED <<now, job, reports>>

-----------------------------------------------------------------------------
(* The reconciler, the owner and the clock.                                *)

\* expireQueuedAttempts.
ExpireQueued(a) ==
  /\ att[a].lifecycle = "QUEUED"
  /\ att[a].cutoff <= now
  /\ att' = [att EXCEPT ![a].lifecycle = "FINISHED"]
  /\ task' = [task EXCEPT !.phase = "FAILED"]
  /\ UNCHANGED <<now, job, gw, reports>>

Lapsed(a) == att[a].lifecycle \in {"LEASED", "RUNNING"} /\ att[a].lease <= now

\* reapExpiredLeases: the worker is lost; the next attempt, if the budget allows
\* one, inherits the task's fingerprints.
ReapLostWorker(a) ==
  /\ Lapsed(a)
  /\ att' = [att EXCEPT ![a].lifecycle = "FINISHED"]
  /\ task' = [task EXCEPT !.phase = IF a < MaxAttempts THEN "RETRY_PENDING" ELSE "FAILED",
                          !.active = NoAttempt]
  /\ UNCHANGED <<now, job, gw, reports>>

PreStart == {a \in Attempts : att[a].lifecycle \in {"QUEUED", "LEASED"}}
Capturable(a) ==
  /\ att[a].lifecycle = "RUNNING"
  /\ att[a].lease > now
  /\ att[a].hard > now
  /\ att[a].cutoff > now \/ att[a].marked

\* applyControl: admissions are recalled, work that can still finish is captured.
Pause ==
  /\ job.pauses < MaxPauses
  /\ job.control = "NONE"
  /\ job' = [job EXCEPT !.control = "PAUSE_REQUESTED", !.pauses = @ + 1]
  /\ att' = [a \in Attempts |->
               IF a \in PreStart THEN [att[a] EXCEPT !.lifecycle = "FINISHED"]
               ELSE [att[a] EXCEPT !.captured = @ \/ Capturable(a)]]
  /\ task' = IF PreStart = {} THEN task
             ELSE [task EXCEPT !.active = NoAttempt,
                     !.phase = IF \E a \in PreStart : att[a].cutoff > now THEN "READY"
                               ELSE "FAILED"]
  /\ UNCHANGED <<now, gw, reports>>

Resume ==
  /\ job.control = "PAUSE_REQUESTED"
  /\ \A a \in Attempts : att[a].lifecycle # "RUNNING"
  /\ job' = [job EXCEPT !.control = "NONE"]
  /\ UNCHANGED <<now, task, att, gw, reports>>

Tick ==
  /\ now < LastInstant
  /\ now' = now + 1
  /\ UNCHANGED <<job, task, att, gw, reports>>

Next ==
  \/ \E a \in Attempts :
       \/ Dispatch(a) \/ Claim(a) \/ Start(a) \/ RenewLease(a)
       \/ \E f \in Prints : Report(a, f)
       \/ UpgradeRunDepth(a)
       \/ DeadlineFires(a) \/ HarnessCuts(a) \/ WorkReturns(a) \/ WorkerGone(a)
       \/ MarkPayloadReady(a) \/ SubmitResult(a)
       \/ ExpireQueued(a) \/ ReapLostWorker(a)
  \/ \E r \in reports : RecordProgress(r) \/ ReplyArrives(r) \/ ReplyLost(r)
  \/ Pause \/ Resume \/ Tick

Spec == Init /\ [][Next]_vars

\* Time passes, timers fire and the reconciler ticks.  Workers, models, replies
\* and owners owe nothing.
Fairness ==
  /\ WF_vars(Tick)
  /\ \A a \in Attempts : /\ WF_vars(DeadlineFires(a))
                         /\ WF_vars(ExpireQueued(a)) /\ WF_vars(ReapLostWorker(a))
FairSpec == Spec /\ Fairness

-----------------------------------------------------------------------------
(* Properties.                                                             *)

Reasons ==
  {"none", "stale", "control_frozen", "duplicate", "extension_limit", "absolute_cap",
   "too_early", "accepted"}
AttemptDocs ==
  [lifecycle : {"ABSENT", "QUEUED", "LEASED", "RUNNING", "FINISHED"}, since : Nat,
   cutoff : Int, work : Int, hard : Int, lease : Int, count : Nat, prints : SUBSET Prints,
   marked : BOOLEAN, captured : BOOLEAN]
Calls ==
  [state : {"none", "running", "ok", "timed_out", "cancelled", "gone"}, earned : Int,
   work : Int, innerWork : Int, inner : Int, maxInner : Int, started : Nat,
   depth : Depths, idle : Nat]
Replies == [reason : Reasons, cutoff : Int, work : Int]

\* Every document, call and message holds values of its type.
TypeOK ==
  /\ now \in Nat
  /\ job \in [control : {"NONE", "PAUSE_REQUESTED"}, pauses : Nat]
  /\ task \in [phase : {"READY", "DISPATCHED", "RETRY_PENDING", "SUCCEEDED", "TIMED_OUT",
                        "CANCELLED", "FAILED"},
               active : Attempts \cup {NoAttempt}, earned : SUBSET Prints]
  /\ att \in [Attempts -> AttemptDocs]
  /\ gw \in [Attempts -> Calls]
  /\ reports \subseteq [att : Attempts, print : Prints, reply : Replies]

Minted(a) == att[a].lifecycle # "ABSENT"

\* However many milestones are accepted and wherever the absolute cap clips the
\* last one: the A and cleanup reserves keep their length, no deadline leaves the
\* absolute cap and no lease outlives its attempt's hard deadline.
ReservesSurvive ==
  \A a \in Attempts : Minted(a) =>
    /\ att[a].hard - att[a].work = FinalizeReserve
    /\ att[a].work - att[a].cutoff = CommitReserve
    /\ att[a].hard <= Absolute(a)
    /\ att[a].lease <= att[a].hard

\* The window is exactly what the milestones earned, up to the cap, and the
\* policy's extensions always suffice to earn the whole of it.
WindowIsEarned ==
  \A a \in Attempts : Minted(a) =>
    /\ att[a].count <= MaxExtensions
    /\ att[a].hard = Lower(Absolute(a), att[a].since + InitialWindow + att[a].count * Extension)

\* The same document state never buys time twice for the task: not in a duplicate
\* report, not after a lost reply, not in a later attempt.
PrintsEarnOnce ==
  /\ \A a \in Attempts : att[a].count = Cardinality(att[a].prints)
  /\ \A a, b \in Attempts : a # b => att[a].prints \cap att[b].prints = {}
  /\ task.earned = UNION {att[a].prints : a \in Attempts}

\* Time cannot be stockpiled: beyond its initial window a worker never holds more
\* than one lead and one extension, whatever burst of milestones it reports.
NoStockpile ==
  \A a \in Attempts : att[a].count > 0 => att[a].cutoff - now <= Lead + Extension

\* What the harness's cap may be: inside the attempt's work deadline or the shortest
\* call, unless the reflector deepened the run; then it may also be the hard cap of
\* the profile it was given, however far that lies beyond the attempt.
CapAccounted(call, work) ==
  \/ call.inner <= Higher(work, call.started + ShortestCall(call.idle))
  \/ /\ call.depth \in Deepened
     /\ \E d \in Deepened : call.inner = call.started + HardCaps[d]

\* The gateway never believes in more time than the store gave: with replies late,
\* reordered or lost, and whatever cap a deepened run has, its timer fires inside the
\* attempt.  The harness's cap leaves the attempt by a deeper profile only, never by a
\* reply or by the loan for a report.
WatchdogsTrailTheStore ==
  \A a \in Attempts : gw[a].state = "running" =>
    /\ gw[a].earned <= att[a].cutoff
    /\ gw[a].work <= att[a].work
    /\ TimerDeadline(a) <= att[a].work
    /\ CapAccounted(gw[a], att[a].work)

\* What the proofs need besides: nothing happens to an attempt before it is minted or
\* to its call before it starts,
\* and no message in flight, nor the loan of the harness, names more time than the
\* store has given since.
BlankUntilMinted ==
  \A a \in Attempts :
    /\ ~Minted(a) => att[a] = Absent
    /\ att[a].lifecycle \in {"ABSENT", "QUEUED", "LEASED"} => gw[a] = NoCall
PrintsAreFinite == \A a \in Attempts : IsFiniteSet(att[a].prints)
Answered(r) == r.reply # NoReply /\ r.reply.reason # "stale"
MessagesTrailTheStore ==
  /\ \A r \in reports :
       /\ Minted(r.att)
       /\ Answered(r) => /\ r.reply.cutoff <= att[r.att].cutoff
                         /\ r.reply.work <= att[r.att].work
  /\ \A a \in Attempts : gw[a].state = "running" => gw[a].innerWork <= att[a].work

\* The invariant of the proofs: deadlines, prints, watchdogs and messages together
\* are preserved by every step.
Inductive ==
  /\ TypeOK
  /\ BlankUntilMinted
  /\ ReservesSurvive
  /\ WindowIsEarned
  /\ PrintsAreFinite
  /\ PrintsEarnOnce
  /\ NoStockpile
  /\ WatchdogsTrailTheStore
  /\ MessagesTrailTheStore

\* A deadline that passed stays passed, and a pause freezes earned time: an
\* attempt only gains time while it still may do business work.
NoResurrection ==
  [][\A a \in Attempts :
       Minted(a) /\ (att[a].cutoff <= now \/ att[a].marked \/ job.control # "NONE") =>
         UNCHANGED <<att[a].cutoff, att[a].work, att[a].hard>>]_vars

\* A reply that arrives after a newer one never moves a watchdog back, and neither does
\* a deeper profile with a shorter cap.
WatchdogsOnlyAdvance ==
  [][\A a \in Attempts :
       gw[a].state = "running" /\ gw'[a].state = "running" =>
         gw'[a].earned >= gw[a].earned /\ gw'[a].inner >= gw[a].inner]_vars

\* The cap holds against a worker that renews and reports for ever: every attempt
\* that is minted ends, and so does every model call.
AttemptsEnd ==
  \A a \in Attempts :
    /\ Minted(a) ~> att[a].lifecycle = "FINISHED"
    /\ gw[a].state = "running" ~> gw[a].state # "running"
=============================================================================
