------------------------ MODULE ProgressLease_proofs ------------------------
(***************************************************************************)
(* Theorems about ProgressLease for every policy that dispatchAttempt      *)
(* admits and for every number of attempts, milestones, reports and pauses.*)
(***************************************************************************)
EXTENDS ProgressLease, FiniteSetTheorems, TLAPS

\* The policy, the harness's windows and the bounds, one by one.
LEMMA Policy ==
  /\ InitialWindow \in Nat /\ Extension \in Nat /\ Lead \in Nat /\ MaxCap \in Nat
  /\ LeaseTtl \in Nat /\ MaxExtensions \in Nat /\ FinalizeReserve \in Nat
  /\ CommitReserve \in Nat /\ Grace \in Nat /\ HarnessReserve \in Nat /\ MinHarness \in Nat
  /\ IdleFloor \in Nat /\ MaxAttempts \in Nat /\ MaxAttempts >= 1
  /\ MaxReports \in Nat /\ MaxPauses \in Nat /\ LastDispatch \in Nat
  /\ InitialWindow > 0 /\ Extension > 0 /\ MaxCap >= InitialWindow
  BY PolicyAssumption, HarnessAssumption, BoundsAssumption

\* The profile of every depth, and where the reflector takes a run.
LEMMA Profiles ==
  /\ \A d \in Depths : IdleTimeouts[d] \in Nat /\ HardCaps[d] \in Nat
  /\ Deepened \subseteq Depths /\ Classified \subseteq Depths
  /\ \A d \in DOMAIN Deeper : Deeper[d] \in Deepened
  BY HarnessAssumption, BoundsAssumption DEF Depths, Deeper, Deepened

\* The smaller and the larger of two instants.
LEMMA LowerHigher ==
  ASSUME NEW x \in Int, NEW y \in Int
  PROVE  /\ Lower(x, y) \in Int /\ Lower(x, y) <= x /\ Lower(x, y) <= y
         /\ Lower(x, y) \in {x, y}
         /\ Higher(x, y) \in Int /\ Higher(x, y) >= x /\ Higher(x, y) >= y
         /\ Higher(x, y) \in {x, y}
  BY DEF Lower, Higher

\* The initial state is well typed.
LEMMA InitTyped == Init => TypeOK
  BY Policy DEF Init, TypeOK, Absent, NoCall, Attempts, NoAttempt, AttemptDocs, Calls, Depths

\* Fields that one operation writes keep a document in its type.
LEMMA DocTyped ==
  ASSUME NEW d \in AttemptDocs
  PROVE  /\ \A l \in {"ABSENT", "QUEUED", "LEASED", "RUNNING", "FINISHED"} :
              [d EXCEPT !.lifecycle = l] \in AttemptDocs
         /\ \A l \in {"ABSENT", "QUEUED", "LEASED", "RUNNING", "FINISHED"}, i \in Int :
              [d EXCEPT !.lifecycle = l, !.lease = i] \in AttemptDocs
         /\ \A i \in Int : [d EXCEPT !.lease = i] \in AttemptDocs
         /\ \A b \in BOOLEAN : /\ [d EXCEPT !.marked = b] \in AttemptDocs
                               /\ [d EXCEPT !.captured = b] \in AttemptDocs
  BY DEF AttemptDocs

\* A raised cap, a heard reply or a final state keep a call in its type.
LEMMA CallTyped ==
  ASSUME NEW c \in Calls, NEW s \in {"none", "running", "ok", "timed_out", "cancelled", "gone"},
         NEW d \in Int, now \in Nat
  PROVE  [c EXCEPT !.state = s] \in Calls /\ RaiseInner(c, d) \in Calls
<1>1. c.inner \in Int /\ c.maxInner \in Int
  BY DEF Calls
<1>2. Higher(c.inner, Lower(c.maxInner, d)) \in Int
  BY <1>1, LowerHigher
<1>3. [c EXCEPT !.inner = Higher(@, Lower(c.maxInner, d))] \in Calls
  BY <1>2 DEF Calls
<1> QED
  BY <1>3 DEF RaiseInner, Calls

\* The shortest call and the cap it gives are instants.
LEMMA CapTyped ==
  ASSUME TypeOK, NEW i \in Nat, NEW d \in Int
  PROVE  ShortestCall(i) \in Nat /\ HarnessCap(i, d) \in Int
<1>1. ShortestCall(i) \in Nat
  BY Policy DEF ShortestCall, Higher
<1>2. now \in Nat /\ d - now - HarnessReserve \in Int
  BY Policy DEF TypeOK
<1> DEFINE left == Higher(ShortestCall(i), d - now - HarnessReserve)
<1>3. left \in Int
  BY <1>1, <1>2, LowerHigher
<1>4. HarnessCap(i, d) = now + left
  BY DEF HarnessCap
<1> HIDE DEF left
<1> QED
  BY <1>1, <1>2, <1>3, <1>4

\* The call that a start opens, field by field.
LEMMA OpenedTyped ==
  ASSUME TypeOK, NEW a \in Attempts, NEW depth \in Depths
  PROVE  LET c == OpenedCall(a, depth)
             idle == Higher(IdleTimeouts[depth], IdleFloor)
         IN /\ c \in Calls /\ idle \in Nat
            /\ c.state = "running" /\ c.earned = att[a].cutoff /\ c.work = att[a].work
            /\ c.innerWork = att[a].work /\ c.started = now /\ c.idle = idle
            /\ c.inner <= HarnessCap(idle, att[a].cutoff)
<1> DEFINE idle == Higher(IdleTimeouts[depth], IdleFloor)
           longest == Higher(now + HardCaps[depth],
                             HarnessCap(idle, Deadlines(Absolute(a)).work))
           first == Lower(longest, HarnessCap(idle, att[a].cutoff))
<1>1. /\ att[a].cutoff \in Int /\ att[a].work \in Int /\ att[a].since \in Nat /\ now \in Nat
  BY DEF TypeOK, AttemptDocs
<1>2. idle \in Nat
  BY Profiles, Policy DEF Higher
<1>3. Deadlines(Absolute(a)).work \in Int
  BY <1>1, Policy DEF Deadlines, Absolute
<1>4. /\ HarnessCap(idle, Deadlines(Absolute(a)).work) \in Int
      /\ HarnessCap(idle, att[a].cutoff) \in Int
  <2> HIDE DEF idle
  <2> QED
    BY <1>1, <1>2, <1>3, CapTyped
<1>profile. now + HardCaps[depth] \in Int
  BY <1>1, Profiles
<1>5. longest \in Int
  BY <1>4, <1>profile, LowerHigher
<1>6. first \in Int /\ first <= HarnessCap(idle, att[a].cutoff)
  BY <1>4, <1>5, LowerHigher
<1>7. OpenedCall(a, depth) =
        [state |-> "running", earned |-> att[a].cutoff, work |-> att[a].work,
         innerWork |-> att[a].work, maxInner |-> longest, started |-> now,
         inner |-> first, depth |-> depth, idle |-> idle]
  BY DEF OpenedCall
<1> HIDE DEF idle, longest, first
<1>8. OpenedCall(a, depth) \in Calls
  BY <1>1, <1>2, <1>5, <1>6, <1>7 DEF Calls
<1> QED
  BY <1>2, <1>6, <1>7, <1>8 DEF idle

\* What a deeper profile makes of a call: only cap, ceiling, idle timeout and depth
\* change, and none of them backwards.
LEMMA UpgradedTyped ==
  ASSUME NEW c \in Calls, NEW d \in Depths
  PROVE  LET u == Upgraded(c, d) IN
         /\ u \in Calls /\ u.state = c.state /\ u.earned = c.earned /\ u.work = c.work
         /\ u.innerWork = c.innerWork /\ u.started = c.started /\ u.depth = d
         /\ u.inner \in {c.inner, c.started + HardCaps[d]} /\ u.inner >= c.inner
         /\ u.idle >= c.idle
<1>1. /\ c.inner \in Int /\ c.maxInner \in Int /\ c.started \in Nat /\ c.idle \in Nat
  BY DEF Calls
<1> DEFINE cap == c.started + HardCaps[d]
           i == Higher(c.inner, cap)
           m == Higher(c.maxInner, cap)
           e == Higher(c.idle, IdleTimeouts[d])
<1>2. cap \in Int /\ IdleTimeouts[d] \in Nat
  BY <1>1, Profiles
<1> HIDE DEF cap
<1>3. /\ i \in Int /\ m \in Int /\ i >= c.inner /\ i \in {c.inner, cap}
      /\ e \in Nat /\ e >= c.idle
  BY <1>1, <1>2 DEF Higher
<1>4. Upgraded(c, d) = [c EXCEPT !.inner = i, !.maxInner = m, !.idle = e, !.depth = d]
  BY DEF Upgraded, cap
<1> HIDE DEF i, m, e
<1>5. Upgraded(c, d) \in Calls
  BY <1>3, <1>4 DEF Calls
<1>6. /\ Upgraded(c, d).state = c.state /\ Upgraded(c, d).earned = c.earned
      /\ Upgraded(c, d).work = c.work /\ Upgraded(c, d).innerWork = c.innerWork
      /\ Upgraded(c, d).started = c.started /\ Upgraded(c, d).depth = d
      /\ Upgraded(c, d).inner = i /\ Upgraded(c, d).idle = e
  BY <1>4 DEF Calls
<1> QED
  BY <1>3, <1>5, <1>6 DEF cap

\* What one accepted milestone makes of a document.
LEMMA ExtendedTyped ==
  ASSUME TypeOK, NEW a \in Attempts, NEW f \in Prints
  PROVE  /\ Extended(a, f) \in AttemptDocs
         /\ LET g == Lower(att[a].hard + Extension, Absolute(a)) IN
            /\ g \in Int
            /\ Extended(a, f).hard = g
            /\ Extended(a, f).work = att[a].work + (g - att[a].hard)
            /\ Extended(a, f).cutoff = att[a].cutoff + (g - att[a].hard)
            /\ Extended(a, f).lease = Higher(att[a].lease, LeaseAt(g))
            /\ Extended(a, f).count = att[a].count + 1
            /\ Extended(a, f).prints = att[a].prints \cup {f}
            /\ Extended(a, f).since = att[a].since
            /\ Extended(a, f).lifecycle = att[a].lifecycle
<1> DEFINE g == Lower(att[a].hard + Extension, Absolute(a))
           l == Higher(att[a].lease, LeaseAt(g))
<1>1. att[a] \in AttemptDocs /\ now \in Nat
  BY DEF TypeOK
<1>2. /\ att[a].hard \in Int /\ att[a].work \in Int /\ att[a].cutoff \in Int
      /\ att[a].lease \in Int /\ att[a].since \in Nat /\ att[a].count \in Nat
      /\ att[a].prints \in SUBSET Prints
  BY <1>1 DEF AttemptDocs
<1>3. g \in Int
  <2>1. att[a].hard + Extension \in Int /\ Absolute(a) \in Int
    BY <1>2, Policy DEF Absolute
  <2> QED
    BY <2>1, LowerHigher
<1>4. l \in Int
  <2>1. LeaseAt(g) \in Int
    BY <1>1, <1>3, LowerHigher, Policy DEF LeaseAt
  <2> QED
    BY <2>1, <1>2, LowerHigher
<1> HIDE DEF g, l
<1>5. Extended(a, f) =
        [att[a] EXCEPT !.hard = g, !.work = @ + (g - att[a].hard),
                       !.cutoff = @ + (g - att[a].hard), !.lease = l,
                       !.count = @ + 1, !.prints = @ \cup {f}]
  BY DEF Extended, g, l
<1>6. /\ att[a].work + (g - att[a].hard) \in Int /\ att[a].cutoff + (g - att[a].hard) \in Int
      /\ att[a].count + 1 \in Nat /\ att[a].prints \cup {f} \in SUBSET Prints
  BY <1>2, <1>3
<1>7. Extended(a, f) \in AttemptDocs
  BY <1>1, <1>3, <1>4, <1>5, <1>6 DEF AttemptDocs
<1>8. /\ Extended(a, f).hard = g
      /\ Extended(a, f).work = att[a].work + (g - att[a].hard)
      /\ Extended(a, f).cutoff = att[a].cutoff + (g - att[a].hard)
      /\ Extended(a, f).lease = l
      /\ Extended(a, f).count = att[a].count + 1
      /\ Extended(a, f).prints = att[a].prints \cup {f}
      /\ Extended(a, f).since = att[a].since
      /\ Extended(a, f).lifecycle = att[a].lifecycle
  BY <1>1, <1>5 DEF AttemptDocs
<1> QED
  BY <1>3, <1>7, <1>8 DEF g, l

\* Every step keeps documents, calls and messages in their types.
LEMMA TypeStep == TypeOK /\ [Next]_vars => TypeOK'
<1> SUFFICES ASSUME TypeOK, [Next]_vars PROVE TypeOK'
  OBVIOUS
<1> USE DEF TypeOK
<1>att. \A a \in Attempts : att[a] \in AttemptDocs /\ gw[a] \in Calls
  OBVIOUS
<1>fields. \A a \in Attempts :
             /\ att[a].hard \in Int /\ att[a].work \in Int /\ att[a].cutoff \in Int
             /\ att[a].lease \in Int /\ att[a].since \in Nat
  BY <1>att DEF AttemptDocs
<1>lease. \A a \in Attempts : LeaseAt(att[a].hard) \in Int
  <2>1. now + LeaseTtl \in Int
    BY Policy
  <2> QED
    BY <2>1, <1>fields, LowerHigher DEF LeaseAt
<1>1. ASSUME NEW a \in Attempts, Dispatch(a)
      PROVE  TypeOK'
  <2>1. /\ now + InitialWindow \in Int
        /\ Deadlines(now + InitialWindow).cutoff \in Int
        /\ Deadlines(now + InitialWindow).work \in Int
    BY Policy DEF Deadlines
  <2>2. ASSUME NEW d \in AttemptDocs, NEW c \in Int, NEW w \in Int, NEW h \in Int
        PROVE  [d EXCEPT !.lifecycle = "QUEUED", !.since = now, !.cutoff = c,
                         !.work = w, !.hard = h] \in AttemptDocs
    BY DEF AttemptDocs
  <2>4. Absent \in AttemptDocs
    BY DEF Absent, AttemptDocs
  <2> DEFINE minted == [Absent EXCEPT !.lifecycle = "QUEUED", !.since = now,
                                      !.cutoff = Deadlines(now + InitialWindow).cutoff,
                                      !.work = Deadlines(now + InitialWindow).work,
                                      !.hard = now + InitialWindow]
  <2>5. minted \in AttemptDocs
    BY <2>1, <2>2, <2>4
  <2>6. att' = [att EXCEPT ![a] = minted]
    BY <1>1 DEF Dispatch
  <2> HIDE DEF minted
  <2>3. att' \in [Attempts -> AttemptDocs]
    BY <2>5, <2>6
  <2> QED
    BY <1>1, <2>3 DEF Dispatch
<1>2. ASSUME NEW a \in Attempts, Claim(a)
      PROVE  TypeOK'
  <2>1. att' \in [Attempts -> AttemptDocs]
    BY <1>2, <1>att, <1>lease, DocTyped DEF Claim
  <2> QED
    BY <1>2, <2>1 DEF Claim
<1>3. ASSUME NEW a \in Attempts, Start(a)
      PROVE  TypeOK'
  <2>1. att' \in [Attempts -> AttemptDocs]
    BY <1>3, <1>att, DocTyped DEF Start
  <2>2. PICK depth \in Depths : gw' = [gw EXCEPT ![a] = OpenedCall(a, depth)]
    BY <1>3, Profiles DEF Start
  <2>3. gw' \in [Attempts -> Calls]
    BY <2>2, OpenedTyped
  <2> QED
    BY <1>3, <2>1, <2>3 DEF Start
<1>4. ASSUME NEW a \in Attempts, RenewLease(a)
      PROVE  TypeOK'
  <2>1. att' \in [Attempts -> AttemptDocs]
    BY <1>4, <1>att, <1>lease, DocTyped DEF RenewLease
  <2> QED
    BY <1>4, <2>1 DEF RenewLease
<1>5. ASSUME NEW a \in Attempts, NEW f \in Prints, Report(a, f)
      PROVE  TypeOK'
  <2>1. gw[a].innerWork \in Int
    BY <1>att DEF Calls
  <2>2. gw' \in [Attempts -> Calls]
    BY <1>5, <1>att, <2>1, CallTyped DEF Report
  <2>3. reports' \subseteq [att : Attempts, print : Prints, reply : Replies]
    BY <1>5 DEF Report, NoReply, Replies, Reasons
  <2> QED
    BY <1>5, <2>2, <2>3 DEF Report
<1>6. ASSUME NEW a \in Attempts,
             DeadlineFires(a) \/ HarnessCuts(a) \/ WorkReturns(a) \/ WorkerGone(a)
      PROVE  TypeOK'
  <2>1. PICK s \in {"ok", "timed_out", "gone"} : gw' = [gw EXCEPT ![a].state = s]
    BY <1>6 DEF DeadlineFires, HarnessCuts, WorkReturns, WorkerGone
  <2>2. [gw[a] EXCEPT !.state = s] \in Calls
    BY <1>att DEF Calls
  <2>3. gw' \in [Attempts -> Calls]
    BY <2>1, <2>2
  <2> QED
    BY <1>6, <2>3 DEF DeadlineFires, HarnessCuts, WorkReturns, WorkerGone
<1>7. ASSUME NEW a \in Attempts, MarkPayloadReady(a)
      PROVE  TypeOK'
  <2>1. att' \in [Attempts -> AttemptDocs]
    BY <1>7, <1>att, DocTyped DEF MarkPayloadReady
  <2> QED
    BY <1>7, <2>1 DEF MarkPayloadReady
<1>8. ASSUME NEW a \in Attempts, SubmitResult(a)
      PROVE  TypeOK'
  <2>1. att' \in [Attempts -> AttemptDocs]
    BY <1>8, <1>att, DocTyped DEF SubmitResult
  <2>2. PhaseOf[gw[a].state] \in {"SUCCEEDED", "TIMED_OUT", "CANCELLED"}
    BY <1>8 DEF SubmitResult, PhaseOf
  <2>3. gw' \in [Attempts -> Calls]
    BY <1>8, <1>att DEF SubmitResult, Calls
  <2> QED
    BY <1>8, <2>1, <2>2, <2>3 DEF SubmitResult
<1>9. ASSUME NEW a \in Attempts, ExpireQueued(a) \/ ReapLostWorker(a)
      PROVE  TypeOK'
  <2>1. att' = [att EXCEPT ![a].lifecycle = "FINISHED"]
    BY <1>9 DEF ExpireQueued, ReapLostWorker
  <2>2. att' \in [Attempts -> AttemptDocs]
    BY <1>att, <2>1, DocTyped
  <2> QED
    BY <1>9, <2>2 DEF ExpireQueued, ReapLostWorker
<1>10. ASSUME NEW r \in reports, RecordProgress(r)
       PROVE  TypeOK'
  <2> DEFINE a == r.att
             why == Decision(a, r.print)
  <2>1. a \in Attempts /\ r.print \in Prints /\ why \in Reasons
    BY DEF Decision, Reasons
  <2>2. att' \in [Attempts -> AttemptDocs]
    BY <1>10, <2>1, ExtendedTyped DEF RecordProgress
  <2>3. task' \in [phase : {"READY", "DISPATCHED", "RETRY_PENDING", "SUCCEEDED", "TIMED_OUT",
                            "CANCELLED", "FAILED"},
                   active : Attempts \cup {NoAttempt}, earned : SUBSET Prints]
    BY <1>10, <2>1 DEF RecordProgress
  <2>4. att'[a].cutoff \in Int /\ att'[a].work \in Int
    BY <2>1, <2>2 DEF AttemptDocs
  <2> HIDE DEF why
  <2>5. reports' \subseteq [att : Attempts, print : Prints, reply : Replies]
    <3> DEFINE answer == [reason |-> why,
                          cutoff |-> IF why = "stale" THEN 0 ELSE att'[a].cutoff,
                          work |-> IF why = "stale" THEN 0 ELSE att'[a].work]
    <3>1. answer \in Replies
      BY <2>1, <2>4 DEF Replies
    <3>2. reports' = (reports \ {r}) \cup {[r EXCEPT !.reply = answer]}
      BY <1>10 DEF RecordProgress, why
    <3> HIDE DEF answer
    <3>3. [r EXCEPT !.reply = answer] \in [att : Attempts, print : Prints, reply : Replies]
      BY <3>1
    <3> QED
      BY <3>2, <3>3
  <2> QED
    BY <1>10, <2>2, <2>3, <2>5 DEF RecordProgress
<1>11. ASSUME NEW r \in reports, ReplyArrives(r)
       PROVE  TypeOK'
  <2> DEFINE a == r.att
  <2>1. a \in Attempts /\ r.reply \in Replies
    OBVIOUS
  <2>2. Heard(gw[a], r.reply) \in Calls
    <3>1. /\ r.reply.cutoff \in Int /\ r.reply.work \in Int
          /\ gw[a].earned \in Int /\ gw[a].work \in Int /\ gw[a].innerWork \in Int
      BY <2>1, <1>att DEF Replies, Calls
    <3>2. /\ Higher(gw[a].earned, r.reply.cutoff) \in Int
          /\ Higher(gw[a].work, r.reply.work) \in Int
          /\ Higher(gw[a].innerWork, r.reply.work) \in Int
      BY <3>1, LowerHigher
    <3>3. [gw[a] EXCEPT !.earned = Higher(@, r.reply.cutoff),
                        !.work = Higher(@, r.reply.work),
                        !.innerWork = Higher(@, r.reply.work)] \in Calls
      <4>1. ASSUME NEW c \in Calls, NEW x \in Int, NEW y \in Int, NEW z \in Int
            PROVE  [c EXCEPT !.earned = x, !.work = y, !.innerWork = z] \in Calls
        BY DEF Calls
      <4> QED
        BY <2>1, <1>att, <3>2, <4>1
    <3>4. r.reply.cutoff - HarnessReserve \in Int
      BY <3>1, Policy
    <3> QED
      BY <3>3, <3>4, CallTyped DEF Heard
  <2>3. [gw[a] EXCEPT !.state = "cancelled"] \in Calls
    BY <2>1, <1>att DEF Calls
  <2>4. gw' \in [Attempts -> Calls]
    BY <1>11, <2>1, <2>2, <2>3 DEF ReplyArrives
  <2> QED
    BY <1>11, <2>4 DEF ReplyArrives
<1>12. ASSUME NEW r \in reports, ReplyLost(r)
       PROVE  TypeOK'
  BY <1>12 DEF ReplyLost
<1>13. CASE Pause
  <2>1. att' \in [Attempts -> AttemptDocs]
    <3>1. \A a \in Attempts : att[a].captured \/ Capturable(a) \in BOOLEAN
      BY <1>att DEF AttemptDocs, Capturable
    <3> QED
      BY <1>13, <1>att, <3>1, DocTyped DEF Pause
  <2>2. job' \in [control : {"NONE", "PAUSE_REQUESTED"}, pauses : Nat]
    <3>1. job.pauses + 1 \in Nat
      OBVIOUS
    <3> QED
      BY <1>13, <3>1 DEF Pause
  <2>3. task' \in [phase : {"READY", "DISPATCHED", "RETRY_PENDING", "SUCCEEDED", "TIMED_OUT",
                            "CANCELLED", "FAILED"},
                   active : Attempts \cup {NoAttempt}, earned : SUBSET Prints]
    BY <1>13 DEF Pause, NoAttempt
  <2> QED
    BY <1>13, <2>1, <2>2, <2>3 DEF Pause
<1>14. CASE Resume
  BY <1>14 DEF Resume
<1>15. CASE Tick \/ UNCHANGED vars
  BY <1>15 DEF Tick, vars
<1>16. ASSUME NEW a \in Attempts, UpgradeRunDepth(a)
       PROVE  TypeOK'
  <2>1. PICK d \in Depths : gw' = [gw EXCEPT ![a] = Upgraded(gw[a], d)]
    BY <1>16, Profiles DEF UpgradeRunDepth
  <2>2. gw' \in [Attempts -> Calls]
    BY <1>att, <2>1, UpgradedTyped
  <2> QED
    BY <1>16, <2>2 DEF UpgradeRunDepth
<1> QED
  BY <1>1, <1>2, <1>3, <1>4, <1>5, <1>6, <1>7, <1>8, <1>9, <1>10, <1>11, <1>12, <1>13,
     <1>14, <1>15, <1>16 DEF Next

-----------------------------------------------------------------------------
(* What one step does to a document: it keeps every deadline, mints an     *)
(* attempt, or lets one earn.                                              *)

Kept(b) ==
  /\ UNCHANGED <<att[b].since, att[b].cutoff, att[b].work, att[b].hard>>
  /\ UNCHANGED <<att[b].count, att[b].prints>>
  /\ att'[b].lifecycle = "ABSENT" <=> att[b].lifecycle = "ABSENT"
  /\ att'[b].lease \in {att[b].lease, LeaseAt(att[b].hard)}
  /\ ~Minted(b) => att'[b] = att[b]

Earn(a, f) ==
  /\ StillEarning(a)
  /\ job.control = "NONE"
  /\ ~SeenBefore(a, f)
  /\ att[a].count < MaxExtensions
  /\ att[a].hard < Absolute(a)
  /\ ~TooEarly(a)
  /\ att' = [att EXCEPT ![a] = Extended(a, f)]
  /\ task'.earned = task.earned \cup {f}
  /\ UNCHANGED <<now, job, gw>>

\* A report is accepted only under every guard of the transaction.
LEMMA AcceptedEarns ==
  ASSUME TypeOK, NEW r \in reports, RecordProgress(r)
  PROVE  \/ Decision(r.att, r.print) = "accepted" /\ Earn(r.att, r.print)
         \/ Decision(r.att, r.print) # "accepted" /\ UNCHANGED <<att, task>>
<1>1. att[r.att] \in AttemptDocs /\ r.att \in Attempts
  BY DEF TypeOK
<1>2. att[r.att].count \in Int /\ att[r.att].hard \in Int /\ Absolute(r.att) \in Int
  BY <1>1, Policy DEF AttemptDocs, Absolute
<1>3. CASE Decision(r.att, r.print) = "accepted"
  <2>1. /\ StillEarning(r.att) /\ job.control = "NONE" /\ ~SeenBefore(r.att, r.print)
        /\ ~(att[r.att].count >= MaxExtensions) /\ ~(att[r.att].hard >= Absolute(r.att))
        /\ ~TooEarly(r.att)
    BY <1>3 DEF Decision
  <2>2. task' = [task EXCEPT !.earned = @ \cup {r.print}]
    BY <1>3 DEF RecordProgress
  <2>3. task'.earned = task.earned \cup {r.print}
    BY <2>2 DEF TypeOK
  <2> QED
    BY <1>2, <1>3, <2>1, <2>3, Policy DEF RecordProgress, Earn
<1>4. CASE Decision(r.att, r.print) # "accepted"
  BY <1>4 DEF RecordProgress
<1> QED
  BY <1>3, <1>4

\* Every step keeps all documents, mints one or lets one earn.
LEMMA DocumentSteps ==
  ASSUME TypeOK, [Next]_vars
  PROVE  \/ (\A b \in Attempts : Kept(b)) /\ task'.earned = task.earned
         \/ \E a \in Attempts : Dispatch(a)
         \/ \E a \in Attempts, f \in Prints : Earn(a, f)
<1> DEFINE Quiet == (\A b \in Attempts : Kept(b)) /\ task'.earned = task.earned
<1>att. /\ \A b \in Attempts : att[b] \in AttemptDocs
        /\ att \in [Attempts -> AttemptDocs]
  BY DEF TypeOK
<1>same. att' = att => \A b \in Attempts : Kept(b)
  BY DEF Kept
<1>life. ASSUME NEW a \in Attempts, NEW l \in {"LEASED", "RUNNING", "FINISHED"}, Minted(a),
                att' = [att EXCEPT ![a].lifecycle = l]
         PROVE  \A b \in Attempts : Kept(b)
  BY <1>att, <1>life DEF Kept, Minted, AttemptDocs
<1>1. ASSUME NEW a \in Attempts, Claim(a)
      PROVE  Quiet
  <2>1. \A b \in Attempts : Kept(b)
    BY <1>1, <1>att DEF Claim, Kept, Minted, AttemptDocs
  <2> QED
    BY <1>1, <2>1 DEF Claim, TypeOK
<1>2. ASSUME NEW a \in Attempts, Start(a)
      PROVE  Quiet
  BY <1>2, <1>life DEF Start, Minted
<1>3. ASSUME NEW a \in Attempts, RenewLease(a)
      PROVE  Quiet
  <2>1. \A b \in Attempts : Kept(b)
    BY <1>3, <1>att DEF RenewLease, Renewable, Kept, Minted, AttemptDocs
  <2> QED
    BY <1>3, <2>1 DEF RenewLease
<1>4. ASSUME NEW a \in Attempts, MarkPayloadReady(a)
      PROVE  Quiet
  <2>1. \A b \in Attempts : Kept(b)
    BY <1>4, <1>att DEF MarkPayloadReady, Kept, Minted, AttemptDocs
  <2> QED
    BY <1>4, <2>1 DEF MarkPayloadReady
<1>5. ASSUME NEW a \in Attempts, SubmitResult(a)
      PROVE  Quiet
  <2>1. task'.earned = task.earned
    BY <1>5 DEF SubmitResult, TypeOK
  <2> QED
    BY <1>5, <1>life, <2>1 DEF SubmitResult, Minted
<1>6. ASSUME NEW a \in Attempts, ExpireQueued(a) \/ ReapLostWorker(a)
      PROVE  Quiet
  <2>1. task'.earned = task.earned
    BY <1>6 DEF ExpireQueued, ReapLostWorker, TypeOK
  <2> QED
    BY <1>6, <1>life, <2>1 DEF ExpireQueued, ReapLostWorker, Lapsed, Minted
<1>7. ASSUME Pause
      PROVE  Quiet
  <2>1. task'.earned = task.earned
    BY <1>7 DEF Pause, TypeOK
  <2>2. ASSUME NEW b \in Attempts
        PROVE  Kept(b)
    <3>1. CASE b \in PreStart
      BY <1>7, <1>att, <3>1 DEF Pause, PreStart, Kept, Minted, AttemptDocs
    <3>2. CASE b \notin PreStart
      <4>1. att'[b] = [att[b] EXCEPT !.captured = @ \/ Capturable(b)]
        BY <1>7, <3>2 DEF Pause
      <4>2. ~Minted(b) => att'[b] = att[b]
        <5>1. ~Minted(b) => ~Capturable(b)
          BY DEF Minted, Capturable
        <5>2. att[b].captured \in BOOLEAN
          BY <1>att DEF AttemptDocs
        <5>3. [att[b] EXCEPT !.captured = att[b].captured] = att[b]
          BY <1>att DEF AttemptDocs
        <5>4. ~Minted(b) => (att[b].captured \/ Capturable(b)) = att[b].captured
          BY <5>1, <5>2
        <5> QED
          BY <4>1, <5>3, <5>4
      <4>3. /\ UNCHANGED <<att[b].since, att[b].cutoff, att[b].work, att[b].hard>>
            /\ UNCHANGED <<att[b].count, att[b].prints, att[b].lifecycle, att[b].lease>>
        BY <1>att, <4>1 DEF AttemptDocs
      <4> QED
        BY <4>2, <4>3 DEF Kept
    <3> QED
      BY <3>1, <3>2
  <2> QED
    BY <2>1, <2>2
<1>8. ASSUME NEW r \in reports, RecordProgress(r)
      PROVE  Quiet \/ \E a \in Attempts, f \in Prints : Earn(a, f)
  <2>1. r.att \in Attempts /\ r.print \in Prints
    BY DEF TypeOK
  <2> QED
    BY <1>8, <1>same, <2>1, AcceptedEarns
<1>9. ASSUME UNCHANGED <<att, task>>
      PROVE  Quiet
  BY <1>9, <1>same
<1> HIDE DEF Quiet
<1>10. ASSUME NEW a \in Attempts,
              \/ \E f \in Prints : Report(a, f)
              \/ UpgradeRunDepth(a)
              \/ DeadlineFires(a) \/ HarnessCuts(a) \/ WorkReturns(a) \/ WorkerGone(a)
       PROVE  Quiet
  BY <1>9, <1>10 DEF Report, UpgradeRunDepth, DeadlineFires, HarnessCuts, WorkReturns, WorkerGone
<1>11. ASSUME NEW r \in reports, ReplyArrives(r) \/ ReplyLost(r)
       PROVE  Quiet
  BY <1>9, <1>11 DEF ReplyArrives, ReplyLost
<1>12. ASSUME Resume \/ Tick \/ UNCHANGED vars
       PROVE  Quiet
  BY <1>9, <1>12 DEF Resume, Tick, vars
<1>13. Quiet \/ (\E a \in Attempts : Dispatch(a))
             \/ \E a \in Attempts, f \in Prints : Earn(a, f)
  BY <1>1, <1>2, <1>3, <1>4, <1>5, <1>6, <1>7, <1>8, <1>10, <1>11, <1>12 DEF Next
<1> QED
  BY <1>13 DEF Quiet

-----------------------------------------------------------------------------
(* The deadlines.                                                          *)

\* The smallest facts about a minted document.
LEMMA Minting ==
  ASSUME TypeOK, NEW a \in Attempts, Dispatch(a)
  PROVE  /\ att[a].lifecycle = "ABSENT" /\ att'[a].lifecycle = "QUEUED"
         /\ att'[a].since = now /\ att'[a].hard = now + InitialWindow
         /\ att'[a].work = now + InitialWindow - FinalizeReserve
         /\ att'[a].cutoff = now + InitialWindow - FinalizeReserve - CommitReserve
         /\ att'[a].lease = 0 /\ att'[a].count = 0 /\ att'[a].prints = {}
         /\ \A b \in Attempts : b # a => att'[b] = att[b]
         /\ task'.earned = task.earned
<1>1. att[a].lifecycle = "ABSENT"
  BY DEF Dispatch, Attempts
<1> DEFINE c == Deadlines(now + InitialWindow).cutoff
           w == Deadlines(now + InitialWindow).work
           minted == [Absent EXCEPT !.lifecycle = "QUEUED", !.since = now, !.cutoff = c,
                                    !.work = w, !.hard = now + InitialWindow]
<1>2. /\ c = now + InitialWindow - FinalizeReserve - CommitReserve
      /\ w = now + InitialWindow - FinalizeReserve
  BY Policy DEF Deadlines, TypeOK
<1>3. att' = [att EXCEPT ![a] = minted]
  BY DEF Dispatch
<1> HIDE DEF c, w
<1>4. /\ minted.lifecycle = "QUEUED" /\ minted.since = now
      /\ minted.hard = now + InitialWindow /\ minted.work = w /\ minted.cutoff = c
      /\ minted.lease = 0 /\ minted.count = 0 /\ minted.prints = {}
  BY DEF Absent
<1> HIDE DEF minted
<1>5. att'[a] = minted /\ \A b \in Attempts : b # a => att'[b] = att[b]
  BY <1>3 DEF TypeOK
<1>6. task'.earned = task.earned
  BY DEF Dispatch, TypeOK
<1> QED
  BY <1>1, <1>2, <1>4, <1>5, <1>6

\* One extension moves every deadline by the same amount, at most one extension,
\* and never past the cap.
LEMMA EarningMoves ==
  ASSUME TypeOK, NEW a \in Attempts, NEW f \in Prints, Earn(a, f)
  PROVE  \E delta \in Nat :
           /\ delta <= Extension
           /\ att'[a].hard = att[a].hard + delta
           /\ att'[a].work = att[a].work + delta
           /\ att'[a].cutoff = att[a].cutoff + delta
           /\ att'[a].hard = Lower(att[a].hard + Extension, Absolute(a))
           /\ att'[a].since = att[a].since /\ att'[a].lifecycle = att[a].lifecycle
           /\ att'[a].count = att[a].count + 1
           /\ att'[a].prints = att[a].prints \cup {f}
           /\ att'[a].lease \in {att[a].lease, LeaseAt(att'[a].hard)}
           /\ \A b \in Attempts : b # a => att'[b] = att[b]
<1> DEFINE g == Lower(att[a].hard + Extension, Absolute(a))
<1>1. /\ att[a].hard \in Int /\ att[a].work \in Int /\ att[a].cutoff \in Int
      /\ att[a].lease \in Int /\ att[a].since \in Nat /\ now \in Nat
  BY DEF TypeOK, AttemptDocs
<1>2. Absolute(a) \in Int /\ att[a].hard < Absolute(a)
  BY <1>1, Policy DEF Absolute, Earn
<1>3. g \in Int /\ g >= att[a].hard /\ g - att[a].hard <= Extension
  BY <1>1, <1>2, Policy DEF Lower
<1>4. LeaseAt(g) \in Int
  <2>1. now + LeaseTtl \in Int
    BY <1>1, Policy
  <2> QED
    BY <1>3, <2>1, LowerHigher DEF LeaseAt
<1>5. att'[a] = Extended(a, f) /\ \A b \in Attempts : b # a => att'[b] = att[b]
  BY DEF Earn, TypeOK
<1>6. /\ att'[a].hard = g
      /\ att'[a].work = att[a].work + (g - att[a].hard)
      /\ att'[a].cutoff = att[a].cutoff + (g - att[a].hard)
      /\ att'[a].lease = Higher(att[a].lease, LeaseAt(g))
      /\ att'[a].count = att[a].count + 1
      /\ att'[a].prints = att[a].prints \cup {f}
      /\ att'[a].since = att[a].since
      /\ att'[a].lifecycle = att[a].lifecycle
  BY <1>5, ExtendedTyped
<1>7. att'[a].lease \in {att[a].lease, LeaseAt(att'[a].hard)}
  BY <1>1, <1>4, <1>6, LowerHigher
<1> HIDE DEF g
<1>8. g - att[a].hard \in Nat /\ att[a].hard + (g - att[a].hard) = g
  BY <1>1, <1>3
<1> USE <1>8
<1> WITNESS g - att[a].hard \in Nat
<1> QED
  BY <1>3, <1>5, <1>6, <1>7, <1>8 DEF g

\* A lease is never given beyond the hard deadline.
LEMMA LeaseClipped ==
  ASSUME now \in Nat, NEW h \in Int
  PROVE  LeaseAt(h) \in Int /\ LeaseAt(h) <= h
<1>1. now + LeaseTtl \in Int
  BY Policy
<1> QED
  BY <1>1, LowerHigher DEF LeaseAt

\* Reserves, cap and lease survive every step.
LEMMA ReservesStep == Inductive /\ [Next]_vars => ReservesSurvive'
<1> SUFFICES ASSUME Inductive, [Next]_vars, NEW b \in Attempts, Minted(b)'
             PROVE  /\ att'[b].hard - att'[b].work = FinalizeReserve
                    /\ att'[b].work - att'[b].cutoff = CommitReserve
                    /\ att'[b].hard <= Absolute(b)'
                    /\ att'[b].lease <= att'[b].hard
  BY DEF ReservesSurvive
<1>0. TypeOK /\ ReservesSurvive
  BY DEF Inductive
<1>1. /\ att[b].hard \in Int /\ att[b].work \in Int /\ att[b].cutoff \in Int
      /\ att[b].lease \in Int /\ att[b].since \in Nat /\ now \in Nat
  BY <1>0 DEF TypeOK, AttemptDocs
<1>old. Minted(b) => /\ att[b].hard - att[b].work = FinalizeReserve
                     /\ att[b].work - att[b].cutoff = CommitReserve
                     /\ att[b].hard <= att[b].since + MaxCap
                     /\ att[b].lease <= att[b].hard
  BY <1>0 DEF ReservesSurvive, Absolute
<1>abs. Absolute(b)' = att'[b].since + MaxCap
  BY DEF Absolute
<1>2. CASE \A d \in Attempts : Kept(d)
  <2>1. Kept(b) /\ Minted(b)
    BY <1>2 DEF Kept, Minted
  <2> QED
    BY <1>1, <1>old, <1>abs, <2>1, LeaseClipped DEF Kept
<1>3. ASSUME NEW a \in Attempts, Dispatch(a)
      PROVE  /\ att'[b].hard - att'[b].work = FinalizeReserve
             /\ att'[b].work - att'[b].cutoff = CommitReserve
             /\ att'[b].hard <= Absolute(b)'
             /\ att'[b].lease <= att'[b].hard
  <2>1. CASE b = a
    BY <1>0, <1>1, <1>3, <1>abs, <2>1, Minting, Policy
  <2>2. CASE b # a
    BY <1>0, <1>3, <1>old, <1>abs, <2>2, Minting DEF Minted
  <2> QED
    BY <2>1, <2>2
<1>4. ASSUME NEW a \in Attempts, NEW f \in Prints, Earn(a, f)
      PROVE  /\ att'[b].hard - att'[b].work = FinalizeReserve
             /\ att'[b].work - att'[b].cutoff = CommitReserve
             /\ att'[b].hard <= Absolute(b)'
             /\ att'[b].lease <= att'[b].hard
  <2>1. PICK delta \in Nat :
           /\ att'[a].hard = att[a].hard + delta
           /\ att'[a].work = att[a].work + delta
           /\ att'[a].cutoff = att[a].cutoff + delta
           /\ att'[a].hard = Lower(att[a].hard + Extension, Absolute(a))
           /\ att'[a].since = att[a].since /\ att'[a].lifecycle = att[a].lifecycle
           /\ att'[a].lease \in {att[a].lease, LeaseAt(att'[a].hard)}
           /\ \A d \in Attempts : d # a => att'[d] = att[d]
    BY <1>0, <1>4, EarningMoves
  <2>2. CASE b # a
    BY <1>old, <1>abs, <2>1, <2>2 DEF Minted
  <2>3. CASE b = a
    <3>1. Minted(b)
      BY <2>1, <2>3 DEF Minted
    <3>2. att[b].hard + Extension \in Int /\ att[b].since + MaxCap \in Int
      BY <1>1, Policy
    <3>3. att'[b].hard <= att[b].since + MaxCap /\ att'[b].hard \in Int
      <4>1. att'[b].hard = Lower(att[b].hard + Extension, att[b].since + MaxCap)
        BY <2>1, <2>3 DEF Absolute
      <4> QED
        BY <3>2, <4>1, LowerHigher
    <3> QED
      BY <1>1, <1>old, <1>abs, <2>1, <2>3, <3>1, <3>3, LeaseClipped
  <2> QED
    BY <2>2, <2>3
<1> QED
  BY <1>0, <1>2, <1>3, <1>4, DocumentSteps

\* The length of the window after one more milestone.
LEMMA OneMore ==
  ASSUME NEW c \in Nat
  PROVE  /\ c * Extension \in Nat
         /\ (c + 1) * Extension = c * Extension + Extension
         /\ 0 * Extension = 0
<1>1. Extension \in Nat
  BY Policy
<1> QED
  BY <1>1

\* The window is what the milestones earned, after every step.
LEMMA WindowStep == Inductive /\ [Next]_vars => WindowIsEarned'
<1> DEFINE Window(d) == Lower(d.since + MaxCap, d.since + InitialWindow + d.count * Extension)
<1> SUFFICES ASSUME Inductive, [Next]_vars, NEW b \in Attempts, Minted(b)'
             PROVE  att'[b].count <= MaxExtensions /\ att'[b].hard = Window(att'[b])
  BY DEF WindowIsEarned, Absolute
<1>0. TypeOK /\ WindowIsEarned
  BY DEF Inductive
<1>1. /\ \A a \in Attempts : att[a].count \in Nat /\ att[a].since \in Nat /\ att[a].hard \in Int
      /\ now \in Nat
  BY <1>0 DEF TypeOK, AttemptDocs
<1>old. Minted(b) => att[b].count <= MaxExtensions /\ att[b].hard = Window(att[b])
  BY <1>0 DEF WindowIsEarned, Absolute
<1>2. CASE \A d \in Attempts : Kept(d)
  <2>1. Kept(b) /\ Minted(b)
    BY <1>2 DEF Kept, Minted
  <2> QED
    BY <1>old, <2>1 DEF Kept
<1>3. ASSUME NEW a \in Attempts, Dispatch(a)
      PROVE  att'[b].count <= MaxExtensions /\ att'[b].hard = Window(att'[b])
  <2>1. CASE b = a
    <3>1. /\ att'[b].count = 0 /\ att'[b].since = now
          /\ att'[b].hard = now + InitialWindow
      BY <1>0, <1>3, <2>1, Minting
    <3>2. now + InitialWindow + 0 * Extension = now + InitialWindow
      BY <1>1, OneMore, Policy
    <3>3. Lower(now + MaxCap, now + InitialWindow) = now + InitialWindow
      BY <1>1, Policy DEF Lower
    <3> QED
      BY <3>1, <3>2, <3>3, Policy
  <2>2. CASE b # a
    BY <1>0, <1>3, <1>old, <2>2, Minting DEF Minted
  <2> QED
    BY <2>1, <2>2
<1>4. ASSUME NEW a \in Attempts, NEW f \in Prints, Earn(a, f)
      PROVE  att'[b].count <= MaxExtensions /\ att'[b].hard = Window(att'[b])
  <2>1. /\ att'[a].hard = Lower(att[a].hard + Extension, Absolute(a))
        /\ att'[a].since = att[a].since /\ att'[a].lifecycle = att[a].lifecycle
        /\ att'[a].count = att[a].count + 1
        /\ \A d \in Attempts : d # a => att'[d] = att[d]
    BY <1>0, <1>4, EarningMoves
  <2>2. CASE b # a
    BY <1>old, <2>1, <2>2 DEF Minted
  <2>3. CASE b = a
    <3>1. Minted(b)
      BY <2>1, <2>3 DEF Minted
    <3>2. att[b].count < MaxExtensions /\ att[b].hard < att[b].since + MaxCap
      BY <1>4, <2>3 DEF Earn, Absolute
    <3> DEFINE s == att[b].since
               c == att[b].count
               e == c * Extension
    <3>3. c \in Nat /\ e \in Nat /\ (c + 1) * Extension = e + Extension /\ s \in Nat
      BY <1>1, OneMore
    <3>4. att[b].hard = Lower(s + MaxCap, s + InitialWindow + e) /\ att[b].hard < s + MaxCap
      BY <1>old, <3>1, <3>2
    <3>5. att'[b].hard = Lower(att[b].hard + Extension, s + MaxCap)
      BY <2>1, <2>3 DEF Absolute
    <3>6. att'[b].count = c + 1 /\ att'[b].since = s
      BY <2>1, <2>3
    <3>7. c < MaxExtensions
      BY <3>2
    <3>8. att'[b].count * Extension = e + Extension
      BY <3>3, <3>6
    <3> HIDE DEF e, c, s
    <3>9. att[b].hard = s + InitialWindow + e
      BY <3>3, <3>4, Policy DEF Lower
    <3>10. att'[b].hard = Lower(s + MaxCap, s + InitialWindow + (e + Extension))
      BY <3>3, <3>5, <3>9, Policy DEF Lower
    <3> QED
      BY <3>3, <3>6, <3>7, <3>8, <3>10, Policy
  <2> QED
    BY <2>2, <2>3
<1> HIDE DEF Window
<1> QED
  BY <1>0, <1>2, <1>3, <1>4, DocumentSteps

\* Time beyond the initial window is never more than one lead and one extension.
LEMMA StockStep == Inductive /\ [Next]_vars => NoStockpile'
<1> SUFFICES ASSUME Inductive, [Next]_vars, NEW b \in Attempts, att'[b].count > 0
             PROVE  att'[b].cutoff - now' <= Lead + Extension
  BY DEF NoStockpile
<1>0. TypeOK /\ NoStockpile
  BY DEF Inductive
<1>1. /\ \A a \in Attempts : att[a].count \in Nat /\ att[a].cutoff \in Int
      /\ now \in Nat
  BY <1>0 DEF TypeOK, AttemptDocs
<1>clock. now' \in {now, now + 1}
  BY DEF Next, vars, Dispatch, Claim, Start, RenewLease, Report, DeadlineFires, HarnessCuts,
     WorkReturns, WorkerGone, MarkPayloadReady, SubmitResult, ExpireQueued, ReapLostWorker,
     RecordProgress, ReplyArrives, ReplyLost, Pause, Resume, Tick, UpgradeRunDepth
<1>old. att[b].count > 0 => att[b].cutoff - now <= Lead + Extension
  BY <1>0 DEF NoStockpile
<1>2. CASE \A d \in Attempts : Kept(d)
  BY <1>1, <1>2, <1>clock, <1>old, Policy DEF Kept
<1>3. ASSUME NEW a \in Attempts, Dispatch(a)
      PROVE  att'[b].cutoff - now' <= Lead + Extension
  <2>1. b # a
    BY <1>0, <1>3, Minting
  <2> QED
    BY <1>0, <1>1, <1>3, <1>clock, <1>old, <2>1, Minting, Policy
<1>4. ASSUME NEW a \in Attempts, NEW f \in Prints, Earn(a, f)
      PROVE  att'[b].cutoff - now' <= Lead + Extension
  <2>1. PICK delta \in Nat :
           /\ delta <= Extension
           /\ att'[a].cutoff = att[a].cutoff + delta
           /\ \A d \in Attempts : d # a => att'[d] = att[d]
    BY <1>0, <1>4, EarningMoves
  <2>2. now' = now /\ att[a].cutoff - now <= Lead
    BY <1>1, <1>4, Policy DEF Earn, TooEarly
  <2> QED
    BY <1>1, <1>old, <2>1, <2>2, Policy
<1> QED
  BY <1>0, <1>2, <1>3, <1>4, DocumentSteps

-----------------------------------------------------------------------------
(* The prints.                                                             *)

\* A print is counted once, in one attempt, after every step.
LEMMA PrintsStep == Inductive /\ [Next]_vars => PrintsAreFinite' /\ PrintsEarnOnce'
<1> SUFFICES ASSUME Inductive, [Next]_vars
             PROVE  PrintsAreFinite' /\ PrintsEarnOnce'
  OBVIOUS
<1>0. TypeOK /\ BlankUntilMinted /\ PrintsAreFinite /\ PrintsEarnOnce
  BY DEF Inductive
<1>1. ASSUME \A b \in Attempts : att'[b].prints = att[b].prints /\ att'[b].count = att[b].count,
             task'.earned = task.earned
      PROVE  PrintsAreFinite' /\ PrintsEarnOnce'
  <2>1. UNION {att'[b].prints : b \in Attempts} = UNION {att[b].prints : b \in Attempts}
    BY <1>1
  <2> QED
    BY <1>0, <1>1, <2>1 DEF PrintsAreFinite, PrintsEarnOnce
<1>2. CASE (\A b \in Attempts : Kept(b)) /\ task'.earned = task.earned
  BY <1>1, <1>2 DEF Kept
<1>3. ASSUME NEW a \in Attempts, Dispatch(a)
      PROVE  PrintsAreFinite' /\ PrintsEarnOnce'
  <2>1. att[a].prints = {} /\ att[a].count = 0
    BY <1>0, <1>3, Minting DEF BlankUntilMinted, Minted, Absent
  <2> QED
    BY <1>0, <1>1, <1>3, <2>1, Minting
<1>4. ASSUME NEW a \in Attempts, NEW f \in Prints, Earn(a, f)
      PROVE  PrintsAreFinite' /\ PrintsEarnOnce'
  <2>1. /\ att'[a].prints = att[a].prints \cup {f}
        /\ att'[a].count = att[a].count + 1
        /\ \A b \in Attempts : b # a => att'[b] = att[b]
    BY <1>0, <1>4, EarningMoves
  <2>2. task'.earned = task.earned \cup {f} /\ f \notin task.earned
    BY <1>4 DEF Earn, SeenBefore
  <2>3. \A b \in Attempts : f \notin att[b].prints
    BY <1>0, <2>2 DEF PrintsEarnOnce
  <2>4. /\ IsFiniteSet(att[a].prints \cup {f})
        /\ Cardinality(att[a].prints \cup {f}) = Cardinality(att[a].prints) + 1
    BY <1>0, <2>3, FS_AddElement DEF PrintsAreFinite
  <2>5. \A b \in Attempts : IsFiniteSet(att'[b].prints) /\ att'[b].count = Cardinality(att'[b].prints)
    BY <1>0, <2>1, <2>4 DEF PrintsAreFinite, PrintsEarnOnce
  <2>6. \A b, c \in Attempts : b # c => att'[b].prints \cap att'[c].prints = {}
    BY <1>0, <2>1, <2>3 DEF PrintsEarnOnce
  <2>7. task'.earned = UNION {att'[b].prints : b \in Attempts}
    <3>1. task.earned = UNION {att[b].prints : b \in Attempts}
      BY <1>0 DEF PrintsEarnOnce
    <3>2. \A x : x \in task'.earned <=> x = f \/ \E b \in Attempts : x \in att[b].prints
      BY <2>2, <3>1
    <3>3. \A x : (\E b \in Attempts : x \in att'[b].prints)
                 <=> x = f \/ \E b \in Attempts : x \in att[b].prints
      BY <2>1
    <3> QED
      BY <3>2, <3>3
  <2> QED
    BY <2>5, <2>6, <2>7 DEF PrintsAreFinite, PrintsEarnOnce
<1> QED
  BY <1>0, <1>2, <1>3, <1>4, DocumentSteps

-----------------------------------------------------------------------------
(* The watchdogs of the worker's process.                                  *)

\* The store never takes back time it gave to a minted attempt.
LEMMA NeverTakenBack ==
  ASSUME Inductive, [Next]_vars, NEW b \in Attempts, Minted(b)
  PROVE  Minted(b)' /\ att'[b].cutoff >= att[b].cutoff /\ att'[b].work >= att[b].work
<1>0. TypeOK
  BY DEF Inductive
<1>1. att[b].cutoff \in Int /\ att[b].work \in Int
  BY <1>0 DEF TypeOK, AttemptDocs
<1>2. CASE \A d \in Attempts : Kept(d)
  BY <1>1, <1>2 DEF Kept, Minted
<1>3. ASSUME NEW a \in Attempts, Dispatch(a)
      PROVE  Minted(b)' /\ att'[b].cutoff >= att[b].cutoff /\ att'[b].work >= att[b].work
  BY <1>0, <1>1, <1>3, Minting DEF Minted
<1>4. ASSUME NEW a \in Attempts, NEW f \in Prints, Earn(a, f)
      PROVE  Minted(b)' /\ att'[b].cutoff >= att[b].cutoff /\ att'[b].work >= att[b].work
  <2>1. PICK delta \in Nat :
           /\ att'[a].cutoff = att[a].cutoff + delta
           /\ att'[a].work = att[a].work + delta
           /\ att'[a].lifecycle = att[a].lifecycle
           /\ \A d \in Attempts : d # a => att'[d] = att[d]
    BY <1>0, <1>4, EarningMoves
  <2> QED
    BY <1>1, <2>1 DEF Minted
<1> QED
  BY <1>0, <1>2, <1>3, <1>4, DocumentSteps

\* A raised cap is the old one or one that its target bounds, and never an earlier one.
LEMMA RaiseBounded ==
  ASSUME NEW c \in Calls, NEW d \in Int
  PROVE  /\ RaiseInner(c, d).inner = c.inner \/ RaiseInner(c, d).inner <= d
         /\ RaiseInner(c, d).inner >= c.inner
         /\ RaiseInner(c, d).state = c.state /\ RaiseInner(c, d).earned = c.earned
         /\ RaiseInner(c, d).work = c.work /\ RaiseInner(c, d).innerWork = c.innerWork
         /\ RaiseInner(c, d).started = c.started /\ RaiseInner(c, d).depth = c.depth
         /\ RaiseInner(c, d).idle = c.idle
<1>1. c.inner \in Int /\ c.maxInner \in Int
  BY DEF Calls
<1> DEFINE raised == Higher(c.inner, Lower(c.maxInner, d))
<1>2. (raised = c.inner \/ raised <= d) /\ raised >= c.inner /\ raised \in Int
  BY <1>1 DEF Lower, Higher
<1>3. [c EXCEPT !.inner = Higher(@, Lower(c.maxInner, d))] = [c EXCEPT !.inner = raised]
  OBVIOUS
<1> HIDE DEF raised
<1> QED
  BY <1>1, <1>2, <1>3 DEF RaiseInner, Calls

Bounded(c, d) ==
  /\ c.earned <= d.cutoff /\ c.work <= d.work /\ c.innerWork <= d.work
  /\ CapAccounted(c, d.work)

\* A cap that is kept or stays below the work deadline is accounted for as before, when
\* neither the depth nor the start of the call changes.
LEMMA CapStays ==
  ASSUME NEW c \in Calls, NEW e \in Calls, NEW w \in Int, CapAccounted(c, w),
         e.inner = c.inner \/ e.inner <= w,
         e.started = c.started, e.depth = c.depth, e.idle = c.idle
  PROVE  CapAccounted(e, w)
<1>1. /\ c.inner \in Int /\ e.inner \in Int /\ c.started \in Nat /\ c.idle \in Nat
  BY DEF Calls
<1>2. ShortestCall(c.idle) \in Nat
  BY <1>1, Policy DEF ShortestCall, Higher
<1>3. CASE e.inner = c.inner
  BY <1>3 DEF CapAccounted
<1>4. CASE e.inner <= w
  BY <1>1, <1>2, <1>4 DEF CapAccounted, Higher
<1> QED
  BY <1>3, <1>4

\* A deeper profile's cap is accounted for by the depth.
LEMMA CapUpgraded ==
  ASSUME NEW c \in Calls, NEW d \in Deepened, NEW w \in Int, CapAccounted(c, w)
  PROVE  CapAccounted(Upgraded(c, d), w)
<1> DEFINE u == Upgraded(c, d)
<1>1. /\ u \in Calls /\ u.started = c.started /\ u.depth = d
      /\ u.inner \in {c.inner, c.started + HardCaps[d]} /\ u.idle >= c.idle
  BY Profiles, UpgradedTyped
<1>2. /\ c.inner \in Int /\ c.started \in Nat /\ c.idle \in Nat /\ u.idle \in Nat
  BY <1>1 DEF Calls
<1> SUFFICES CapAccounted(u, w)
  OBVIOUS
<1> HIDE DEF u
<1>3. CASE u.inner = c.started + HardCaps[d]
  BY <1>1, <1>3 DEF CapAccounted
<1>4. CASE u.inner = c.inner /\ \E e \in Deepened : c.inner = c.started + HardCaps[e]
  BY <1>1, <1>4 DEF CapAccounted
<1>5. CASE u.inner = c.inner /\ c.inner <= Higher(w, c.started + ShortestCall(c.idle))
  <2>1. /\ ShortestCall(c.idle) \in Nat /\ ShortestCall(u.idle) \in Nat
        /\ ShortestCall(c.idle) <= ShortestCall(u.idle)
    BY <1>1, <1>2, Policy DEF ShortestCall, Higher
  <2>2. Higher(w, c.started + ShortestCall(c.idle)) <= Higher(w, u.started + ShortestCall(u.idle))
    BY <1>1, <1>2, <2>1 DEF Higher
  <2>3. /\ Higher(w, c.started + ShortestCall(c.idle)) \in Int
        /\ Higher(w, u.started + ShortestCall(u.idle)) \in Int
    BY <1>1, <1>2, <2>1 DEF Higher
  <2>4. u.inner <= Higher(w, u.started + ShortestCall(u.idle))
    BY <1>2, <1>5, <2>2, <2>3
  <2> QED
    BY <2>4 DEF CapAccounted
<1> QED
  BY <1>1, <1>3, <1>4, <1>5 DEF CapAccounted

\* The four bounds of a running call, on a document of its type.
LEMMA RunningBounded ==
  ASSUME Inductive, NEW b \in Attempts, gw[b].state = "running"
  PROVE  Minted(b) /\ Bounded(gw[b], att[b])
  BY DEF Inductive, BlankUntilMinted, NoCall, WatchdogsTrailTheStore, MessagesTrailTheStore,
     Bounded, Minted

\* The call that Start opens is inside the attempt.
LEMMA StartBounded ==
  ASSUME TypeOK, ReservesSurvive, NEW a \in Attempts, Start(a)
  PROVE  Bounded(gw'[a], att[a])
<1>1. /\ att[a].cutoff \in Int /\ att[a].work \in Int /\ now \in Nat /\ Minted(a)
  BY DEF TypeOK, AttemptDocs, Start, Minted
<1>2. att[a].cutoff <= att[a].work
  BY <1>1, Policy DEF ReservesSurvive
<1>3. PICK depth \in Depths : gw' = [gw EXCEPT ![a] = OpenedCall(a, depth)]
  BY Profiles DEF Start
<1> DEFINE c == OpenedCall(a, depth)
           idle == Higher(IdleTimeouts[depth], IdleFloor)
           top == Higher(att[a].work, now + ShortestCall(idle))
<1>4. /\ c \in Calls /\ idle \in Nat
      /\ c.earned = att[a].cutoff /\ c.work = att[a].work
      /\ c.innerWork = att[a].work /\ c.started = now /\ c.idle = idle
      /\ c.inner <= HarnessCap(idle, att[a].cutoff)
  BY OpenedTyped
<1>5. gw'[a] = c
  BY <1>3 DEF TypeOK
<1>6. c.inner \in Int
  BY <1>4 DEF Calls
<1> HIDE DEF c, idle
<1>7. ShortestCall(idle) \in Nat /\ HarnessCap(idle, att[a].cutoff) \in Int
  BY <1>1, <1>4, CapTyped
<1>8. HarnessCap(idle, att[a].cutoff) <= top /\ top \in Int
  BY <1>1, <1>2, <1>7, Policy DEF HarnessCap, Higher
<1>9. c.inner <= Higher(att[a].work, c.started + ShortestCall(c.idle))
  BY <1>4, <1>6, <1>7, <1>8
<1> QED
  BY <1>1, <1>4, <1>5, <1>9 DEF Bounded, CapAccounted

\* A document that gained time still bounds the call.
LEMMA BoundedLater ==
  ASSUME NEW c \in Calls, NEW d \in AttemptDocs, NEW e \in AttemptDocs, Bounded(c, d),
         e.cutoff >= d.cutoff, e.work >= d.work
  PROVE  Bounded(c, e)
<1>1. /\ c.earned \in Int /\ c.work \in Int /\ c.innerWork \in Int /\ c.inner \in Int
      /\ c.started \in Nat /\ c.idle \in Nat
  BY DEF Calls
<1>2. /\ d.cutoff \in Int /\ d.work \in Int /\ e.cutoff \in Int /\ e.work \in Int
  BY DEF AttemptDocs
<1>3. ShortestCall(c.idle) \in Nat
  BY <1>1, Policy DEF ShortestCall, Higher
<1>4. c.inner <= Higher(d.work, c.started + ShortestCall(c.idle))
        => c.inner <= Higher(e.work, c.started + ShortestCall(c.idle))
  BY <1>1, <1>2, <1>3 DEF Higher
<1>5. CapAccounted(c, e.work)
  BY <1>4 DEF Bounded, CapAccounted
<1> QED
  BY <1>1, <1>2, <1>5 DEF Bounded

\* A milestone report, and a live reply, leave the call inside the attempt and its
\* watchdogs no earlier.
LEMMA CallStays ==
  ASSUME Inductive, [Next]_vars, NEW b \in Attempts, gw[b].state = "running",
         gw'[b].state = "running"
  PROVE  /\ Bounded(gw'[b], att[b])
         /\ gw'[b].earned >= gw[b].earned /\ gw'[b].inner >= gw[b].inner
<1>0. TypeOK /\ BlankUntilMinted /\ ReservesSurvive /\ MessagesTrailTheStore
  BY DEF Inductive
<1>1. /\ gw[b] \in Calls /\ gw[b].earned \in Int /\ gw[b].work \in Int
      /\ gw[b].innerWork \in Int /\ gw[b].inner \in Int /\ gw[b].started \in Nat
      /\ att[b].work \in Int /\ att[b].cutoff \in Int /\ now \in Nat
  BY <1>0 DEF TypeOK, Calls, AttemptDocs
<1>2. Minted(b) /\ Bounded(gw[b], att[b])
  BY RunningBounded
<1>3. gw'[b] \in Calls
  BY <1>0, TypeStep DEF TypeOK
<1>same. ASSUME gw'[b] = gw[b]
         PROVE  /\ Bounded(gw'[b], att[b])
                /\ gw'[b].earned >= gw[b].earned /\ gw'[b].inner >= gw[b].inner
  BY <1>1, <1>2, <1>same
<1>5. ASSUME NEW f \in Prints, Report(b, f)
      PROVE  /\ Bounded(gw'[b], att[b])
             /\ gw'[b].earned >= gw[b].earned /\ gw'[b].inner >= gw[b].inner
  <2>1. gw'[b] = RaiseInner(gw[b], gw[b].innerWork)
    BY <1>0, <1>5 DEF Report, TypeOK
  <2>2. gw[b].innerWork <= att[b].work
    BY <1>2 DEF Bounded
  <2>3. /\ gw'[b].inner = gw[b].inner \/ gw'[b].inner <= gw[b].innerWork
        /\ gw'[b].inner >= gw[b].inner
        /\ gw'[b].earned = gw[b].earned /\ gw'[b].work = gw[b].work
        /\ gw'[b].innerWork = gw[b].innerWork /\ gw'[b].started = gw[b].started
        /\ gw'[b].depth = gw[b].depth /\ gw'[b].idle = gw[b].idle
    BY <1>1, <2>1, RaiseBounded
  <2>4. gw'[b].inner \in Int
    BY <1>3 DEF Calls
  <2>5. CapAccounted(gw'[b], att[b].work)
    BY <1>1, <1>2, <1>3, <2>2, <2>3, <2>4, CapStays DEF Bounded
  <2> QED
    BY <1>1, <1>2, <2>3, <2>5 DEF Bounded
<1>6. ASSUME NEW r \in reports, r.att = b, ReplyArrives(r)
      PROVE  /\ Bounded(gw'[b], att[b])
             /\ gw'[b].earned >= gw[b].earned /\ gw'[b].inner >= gw[b].inner
  <2>1. r.reply.reason # "stale"
    BY <1>0, <1>6 DEF ReplyArrives, TypeOK
  <2>2. r.reply \in Replies /\ r.reply.cutoff \in Int /\ r.reply.work \in Int
    BY <1>0 DEF TypeOK, Replies
  <2>3. gw'[b] = Heard(gw[b], r.reply)
    BY <1>0, <1>6, <2>1 DEF ReplyArrives, TypeOK
  <2>5. r.reply # NoReply
    BY <1>6 DEF ReplyArrives
  <2> QED
    <3>1. r.reply.cutoff <= att[b].cutoff /\ r.reply.work <= att[b].work
      BY <1>0, <1>6, <2>1, <2>5 DEF MessagesTrailTheStore, Answered
    <3> DEFINE x == Higher(gw[b].earned, r.reply.cutoff)
               y == Higher(gw[b].work, r.reply.work)
               z == Higher(gw[b].innerWork, r.reply.work)
               call == [gw[b] EXCEPT !.earned = x, !.work = y, !.innerWork = z]
    <3>2. /\ x \in Int /\ y \in Int /\ z \in Int
          /\ x <= att[b].cutoff /\ y <= att[b].work /\ z <= att[b].work
          /\ x >= gw[b].earned
      BY <1>1, <1>2, <2>2, <3>1 DEF Bounded, Higher
    <3>3. r.reply.cutoff - HarnessReserve \in Int /\ r.reply.cutoff - HarnessReserve <= att[b].work
      <4>1. att[b].cutoff <= att[b].work
        BY <1>0, <1>1, <1>2, Policy DEF ReservesSurvive
      <4> QED
        BY <1>1, <2>2, <3>1, <4>1, Policy
    <3>4. gw'[b] = RaiseInner(call, r.reply.cutoff - HarnessReserve)
      BY <2>3 DEF Heard
    <3> HIDE DEF x, y, z
    <3>5. /\ call \in Calls /\ call.earned = x /\ call.work = y /\ call.innerWork = z
          /\ call.inner = gw[b].inner /\ call.started = gw[b].started
          /\ call.depth = gw[b].depth /\ call.idle = gw[b].idle
      BY <1>1, <3>2 DEF Calls
    <3> HIDE DEF call
    <3>6. /\ gw'[b].inner = gw[b].inner \/ gw'[b].inner <= r.reply.cutoff - HarnessReserve
          /\ gw'[b].inner >= gw[b].inner
          /\ gw'[b].earned = x /\ gw'[b].work = y
          /\ gw'[b].innerWork = z /\ gw'[b].started = gw[b].started
          /\ gw'[b].depth = gw[b].depth /\ gw'[b].idle = gw[b].idle
      BY <3>3, <3>4, <3>5, RaiseBounded
    <3>7. gw'[b].inner = gw[b].inner \/ gw'[b].inner <= att[b].work
      <4>1. gw'[b].inner \in Int
        BY <1>3 DEF Calls
      <4> QED
        BY <1>1, <3>3, <3>6, <4>1
    <3>8. CapAccounted(gw'[b], att[b].work)
      BY <1>1, <1>2, <1>3, <3>6, <3>7, CapStays DEF Bounded
    <3> QED
      BY <3>2, <3>6, <3>8 DEF Bounded
<1>7. ASSUME NEW a \in Attempts, a # b,
             \/ Start(a) \/ SubmitResult(a)
             \/ DeadlineFires(a) \/ HarnessCuts(a) \/ WorkReturns(a) \/ WorkerGone(a)
             \/ UpgradeRunDepth(a) \/ \E f \in Prints : Report(a, f)
      PROVE  gw'[b] = gw[b]
  BY <1>0, <1>7 DEF TypeOK, Start, SubmitResult, DeadlineFires, HarnessCuts, WorkReturns,
     WorkerGone, UpgradeRunDepth, Report
<1>8. ASSUME \/ DeadlineFires(b) \/ HarnessCuts(b) \/ WorkReturns(b) \/ WorkerGone(b)
             \/ SubmitResult(b)
      PROVE  FALSE
  BY <1>0, <1>8 DEF TypeOK, DeadlineFires, HarnessCuts, WorkReturns, WorkerGone, SubmitResult,
     Calls
<1>9. ASSUME NEW r \in reports, ReplyArrives(r), r.att # b
      PROVE  gw'[b] = gw[b]
  BY <1>0, <1>9 DEF ReplyArrives, TypeOK
<1>10. ASSUME NEW a \in Attempts,
              \/ Dispatch(a) \/ Claim(a) \/ RenewLease(a) \/ MarkPayloadReady(a)
              \/ ExpireQueued(a) \/ ReapLostWorker(a)
       PROVE  gw'[b] = gw[b]
  BY <1>10 DEF Dispatch, Claim, RenewLease, MarkPayloadReady, ExpireQueued, ReapLostWorker
<1>11. ASSUME \/ \E r \in reports : RecordProgress(r) \/ ReplyLost(r)
              \/ Pause \/ Resume \/ Tick \/ UNCHANGED vars
       PROVE  gw'[b] = gw[b]
  BY <1>11 DEF RecordProgress, ReplyLost, Pause, Resume, Tick, vars
<1>12. ~Start(b)
  BY <1>0 DEF Start, BlankUntilMinted, NoCall
<1>13. ASSUME UpgradeRunDepth(b)
       PROVE  /\ Bounded(gw'[b], att[b])
              /\ gw'[b].earned >= gw[b].earned /\ gw'[b].inner >= gw[b].inner
  <2>1. PICK d \in Deepened : gw'[b] = Upgraded(gw[b], d)
    BY <1>0, <1>13, Profiles DEF UpgradeRunDepth, TypeOK
  <2>2. /\ gw'[b].earned = gw[b].earned /\ gw'[b].work = gw[b].work
        /\ gw'[b].innerWork = gw[b].innerWork /\ gw'[b].inner >= gw[b].inner
    BY <1>1, <2>1, Profiles, UpgradedTyped
  <2>3. CapAccounted(gw'[b], att[b].work)
    BY <1>1, <1>2, <2>1, CapUpgraded DEF Bounded
  <2> QED
    BY <1>1, <1>2, <2>2, <2>3 DEF Bounded
<1> QED
  BY <1>same, <1>5, <1>6, <1>7, <1>8, <1>9, <1>10, <1>11, <1>12, <1>13 DEF Next

\* Nothing exists before it is minted or started, after every step.
LEMMA BlankStep == Inductive /\ [Next]_vars => BlankUntilMinted'
<1> SUFFICES ASSUME Inductive, [Next]_vars, NEW b \in Attempts
             PROVE  /\ ~Minted(b)' => att'[b] = Absent
                    /\ att'[b].lifecycle \in {"ABSENT", "QUEUED", "LEASED"} => gw'[b] = NoCall
  BY DEF BlankUntilMinted
<1>0. TypeOK /\ BlankUntilMinted
  BY DEF Inductive
<1>1. ~Minted(b)' => att'[b] = Absent
  <2>1. ~Minted(b)' => ~Minted(b)
    BY NeverTakenBack
  <2>2. CASE \A d \in Attempts : Kept(d)
    BY <1>0, <2>1, <2>2 DEF Kept, BlankUntilMinted
  <2>3. ASSUME NEW a \in Attempts, Dispatch(a), ~Minted(b)'
        PROVE  att'[b] = Absent
    BY <1>0, <2>1, <2>3, Minting DEF Minted, BlankUntilMinted
  <2>4. ASSUME NEW a \in Attempts, NEW f \in Prints, Earn(a, f), ~Minted(b)'
        PROVE  att'[b] = Absent
    <3>1. b # a
      BY <2>1, <2>4 DEF Earn, StillEarning, Minted
    <3> QED
      BY <1>0, <2>1, <2>4, <3>1, EarningMoves DEF BlankUntilMinted
  <2> QED
    BY <1>0, <2>2, <2>3, <2>4, DocumentSteps
<1> DEFINE Early(d) == d.lifecycle \in {"ABSENT", "QUEUED", "LEASED"}
<1>2. /\ \A a \in Attempts : att[a] \in AttemptDocs
      /\ att \in [Attempts -> AttemptDocs] /\ gw \in [Attempts -> Calls]
      /\ Early(att[b]) => gw[b] = NoCall
  BY <1>0 DEF TypeOK, BlankUntilMinted
<1>3. ASSUME NEW a \in Attempts,
             \/ Dispatch(a) \/ Claim(a) \/ RenewLease(a) \/ MarkPayloadReady(a)
             \/ ExpireQueued(a) \/ ReapLostWorker(a)
      PROVE  (Early(att'[b]) => Early(att[b])) /\ gw' = gw
  <2>1. CASE Dispatch(a)
    BY <1>0, <2>1, Minting DEF Dispatch
  <2>2. CASE ~Dispatch(a)
    BY <1>2, <1>3, <2>2 DEF Claim, RenewLease, MarkPayloadReady, ExpireQueued, ReapLostWorker,
       AttemptDocs
  <2> QED
    BY <2>1, <2>2
<1>4. ASSUME NEW a \in Attempts,
             \/ DeadlineFires(a) \/ HarnessCuts(a) \/ WorkReturns(a) \/ WorkerGone(a)
             \/ UpgradeRunDepth(a) \/ \E f \in Prints : Report(a, f)
      PROVE  (Early(att'[b]) => Early(att[b])) /\ (gw[b] = NoCall => gw'[b] = NoCall)
  BY <1>2, <1>4 DEF DeadlineFires, HarnessCuts, WorkReturns, WorkerGone, UpgradeRunDepth, Report,
     NoCall
<1>5. ASSUME NEW r \in reports, ReplyArrives(r)
      PROVE  (Early(att'[b]) => Early(att[b])) /\ (gw[b] = NoCall => gw'[b] = NoCall)
  BY <1>2, <1>5 DEF ReplyArrives, NoCall
<1>6. ASSUME NEW a \in Attempts, Start(a) \/ SubmitResult(a)
      PROVE  (Early(att'[b]) => Early(att[b]) /\ b # a) /\ (b # a => gw'[b] = gw[b])
  BY <1>2, <1>6 DEF Start, SubmitResult, AttemptDocs
<1>7. ASSUME NEW r \in reports, RecordProgress(r)
      PROVE  (Early(att'[b]) => Early(att[b])) /\ gw' = gw
  <2>1. r.att \in Attempts /\ r.print \in Prints
    BY <1>0 DEF TypeOK
  <2>2. CASE Earn(r.att, r.print)
    <3>1. /\ att'[r.att].lifecycle = att[r.att].lifecycle
          /\ \A d \in Attempts : d # r.att => att'[d] = att[d]
      BY <1>0, <2>1, <2>2, EarningMoves
    <3> QED
      BY <2>2, <3>1 DEF Earn
  <2>3. CASE UNCHANGED <<att, task>>
    BY <1>7, <2>3 DEF RecordProgress
  <2> QED
    BY <1>0, <1>7, <2>2, <2>3, AcceptedEarns
<1>8. ASSUME Pause
      PROVE  (Early(att'[b]) => Early(att[b])) /\ gw' = gw
  BY <1>2, <1>8 DEF Pause, PreStart, AttemptDocs
<1>9. ASSUME (\E r \in reports : ReplyLost(r)) \/ Resume \/ Tick \/ UNCHANGED vars
      PROVE  att' = att /\ gw' = gw
  BY <1>9 DEF ReplyLost, Resume, Tick, vars
<1> HIDE DEF Early
<1>10. Early(att'[b]) => gw'[b] = NoCall
  BY <1>2, <1>3, <1>4, <1>5, <1>6, <1>7, <1>8, <1>9 DEF Next
<1> QED
  BY <1>1, <1>10 DEF Early

\* The watchdogs trail the store after every step.
LEMMA WatchdogStep ==
  Inductive /\ [Next]_vars /\ TypeOK' /\ ReservesSurvive' =>
    /\ WatchdogsTrailTheStore'
    /\ \A b \in Attempts : gw'[b].state = "running" => gw'[b].innerWork <= att'[b].work
<1> SUFFICES ASSUME Inductive, [Next]_vars, TypeOK', ReservesSurvive', NEW b \in Attempts,
                    gw'[b].state = "running"
             PROVE  /\ Bounded(gw'[b], att'[b])
                    /\ TimerDeadline(b)' <= att'[b].work
  BY DEF WatchdogsTrailTheStore, Bounded
<1>0. TypeOK /\ ReservesSurvive /\ BlankUntilMinted
  BY DEF Inductive
<1>1. /\ gw'[b] \in Calls /\ att[b] \in AttemptDocs /\ att'[b] \in AttemptDocs
  BY <1>0 DEF TypeOK
<1>2. Minted(b) /\ Bounded(gw'[b], att[b])
  <2>1. CASE gw[b].state = "running"
    BY <2>1, CallStays, RunningBounded
  <2>2. CASE Start(b)
    BY <1>0, <2>2, StartBounded DEF Start, Minted
  <2>3. ASSUME gw[b].state # "running", ~Start(b)
        PROVE  FALSE
    <3>1. ASSUME NEW a \in Attempts,
                 \/ (Start(a) /\ a # b)
                 \/ SubmitResult(a) \/ DeadlineFires(a) \/ HarnessCuts(a) \/ WorkReturns(a)
                 \/ WorkerGone(a) \/ UpgradeRunDepth(a) \/ \E f \in Prints : Report(a, f)
          PROVE  gw'[b].state = gw[b].state \/ gw'[b].state # "running"
      BY <1>0, <2>3, <3>1 DEF TypeOK, Calls, Start, SubmitResult, DeadlineFires, HarnessCuts,
         WorkReturns, WorkerGone, UpgradeRunDepth, Report, RaiseInner
    <3>2. ASSUME NEW r \in reports, ReplyArrives(r)
          PROVE  gw'[b].state = gw[b].state \/ gw'[b].state # "running"
      BY <1>0, <2>3, <3>2 DEF TypeOK, Calls, ReplyArrives
    <3>3. ASSUME NEW a \in Attempts,
                 \/ Dispatch(a) \/ Claim(a) \/ RenewLease(a) \/ MarkPayloadReady(a)
                 \/ ExpireQueued(a) \/ ReapLostWorker(a)
          PROVE  gw' = gw
      BY <3>3 DEF Dispatch, Claim, RenewLease, MarkPayloadReady, ExpireQueued, ReapLostWorker
    <3>4. ASSUME \/ \E r \in reports : RecordProgress(r) \/ ReplyLost(r)
                 \/ Pause \/ Resume \/ Tick \/ UNCHANGED vars
          PROVE  gw' = gw
      BY <3>4 DEF RecordProgress, ReplyLost, Pause, Resume, Tick, vars
    <3> QED
      BY <2>3, <3>1, <3>2, <3>3, <3>4 DEF Next
  <2> QED
    BY <2>1, <2>2, <2>3
<1>3. Bounded(gw'[b], att'[b])
  BY <1>1, <1>2, NeverTakenBack, BoundedLater
<1>4. TimerDeadline(b)' <= att'[b].work
  <2>1. Minted(b)'
    BY <1>2, NeverTakenBack
  <2>2. /\ gw'[b].earned \in Int /\ gw'[b].work \in Int
        /\ att'[b].cutoff \in Int /\ att'[b].work \in Int
    BY <1>1 DEF Calls, AttemptDocs
  <2>3. att'[b].cutoff <= att'[b].work
    BY <2>1, <2>2, Policy DEF ReservesSurvive
  <2>4. gw'[b].earned <= att'[b].work /\ gw'[b].work <= att'[b].work
    BY <1>3, <2>2, <2>3 DEF Bounded
  <2>5. TimerDeadline(b)' = Lower(gw'[b].work, gw'[b].earned + Grace)
        \/ TimerDeadline(b)' = gw'[b].earned
    BY DEF TimerDeadline
  <2>6. Lower(gw'[b].work, gw'[b].earned + Grace) <= gw'[b].work
    BY <2>2, Policy DEF Lower
  <2>7. Lower(gw'[b].work, gw'[b].earned + Grace) \in Int
    BY <2>2, Policy DEF Lower
  <2> QED
    BY <2>2, <2>4, <2>5, <2>6, <2>7
<1> QED
  BY <1>3, <1>4

\* No message names more time than the store has given, after every step.
LEMMA MessagesStep ==
  Inductive /\ [Next]_vars /\ TypeOK' /\ ReservesSurvive' => MessagesTrailTheStore'
<1> SUFFICES ASSUME Inductive, [Next]_vars, TypeOK', ReservesSurvive'
             PROVE  MessagesTrailTheStore'
  OBVIOUS
<1>0. TypeOK /\ ReservesSurvive /\ BlankUntilMinted /\ MessagesTrailTheStore
  BY DEF Inductive
<1> DEFINE Trails(r) == /\ Minted(r.att)'
                        /\ Answered(r) => /\ r.reply.cutoff <= att'[r.att].cutoff
                                          /\ r.reply.work <= att'[r.att].work
<1>1. ASSUME NEW r \in reports
      PROVE  Trails(r)
  <2>1. /\ r.att \in Attempts /\ Minted(r.att)
        /\ r.reply.cutoff \in Int /\ r.reply.work \in Int
    BY <1>0 DEF TypeOK, Replies, MessagesTrailTheStore
  <2>2. Answered(r) => /\ r.reply.cutoff <= att[r.att].cutoff
                       /\ r.reply.work <= att[r.att].work
    BY <1>0 DEF MessagesTrailTheStore
  <2>3. /\ att[r.att].cutoff \in Int /\ att[r.att].work \in Int
        /\ att'[r.att].cutoff \in Int /\ att'[r.att].work \in Int
    BY <1>0, <2>1 DEF TypeOK, AttemptDocs
  <2> QED
    BY <2>1, <2>2, <2>3, NeverTakenBack
<1>2. ASSUME NEW r \in reports, RecordProgress(r), NEW m \in reports'
      PROVE  Trails(m)
  <2>1. m \in reports \/ /\ m.att = r.att
                         /\ m.reply.reason # "stale" => /\ m.reply.cutoff = att'[r.att].cutoff
                                                        /\ m.reply.work = att'[r.att].work
    BY <1>0, <1>2 DEF RecordProgress, TypeOK
  <2>2. r.att \in Attempts /\ Minted(r.att)'
    BY <1>1, <1>0 DEF TypeOK
  <2>3. att'[r.att].cutoff \in Int /\ att'[r.att].work \in Int
    BY <2>2 DEF TypeOK, AttemptDocs
  <2> QED
    BY <1>1, <2>1, <2>2, <2>3 DEF Answered
<1>3. ASSUME NEW a \in Attempts, NEW f \in Prints, Report(a, f), NEW m \in reports'
      PROVE  Trails(m)
  <2>1. m \in reports \/ (m.att = a /\ m.reply = NoReply)
    BY <1>3 DEF Report
  <2>2. Minted(a)'
    BY <1>0, <1>3, NeverTakenBack DEF Report, BlankUntilMinted, NoCall, Minted
  <2> QED
    BY <1>1, <2>1, <2>2 DEF Answered
<1>4. ASSUME NEW r \in reports, ReplyArrives(r) \/ ReplyLost(r)
      PROVE  reports' \subseteq reports
  BY <1>4 DEF ReplyArrives, ReplyLost
<1>5. ASSUME NEW a \in Attempts,
             \/ Dispatch(a) \/ Claim(a) \/ Start(a) \/ RenewLease(a) \/ DeadlineFires(a)
             \/ HarnessCuts(a) \/ WorkReturns(a) \/ WorkerGone(a) \/ MarkPayloadReady(a)
             \/ UpgradeRunDepth(a) \/ SubmitResult(a) \/ ExpireQueued(a) \/ ReapLostWorker(a)
      PROVE  reports' \subseteq reports
  BY <1>5 DEF Dispatch, Claim, Start, RenewLease, DeadlineFires, HarnessCuts, WorkReturns,
     WorkerGone, MarkPayloadReady, UpgradeRunDepth, SubmitResult, ExpireQueued, ReapLostWorker
<1>6. ASSUME Pause \/ Resume \/ Tick \/ UNCHANGED vars
      PROVE  reports' \subseteq reports
  BY <1>6 DEF Pause, Resume, Tick, vars
<1> HIDE DEF Trails
<1>7. \A m \in reports' : Trails(m)
  BY <1>1, <1>2, <1>3, <1>4, <1>5, <1>6 DEF Next
<1>8. \A b \in Attempts : gw'[b].state = "running" => gw'[b].innerWork <= att'[b].work
  BY WatchdogStep
<1> QED
  BY <1>7, <1>8 DEF MessagesTrailTheStore, Trails

-----------------------------------------------------------------------------
(* The theorems.                                                           *)

\* The initial state satisfies the whole invariant.
LEMMA InitInductive == Init => Inductive
<1> SUFFICES ASSUME Init PROVE Inductive
  OBVIOUS
<1>1. TypeOK
  BY InitTyped
<1>2. BlankUntilMinted /\ PrintsAreFinite
  BY FS_EmptySet DEF Init, BlankUntilMinted, PrintsAreFinite, Absent
<1>3. ReservesSurvive /\ WindowIsEarned /\ NoStockpile
  BY DEF Init, ReservesSurvive, WindowIsEarned, NoStockpile, Minted, Absent
<1>4. PrintsEarnOnce
  <2>1. \A a \in Attempts : att[a].prints = {} /\ att[a].count = 0
    BY DEF Init, Absent
  <2>2. task.earned = {}
    BY DEF Init
  <2> QED
    BY <2>1, <2>2, FS_EmptySet DEF PrintsEarnOnce
<1>5. WatchdogsTrailTheStore /\ MessagesTrailTheStore
  BY DEF Init, WatchdogsTrailTheStore, MessagesTrailTheStore, NoCall
<1> QED
  BY <1>1, <1>2, <1>3, <1>4, <1>5 DEF Inductive

\* The invariant holds for every admitted policy and every number of attempts,
\* milestones, reports in flight and pauses.
THEOREM LeaseSafety == Spec => []Inductive
<1>1. Inductive /\ [Next]_vars => Inductive'
  <2>1. Inductive => TypeOK
    BY DEF Inductive
  <2> QED
    BY <2>1, TypeStep, BlankStep, ReservesStep, WindowStep, PrintsStep, StockStep, WatchdogStep,
       MessagesStep DEF Inductive
<1> QED
  BY InitInductive, <1>1, PTL DEF Spec

\* Deadlines stay instants, counts stay within their bounds.
THEOREM TypeCorrect == Spec => []TypeOK
<1>1. Inductive => TypeOK
  BY DEF Inductive
<1> QED
  BY LeaseSafety, <1>1, PTL

\* recordAttemptProgressAndExtend: wherever the cap clips the last extension, the A
\* and cleanup reserves keep their length and no lease outlives its attempt.
THEOREM ReservesAlwaysSurvive == Spec => []ReservesSurvive
<1>1. Inductive => ReservesSurvive
  BY DEF Inductive
<1> QED
  BY LeaseSafety, <1>1, PTL

\* recordAttemptProgressAndExtend: the window is what the milestones earned.
THEOREM WindowsAreEarned == Spec => []WindowIsEarned
<1>1. Inductive => WindowIsEarned
  BY DEF Inductive
<1> QED
  BY LeaseSafety, <1>1, PTL

\* durableProgressFingerprints: a document state earns time once per task, through
\* lost replies and new attempts.
THEOREM PrintsAlwaysEarnOnce == Spec => []PrintsEarnOnce
<1>1. Inductive => PrintsEarnOnce
  BY DEF Inductive
<1> QED
  BY LeaseSafety, <1>1, PTL

\* extensionLeadMs: beyond the initial window nobody holds more than one lead and
\* one extension.
THEOREM TimeIsNotStockpiled == Spec => []NoStockpile
<1>1. Inductive => NoStockpile
  BY DEF Inductive
<1> QED
  BY LeaseSafety, <1>1, PTL

\* runBoundedModelCall, setRunLivenessHardCapAt and upgradeRunDeadline: the gateway's
\* timer never believes in more time than the store gave, and the harness's cap does so
\* only with the cap of a profile to which the reflector deepened the run.
THEOREM WatchdogsAlwaysTrail == Spec => []WatchdogsTrailTheStore
<1>1. Inductive => WatchdogsTrailTheStore
  BY DEF Inductive
<1> QED
  BY LeaseSafety, <1>1, PTL

\* recordAttemptProgressAndExtend: "the deadline is never resurrected", nor moved
\* under a pause or behind the marker.
THEOREM DeadlinesAreNotResurrected == Spec => NoResurrection
<1> DEFINE Still == \A a \in Attempts :
       Minted(a) /\ (att[a].cutoff <= now \/ att[a].marked \/ job.control # "NONE") =>
         UNCHANGED <<att[a].cutoff, att[a].work, att[a].hard>>
<1>1. Inductive /\ [Next]_vars => Still
  <2> SUFFICES ASSUME TypeOK, [Next]_vars, NEW b \in Attempts, Minted(b),
                      att[b].cutoff <= now \/ att[b].marked \/ job.control # "NONE"
               PROVE  UNCHANGED <<att[b].cutoff, att[b].work, att[b].hard>>
    BY DEF Inductive
  <2>1. CASE \A d \in Attempts : Kept(d)
    BY <2>1 DEF Kept
  <2>2. ASSUME NEW a \in Attempts, Dispatch(a)
        PROVE  UNCHANGED <<att[b].cutoff, att[b].work, att[b].hard>>
    BY <2>2, Minting DEF Minted
  <2>3. ASSUME NEW a \in Attempts, NEW f \in Prints, Earn(a, f)
        PROVE  UNCHANGED <<att[b].cutoff, att[b].work, att[b].hard>>
    <3>1. att[b].cutoff \in Int /\ now \in Int
      BY DEF TypeOK, AttemptDocs
    <3>2. b # a
      BY <2>3, <3>1 DEF Earn, StillEarning
    <3> QED
      BY <2>3, <3>2, EarningMoves
  <2> QED
    BY <2>1, <2>2, <2>3, DocumentSteps
<1> QED
  BY LeaseSafety, <1>1, PTL DEF Spec, NoResurrection

\* runBoundedModelCall: "max prevents two concurrent replies moving the watchdog
\* back"; the harness's cap follows the same rule, for replies and deeper profiles alike.
THEOREM WatchdogsNeverRetreat == Spec => WatchdogsOnlyAdvance
<1>1. Inductive /\ [Next]_vars =>
        \A a \in Attempts : gw[a].state = "running" /\ gw'[a].state = "running" =>
           gw'[a].earned >= gw[a].earned /\ gw'[a].inner >= gw[a].inner
  BY CallStays
<1> QED
  BY LeaseSafety, <1>1, PTL DEF Spec, WatchdogsOnlyAdvance

=============================================================================
