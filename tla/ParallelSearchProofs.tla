------------------------ MODULE ParallelSearchProofs ------------------------
(***************************************************************************)
(* Proofs about the paid GPU search of module ParallelSearch, for every    *)
(* number of stages, ranges, GPUs, revisions and every budget.             *)
(***************************************************************************)
EXTENDS ParallelSearch, TLAPS, FiniteSetTheorems, SequenceTheorems,
        WellFoundedInduction

(***************************************************************************)
(* The helpers that compute on a job return a job.                         *)
(***************************************************************************)
\* A non-empty set of naturals has a least element, so Least is well defined.
LEMMA LeastInSet ==
    ASSUME NEW S \in SUBSET Nat, S # {}
    PROVE  Least(S) \in S /\ \A b \in S : Least(S) <= b
<1>. DEFINE lt == {ss \in Nat \X Nat : ss[1] < ss[2]}
<1>1. IsWellFoundedOn(lt, Nat)
  BY NatLessThanWellFounded DEF OpToRel
<1>2. \E a \in S : \A b \in S : ~(<<b, a>> \in lt)
  <2>. HIDE DEF lt
  <2>. QED  BY <1>1, WFMin
<1>3. \E a \in S : \A b \in S : a <= b
  <2>1. PICK a \in S : \A b \in S : ~(<<b, a>> \in lt)
    BY <1>2
  <2>2. ASSUME NEW b \in S  PROVE  a <= b
    <3>1. a \in Nat /\ b \in Nat /\ <<b, a>> \in Nat \X Nat
      OBVIOUS
    <3>2. <<b, a>>[1] = b /\ <<b, a>>[2] = a
      OBVIOUS
    <3>3. ~(b < a)
      BY <2>1, <3>1, <3>2
    <3>. QED  BY <3>1, <3>3
  <2>. QED  BY <2>2
<1>. QED
  BY <1>3 DEF Least

\* A job that a step of the coordinator may hold: past the last search stage only
\* once the search is over.
JobOK(job) ==
    /\ job \in Job
    /\ job.status \notin Terminal => job.stage \in SearchStages

LEMMA NewJobOK == JobOK(NewJob)
BY SizesAssumption
   DEF JobOK, Job, NewJob, Statuses, Reasons, Revisions, Stages, Verification, SearchStages,
       Attempts, Terminal

LEMMA MeteredOK ==
    ASSUME NEW job, JobOK(job), NEW q
    PROVE  /\ JobOK(Metered(job, q))
           /\ Metered(job, q).status = job.status
           /\ Metered(job, q).stage = job.stage
           /\ Metered(job, q).reserved = job.reserved
           /\ Metered(job, q).submissions = job.submissions
<1>. DEFINE slots == {IF s.req = q THEN [s EXCEPT !.metered = TRUE] ELSE s : s \in job.slots}
<1>1. slots \subseteq Slot
  BY DEF JobOK, Job, Slot
<1>2. Metered(job, q) = [job EXCEPT !.usage = @ + 1, !.slots = slots]
  BY DEF Metered
<1>. HIDE DEF slots
<1>3. job.usage + 1 \in Nat
  BY DEF JobOK, Job
<1>4. [job EXCEPT !.usage = @ + 1, !.slots = slots] \in Job
  BY <1>1, <1>3 DEF JobOK, Job
<1>5. /\ Metered(job, q).status = job.status
      /\ Metered(job, q).stage = job.stage
      /\ Metered(job, q).reserved = job.reserved
      /\ Metered(job, q).submissions = job.submissions
  BY <1>2 DEF JobOK, Job
<1>. QED  BY <1>2, <1>4, <1>5 DEF JobOK

LEMMA DropOK ==
    ASSUME NEW job, JobOK(job), NEW s
    PROVE  /\ JobOK(Drop(job, s))
           /\ Drop(job, s).status = job.status
           /\ Drop(job, s).stage = job.stage
           /\ Drop(job, s).reserved = job.reserved
           /\ Drop(job, s).submissions = job.submissions
BY DEF Drop, JobOK, Job

LEMMA PauseOK ==
    ASSUME NEW job, JobOK(job), NEW reason \in Reasons,
           job.status \in {"queued", "searching"}
    PROVE  /\ JobOK(Pause(job, reason))
           /\ Pause(job, reason).reserved = job.reserved
           /\ Pause(job, reason).submissions = job.submissions
BY DEF Pause, JobOK, Job, Statuses, Terminal

LEMMA PollingOK ==
    ASSUME NEW job, JobOK(job)
    PROVE  /\ JobOK(Polling(job))
           /\ Polling(job).status = job.status \/ Polling(job).status = "searching"
           /\ Polling(job).slots = job.slots
           /\ Polling(job).reserved = job.reserved
           /\ Polling(job).submissions = job.submissions
BY DEF Polling, JobOK, Job, Statuses, Terminal

LEMMA RetryAllOK ==
    ASSUME NEW job, JobOK(job)
    PROVE  /\ JobOK(RetryAll(job))
           /\ RetryAll(job).reserved = job.reserved
           /\ RetryAll(job).submissions = job.submissions
<1>. DEFINE slots == {[s EXCEPT !.retry = TRUE] : s \in job.slots}
<1>1. slots \subseteq Slot
  <2>1. \A s \in Slot : [s EXCEPT !.retry = TRUE] \in Slot
    BY DEF Slot
  <2>2. job.slots \subseteq Slot
    BY DEF JobOK, Job
  <2>. QED  BY <2>1, <2>2
<1>2. RetryAll(job) = IF job.retryRequested
                      THEN [job EXCEPT !.retryRequested = FALSE, !.slots = slots] ELSE job
  BY DEF RetryAll
<1>. HIDE DEF slots
<1>. QED  BY <1>1, <1>2 DEF JobOK, Job

LEMMA VerifiedHitOK ==
    ASSUME NEW job, JobOK(job), job.stage \in SearchStages
    PROVE  /\ JobOK(VerifiedHit(job))
           /\ VerifiedHit(job).reserved = job.reserved
           /\ VerifiedHit(job).submissions = job.submissions
<1>1. job.stage + 1 \in Stages
  BY SizesAssumption DEF SearchStages, Stages, Verification
<1>2. job.stage + 1 # Verification => job.stage + 1 \in SearchStages
  BY SizesAssumption DEF SearchStages, Verification
<1>. DEFINE status == IF job.stage + 1 = Verification
                      THEN "awaiting_authorization" ELSE "queued"
            next == [job EXCEPT !.stage = @ + 1, !.attempt = 0, !.completed = {},
                                !.status = status]
<1>3. status \in Statuses /\ 0 \in 0..RangeSize /\ {} \in SUBSET Attempts
  BY SizesAssumption DEF Statuses
<1>4. VerifiedHit(job) = next
  BY DEF VerifiedHit
<1>5. status \notin Terminal => job.stage + 1 # Verification
  BY DEF Terminal
<1>. HIDE DEF status
<1>6. next \in Job
  BY <1>1, <1>3 DEF JobOK, Job
<1>7. /\ next.status = status /\ next.stage = job.stage + 1
      /\ next.reserved = job.reserved /\ next.submissions = job.submissions
  BY DEF JobOK, Job
<1>. QED
  BY <1>2, <1>4, <1>5, <1>6, <1>7 DEF JobOK

\* The credit cursor never passes the end of the range.
LEMMA CreditOK ==
    ASSUME NEW job, JobOK(job), NEW a \in Attempts
    PROVE  /\ JobOK(Credit(job, a))
           /\ Credit(job, a).status = job.status
           /\ Credit(job, a).reserved = job.reserved
           /\ Credit(job, a).submissions = job.submissions
<1>. DEFINE completed == job.completed \cup {a}
            open == {b \in job.attempt..RangeSize : b \notin completed}
            kept == {b \in completed : b < job.attempt \/ b > Least(open)}
<1>1. open \subseteq 0..RangeSize /\ RangeSize \in open
  BY SizesAssumption DEF JobOK, Job, Attempts
<1>2. Least(open) \in 0..RangeSize
  BY <1>1, LeastInSet, SizesAssumption
<1>3. kept \subseteq Attempts
  BY DEF JobOK, Job
<1>4. Credit(job, a) = [job EXCEPT !.attempt = Least(open), !.completed = kept]
  BY DEF Credit
<1>. HIDE DEF open, kept
<1>. QED  BY <1>2, <1>3, <1>4 DEF JobOK, Job
(***************************************************************************)
(* Ticks.  Copies says that a tick that is not stale counts the same       *)
(* charges as the saved job; NoNewPost that no execution came to be about  *)
(* to POST.                                                                *)
(***************************************************************************)
Active(t) == t.pc \notin {"closed", "wait"}

TickOK(t) ==
    /\ t \in Tick
    /\ JobOK(t.job)
    /\ t.pc \in {"fill", "post", "sent"} => t.job.status \in {"queued", "searching"}
    /\ t.pc \in {"post", "sent"} => \E s \in t.job.slots : s.req = t.req
    /\ t.pc \in {"fill", "sent", "finish"} => ~t.stale

Copies(t, job) ==
    Active(t) /\ ~t.stale =>
        t.job.reserved = job.reserved /\ t.job.submissions = job.submissions

TicksOK ==
    /\ tick \in [Revisions -> Tick]
    /\ \A r \in Revisions : TickOK(tick[r]) /\ Copies(tick[r], row)

NoNewPost ==
    \A r \in Revisions : tick'[r].pc = "post" =>
        tick[r].pc = "post" /\ tick'[r].req = tick[r].req

LEMMA AtOK ==
    ASSUME NEW pc \in {"closed", "wait", "drain", "poll", "finish"},
           NEW job, JobOK(job)
    PROVE  /\ [At(pc) EXCEPT !.job = job] \in Tick
           /\ TickOK([At(pc) EXCEPT !.job = job])
<1>1. At(pc) \in Tick
  BY NewJobOK DEF At, Tick, JobOK
<1>2. [At(pc) EXCEPT !.job = job] \in Tick
  BY <1>1 DEF Tick, JobOK
<1>3. /\ [At(pc) EXCEPT !.job = job].job = job
      /\ [At(pc) EXCEPT !.job = job].pc = pc
      /\ [At(pc) EXCEPT !.job = job].stale = FALSE
  BY DEF At
<1>. QED  BY <1>2, <1>3 DEF TickOK

\* A tick that ended, or is yet to start, holds no copy.
LEMMA IdleOK ==
    ASSUME NEW pc \in {"closed", "wait"}
    PROVE  /\ At(pc) \in Tick
           /\ At(pc).pc = pc
           /\ TickOK(At(pc))
           /\ \A job : Copies(At(pc), job)
<1>1. At(pc) \in Tick /\ At(pc).job = NewJob /\ At(pc).pc = pc
  BY NewJobOK DEF At, Tick, JobOK
<1>. QED  BY <1>1, NewJobOK DEF TickOK, Copies, Active

LEMMA StaledOK ==
    ASSUME NEW t, TickOK(t)
    PROVE  /\ Staled(t) \in Tick
           /\ TickOK(Staled(t))
           /\ \A job : Copies(Staled(t), job)
           /\ Staled(t).pc = "post" => t.pc = "post" /\ Staled(t).req = t.req
<1>1. CASE t.pc \in {"fill", "sent", "finish"}
  BY <1>1, IdleOK DEF Staled
<1>2. CASE t.pc \in {"drain", "poll", "post"}
  <2>1. Staled(t) = [t EXCEPT !.stale = TRUE]
    BY <1>2 DEF Staled
  <2>2. /\ Staled(t) \in Tick /\ Staled(t).stale /\ Staled(t).pc = t.pc
        /\ Staled(t).job = t.job /\ Staled(t).req = t.req
    BY <2>1 DEF TickOK, Tick
  <2>. QED  BY <1>2, <2>2 DEF TickOK, Copies
<1>3. CASE t.pc \in {"closed", "wait"}
  <2>1. Staled(t) = t
    BY <1>3 DEF Staled
  <2>. QED  BY <1>3, <2>1 DEF TickOK, Copies, Active
<1>. QED  BY <1>1, <1>2, <1>3 DEF TickOK, Tick

LEMMA OthersStaleOK ==
    ASSUME TicksOK
    PROVE  /\ OthersStale \in [Revisions -> Tick]
           /\ \A r \in Revisions :
                /\ TickOK(OthersStale[r])
                /\ \A job : Copies(OthersStale[r], job)
                /\ OthersStale[r].pc = "post" =>
                     tick[r].pc = "post" /\ OthersStale[r].req = tick[r].req
BY StaledOK DEF TicksOK, OthersStale

\* The row was written, and every execution lost its claim on it.
LEMMA AllStaleOK ==
    ASSUME TicksOK, tick' = OthersStale
    PROVE  TicksOK' /\ NoNewPost
BY OthersStaleOK DEF TicksOK, NoNewPost

\* The row was written by or on behalf of execution r, which goes on as t.
LEMMA OneGoesOnOK ==
    ASSUME TicksOK, NEW r \in Revisions, NEW t, NEW job, row' = job,
           tick' = [OthersStale EXCEPT ![r] = t],
           t \in Tick, TickOK(t), Copies(t, job),
           t.pc = "post" => tick[r].pc = "post" /\ t.req = tick[r].req
    PROVE  TicksOK' /\ NoNewPost
<1>1. tick' \in [Revisions -> Tick]
  BY OthersStaleOK
<1>2. \A x \in Revisions : tick'[x] = IF x = r THEN t ELSE OthersStale[x]
  BY OthersStaleOK
<1>. QED  BY <1>1, <1>2, OthersStaleOK DEF TicksOK, NoNewPost

LEMMA SaveOK ==
    ASSUME TicksOK, NEW r \in Revisions, NEW t, NEW job, Save(r, job, t),
           t \in Tick, TickOK(t), Copies(t, job),
           t.pc = "post" => tick[r].pc = "post" /\ t.req = tick[r].req
    PROVE  TicksOK' /\ NoNewPost
BY OneGoesOnOK DEF Save

LEMMA ContinueOK ==
    ASSUME TicksOK, NEW r \in Revisions, NEW t, Continue(r, t), UNCHANGED row,
           t \in Tick, TickOK(t), Copies(t, row),
           t.pc = "post" => tick[r].pc = "post" /\ t.req = tick[r].req
    PROVE  TicksOK' /\ NoNewPost
<1>1. tick' \in [Revisions -> Tick]
  BY DEF Continue, TicksOK
<1>2. \A x \in Revisions : tick'[x] = IF x = r THEN t ELSE tick[x]
  BY DEF Continue, TicksOK
<1>. QED  BY <1>1, <1>2 DEF TicksOK, NoNewPost

(***************************************************************************)
(* Observing and settling one slot.                                        *)
(***************************************************************************)
RowOK ==
    /\ JobOK(row')
    /\ row'.reserved = row.reserved
    /\ row'.submissions = row.submissions

LEMMA TodoOK ==
    ASSUME TicksOK, NEW r \in Revisions, NEW s \in Todo(r)
    PROVE  /\ s \in Slot
           /\ JobOK(tick[r].job)
           /\ JobOK(Seen(r, s))
           /\ Seen(r, s).status = tick[r].job.status
           /\ Seen(r, s).stage = tick[r].job.stage
           /\ Seen(r, s).reserved = tick[r].job.reserved
           /\ Seen(r, s).submissions = tick[r].job.submissions
<1>1. JobOK(tick[r].job) /\ s \in Slot
  BY DEF TicksOK, TickOK, Todo, JobOK, Job
<1>. QED  BY <1>1, MeteredOK DEF Seen

LEMMA DoneOK ==
    ASSUME TicksOK, NEW r \in Revisions, NEW s
    PROVE  /\ Done(r, s) \in Tick
           /\ Done(r, s).pc = tick[r].pc
           /\ Done(r, s).stale = tick[r].stale
           /\ Done(r, s).job = tick[r].job
           /\ Done(r, s).stop = tick[r].stop
           /\ Done(r, s).review = tick[r].review
BY DEF Done, TicksOK, TickOK, Tick

\* The slot is observed and the tick goes on as t, on the charges it had.
LEMMA ObserveOK ==
    ASSUME TicksOK, JobOK(row), NEW r \in Revisions, NEW s, NEW t,
           Observe(r, s, t), t \in Tick, JobOK(t.job),
           t.pc = tick[r].pc, t.pc \in {"drain", "poll"}, t.stale = tick[r].stale,
           t.job.reserved = tick[r].job.reserved,
           t.job.submissions = tick[r].job.submissions
    PROVE  TicksOK' /\ NoNewPost /\ RowOK
<1>1. TickOK(t) /\ t.pc # "post"
  BY DEF TickOK
<1>2. Copies(t, row)
  BY DEF Copies, Active, TicksOK
<1>3. CASE NeedsMeter(s)
  <2>1. Save(r, Metered(row, s.req), t)
    BY <1>3 DEF Observe
  <2>2. row' = Metered(row, s.req) /\ RowOK
    BY <2>1, MeteredOK DEF Save, RowOK
  <2>3. Copies(t, Metered(row, s.req))
    BY <1>2, MeteredOK DEF Copies
  <2>. QED  BY <1>1, <2>1, <2>2, <2>3, SaveOK
<1>4. CASE ~NeedsMeter(s)
  <2>1. Continue(r, t) /\ row' = row
    BY <1>4 DEF Observe
  <2>. QED  BY <1>1, <1>2, <2>1, ContinueOK DEF RowOK
<1>. QED  BY <1>3, <1>4

\* The same when the observation ends the tick.
LEMMA ObserveEndsOK ==
    ASSUME TicksOK, JobOK(row), NEW r \in Revisions, NEW s,
           Observe(r, s, At("closed"))
    PROVE  TicksOK' /\ NoNewPost /\ RowOK
<1>1. CASE NeedsMeter(s)
  <2>1. Save(r, Metered(row, s.req), At("closed"))
    BY <1>1 DEF Observe
  <2>2. row' = Metered(row, s.req) /\ RowOK
    BY <2>1, MeteredOK DEF Save, RowOK
  <2>. QED  BY <2>1, <2>2, SaveOK, IdleOK
<1>2. CASE ~NeedsMeter(s)
  <2>1. Continue(r, At("closed")) /\ row' = row
    BY <1>2 DEF Observe
  <2>. QED  BY <2>1, ContinueOK, IdleOK DEF RowOK
<1>. QED  BY <1>1, <1>2

(***************************************************************************)
(* What AWS Batch holds: cancelling a job, or its end, names no request.   *)
(***************************************************************************)
BatchOK ==
    /\ batch' \in Seq(BatchJob)
    /\ Len(batch') = Len(batch)
    /\ \A i \in 1..Len(batch) : batch'[i].req = batch[i].req

LEMMA BatchUnchangedOK ==
    ASSUME batch \in Seq(BatchJob), UNCHANGED batch
    PROVE  BatchOK
BY DEF BatchOK

LEMMA BatchEntryOK ==
    ASSUME batch \in Seq(BatchJob), NEW i, NEW e \in BatchJob,
           i \in DOMAIN batch => e.req = batch[i].req,
           batch' = [batch EXCEPT ![i] = e]
    PROVE  BatchOK
<1>1. DOMAIN batch = 1..Len(batch) /\ Len(batch) \in Nat
  BY LenProperties
<1>2. CASE i \in 1..Len(batch)
  BY <1>1, <1>2, ExceptSeq DEF BatchOK
<1>3. CASE i \notin 1..Len(batch)
  <2>1. batch' = batch
    BY <1>1, <1>3
  <2>. QED  BY <2>1 DEF BatchOK
<1>. QED  BY <1>2, <1>3

LEMMA CancelOK ==
    ASSUME batch \in Seq(BatchJob), NEW i, Cancel(i)
    PROVE  BatchOK
<1>1. DOMAIN batch = 1..Len(batch) /\ Len(batch) \in Nat
  BY LenProperties
<1>2. CASE i \in 1..Len(batch)
  <2>1. batch[i] \in BatchJob
    BY <1>2, ElementOfSeq
  <2>2. [batch[i] EXCEPT !.cancelled = TRUE] \in BatchJob
    BY <2>1 DEF BatchJob
  <2>3. [batch[i] EXCEPT !.cancelled = TRUE].req = batch[i].req
    BY <2>1 DEF BatchJob
  <2>4. batch' = [batch EXCEPT ![i] = [batch[i] EXCEPT !.cancelled = TRUE]]
    BY <1>1, <1>2 DEF Cancel
  <2>. QED  BY <2>2, <2>3, <2>4, BatchEntryOK
<1>3. CASE i \notin 1..Len(batch)
  <2>1. batch' = batch
    BY <1>1, <1>3 DEF Cancel
  <2>. QED  BY <2>1 DEF BatchOK
<1>. QED  BY <1>2, <1>3

LEMMA EndsOK ==
    ASSUME batch \in Seq(BatchJob), NEW i \in DOMAIN batch, NEW outcome \in AllOutcomes,
           Ends(i, outcome)
    PROVE  BatchOK
<1>1. DOMAIN batch = 1..Len(batch) /\ Len(batch) \in Nat
  BY LenProperties
<1>2. batch[i] \in BatchJob
  BY <1>1, ElementOfSeq
<1>3. [batch[i] EXCEPT !.state = outcome] \in BatchJob
  BY <1>2 DEF BatchJob, BatchState
<1>4. [batch[i] EXCEPT !.state = outcome].req = batch[i].req
  BY <1>2 DEF BatchJob
<1>5. batch' = [batch EXCEPT ![i] = [batch[i] EXCEPT !.state = outcome]]
  BY <1>1 DEF Ends
<1>. QED  BY <1>3, <1>4, <1>5, BatchEntryOK

(***************************************************************************)
(* Every step but a reservation and a POST is quiet: it charges nothing,   *)
(* submits nothing and brings no execution closer to a POST.               *)
(***************************************************************************)
Consistent ==
    /\ JobOK(row)
    /\ TicksOK
    /\ batch \in Seq(BatchJob)
    /\ refused \subseteq Nat

Quiet ==
    /\ RowOK
    /\ TicksOK'
    /\ NoNewPost
    /\ BatchOK
    /\ refused' = refused

LEMMA FailQuiet ==
    ASSUME Consistent, NEW r \in Revisions, Fail(r)
    PROVE  Quiet
<1>1. Continue(r, At("closed")) /\ row' = row /\ UNCHANGED batch /\ refused' = refused
  BY DEF Fail
<1>. QED  BY <1>1, ContinueOK, IdleOK, BatchUnchangedOK DEF Consistent, Quiet, RowOK

LEMMA ReadDoneQuiet ==
    ASSUME Consistent, NEW r \in Revisions, ReadDone(r)
    PROVE  Quiet
BY FailQuiet DEF ReadDone, Fail

LEMMA ReadOffQuiet ==
    ASSUME Consistent, NEW r \in Revisions, ReadOff(r)
    PROVE  Quiet
<1>1. CASE row.status \in Terminal
  BY <1>1, FailQuiet DEF ReadOff, Fail
<1>2. CASE row.status \notin Terminal
  <2>. DEFINE lost == row.status = "searching" /\ Unknown(row)
              next == [row EXCEPT
                         !.status = "paused",
                         !.error = @ \cup {"other"} \cup (IF lost THEN {"unknown"} ELSE {}),
                         !.oneSubmissionAllowed = @ /\ ~lost]
  <2>1. row' = next /\ tick' = [OthersStale EXCEPT ![r] = At("closed")]
        /\ UNCHANGED batch /\ refused' = refused
    BY <1>2 DEF ReadOff
  <2>2. lost \in BOOLEAN
    BY DEF Unknown
  <2>. HIDE DEF lost
  <2>3. next \in Job
    BY <2>2 DEF Consistent, JobOK, Job, Statuses, Reasons
  <2>4. JobOK(next) /\ next.reserved = row.reserved /\ next.submissions = row.submissions
    BY <1>2, <2>3 DEF Consistent, JobOK, Job
  <2>. HIDE DEF next
  <2>5. RowOK
    BY <2>1, <2>4 DEF RowOK
  <2>6. TicksOK' /\ NoNewPost
    BY <2>1, OneGoesOnOK, IdleOK DEF Consistent
  <2>. QED  BY <2>1, <2>5, <2>6, BatchUnchangedOK DEF Consistent, Quiet
<1>. QED  BY <1>1, <1>2

LEMMA ReadDrainQuiet ==
    ASSUME Consistent, NEW r \in Revisions, ReadDrain(r)
    PROVE  Quiet
<1>. DEFINE todo == {s.req : s \in {x \in row.slots : x.id # 0}}
            t == [[At("drain") EXCEPT !.job = row] EXCEPT !.todo = todo]
<1>1. [At("drain") EXCEPT !.job = row, !.todo = todo] = t
  BY DEF At
<1>2. Continue(r, t) /\ row' = row /\ UNCHANGED batch /\ refused' = refused
  BY <1>1 DEF ReadDrain
<1>3. todo \subseteq Nat
  BY DEF Consistent, JobOK, Job, Slot
<1>. HIDE DEF todo
<1>4. [At("drain") EXCEPT !.job = row] \in Tick /\ JobOK(row)
  BY AtOK DEF Consistent
<1>5. t \in Tick
  BY <1>3, <1>4 DEF Tick
<1>6. t.pc = "drain" /\ t.job = row
  BY DEF At
<1>. HIDE DEF t
<1>7. TickOK(t) /\ Copies(t, row)
  BY <1>4, <1>5, <1>6 DEF TickOK, Copies
<1>. QED
  BY <1>2, <1>5, <1>6, <1>7, ContinueOK, BatchUnchangedOK DEF Consistent, Quiet, RowOK

LEMMA ReadUnknownQuiet ==
    ASSUME Consistent, NEW r \in Revisions, ReadUnknown(r)
    PROVE  Quiet
<1>. DEFINE next == [Pause(row, "unknown") EXCEPT !.oneSubmissionAllowed = FALSE]
<1>1. row' = next /\ tick' = [OthersStale EXCEPT ![r] = At("closed")]
      /\ UNCHANGED batch /\ refused' = refused
  BY DEF ReadUnknown
<1>2. row.status \in {"queued", "searching"}
  BY DEF ReadUnknown, Polling
<1>3. JobOK(Pause(row, "unknown"))
      /\ Pause(row, "unknown").reserved = row.reserved
      /\ Pause(row, "unknown").submissions = row.submissions
  BY <1>2, PauseOK DEF Consistent, Reasons
<1>4. JobOK(next) /\ next.reserved = row.reserved /\ next.submissions = row.submissions
  BY <1>3 DEF JobOK, Job
<1>. HIDE DEF next
<1>5. TicksOK' /\ NoNewPost
  BY <1>1, OneGoesOnOK, IdleOK DEF Consistent
<1>. QED  BY <1>1, <1>4, <1>5, BatchUnchangedOK DEF Consistent, Quiet, RowOK

LEMMA ReadPollQuiet ==
    ASSUME Consistent, NEW r \in Revisions, ReadPoll(r)
    PROVE  Quiet
<1>. DEFINE todo == {s.req : s \in row.slots}
            job == RetryAll(Polling(row))
            t == [[At("poll") EXCEPT !.job = job] EXCEPT !.todo = todo]
<1>1. [At("poll") EXCEPT !.job = job, !.todo = todo] = t
  BY DEF At
<1>2. row' = Polling(row) /\ UNCHANGED batch /\ refused' = refused
  BY DEF ReadPoll
<1>3. tick' = [(IF row' = row THEN tick ELSE OthersStale) EXCEPT ![r] = t]
  BY <1>1 DEF ReadPoll
<1>4. todo \subseteq Nat
  BY DEF Consistent, JobOK, Job, Slot
<1>. HIDE DEF todo
<1>5. RowOK
  BY <1>2, PollingOK DEF Consistent, RowOK
<1>6. JobOK(job) /\ job.reserved = row'.reserved /\ job.submissions = row'.submissions
  BY <1>2, PollingOK, RetryAllOK DEF Consistent
<1>. HIDE DEF job
<1>7. [At("poll") EXCEPT !.job = job] \in Tick
  BY <1>6, AtOK
<1>8. t \in Tick
  BY <1>4, <1>7 DEF Tick
<1>9. t.pc = "poll" /\ t.job = job
  BY DEF At
<1>. HIDE DEF t
<1>10. TickOK(t) /\ Copies(t, row') /\ Copies(t, row)
  BY <1>5, <1>6, <1>8, <1>9 DEF TickOK, Copies, RowOK
<1>11. TicksOK' /\ NoNewPost
  <2>1. CASE row' = row
    BY <1>3, <1>8, <1>9, <1>10, <2>1, ContinueOK DEF Continue, Consistent
  <2>2. CASE row' # row
    BY <1>3, <1>8, <1>9, <1>10, <2>2, OneGoesOnOK DEF Consistent
  <2>. QED  BY <2>1, <2>2
<1>. QED  BY <1>2, <1>5, <1>11, BatchUnchangedOK DEF Consistent, Quiet

LEMMA UnreadableQuiet ==
    ASSUME Consistent, NEW r \in Revisions, NEW s \in Todo(r), Unreadable(r, s)
    PROVE  Quiet
<1>1. CASE Observe(r, s, At("closed"))
  BY <1>1, ObserveEndsOK, BatchUnchangedOK DEF Unreadable, Consistent, Quiet
<1>2. CASE tick[r].stale /\ Continue(r, At("closed")) /\ UNCHANGED row
  BY <1>2, FailQuiet DEF Unreadable, Fail
<1>. QED  BY <1>1, <1>2 DEF Unreadable

LEMMA DrainQuiet ==
    ASSUME Consistent, NEW r \in Revisions, Drain(r)
    PROVE  Quiet
<1>1. PICK s \in Todo(r) : DrainRunning(r, s) \/ DrainEnded(r, s) \/ Unreadable(r, s)
  BY DEF Drain
<1>2. tick[r].pc = "drain"
  BY DEF Drain
<1>3. CASE DrainRunning(r, s)
  <2>. DEFINE t == [Done(r, s) EXCEPT !.running = TRUE]
  <2>1. /\ t \in Tick /\ t.pc = "drain" /\ t.stale = tick[r].stale
        /\ t.job = tick[r].job
    BY <1>2, DoneOK DEF Consistent, Tick
  <2>2. Continue(r, t) /\ Cancel(s.id) /\ row' = row /\ refused' = refused
    BY <1>3 DEF DrainRunning
  <2>. HIDE DEF t
  <2>3. TickOK(t) /\ Copies(t, row)
    BY <1>2, <2>1 DEF Consistent, TicksOK, TickOK, Copies, Active
  <2>4. TicksOK' /\ NoNewPost
    BY <2>1, <2>2, <2>3, ContinueOK DEF Consistent
  <2>. QED  BY <2>2, <2>4, CancelOK DEF Consistent, Quiet, RowOK
<1>4. CASE DrainEnded(r, s)
  <2>. DEFINE job == Seen(r, s)
              drop == job.status \in Terminal
              next == IF drop THEN Drop(job, SlotOf(job, s.req)) ELSE job
              changed == tick[r].changed \/ drop
              t == [Done(r, s) EXCEPT !.job = next, !.changed = changed]
  <2>1. Observe(r, s, t) /\ UNCHANGED batch /\ refused' = refused
    <3>1. Done(r, s).changed = tick[r].changed
      BY DEF Done
    <3>. QED  BY <1>4, <3>1 DEF DrainEnded
  <2>2. /\ JobOK(next) /\ next.reserved = tick[r].job.reserved
        /\ next.submissions = tick[r].job.submissions
    BY TodoOK, DropOK DEF Consistent
  <2>3. changed \in BOOLEAN
    BY DEF Consistent, TicksOK, TickOK, Tick, Terminal
  <2>. HIDE DEF next, changed
  <2>4. /\ t \in Tick /\ t.pc = "drain" /\ t.stale = tick[r].stale /\ t.job = next
    BY <1>2, <2>2, <2>3, DoneOK DEF Consistent, Tick, JobOK
  <2>. HIDE DEF t
  <2>. QED
    BY <1>2, <2>1, <2>2, <2>4, ObserveOK, BatchUnchangedOK DEF Consistent, Quiet
<1>. QED  BY <1>1, <1>3, <1>4, UnreadableQuiet

LEMMA DrainFinishQuiet ==
    ASSUME Consistent, NEW r \in Revisions, DrainFinish(r)
    PROVE  Quiet
<1>. DEFINE t == At(IF tick[r].running THEN "wait" ELSE "closed")
<1>1. /\ t \in Tick /\ TickOK(t) /\ t.pc # "post" /\ \A job : Copies(t, job)
  BY IdleOK
<1>. HIDE DEF t
<1>2. CASE tick[r].changed
  <2>1. Save(r, tick[r].job, t) /\ UNCHANGED batch /\ refused' = refused
    BY <1>2 DEF DrainFinish, t
  <2>2. RowOK
    BY <2>1 DEF Save, RowOK, Consistent, TicksOK, TickOK, Copies, Active, DrainFinish
  <2>. QED  BY <1>1, <2>1, <2>2, SaveOK, BatchUnchangedOK DEF Consistent, Quiet
<1>3. CASE ~tick[r].changed
  <2>1. Continue(r, t) /\ row' = row /\ UNCHANGED batch /\ refused' = refused
    BY <1>3 DEF DrainFinish, t
  <2>. QED  BY <1>1, <2>1, ContinueOK, BatchUnchangedOK DEF Consistent, Quiet, RowOK
<1>. QED  BY <1>2, <1>3

\* A polled slot leaves the tick with the job it had, less the slot or plus what
\* its result adds; the stages of its stop and review reasons are stages.
LEMMA SettleQuiet ==
    ASSUME Consistent, NEW r \in Revisions, NEW s \in Todo(r), tick[r].pc = "poll",
           NEW job, JobOK(job), job.reserved = tick[r].job.reserved,
           job.submissions = tick[r].job.submissions,
           NEW stop \in SUBSET Stages, NEW review \in SUBSET Stages,
           Observe(r, s, [Done(r, s) EXCEPT !.job = job, !.stop = stop, !.review = review]),
           UNCHANGED batch, refused' = refused
    PROVE  Quiet
<1>. DEFINE t == [Done(r, s) EXCEPT !.job = job, !.stop = stop, !.review = review]
<1>1. t \in Tick /\ t.pc = "poll" /\ t.stale = tick[r].stale /\ t.job = job
  BY DoneOK DEF Consistent, Tick, JobOK
<1>. HIDE DEF t
<1>. QED
  BY <1>1, ObserveOK, BatchUnchangedOK DEF Consistent, Quiet, t

LEMMA PollQuiet ==
    ASSUME Consistent, NEW r \in Revisions, Poll(r)
    PROVE  Quiet
<1>1. PICK s \in Todo(r) :
         \/ PollRunning(r, s) \/ PollSuperseded(r, s) \/ PollStopped(r, s)
         \/ PollOverflow(r, s) \/ PollHit(r, s) \/ PollInvalid(r, s)
         \/ PollNone(r, s) \/ Unreadable(r, s)
  BY DEF Poll
<1>2. tick[r].pc = "poll"
  BY DEF Poll
<1>. DEFINE job == Seen(r, s)
            rest == Drop(job, SlotOf(job, s.req))
            Settled(j, stop, review) ==
              [Done(r, s) EXCEPT !.job = j, !.stop = stop, !.review = review]
<1>3. /\ JobOK(job) /\ job.reserved = tick[r].job.reserved
      /\ job.submissions = tick[r].job.submissions
      /\ job.status = tick[r].job.status /\ job.stage = tick[r].job.stage
      /\ s \in Slot
  BY TodoOK DEF Consistent
<1>4. /\ JobOK(rest) /\ rest.reserved = tick[r].job.reserved
      /\ rest.submissions = tick[r].job.submissions
      /\ rest.status = tick[r].job.status /\ rest.stage = tick[r].job.stage
  BY <1>3, DropOK
<1>. HIDE DEF job, rest
<1>5. /\ Done(r, s).stop = tick[r].stop /\ Done(r, s).review = tick[r].review
      /\ tick[r].stop \in SUBSET Stages /\ tick[r].review \in SUBSET Stages
  BY DoneOK DEF Consistent, TicksOK, TickOK, Tick
<1>6. s.stage \in SearchStages /\ s.stage \in Stages /\ s.attempt \in Attempts
  BY <1>3, SizesAssumption DEF Slot, Stages, Verification, SearchStages
<1>7. \A j : [Done(r, s) EXCEPT !.job = j] = Settled(j, tick[r].stop, tick[r].review)
  BY <1>5, DoneOK DEF Consistent, Tick
<1>8. CASE PollRunning(r, s)
  <2>1. /\ Continue(r, Done(r, s)) /\ row' = row /\ refused' = refused
        /\ UNCHANGED batch \/ Cancel(s.id)
    BY <1>8 DEF PollRunning
  <2>2. TickOK(Done(r, s)) /\ Copies(Done(r, s), row)
    BY <1>2, DoneOK DEF Consistent, TicksOK, TickOK, Copies, Active
  <2>3. TicksOK' /\ NoNewPost
    BY <1>2, <2>1, <2>2, DoneOK, ContinueOK DEF Consistent
  <2>. QED
    BY <2>1, <2>3, CancelOK, BatchUnchangedOK DEF Consistent, Quiet, RowOK
<1>9. CASE PollSuperseded(r, s)
  <2>1. Observe(r, s, Settled(rest, tick[r].stop, tick[r].review))
        /\ UNCHANGED batch /\ refused' = refused
    BY <1>7, <1>9 DEF PollSuperseded, rest, job
  <2>. QED  BY <1>2, <1>4, <1>5, <2>1, SettleQuiet
<1>10. CASE PollStopped(r, s)
  <2>. DEFINE stop == IF tick[r].stop = {} /\ ~s.retry THEN {s.stage} ELSE tick[r].stop
  <2>1. stop \in SUBSET Stages
    BY <1>5, <1>6
  <2>2. [Done(r, s) EXCEPT !.job = rest, !.stop = stop] = Settled(rest, stop, tick[r].review)
    BY <1>5, DoneOK DEF Consistent, Tick
  <2>3. Observe(r, s, Settled(rest, stop, tick[r].review))
        /\ UNCHANGED batch /\ refused' = refused
    BY <1>5, <1>10, <2>2 DEF PollStopped, rest, job
  <2>. HIDE DEF stop
  <2>. QED  BY <1>2, <1>4, <1>5, <2>1, <2>3, SettleQuiet
<1>11. CASE PollOverflow(r, s)
  <2>. DEFINE next == [rest EXCEPT !.status = "failed", !.error = {"other"}]
  <2>1. /\ JobOK(next) /\ next.reserved = rest.reserved
        /\ next.submissions = rest.submissions
    BY <1>4 DEF JobOK, Job, Statuses, Reasons, Terminal
  <2>2. Observe(r, s, Settled(next, tick[r].stop, tick[r].review))
        /\ UNCHANGED batch /\ refused' = refused
    BY <1>7, <1>11 DEF PollOverflow, rest, job
  <2>. HIDE DEF next
  <2>. QED  BY <1>2, <1>4, <1>5, <2>1, <2>2, SettleQuiet
<1>12. CASE PollHit(r, s)
  <2>1. rest.stage \in SearchStages
    BY <1>4, <1>6, <1>12 DEF PollHit, Current
  <2>2. /\ JobOK(VerifiedHit(rest)) /\ VerifiedHit(rest).reserved = rest.reserved
        /\ VerifiedHit(rest).submissions = rest.submissions
    BY <1>4, <2>1, VerifiedHitOK
  <2>3. Observe(r, s, Settled(VerifiedHit(rest), tick[r].stop, tick[r].review))
        /\ UNCHANGED batch /\ refused' = refused
    BY <1>7, <1>12 DEF PollHit, rest, job
  <2>. QED  BY <1>2, <1>4, <1>5, <2>2, <2>3, SettleQuiet
<1>13. CASE PollInvalid(r, s)
  <2>. DEFINE review == IF tick[r].review = {} THEN {s.stage} ELSE tick[r].review
  <2>1. review \in SUBSET Stages
    BY <1>5, <1>6
  <2>2. [Done(r, s) EXCEPT !.job = job, !.review = review] = Settled(job, tick[r].stop, review)
    BY <1>5, DoneOK DEF Consistent, Tick
  <2>3. Observe(r, s, Settled(job, tick[r].stop, review))
        /\ UNCHANGED batch /\ refused' = refused
    BY <1>5, <1>13, <2>2 DEF PollInvalid, job
  <2>. HIDE DEF review
  <2>. QED  BY <1>2, <1>3, <1>5, <2>1, <2>3, SettleQuiet
<1>14. CASE PollNone(r, s)
  <2>1. /\ JobOK(Credit(rest, s.attempt))
        /\ Credit(rest, s.attempt).reserved = rest.reserved
        /\ Credit(rest, s.attempt).submissions = rest.submissions
    BY <1>4, <1>6, CreditOK
  <2>2. Observe(r, s, Settled(Credit(rest, s.attempt), tick[r].stop, tick[r].review))
        /\ UNCHANGED batch /\ refused' = refused
    BY <1>7, <1>14 DEF PollNone, rest, job
  <2>. QED  BY <1>2, <1>4, <1>5, <2>1, <2>2, SettleQuiet
<1>. QED
  BY <1>1, <1>8, <1>9, <1>10, <1>11, <1>12, <1>13, <1>14, UnreadableQuiet

LEMMA PollFinishQuiet ==
    ASSUME Consistent, NEW r \in Revisions, PollFinish(r)
    PROVE  Quiet
<1>. DEFINE job == tick[r].job
            paused == IF job.status \notin {"queued", "searching"} THEN job
                      ELSE IF job.stage \in tick[r].review THEN Pause(job, "review")
                      ELSE IF job.stage \in tick[r].stop THEN Pause(job, "other")
                      ELSE job
            pc == IF paused.status \in {"queued", "searching"} THEN "fill" ELSE "finish"
            t == [At(pc) EXCEPT !.job = paused]
<1>1. JobOK(job) /\ tick[r].pc = "poll"
  BY DEF Consistent, TicksOK, TickOK, PollFinish
<1>2. /\ JobOK(paused) /\ paused.reserved = job.reserved
      /\ paused.submissions = job.submissions
  BY <1>1, PauseOK DEF Reasons
<1>3. Continue(r, IF tick[r].stale THEN At("closed") ELSE t)
      /\ row' = row /\ UNCHANGED batch /\ refused' = refused
  BY DEF PollFinish
<1>4. CASE tick[r].stale
  BY <1>3, <1>4, FailQuiet DEF Fail
<1>5. CASE ~tick[r].stale
  <2>1. /\ t.pc = pc /\ t.job = paused /\ ~t.stale
        /\ paused.status \in {"queued", "searching"} \/ pc = "finish"
        /\ pc \in {"fill", "finish"}
    BY DEF At
  <2>2. t \in Tick
    <3>1. At(pc) \in Tick
      BY NewJobOK, <2>1 DEF At, Tick, JobOK
    <3>. QED  BY <1>2, <3>1 DEF Tick, JobOK
  <2>. HIDE DEF t, paused, pc
  <2>3. TickOK(t) /\ t.pc # "post"
    BY <1>2, <2>1, <2>2 DEF TickOK
  <2>4. Copies(t, row)
    BY <1>1, <1>2, <1>5, <2>1 DEF Consistent, TicksOK, Copies, Active
  <2>. QED
    BY <1>3, <1>5, <2>2, <2>3, <2>4, ContinueOK, BatchUnchangedOK
       DEF Consistent, Quiet, RowOK
<1>. QED  BY <1>4, <1>5

LEMMA LeaveQuiet ==
    ASSUME Consistent, NEW r \in Revisions, tick[r].pc = "fill",
           NEW job, JobOK(job), job.reserved = tick[r].job.reserved,
           job.submissions = tick[r].job.submissions, Leave(r, job)
    PROVE  Quiet
<1>. DEFINE t == [At("finish") EXCEPT !.job = job]
<1>1. t \in Tick /\ TickOK(t)
  BY AtOK
<1>2. t.pc = "finish" /\ t.job = job
  BY DEF At
<1>3. Copies(t, row)
  BY <1>2 DEF Consistent, TicksOK, TickOK, Copies, Active
<1>4. Continue(r, t) /\ row' = row /\ UNCHANGED batch /\ refused' = refused
  BY DEF Leave
<1>. HIDE DEF t
<1>. QED
  BY <1>1, <1>2, <1>3, <1>4, ContinueOK, BatchUnchangedOK DEF Consistent, Quiet, RowOK

LEMMA FillStopQuiet ==
    ASSUME Consistent, NEW r \in Revisions, FillStop(r)
    PROVE  Quiet
BY LeaveQuiet DEF FillStop, Consistent, TicksOK, TickOK

LEMMA PausedFillQuiet ==
    ASSUME Consistent, NEW r \in Revisions, tick[r].pc = "fill",
           NEW reason \in Reasons,
           Leave(r, Pause(tick[r].job, reason)) \/ Leave(r, tick[r].job)
    PROVE  Quiet
<1>1. JobOK(tick[r].job) /\ tick[r].job.status \in {"queued", "searching"}
  BY DEF Consistent, TicksOK, TickOK
<1>. QED  BY <1>1, LeaveQuiet, PauseOK

LEMMA FillExhaustedQuiet ==
    ASSUME Consistent, NEW r \in Revisions, FillExhausted(r)
    PROVE  Quiet
BY PausedFillQuiet DEF FillExhausted, Reasons

LEMMA FillRefusedQuiet ==
    ASSUME Consistent, NEW r \in Revisions, FillRefused(r)
    PROVE  Quiet
BY PausedFillQuiet DEF FillRefused, Reasons

LEMMA FillUnpreparedQuiet ==
    ASSUME Consistent, NEW r \in Revisions, FillUnprepared(r)
    PROVE  Quiet
BY PausedFillQuiet DEF FillUnprepared, Reasons

LEMMA RecordIdQuiet ==
    ASSUME Consistent, NEW r \in Revisions, RecordId(r)
    PROVE  Quiet
<1>. DEFINE job == tick[r].job
            s == SlotOf(job, tick[r].req)
            next == Replace(job, s, [s EXCEPT !.id = tick[r].id])
            t == [At("fill") EXCEPT !.job = next]
<1>1. /\ tick[r].pc = "sent" /\ JobOK(job) /\ tick[r] \in Tick
      /\ job.status \in {"queued", "searching"}
      /\ \E x \in job.slots : x.req = tick[r].req
  BY DEF RecordId, Consistent, TicksOK, TickOK
<1>2. s \in job.slots
  BY <1>1 DEF SlotOf
<1>3. [s EXCEPT !.id = tick[r].id] \in Slot
  BY <1>1, <1>2 DEF JobOK, Job, Slot, Tick
<1>4. Save(r, next, t) /\ UNCHANGED batch /\ refused' = refused
  BY DEF RecordId
<1>. HIDE DEF s
<1>5. /\ JobOK(next) /\ next.status = job.status
      /\ next.reserved = job.reserved /\ next.submissions = job.submissions
  BY <1>1, <1>3 DEF Replace, JobOK, Job
<1>. HIDE DEF next
<1>6. At("fill") \in Tick
  BY NewJobOK DEF At, Tick, JobOK
<1>7. t \in Tick /\ t.job = next /\ t.pc = "fill" /\ ~t.stale
  BY <1>5, <1>6 DEF Tick, JobOK, At
<1>. HIDE DEF t
<1>8. TickOK(t) /\ Copies(t, next)
  BY <1>1, <1>5, <1>7 DEF TickOK, Copies
<1>9. RowOK
  BY <1>1, <1>4, <1>5 DEF RowOK, Save, Consistent, TicksOK, Copies, Active
<1>. QED
  BY <1>4, <1>7, <1>8, <1>9, SaveOK, BatchUnchangedOK DEF Consistent, Quiet

LEMMA FinishQuiet ==
    ASSUME Consistent, NEW r \in Revisions, Finish(r)
    PROVE  Quiet
<1>. DEFINE t == At(IF TickDone(tick[r].job) THEN "closed" ELSE "wait")
<1>1. /\ t \in Tick /\ TickOK(t) /\ t.pc # "post" /\ \A job : Copies(t, job)
  BY IdleOK
<1>2. Save(r, tick[r].job, t) /\ tick[r].pc = "finish"
      /\ UNCHANGED batch /\ refused' = refused
  BY DEF Finish
<1>. HIDE DEF t
<1>3. RowOK
  BY <1>2 DEF Save, RowOK, Consistent, TicksOK, TickOK, Copies, Active
<1>. QED  BY <1>1, <1>2, <1>3, SaveOK, BatchUnchangedOK DEF Consistent, Quiet

LEMMA PauseJobQuiet ==
    ASSUME Consistent, PauseJob
    PROVE  Quiet
<1>. DEFINE next == [row EXCEPT !.status = "paused", !.error = PauseError(row)]
<1>1. /\ row' = next /\ tick' = OthersStale /\ UNCHANGED batch /\ refused' = refused
      /\ row.status \in {"queued", "searching"}
  BY DEF PauseJob
<1>2. PauseError(row) \in SUBSET Reasons
  BY DEF PauseError, Consistent, JobOK, Job, Reasons
<1>3. JobOK(next) /\ next.reserved = row.reserved /\ next.submissions = row.submissions
  BY <1>1, <1>2 DEF Consistent, JobOK, Job, Statuses, Terminal
<1>. HIDE DEF next
<1>. QED
  BY <1>1, <1>3, AllStaleOK, BatchUnchangedOK DEF Consistent, Quiet, RowOK

LEMMA NextRevisionQuiet ==
    ASSUME Consistent, NEW job, JobOK(job), job.reserved = row.reserved,
           job.submissions = row.submissions, NEW start \in BOOLEAN,
           NextRevision(job, start)
    PROVE  Quiet
<1>. DEFINE next == [job EXCEPT !.revision = row.revision + 1]
<1>1. row' = next /\ UNCHANGED batch /\ refused' = refused
  BY DEF NextRevision
<1>2. row.revision + 1 \in Revisions
  <2>1. row.revision \in 0..MaxRevision
    BY DEF Consistent, JobOK, Job, Revisions
  <2>2. row.revision < MaxRevision /\ MaxRevision \in Nat
    BY SizesAssumption DEF NextRevision
  <2>. QED  BY <2>1, <2>2 DEF Revisions
<1>3. JobOK(next) /\ next.reserved = row.reserved /\ next.submissions = row.submissions
  BY <1>2 DEF JobOK, Job
<1>. HIDE DEF next
<1>4. CASE start
  <2>1. tick' = [OthersStale EXCEPT ![row.revision + 1] = At("wait")]
    BY <1>4 DEF NextRevision
  <2>. QED
    BY <1>1, <1>2, <1>3, <2>1, OneGoesOnOK, IdleOK, BatchUnchangedOK
       DEF Consistent, Quiet, RowOK
<1>5. CASE ~start
  <2>1. tick' = OthersStale
    BY <1>5 DEF NextRevision
  <2>. QED
    BY <1>1, <1>3, <2>1, AllStaleOK, BatchUnchangedOK DEF Consistent, Quiet, RowOK
<1>. QED  BY <1>4, <1>5

LEMMA ResumeJobQuiet ==
    ASSUME Consistent, ResumeJob
    PROVE  Quiet
<1>. DEFINE next == [row EXCEPT !.status = "queued", !.retryRequested = TRUE,
                                !.error = {}, !.oneSubmissionAllowed = FALSE]
<1>1. NextRevision(next, TRUE) /\ row.status = "paused"
  BY DEF ResumeJob, Resumable
<1>2. JobOK(next) /\ next.reserved = row.reserved /\ next.submissions = row.submissions
  BY <1>1 DEF Consistent, JobOK, Job, Statuses, Terminal
<1>. HIDE DEF next
<1>. QED  BY <1>1, <1>2, NextRevisionQuiet

\* The slot that an operator reconciles is one of the job's.
LEMMA TargetOK ==
    ASSUME Consistent, UnknownSubmission
    PROVE  Target \in row.slots /\ Target \in Slot
<1>1. UnknownSlots # {}
  BY FS_EmptySet DEF UnknownSubmission
<1>. QED  BY <1>1 DEF Target, UnknownSlots, Consistent, JobOK, Job

LEMMA AttachIdQuiet ==
    ASSUME Consistent, NEW i \in DOMAIN batch, AttachId(i)
    PROVE  Quiet
<1>. DEFINE base == Replace(row, Target, [Target EXCEPT !.id = i])
            next == [base EXCEPT !.status = "searching", !.error = {},
                                 !.retryRequested = FALSE, !.notSubmittedAt = 0]
<1>1. NextRevision(next, TRUE) /\ row.status = "paused"
  BY DEF AttachId, UnknownSubmission
<1>2. i \in Nat
  BY LenProperties DEF Consistent
<1>3. [Target EXCEPT !.id = i] \in Slot
  BY <1>2, TargetOK DEF AttachId, Slot
<1>4. /\ JobOK(base) /\ base.reserved = row.reserved /\ base.status = "paused"
      /\ base.submissions = row.submissions
  BY <1>1, <1>3 DEF Replace, Consistent, JobOK, Job
<1>. HIDE DEF base
<1>5. JobOK(next) /\ next.reserved = row.reserved /\ next.submissions = row.submissions
  BY <1>4 DEF JobOK, Job, Statuses, Terminal
<1>. HIDE DEF next
<1>. QED  BY <1>1, <1>5, NextRevisionQuiet

LEMMA RestartPollingQuiet ==
    ASSUME Consistent, NEW i \in DOMAIN batch, RestartPolling(i)
    PROVE  Quiet
<1>. DEFINE next == [row EXCEPT !.notSubmittedAt = 0]
<1>1. NextRevision(next, TRUE)
  BY DEF RestartPolling
<1>2. JobOK(next) /\ next.reserved = row.reserved /\ next.submissions = row.submissions
  BY DEF Consistent, JobOK, Job
<1>. HIDE DEF next
<1>. QED  BY <1>1, <1>2, NextRevisionQuiet

LEMMA DeclareNotSubmittedQuiet ==
    ASSUME Consistent, DeclareNotSubmitted
    PROVE  Quiet
<1>. DEFINE base == Drop(row, Target)
            next == [base EXCEPT !.oneSubmissionAllowed = TRUE, !.retryRequested = FALSE,
                                 !.notSubmittedAt = row.revision + 1]
<1>1. NextRevision(next, FALSE)
  BY DEF DeclareNotSubmitted
<1>2. /\ JobOK(base) /\ base.reserved = row.reserved
      /\ base.submissions = row.submissions
  BY DropOK DEF Consistent
<1>3. row.revision + 1 \in Nat
  BY SizesAssumption DEF Consistent, JobOK, Job, Revisions
<1>. HIDE DEF base
<1>4. JobOK(next) /\ next.reserved = row.reserved /\ next.submissions = row.submissions
  BY <1>2, <1>3 DEF JobOK, Job
<1>. HIDE DEF next
<1>. QED  BY <1>1, <1>4, NextRevisionQuiet

LEMMA BatchEndsQuiet ==
    ASSUME Consistent, NEW i \in DOMAIN batch, BatchEnds(i)
    PROVE  Quiet
<1>1. PICK outcome \in AllOutcomes : Ends(i, outcome)
  BY DEF BatchEnds
<1>2. row' = row /\ tick' = tick /\ refused' = refused
  BY <1>1 DEF Ends
<1>3. BatchOK
  BY <1>1, EndsOK DEF Consistent
<1>4. TicksOK' /\ NoNewPost
  BY <1>2 DEF Consistent, TicksOK, NoNewPost
<1>. QED  BY <1>2, <1>3, <1>4 DEF Consistent, Quiet, RowOK

(***************************************************************************)
(* The two steps that are not quiet.                                       *)
(***************************************************************************)
\* The next chunk lies in the range, or is its end.
LEMMA NextAttemptOK ==
    ASSUME NEW job, JobOK(job)
    PROVE  NextAttempt(job) \in 0..RangeSize
<1>. DEFINE free == {a \in job.attempt..RangeSize : a \notin Assigned(job) \cup job.completed}
<1>1. Assigned(job) \subseteq Attempts
  BY DEF Assigned, JobOK, Job, Slot
<1>2. free \subseteq 0..RangeSize /\ RangeSize \in free
  BY <1>1, SizesAssumption DEF JobOK, Job, Attempts
<1>3. NextAttempt(job) = Least(free)
  BY DEF NextAttempt
<1>. HIDE DEF free
<1>4. free \in SUBSET Nat /\ free # {}
  BY <1>2, SizesAssumption
<1>5. Least(free) \in free
  BY <1>4, LeastInSet
<1>. QED  BY <1>2, <1>3, <1>5

\* The execution's next submission is charged, under a name of its own.
Reserves(r) ==
    /\ JobOK(row')
    /\ TicksOK'
    /\ row'.reserved = row.reserved + Timeout
    /\ row'.reserved <= MaxGpuSeconds
    /\ row'.submissions = row.submissions + 1
    /\ tick[r].pc # "post"
    /\ tick'[r].pc = "post" /\ tick'[r].req = row'.submissions
    /\ \A x \in Revisions \ {r} : tick'[x].pc = "post" =>
         tick[x].pc = "post" /\ tick'[x].req = tick[x].req
    /\ batch' = batch /\ refused' = refused

LEMMA ReserveStep ==
    ASSUME Consistent, NEW r \in Revisions, Reserve(r)
    PROVE  Reserves(r)
<1>. DEFINE job == tick[r].job
            slot == [req |-> Request(job), stage |-> job.stage,
                     attempt |-> NextAttempt(job), id |-> 0,
                     retry |-> FALSE, metered |-> FALSE]
            next == [job EXCEPT !.status = "searching",
                                !.reserved = NextReservation(job),
                                !.submissions = @ + 1,
                                !.slots = @ \cup {slot},
                                !.oneSubmissionAllowed = FALSE]
            t == [At("post") EXCEPT !.job = next, !.req = slot.req]
<1>1. /\ tick[r].pc = "fill" /\ JobOK(job) /\ ~tick[r].stale
      /\ job.status \in {"queued", "searching"}
      /\ job.reserved = row.reserved /\ job.submissions = row.submissions
  BY DEF Reserve, Consistent, TicksOK, TickOK, Copies, Active
<1>2. Save(r, next, t) /\ batch' = batch /\ refused' = refused
  BY DEF Reserve
<1>3. NextAttempt(job) \in Attempts
  BY <1>1, NextAttemptOK, SizesAssumption DEF Reserve, InRange, Attempts
<1>4. job.stage \in SearchStages
  BY <1>1 DEF JobOK, Terminal
<1>5. Request(job) \in Nat /\ Request(job) = row.submissions + 1
  BY <1>1 DEF Request, JobOK, Job
<1>6. slot \in Slot /\ slot.req = Request(job)
  BY <1>3, <1>4, <1>5 DEF Slot
<1>7. NextReservation(job) \in Nat /\ NextReservation(job) = row.reserved + Timeout
  BY <1>1, SizesAssumption DEF NextReservation, JobOK, Job
<1>8. NextReservation(job) <= MaxGpuSeconds
  BY DEF Reserve, WithinBudget
<1>. HIDE DEF slot
<1>9. next \in Job
  <2>1. /\ "searching" \in Statuses /\ job.submissions + 1 \in Nat
        /\ job.slots \cup {slot} \in SUBSET Slot
    BY <1>1, <1>6 DEF JobOK, Job, Statuses
  <2>2. job \in Job
    BY <1>1 DEF JobOK
  <2>. QED  BY <1>7, <2>1, <2>2 DEF Job
<1>10. /\ next.status = "searching" /\ next.stage = job.stage
       /\ next.reserved = row.reserved + Timeout /\ next.reserved <= MaxGpuSeconds
       /\ next.submissions = row.submissions + 1
       /\ slot \in next.slots
  BY <1>1, <1>7, <1>8 DEF JobOK, Job
<1>. HIDE DEF next
<1>11. JobOK(next)
  BY <1>4, <1>9, <1>10 DEF JobOK
<1>12. At("post") \in Tick
  BY NewJobOK DEF At, Tick, JobOK
<1>13. t \in Tick /\ t.pc = "post" /\ t.job = next /\ t.req = slot.req
  BY <1>5, <1>6, <1>9, <1>12 DEF Tick, At
<1>. HIDE DEF t
<1>14. TickOK(t) /\ Copies(t, next)
  BY <1>10, <1>11, <1>13 DEF TickOK, Copies
<1>15. /\ row' = next
       /\ \A x \in Revisions : tick'[x] = IF x = r THEN t ELSE OthersStale[x]
       /\ tick' \in [Revisions -> Tick]
  BY <1>2, <1>13, OthersStaleOK DEF Save, Consistent
<1>16. TicksOK'
  BY <1>14, <1>15, OthersStaleOK DEF TicksOK, Consistent
<1>. QED
  BY <1>1, <1>2, <1>5, <1>6, <1>10, <1>11, <1>13, <1>15, <1>16, OthersStaleOK
     DEF Reserves, Consistent

\* The POST of execution r is over, and no other one is nearer to its own.
PostOver(r) ==
    /\ tick[r].pc = "post"
    /\ tick'[r].pc # "post"
    /\ TicksOK'
    /\ NoNewPost
    /\ row' = row

LEMMA PostCloses ==
    ASSUME Consistent, NEW r \in Revisions, tick[r].pc = "post",
           Continue(r, At("closed")), row' = row
    PROVE  PostOver(r)
<1>1. tick'[r] = At("closed")
  BY DEF Continue, Consistent, TicksOK
<1>. QED  BY <1>1, IdleOK, ContinueOK DEF PostOver, Consistent

\* AWS Batch accepted the request that execution r had reserved.
Accepts(r) ==
    /\ batch' \in Seq(BatchJob)
    /\ Len(batch') = Len(batch) + 1
    /\ \A i \in 1..Len(batch) : batch'[i] = batch[i]
    /\ batch'[Len(batch) + 1].req = tick[r].req

LEMMA AcceptedStep ==
    ASSUME Consistent, NEW r \in Revisions, tick[r].pc = "post", batch' = Accepted(r)
    PROVE  Accepts(r)
<1>. DEFINE s == SlotOf(tick[r].job, tick[r].req)
            e == [req |-> s.req, stage |-> s.stage, attempt |-> s.attempt,
                  revision |-> r, state |-> "live", cancelled |-> FALSE]
<1>1. /\ JobOK(tick[r].job) /\ tick[r] \in Tick
      /\ \E x \in tick[r].job.slots : x.req = tick[r].req
  BY DEF Consistent, TicksOK, TickOK
<1>2. s \in tick[r].job.slots /\ s.req = tick[r].req
  BY <1>1 DEF SlotOf
<1>. HIDE DEF s
<1>3. s \in Slot
  BY <1>1, <1>2 DEF JobOK, Job
<1>4. e \in BatchJob /\ e.req = tick[r].req
  BY <1>2, <1>3 DEF BatchJob, Slot, BatchState
<1>5. batch' = Append(batch, e)
  BY DEF Accepted, s
<1>. HIDE DEF e
<1>. QED  BY <1>4, <1>5, AppendProperties DEF Consistent, Accepts

LEMMA PostAcceptedStep ==
    ASSUME Consistent, NEW r \in Revisions, PostAccepted(r)
    PROVE  PostOver(r) /\ Accepts(r) /\ refused' = refused
<1>. DEFINE t == [tick[r] EXCEPT !.pc = "sent", !.id = Len(batch) + 1]
<1>1. /\ tick[r].pc = "post" /\ batch' = Accepted(r) /\ row' = row /\ refused' = refused
      /\ Continue(r, IF tick[r].stale THEN At("closed") ELSE t)
  BY DEF PostAccepted
<1>2. Accepts(r)
  BY <1>1, AcceptedStep
<1>3. CASE tick[r].stale
  BY <1>1, <1>2, <1>3, PostCloses
<1>4. CASE ~tick[r].stale
  <2>1. TickOK(tick[r]) /\ Copies(tick[r], row)
    BY DEF Consistent, TicksOK
  <2>2. Len(batch) + 1 \in Nat
    BY LenProperties DEF Consistent
  <2>3. /\ t \in Tick /\ t.pc = "sent" /\ t.job = tick[r].job
        /\ t.stale = tick[r].stale /\ t.req = tick[r].req
    BY <2>1, <2>2 DEF TickOK, Tick
  <2>. HIDE DEF t
  <2>4. TickOK(t) /\ Copies(t, row)
    BY <1>1, <1>4, <2>1, <2>3 DEF TickOK, Copies, Active
  <2>5. tick'[r] = t
    BY <1>1, <1>4 DEF Continue, Consistent, TicksOK
  <2>. QED
    BY <1>1, <1>2, <1>4, <2>3, <2>4, <2>5, ContinueOK DEF PostOver, Consistent
<1>. QED  BY <1>3, <1>4

LEMMA PostLostStep ==
    ASSUME Consistent, NEW r \in Revisions, PostLost(r)
    PROVE  PostOver(r) /\ Accepts(r) /\ refused' = refused
BY PostCloses, AcceptedStep DEF PostLost

LEMMA PostRefusedStep ==
    ASSUME Consistent, NEW r \in Revisions, PostRefused(r)
    PROVE  PostOver(r) /\ batch' = batch /\ refused' = refused \cup {tick[r].req}
BY PostCloses DEF PostRefused

(***************************************************************************)
(* Type correctness.                                                       *)
(***************************************************************************)
Posts(r) ==
    /\ PostOver(r)
    /\ \/ Accepts(r) /\ refused' = refused
       \/ batch' = batch /\ refused' = refused \cup {tick[r].req}

LEMMA WorkKinds ==
    ASSUME Consistent, NEW r \in Revisions, Work(r) \/ PostLost(r) \/ PostRefused(r) \/ Crash(r)
    PROVE  Quiet \/ Reserves(r) \/ Posts(r)
<1>1. CASE ReadDone(r) \/ ReadOff(r) \/ ReadDrain(r) \/ ReadUnknown(r) \/ ReadPoll(r)
  BY <1>1, ReadDoneQuiet, ReadOffQuiet, ReadDrainQuiet, ReadUnknownQuiet, ReadPollQuiet
<1>2. CASE Drain(r) \/ DrainFinish(r) \/ Poll(r) \/ PollFinish(r)
  BY <1>2, DrainQuiet, DrainFinishQuiet, PollQuiet, PollFinishQuiet
<1>3. CASE FillStop(r) \/ FillExhausted(r) \/ FillRefused(r) \/ FillUnprepared(r)
  BY <1>3, FillStopQuiet, FillExhaustedQuiet, FillRefusedQuiet, FillUnpreparedQuiet
<1>4. CASE Reserve(r)
  BY <1>4, ReserveStep
<1>5. CASE PostAccepted(r) \/ PostLost(r) \/ PostRefused(r)
  BY <1>5, PostAcceptedStep, PostLostStep, PostRefusedStep DEF Posts
<1>6. CASE RecordId(r) \/ Finish(r)
  BY <1>6, RecordIdQuiet, FinishQuiet
<1>7. CASE Conflict(r) \/ Crash(r)
  BY <1>7, FailQuiet DEF Conflict, Crash
<1>. QED  BY <1>1, <1>2, <1>3, <1>4, <1>5, <1>6, <1>7 DEF Work

\* A step is quiet, charges one submission, or sends one that was charged.
LEMMA StepKinds ==
    ASSUME Consistent, [Next]_vars
    PROVE  Quiet \/ \E r \in Revisions : Reserves(r) \/ Posts(r)
<1>1. CASE UNCHANGED vars
  BY <1>1 DEF vars, Consistent, Quiet, RowOK, TicksOK, NoNewPost, BatchOK
<1>2. CASE \E r \in Revisions : Work(r) \/ PostLost(r) \/ PostRefused(r) \/ Crash(r)
  BY <1>2, WorkKinds
<1>3. CASE PauseJob \/ ResumeJob \/ DeclareNotSubmitted
  BY <1>3, PauseJobQuiet, ResumeJobQuiet, DeclareNotSubmittedQuiet
<1>4. CASE \E i \in DOMAIN batch : AttachId(i) \/ RestartPolling(i) \/ BatchEnds(i)
  BY <1>4, AttachIdQuiet, RestartPollingQuiet, BatchEndsQuiet
<1>. QED  BY <1>1, <1>2, <1>3, <1>4 DEF Next

LEMMA InitConsistent == Init => Consistent
<1>. SUFFICES ASSUME Init PROVE Consistent
  OBVIOUS
<1>1. JobOK(row) /\ batch \in Seq(BatchJob) /\ refused \subseteq Nat
  BY NewJobOK, EmptySeq DEF Init
<1>2. \A r \in Revisions : tick[r] = At("wait") \/ tick[r] = At("closed")
  BY DEF Init
<1>3. tick \in [Revisions -> Tick]
  BY IdleOK DEF Init
<1>. QED  BY <1>1, <1>2, <1>3, IdleOK DEF Consistent, TicksOK

LEMMA StepConsistent == Consistent /\ [Next]_vars => Consistent'
<1>. SUFFICES ASSUME Consistent, [Next]_vars PROVE Consistent'
  OBVIOUS
<1>1. CASE Quiet
  BY <1>1 DEF Quiet, RowOK, BatchOK, Consistent
<1>2. ASSUME NEW r \in Revisions, Reserves(r)  PROVE Consistent'
  BY <1>2 DEF Reserves, Consistent
<1>3. ASSUME NEW r \in Revisions, Posts(r)  PROVE Consistent'
  <2>1. tick[r].req \in Nat
    BY DEF Consistent, TicksOK, TickOK, Tick
  <2>. QED  BY <1>3, <2>1 DEF Posts, PostOver, Accepts, Consistent
<1>. QED  BY <1>1, <1>2, <1>3, StepKinds

\* Every row, tick and Batch job that the code of parallel-search.ts, the owner's
\* routes and the operator's script can produce has its declared shape: stages
\* and range indices stay within the search plan, whatever races or dies.
THEOREM TypeCorrect == Spec => []TypeOK
<1>1. Consistent => TypeOK
  BY DEF Consistent, TypeOK, JobOK, TicksOK
<1>. QED  BY <1>1, InitConsistent, StepConsistent, PTL DEF Spec

\* No step of any actor lowers what a job was charged or how often it submitted:
\* a stale tick's save is refused, and a fresh one knows every earlier charge.
THEOREM ChargesOnlyGrow == Spec => NeverRefunded
<1>. DEFINE Grows == row'.reserved >= row.reserved /\ row'.submissions >= row.submissions
<1>1. Consistent /\ [Next]_vars => [Grows]_row
  <2>. SUFFICES ASSUME Consistent, [Next]_vars PROVE Grows
    OBVIOUS
  <2>1. row.reserved \in Nat /\ row.submissions \in Nat
    BY DEF Consistent, JobOK, Job
  <2>2. CASE Quiet
    BY <2>1, <2>2 DEF Quiet, RowOK
  <2>3. ASSUME NEW r \in Revisions, Reserves(r)  PROVE Grows
    BY <2>1, <2>3, SizesAssumption DEF Reserves
  <2>4. ASSUME NEW r \in Revisions, Posts(r)  PROVE Grows
    BY <2>1, <2>4 DEF Posts, PostOver
  <2>. QED  BY <2>2, <2>3, <2>4, StepKinds
<1>. QED
  BY <1>1, InitConsistent, StepConsistent, PTL DEF Spec, NeverRefunded

(***************************************************************************)
(* One POST for each request.  A request is named by the number of charges *)
(* before it, so nothing named by now can collide with a later one.        *)
(***************************************************************************)
Named ==
    /\ \A i \in DOMAIN batch : batch[i].req <= row.submissions
    /\ \A q \in refused : q <= row.submissions
    /\ \A r \in Revisions : tick[r].pc = "post" =>
         tick[r].req <= row.submissions /\ tick[r].req \notin refused
    /\ PostedOnce

LEMMA StepNamed == Consistent /\ Named /\ [Next]_vars => Named'
<1>. SUFFICES ASSUME Consistent, Named, [Next]_vars PROVE Named'
  OBVIOUS
<1>1. DOMAIN batch = 1..Len(batch) /\ Len(batch) \in Nat /\ row.submissions \in Nat
  BY LenProperties DEF Consistent, JobOK, Job
<1>2. DOMAIN batch' = 1..Len(batch') /\ Len(batch') \in Nat
  BY StepConsistent, LenProperties DEF Consistent
<1>3. CASE Quiet
  <2>1. DOMAIN batch' = DOMAIN batch /\ \A i \in DOMAIN batch : batch'[i].req = batch[i].req
    BY <1>1, <1>2, <1>3 DEF Quiet, BatchOK
  <2>2. /\ row'.submissions = row.submissions /\ refused' = refused
        /\ \A r \in Revisions : tick'[r].pc = "post" =>
             tick[r].pc = "post" /\ tick'[r].req = tick[r].req
    BY <1>3 DEF Quiet, RowOK, NoNewPost
  <2>. QED  BY <2>1, <2>2 DEF Named, PostedOnce
<1>4. ASSUME NEW r \in Revisions, Reserves(r)  PROVE Named'
  <2>1. /\ row'.submissions = row.submissions + 1 /\ batch' = batch /\ refused' = refused
        /\ tick'[r].req = row.submissions + 1
        /\ \A x \in Revisions \ {r} : tick'[x].pc = "post" =>
             tick[x].pc = "post" /\ tick'[x].req = tick[x].req
    BY <1>4 DEF Reserves
  <2>2. /\ \A i \in DOMAIN batch : batch[i].req \in Nat
        /\ \A q \in refused : q \in Nat
        /\ \A x \in Revisions : tick[x].req \in Nat
    <3>1. \A i \in DOMAIN batch : batch[i] \in BatchJob
      BY <1>1, ElementOfSeq DEF Consistent
    <3>2. \A x \in Revisions : tick[x] \in Tick
      BY DEF Consistent, TicksOK
    <3>. QED  BY <3>1, <3>2 DEF Consistent, BatchJob, Tick
  <2>. QED  BY <1>1, <2>1, <2>2 DEF Named, PostedOnce
<1>5. ASSUME NEW r \in Revisions, Posts(r)  PROVE Named'
  <2>1. /\ row'.submissions = row.submissions
        /\ \A x \in Revisions : tick'[x].pc = "post" =>
             x # r /\ tick[x].pc = "post" /\ tick'[x].req = tick[x].req
        /\ tick[r].pc = "post"
    BY <1>5 DEF Posts, PostOver, NoNewPost
  <2>2. CASE Accepts(r) /\ refused' = refused
    <3>1. /\ DOMAIN batch' = DOMAIN batch \cup {Len(batch) + 1}
          /\ Len(batch) + 1 \notin DOMAIN batch
          /\ \A i \in DOMAIN batch : batch'[i] = batch[i]
          /\ batch'[Len(batch) + 1].req = tick[r].req
      BY <1>1, <1>2, <2>2 DEF Accepts
    <3>. QED  BY <2>1, <2>2, <3>1 DEF Named, PostedOnce
  <2>3. CASE batch' = batch /\ refused' = refused \cup {tick[r].req}
    BY <2>1, <2>3 DEF Named, PostedOnce
  <2>. QED  BY <1>5, <2>2, <2>3 DEF Posts
<1>. QED  BY <1>3, <1>4, <1>5, StepKinds

LEMMA InitNamed == Init => Named
<1>. SUFFICES ASSUME Init PROVE Named
  OBVIOUS
<1>1. DOMAIN batch = {} /\ refused = {}
  BY DEF Init
<1>2. \A r \in Revisions : tick[r].pc # "post"
  BY IdleOK DEF Init
<1>. QED  BY <1>1, <1>2 DEF Named, PostedOnce

\* A request that was saved is sent at most once: AWS Batch never holds two jobs
\* for one request, and no execution is about to send one that was sent.
THEOREM EachRequestPostedOnce == Spec => []PostedOnce
<1>1. Named => PostedOnce
  BY DEF Named
<1>. QED
  BY <1>1, InitConsistent, StepConsistent, InitNamed, StepNamed, PTL DEF Spec

(***************************************************************************)
(* The budget.                                                             *)
(***************************************************************************)
Posting == {r \in Revisions : tick[r].pc = "post"}

Charged ==
    /\ row.reserved = Timeout * row.submissions
    /\ row.reserved <= MaxGpuSeconds
    /\ IsFiniteSet(refused)
    /\ Len(batch) + Cardinality(refused) + Cardinality(Posting) <= row.submissions

LEMMA PostingFinite == IsFiniteSet(Posting) /\ IsFiniteSet(Posting')
<1>1. IsFiniteSet(Revisions)
  BY FS_Interval, SizesAssumption DEF Revisions
<1>2. Posting \subseteq Revisions /\ Posting' \subseteq Revisions
  BY DEF Posting
<1>. QED  BY <1>1, <1>2, FS_Subset

LEMMA AddedOne ==
    ASSUME NEW S, IsFiniteSet(S), NEW x
    PROVE  /\ IsFiniteSet(S \cup {x})
           /\ Cardinality(S \cup {x}) \in Nat
           /\ Cardinality(S \cup {x}) <= Cardinality(S) + 1
<1>1. Cardinality(S) \in Nat
  BY FS_CardinalityType
<1>2. /\ IsFiniteSet(S \cup {x})
      /\ Cardinality(S \cup {x}) = IF x \in S THEN Cardinality(S) ELSE Cardinality(S) + 1
  BY FS_AddElement
<1>. QED  BY <1>1, <1>2

LEMMA StepCharged == Consistent /\ Charged /\ [Next]_vars => Charged'
<1>. SUFFICES ASSUME Consistent, Charged, [Next]_vars PROVE Charged'
  OBVIOUS
<1>1. /\ Len(batch) \in Nat /\ row.submissions \in Nat /\ row.reserved \in Nat
      /\ Cardinality(refused) \in Nat /\ Cardinality(Posting) \in Nat
      /\ Cardinality(Posting') \in Nat /\ Timeout \in Nat
  BY LenProperties, FS_CardinalityType, PostingFinite, SizesAssumption
     DEF Consistent, JobOK, Job, Charged
<1>2. CASE Quiet
  <2>1. Posting' \subseteq Posting
    BY <1>2 DEF Posting, Quiet, NoNewPost
  <2>2. Cardinality(Posting') <= Cardinality(Posting)
    BY <2>1, PostingFinite, FS_Subset
  <2>3. /\ row'.reserved = row.reserved /\ row'.submissions = row.submissions
        /\ refused' = refused /\ Len(batch') = Len(batch)
    BY <1>2 DEF Quiet, RowOK, BatchOK
  <2>. QED  BY <1>1, <2>2, <2>3 DEF Charged
<1>3. ASSUME NEW r \in Revisions, Reserves(r)  PROVE Charged'
  <2>1. Posting' \subseteq Posting \cup {r}
    BY <1>3 DEF Posting, Reserves
  <2>2. Cardinality(Posting') <= Cardinality(Posting) + 1
    <3>1. /\ IsFiniteSet(Posting \cup {r})
          /\ Cardinality(Posting \cup {r}) <= Cardinality(Posting) + 1
      BY PostingFinite, AddedOne
    <3>2. Cardinality(Posting') <= Cardinality(Posting \cup {r})
      BY <2>1, <3>1, FS_Subset
    <3>3. Cardinality(Posting \cup {r}) \in Nat
      BY <3>1, FS_CardinalityType
    <3>. QED  BY <1>1, <3>1, <3>2, <3>3
  <2>3. /\ row'.reserved = row.reserved + Timeout /\ row'.reserved <= MaxGpuSeconds
        /\ row'.submissions = row.submissions + 1
        /\ batch' = batch /\ refused' = refused
    BY <1>3 DEF Reserves
  <2>4. Timeout * (row.submissions + 1) = Timeout * row.submissions + Timeout
    BY <1>1
  <2>. QED  BY <1>1, <2>2, <2>3, <2>4 DEF Charged
<1>4. ASSUME NEW r \in Revisions, Posts(r)  PROVE Charged'
  <2>1. row' = row /\ r \in Posting /\ Posting' \subseteq Posting \ {r}
    BY <1>4 DEF Posting, Posts, PostOver, NoNewPost
  <2>2. Cardinality(Posting') <= Cardinality(Posting) - 1
    <3>1. /\ IsFiniteSet(Posting \ {r})
          /\ Cardinality(Posting \ {r}) = Cardinality(Posting) - 1
      BY <2>1, PostingFinite, FS_RemoveElement
    <3>. QED  BY <2>1, <3>1, FS_Subset
  <2>3. CASE Accepts(r) /\ refused' = refused
    <3>1. Len(batch') = Len(batch) + 1
      BY <2>3 DEF Accepts
    <3>. QED  BY <1>1, <2>1, <2>2, <2>3, <3>1 DEF Charged
  <2>4. CASE batch' = batch /\ refused' = refused \cup {tick[r].req}
    <3>1. /\ IsFiniteSet(refused')
          /\ Cardinality(refused') \in Nat
          /\ Cardinality(refused') <= Cardinality(refused) + 1
      BY <2>4, AddedOne DEF Charged
    <3>. QED  BY <1>1, <2>1, <2>2, <2>4, <3>1 DEF Charged
  <2>. QED  BY <1>4, <2>3, <2>4 DEF Posts
<1>. QED  BY <1>2, <1>3, <1>4, StepKinds

LEMMA InitCharged == Init => Charged
<1>. SUFFICES ASSUME Init PROVE Charged
  OBVIOUS
<1>1. Posting = {}
  BY IdleOK DEF Posting, Init
<1>2. /\ row.reserved = 0 /\ row.submissions = 0 /\ Len(batch) = 0 /\ refused = {}
  BY EmptySeq DEF Init, NewJob
<1>3. Timeout * 0 = 0
  BY SizesAssumption
<1>. QED  BY <1>1, <1>2, <1>3, FS_EmptySet, SizesAssumption DEF Charged

\* The saved reservation covers every POST that was sent or is about to be, and
\* never exceeds the job's cap, whatever crashes, is paused or is reconciled.
THEOREM ReservedBeforeEveryPost == Spec => []ReservedBeforePost
<1>1. Consistent /\ Charged => ReservedBeforePost
  <2>. SUFFICES ASSUME Consistent, Charged PROVE ReservedBeforePost
    OBVIOUS
  <2>. DEFINE n == Len(batch) + Cardinality(refused) + Cardinality(Posting)
  <2>1. n \in Nat /\ row.submissions \in Nat /\ Timeout \in Nat /\ n <= row.submissions
    BY LenProperties, FS_CardinalityType, PostingFinite, SizesAssumption
       DEF Consistent, JobOK, Job, Charged
  <2>2. row.reserved = Timeout * row.submissions /\ row.reserved <= MaxGpuSeconds
    BY DEF Charged
  <2>. HIDE DEF n
  <2>3. Timeout * n <= Timeout * row.submissions
    BY <2>1
  <2>. QED  BY <2>2, <2>3 DEF ReservedBeforePost, Posting, n
<1>. QED
  BY <1>1, InitConsistent, StepConsistent, InitCharged, StepCharged, PTL DEF Spec
=============================================================================
