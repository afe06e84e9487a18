--------------------- MODULE ParallelSearchWorkProofs ---------------------
(***************************************************************************)
(* Proofs about the paid work of module ParallelSearch: no Batch job, no   *)
(* result and no range is lost or paid for twice, an unknown submission    *)
(* always has a recourse, and the search keeps the budget of PaidSearch.   *)
(* One inductive invariant, WorkInv, relates the saved job, the copy of    *)
(* the one tick that can still save, and the Batch jobs.                   *)
(***************************************************************************)
EXTENDS ParallelSearchProofs

(***************************************************************************)
(* A job beside AWS Batch.  These are operators of a job, of the queue b   *)
(* of Batch jobs and of a revision, so that they speak of the saved job,   *)
(* of the copy that a tick holds, and of both before and after a step.     *)
(***************************************************************************)
Stopping == {"failed", "partial"}
Searching == {"queued", "searching"}

\* A slot with an ID is that Batch job, on the same range; one without has
\* nothing to meter or to repeat yet, and what its request became is of its range.
Fits(s, b, rev) ==
    /\ s.id = 0 =>
         /\ ~s.metered /\ ~s.retry
         /\ \A i \in DOMAIN b : b[i].req = s.req => SameRange(b[i], s)
    /\ s.id # 0 =>
         /\ s.id \in DOMAIN b /\ b[s.id].req = s.req /\ SameRange(b[s.id], s)
         /\ s.metered => b[s.id].state # "live"
         /\ s.retry => b[s.id].revision < rev

OneEach(slots) ==
    \A s, t \in slots : s.req = t.req \/ (s.id = 0 /\ t.id = 0) => s = t

SlotsFit(job, b, rev) ==
    /\ \A s \in job.slots : Fits(s, b, rev) /\ s.req <= job.submissions /\ s.stage <= job.stage
    /\ OneEach(job.slots)
    /\ job.oneSubmissionAllowed => ~Unknown(job)
    /\ IsFiniteSet(job.slots) /\ Cardinality(job.slots) <= WorkersMax

\* Batch job i is on the job, by its ID or by the request it came from.
On(job, b, i) == \E s \in job.slots : s.id = i \/ (s.id = 0 /\ s.req = b[i].req)
Credited(job, b, i) ==
    b[i].state = "none" /\ (b[i].attempt < job.attempt \/ b[i].attempt \in job.completed)

\* What runs is on the job.
RunningKept(job, b) == \A i \in DOMAIN b : b[i].state = "live" => On(job, b, i)

\* What ended in the job's stage is on the job, was credited, or stopped without a
\* result.
ResultsKept(job, b) ==
    job.status # "failed" => \A i \in DOMAIN b : b[i].stage = job.stage =>
        On(job, b, i) \/ Credited(job, b, i) \/ b[i].state \in Stopping

RangesSearched(job, b) ==
    /\ \A a \in 0..RangeSize : a < job.attempt \/ a \in job.completed =>
         \E i \in DOMAIN b : b[i].stage = job.stage /\ b[i].attempt = a /\ b[i].state = "none"
    /\ \A g \in 1..(job.stage - 1) :
         \E i \in DOMAIN b : b[i].stage = g /\ b[i].state = "hit"

\* The Batch jobs whose GPU time is in the job's usage.
Billed(job, b) ==
    {i \in DOMAIN b :
        /\ b[i].state # "live"
        /\ \A s \in job.slots : s.id = i => s.metered
        /\ \A s \in job.slots : s.id = 0 => s.req # b[i].req}

\* Only a hit of the last stage ends a search with success.
Passed(job) == job.status = "awaiting_authorization" => job.stage = Verification

Books(job, b, rev) ==
    /\ Passed(job)
    /\ SlotsFit(job, b, rev)
    /\ RunningKept(job, b)
    /\ ResultsKept(job, b)
    /\ RangesSearched(job, b)
    /\ job.usage = Cardinality(Billed(job, b))

\* What stopped in the job's stage, and is not on it any more, is of a revision before.
StopsAreOld(job, b, rev) ==
    \A i \in DOMAIN b :
        b[i].stage = job.stage /\ b[i].state \in Stopping /\ ~On(job, b, i) =>
            b[i].revision < rev

(***************************************************************************)
(* The invariant: of the saved job, of a tick about to POST, and of the    *)
(* one tick that can still save, whose copy keeps the books as well.       *)
(***************************************************************************)
RowFits(job, b, logged) ==
    /\ Books(job, b, job.revision)
    /\ \A i \in DOMAIN b :
         /\ b[i].stage <= job.stage
         /\ b[i].revision <= job.revision
         /\ job.retryRequested => b[i].revision < job.revision
         /\ b[i].req \notin logged
    /\ job.status \in Searching => StopsAreOld(job, b, job.revision)
    /\ "unknown" \in job.error => job.status = "paused" /\ (Unknown(job) \/ Reconciled(job))
    /\ Unknown(job) => job.status = "searching" \/ "unknown" \in job.error

\* The slot that tick t of execution r is about to send is on the saved job, its
\* outcome owed; the range it is of was only ever stopped, in revisions before.
PostFits(t, saved, b, r) ==
    LET posted == SlotOf(t.job, t.req) IN
    /\ \E s \in saved.slots : s.id = 0 /\ s.req = t.req /\ SameRange(s, posted)
    /\ \A i \in DOMAIN b : SameRange(b[i], posted) =>
         b[i].state \in Stopping /\ b[i].revision < r
    /\ r <= saved.revision
    /\ saved.retryRequested => r < saved.revision

Fresh(t) == Active(t) /\ ~t.stale

\* A drained job is the saved one, less the slots it has dropped.
Draining(t, saved) ==
    /\ t.job = [saved EXCEPT !.slots = t.job.slots]
    /\ t.job.slots \subseteq saved.slots
    /\ \A s \in saved.slots : s.id = 0 => s \in t.job.slots
    /\ \A s \in t.job.slots : s.req \in t.todo => s.id # 0
    /\ saved.status \in {"paused"} \cup Terminal
    /\ saved.status \notin Terminal => ~t.changed

\* Each slot of a polled copy is the saved one, but for the permission to repeat it.
SameSlot(s, x) == x.req = s.req /\ x.id = s.id /\ x.metered = s.metered
Ahead(job, saved) ==
    /\ saved.status \in Searching /\ ~Unknown(saved) /\ ~Unknown(job)
    /\ \A s \in job.slots : \E x \in saved.slots : SameSlot(s, x)
    /\ saved.stage <= job.stage /\ job.revision = saved.revision
    /\ ~job.retryRequested /\ "unknown" \notin job.error

PollFits(job, stop, saved, b, r) ==
    /\ Ahead(job, saved)
    /\ job.status # "paused" /\ stop \subseteq {saved.stage}
    /\ job.status \in Searching /\ job.stage \notin stop => StopsAreOld(job, b, r)

LeaveFits(job, saved, b, r) ==
    /\ Ahead(job, saved)
    /\ job.status \in Searching => StopsAreOld(job, b, r)

Sending(t, saved) ==
    /\ t.job = saved /\ saved.status = "searching" /\ ~saved.retryRequested
    /\ \E s \in saved.slots : s.id = 0 /\ s.req = t.req

FreshFits(t, saved, b, r) ==
    /\ saved.revision = r
    /\ Books(t.job, b, r)
    /\ t.pc = "drain" => Draining(t, saved)
    /\ t.pc = "poll" => PollFits(t.job, t.stop, saved, b, r)
    /\ t.pc \in {"fill", "finish"} => LeaveFits(t.job, saved, b, r)
    /\ t.pc \in {"post", "sent"} => Sending(t, saved)
    /\ t.pc = "sent" => t.id \in DOMAIN b /\ b[t.id].req = t.req

RowInv == RowFits(row, batch, refused)
PostInv == \A r \in Revisions : tick[r].pc = "post" => PostFits(tick[r], row, batch, r)
FreshInv == \A r \in Revisions : Fresh(tick[r]) => FreshFits(tick[r], row, batch, r)
WorkInv == RowInv /\ PostInv /\ FreshInv

(***************************************************************************)
(* The books of a job, through each change of the job or of the queue.     *)
(***************************************************************************)
Queue(b) ==
    /\ DOMAIN b \subseteq Nat \ {0} /\ IsFiniteSet(DOMAIN b)
    /\ \A i \in DOMAIN b :
         /\ b[i].req \in Nat /\ b[i].stage \in SearchStages
         /\ b[i].attempt \in Attempts /\ b[i].revision \in Revisions

LEMMA QueueOK ==
    ASSUME NEW b \in Seq(BatchJob)
    PROVE  Queue(b)
<1>1. DOMAIN b = 1..Len(b) /\ Len(b) \in Nat
  BY LenProperties
<1>2. IsFiniteSet(1..Len(b))
  BY <1>1, FS_Interval
<1>3. \A i \in DOMAIN b : b[i] \in BatchJob
  BY <1>1, ElementOfSeq
<1>. QED  BY <1>1, <1>2, <1>3 DEF Queue, BatchJob

\* A change of what the books do not look at, in the same or a later revision.
LEMMA BooksSame ==
    ASSUME NEW job, NEW next, NEW b, Queue(b), NEW rev \in Nat, NEW later \in Nat,
           Books(job, b, rev), rev <= later,
           next.slots = job.slots, next.submissions = job.submissions,
           next.stage = job.stage, next.attempt = job.attempt,
           next.completed = job.completed, next.usage = job.usage,
           next.oneSubmissionAllowed => job.oneSubmissionAllowed,
           job.status = "failed" => next.status = "failed",
           next.status = "awaiting_authorization" => job.status = next.status
    PROVE  Books(next, b, later)
<1>1. \A i \in DOMAIN b : On(next, b, i) = On(job, b, i)
                          /\ Credited(next, b, i) = Credited(job, b, i)
  BY DEF On, Credited
<1>2. SlotsFit(next, b, later)
  <2>1. \A s \in job.slots : Fits(s, b, later)
    BY DEF Books, SlotsFit, Fits, Queue, Revisions
  <2>2. Unknown(next) = Unknown(job)
    BY DEF Unknown
  <2>. QED  BY <2>1, <2>2 DEF Books, SlotsFit
<1>3. RunningKept(next, b) /\ ResultsKept(next, b)
  BY <1>1 DEF Books, RunningKept, ResultsKept
<1>4. RangesSearched(next, b)
  BY DEF Books, RangesSearched
<1>5. Billed(next, b) = Billed(job, b)
  BY DEF Billed
<1>. QED  BY <1>2, <1>3, <1>4, <1>5 DEF Books, Passed

\* A slot that was seen ended and metered is dropped, and its result is credited if
\* it had one.
LEMMA BooksDrop ==
    ASSUME NEW job, JobOK(job), NEW next, NEW b, Queue(b), NEW rev, Books(job, b, rev),
           NEW s \in job.slots, s.id # 0, s.metered,
           next.slots = job.slots \ {s}, next.submissions = job.submissions,
           next.usage = job.usage, next.stage \in Int, job.stage <= next.stage,
           next.oneSubmissionAllowed => job.oneSubmissionAllowed,
           Passed(next), ResultsKept(next, b), RangesSearched(next, b)
    PROVE  Books(next, b, rev)
<1>1. SlotsFit(next, b, rev)
  <2>1. IsFiniteSet(next.slots) /\ Cardinality(next.slots) <= Cardinality(job.slots)
    BY FS_Subset DEF Books, SlotsFit
  <2>2. Cardinality(next.slots) \in Nat /\ Cardinality(job.slots) \in Nat
        /\ WorkersMax \in Nat
    BY <2>1, FS_CardinalityType, SizesAssumption DEF Books, SlotsFit
  <2>3. Unknown(next) => Unknown(job)
    BY DEF Unknown
  <2>4. \A x \in next.slots : x \in job.slots /\ x.stage \in Int /\ job.stage \in Int
    BY DEF JobOK, Job, Slot, SearchStages, Stages, Verification
  <2>. QED  BY <2>1, <2>2, <2>3, <2>4 DEF Books, SlotsFit, OneEach
<1>2. \A i \in DOMAIN b : b[i].state = "live" => On(next, b, i)
  BY DEF Books, SlotsFit, Fits, RunningKept, On
<1>3. Billed(next, b) = Billed(job, b)
  BY DEF Books, SlotsFit, OneEach, Fits, Billed
<1>. QED  BY <1>1, <1>2, <1>3 DEF Books, RunningKept

\* What a dropped slot leaves of its stage, when the credits do not shrink.
LEMMA ResultsDrop ==
    ASSUME NEW job, NEW next, NEW b, NEW rev, Books(job, b, rev),
           NEW s \in job.slots, s.id # 0,
           next.slots = job.slots \ {s}, next.stage = job.stage,
           job.status = "failed" => next.status = "failed",
           \A i \in DOMAIN b : Credited(job, b, i) => Credited(next, b, i),
           next.status # "failed" /\ s.stage = job.stage =>
               Credited(next, b, s.id) \/ b[s.id].state \in Stopping
    PROVE  ResultsKept(next, b)
<1>1. \A i \in DOMAIN b : On(job, b, i) => On(next, b, i) \/ i = s.id
  BY DEF On
<1>2. b[s.id].stage = s.stage
  BY DEF Books, SlotsFit, Fits, SameRange
<1>. QED  BY <1>1, <1>2 DEF Books, ResultsKept

LEMMA SwapSlot ==
    ASSUME NEW S, IsFiniteSet(S), NEW s \in S, NEW m
    PROVE  /\ IsFiniteSet((S \ {s}) \cup {m})
           /\ Cardinality((S \ {s}) \cup {m}) <= Cardinality(S)
<1>1. IsFiniteSet(S \ {s}) /\ Cardinality(S \ {s}) = Cardinality(S) - 1
  BY FS_RemoveElement
<1>2. Cardinality(S) \in Nat
  BY FS_CardinalityType
<1>3. IsFiniteSet((S \ {s}) \cup {m})
      /\ Cardinality((S \ {s}) \cup {m}) <= Cardinality(S \ {s}) + 1
  BY <1>1, AddedOne
<1>4. Cardinality((S \ {s}) \cup {m}) \in Nat
  BY <1>3, FS_CardinalityType
<1>. QED  BY <1>1, <1>2, <1>3, <1>4

\* Metering touches one slot and the usage.
Marked(s) == [s EXCEPT !.metered = TRUE]

LEMMA MeteredSlots ==
    ASSUME NEW job, JobOK(job), OneEach(job.slots), NEW s \in job.slots
    PROVE  /\ Metered(job, s.req).slots = (job.slots \ {s}) \cup {Marked(s)}
           /\ Metered(job, s.req).usage = job.usage + 1
           /\ Metered(job, s.req).submissions = job.submissions
           /\ Metered(job, s.req).stage = job.stage
           /\ Metered(job, s.req).attempt = job.attempt
           /\ Metered(job, s.req).completed = job.completed
           /\ Metered(job, s.req).status = job.status
           /\ Metered(job, s.req).error = job.error
           /\ Metered(job, s.req).revision = job.revision
           /\ Metered(job, s.req).retryRequested = job.retryRequested
           /\ Metered(job, s.req).notSubmittedAt = job.notSubmittedAt
           /\ Metered(job, s.req).oneSubmissionAllowed = job.oneSubmissionAllowed
           /\ Marked(s).req = s.req /\ Marked(s).id = s.id /\ Marked(s).metered
           /\ Marked(s).stage = s.stage /\ Marked(s).attempt = s.attempt
           /\ Marked(s).retry = s.retry
<1>1. job.slots \subseteq Slot
  BY DEF JobOK, Job
<1>. DEFINE slots == {IF x.req = s.req THEN [x EXCEPT !.metered = TRUE] ELSE x : x \in job.slots}
<1>2. slots = (job.slots \ {s}) \cup {Marked(s)}
  BY DEF OneEach, Marked
<1>3. Metered(job, s.req) = [job EXCEPT !.usage = @ + 1, !.slots = slots]
  BY DEF Metered
<1>4. /\ Marked(s).req = s.req /\ Marked(s).id = s.id /\ Marked(s).metered
      /\ Marked(s).stage = s.stage /\ Marked(s).attempt = s.attempt
      /\ Marked(s).retry = s.retry
  BY <1>1 DEF Slot, Marked
<1>. HIDE DEF slots
<1>5. Metered(job, s.req).slots = slots
  BY <1>3 DEF JobOK, Job
<1>. QED  BY <1>2, <1>3, <1>4, <1>5 DEF JobOK, Job

LEMMA MeteredOnly ==
    ASSUME NEW job, JobOK(job), NEW q
    PROVE  Metered(job, q) = [job EXCEPT !.usage = Metered(job, q).usage,
                                         !.slots = Metered(job, q).slots]
BY DEF Metered, JobOK, Job

LEMMA BilledFinite ==
    ASSUME NEW job, NEW b, Queue(b)
    PROVE  IsFiniteSet(Billed(job, b)) /\ Cardinality(Billed(job, b)) \in Nat
<1>1. IsFiniteSet(Billed(job, b))
  BY FS_Subset DEF Billed, Queue
<1>. QED  BY <1>1, FS_CardinalityType

\* A slot that was seen ended is metered.
LEMMA BooksMetered ==
    ASSUME NEW job, JobOK(job), NEW b, Queue(b), NEW rev, Books(job, b, rev),
           NEW s \in job.slots, s.id # 0, b[s.id].state # "live", ~s.metered
    PROVE  Books(Metered(job, s.req), b, rev)
<1>. DEFINE m == Marked(s)
            next == Metered(job, s.req)
<1>0. OneEach(job.slots) /\ IsFiniteSet(job.slots)
  BY DEF Books, SlotsFit
<1>1. /\ next.slots = (job.slots \ {s}) \cup {m}
      /\ m.req = s.req /\ m.id = s.id /\ m.metered
      /\ m.stage = s.stage /\ m.attempt = s.attempt /\ m.retry = s.retry
  BY <1>0, MeteredSlots
<1>2. /\ next.submissions = job.submissions /\ next.stage = job.stage
      /\ next.attempt = job.attempt /\ next.completed = job.completed
      /\ next.oneSubmissionAllowed = job.oneSubmissionAllowed
      /\ next.status = job.status /\ next.usage = job.usage + 1
  BY <1>0, MeteredSlots
<1>. HIDE DEF next, m
<1>3. SlotsFit(next, b, rev)
  <2>1. /\ IsFiniteSet(next.slots)
        /\ Cardinality(next.slots) <= Cardinality(job.slots)
    <3>1. /\ IsFiniteSet((job.slots \ {s}) \cup {m})
          /\ Cardinality((job.slots \ {s}) \cup {m}) <= Cardinality(job.slots)
      BY <1>0, SwapSlot
    <3>. QED  BY <1>1, <3>1
  <2>2. Cardinality(next.slots) <= WorkersMax
    BY <2>1, FS_CardinalityType, SizesAssumption DEF Books, SlotsFit
  <2>3. Unknown(next) => Unknown(job)
    BY <1>1 DEF Unknown
  <2>4. Fits(m, b, rev) /\ Fits(s, b, rev)
    BY <1>1 DEF Books, SlotsFit, Fits, SameRange
  <2>5. \A x \in next.slots : x = m \/ x \in job.slots \ {s}
    BY <1>1
  <2>6. \A x \in next.slots : Fits(x, b, rev) /\ x.req <= next.submissions
                              /\ x.stage <= next.stage
    BY <1>1, <1>2, <2>4, <2>5 DEF Books, SlotsFit
  <2>7. OneEach(next.slots)
    BY <1>1, <2>5 DEF Books, SlotsFit, OneEach
  <2>. QED  BY <1>2, <2>1, <2>2, <2>3, <2>6, <2>7 DEF Books, SlotsFit
<1>4. \A i \in DOMAIN b : On(next, b, i) = On(job, b, i)
                          /\ Credited(next, b, i) = Credited(job, b, i)
  <2>1. \A i : On(job, b, i) => On(next, b, i)
    BY <1>1 DEF On
  <2>2. \A i : On(next, b, i) => On(job, b, i)
    BY <1>1 DEF On
  <2>. QED  BY <1>2, <2>1, <2>2 DEF Credited, On
<1>5. RunningKept(next, b) /\ ResultsKept(next, b) /\ RangesSearched(next, b)
  BY <1>2, <1>4 DEF Books, RunningKept, ResultsKept, RangesSearched
<1>6. Billed(next, b) = Billed(job, b) \cup {s.id} /\ s.id \notin Billed(job, b)
  <2>1. s.id \in DOMAIN b /\ b[s.id].req = s.req
    BY DEF Books, SlotsFit, Fits
  <2>2. s.id \notin Billed(job, b)
    BY DEF Billed
  <2>3. s.id \in Billed(next, b)
    BY <1>1, <2>1 DEF Billed, Books, SlotsFit, OneEach, Fits
  <2>4. \A i \in DOMAIN b \ {s.id} : i \in Billed(next, b) <=> i \in Billed(job, b)
    BY <1>1 DEF Billed
  <2>5. Billed(next, b) \subseteq DOMAIN b /\ Billed(job, b) \subseteq DOMAIN b
    BY DEF Billed
  <2>. QED  BY <2>1, <2>2, <2>3, <2>4, <2>5
<1>7. Cardinality(Billed(next, b)) = Cardinality(Billed(job, b)) + 1
  BY <1>6, BilledFinite, FS_AddElement
<1>. QED  BY <1>2, <1>3, <1>5, <1>7 DEF Books, Passed, next

\* AWS Batch ends or cancels a job.
SameQueue(b, c) ==
    /\ DOMAIN c = DOMAIN b
    /\ \A i \in DOMAIN b :
         /\ c[i].req = b[i].req /\ SameRange(c[i], b[i]) /\ c[i].revision = b[i].revision
         /\ c[i].state = b[i].state \/ (b[i].state = "live" /\ c[i].state # "live")

LEMMA BooksQueue ==
    ASSUME NEW job, NEW b, NEW c, SameQueue(b, c), NEW rev, Books(job, b, rev)
    PROVE  Books(job, c, rev)
<1>1. SlotsFit(job, c, rev)
  <2>1. \A s \in job.slots : Fits(s, c, rev)
    BY DEF Books, SlotsFit, Fits, SameQueue, SameRange
  <2>. QED  BY <2>1 DEF Books, SlotsFit
<1>2. \A i \in DOMAIN b : On(job, c, i) = On(job, b, i)
  BY DEF On, SameQueue
<1>3. RunningKept(job, c)
  BY <1>2 DEF Books, RunningKept, SameQueue
<1>4. ResultsKept(job, c)
  BY <1>2 DEF Books, RunningKept, ResultsKept, SameQueue, SameRange, Credited, Stopping
<1>5. RangesSearched(job, c)
  BY DEF Books, RangesSearched, SameQueue, SameRange
<1>6. Billed(job, c) = Billed(job, b)
  <2>1. \A i \in DOMAIN b : i \in Billed(job, c) <=> i \in Billed(job, b)
    BY DEF Billed, Books, SlotsFit, Fits, RunningKept, On, SameQueue
  <2>2. Billed(job, c) \subseteq DOMAIN b /\ Billed(job, b) \subseteq DOMAIN b
    BY DEF Billed, SameQueue
  <2>. QED  BY <2>1, <2>2
<1>. QED  BY <1>1, <1>3, <1>4, <1>5, <1>6 DEF Books

\* AWS Batch accepts the request of the slot whose outcome is owed.
Accepting(b, c, e) ==
    \E n : /\ DOMAIN c = DOMAIN b \cup {n} /\ n \notin DOMAIN b
           /\ c[n] = e /\ \A i \in DOMAIN b : c[i] = b[i]

LEMMA BooksAccept ==
    ASSUME NEW job, NEW b, Queue(b), NEW c, Queue(c), NEW e, Accepting(b, c, e),
           NEW rev, Books(job, b, rev), NEW p \in job.slots, p.id = 0,
           e.req = p.req, SameRange(e, p), e.state = "live"
    PROVE  Books(job, c, rev)
<1>1. PICK n : /\ DOMAIN c = DOMAIN b \cup {n} /\ n \notin DOMAIN b
               /\ c[n] = e /\ \A i \in DOMAIN b : c[i] = b[i]
  BY DEF Accepting
<1>2. SlotsFit(job, c, rev)
  <2>1. \A s \in job.slots : s.id = 0 => s = p
    BY DEF Books, SlotsFit, OneEach
  <2>2. Fits(p, c, rev)
    BY <1>1 DEF Books, SlotsFit, Fits
  <2>3. \A s \in job.slots : s.id # 0 => Fits(s, c, rev)
    BY <1>1 DEF Books, SlotsFit, Fits
  <2>. QED  BY <2>1, <2>2, <2>3 DEF Books, SlotsFit
<1>3. \A i \in DOMAIN b : On(job, c, i) = On(job, b, i)
  BY <1>1 DEF On
<1>4. On(job, c, n)
  BY <1>1 DEF On
<1>5. RunningKept(job, c) /\ ResultsKept(job, c)
  BY <1>1, <1>3, <1>4 DEF Books, RunningKept, ResultsKept, Credited
<1>6. RangesSearched(job, c)
  BY <1>1 DEF Books, RangesSearched
<1>7. Billed(job, c) = Billed(job, b)
  BY <1>1 DEF Billed
<1>. QED  BY <1>2, <1>5, <1>6, <1>7 DEF Books

\* A chunk that was paid for anew is reserved under a request of its own.
LEMMA BooksReserve ==
    ASSUME NEW job, JobOK(job), NEW next, NEW b, Queue(b), NEW rev, Books(job, b, rev),
           ~Unknown(job), job.status # "failed", HasRoom(job),
           \A i \in DOMAIN b : b[i].req <= job.submissions,
           NEW slot, next.slots = job.slots \cup {slot},
           slot.req = job.submissions + 1, slot.id = 0, ~slot.metered, ~slot.retry,
           slot.stage = job.stage, next.status = "searching",
           next.submissions = job.submissions + 1, ~next.oneSubmissionAllowed,
           next.stage = job.stage, next.attempt = job.attempt,
           next.completed = job.completed, next.usage = job.usage
    PROVE  Books(next, b, rev)
<1>1. job.slots \subseteq Slot /\ job.submissions \in Nat /\ job.stage \in Int
  BY DEF JobOK, Job, Stages, Verification
<1>2. \A s \in job.slots : s.req # slot.req /\ s.id # 0 /\ s.req <= next.submissions
  BY <1>1 DEF Books, SlotsFit, Unknown, Slot
<1>3. \A i \in DOMAIN b : b[i].req # slot.req
  BY <1>1 DEF Queue
<1>4. SlotsFit(next, b, rev)
  <2>0. IsFiniteSet(job.slots)
    BY DEF Books, SlotsFit
  <2>1. /\ IsFiniteSet(next.slots) /\ Cardinality(next.slots) \in Nat
        /\ Cardinality(next.slots) <= Cardinality(job.slots) + 1
    <3>1. /\ IsFiniteSet(job.slots \cup {slot})
          /\ Cardinality(job.slots \cup {slot}) \in Nat
          /\ Cardinality(job.slots \cup {slot}) <= Cardinality(job.slots) + 1
      BY <2>0, AddedOne
    <3>. QED  BY <3>1
  <2>2. Cardinality(next.slots) <= WorkersMax
    BY <2>1, FS_CardinalityType, SizesAssumption DEF Books, SlotsFit, HasRoom
  <2>3. Fits(slot, b, rev)
    BY <1>3 DEF Fits
  <2>4. \A x \in next.slots : x = slot \/ x \in job.slots
    OBVIOUS
  <2>5. \A x \in next.slots : Fits(x, b, rev) /\ x.req <= next.submissions
                              /\ x.stage <= next.stage
    BY <1>1, <1>2, <2>3, <2>4 DEF Books, SlotsFit
  <2>6. OneEach(next.slots)
    BY <1>2, <2>4 DEF Books, SlotsFit, OneEach
  <2>. QED  BY <2>1, <2>2, <2>5, <2>6 DEF SlotsFit
<1>5. \A i \in DOMAIN b : On(job, b, i) => On(next, b, i)
  BY DEF On
<1>6. RunningKept(next, b) /\ ResultsKept(next, b) /\ RangesSearched(next, b)
  BY <1>5 DEF Books, RunningKept, ResultsKept, RangesSearched, Credited
<1>7. Billed(next, b) = Billed(job, b)
  <2>1. \A i \in DOMAIN b : i # 0
    BY DEF Queue
  <2>2. \A i \in DOMAIN b : i \in Billed(next, b) <=> i \in Billed(job, b)
    BY <1>3, <2>1 DEF Billed
  <2>3. Billed(next, b) \subseteq DOMAIN b /\ Billed(job, b) \subseteq DOMAIN b
    BY DEF Billed
  <2>. QED  BY <2>2, <2>3
<1>. QED  BY <1>4, <1>6, <1>7 DEF Books, Passed

\* The unknown slot's request turns out to be Batch job n.
Known(s, n) == [s EXCEPT !.id = n]

LEMMA BooksKnown ==
    ASSUME NEW job, JobOK(job), NEW next, NEW b, Queue(b), NEW rev, Books(job, b, rev),
           NEW s \in job.slots, s.id = 0, NEW n \in DOMAIN b, b[n].req = s.req,
           \A i \in DOMAIN b : b[i].req = s.req => i = n,
           NEW m, m = Known(s, n), next.slots = (job.slots \ {s}) \cup {m},
           next.submissions = job.submissions, next.stage = job.stage,
           next.attempt = job.attempt, next.completed = job.completed,
           next.usage = job.usage, next.status = job.status,
           next.oneSubmissionAllowed => job.oneSubmissionAllowed
    PROVE  /\ Books(next, b, rev) /\ ~Unknown(next)
           /\ \A i \in DOMAIN b : On(job, b, i) => On(next, b, i)
<1>1. /\ m.req = s.req /\ m.id = n /\ m.metered = s.metered
      /\ m.stage = s.stage /\ m.attempt = s.attempt /\ m.retry = s.retry
  <2>1. s \in Slot
    BY DEF JobOK, Job
  <2>. QED  BY <2>1 DEF Slot, Known
<1>2. next.slots = (job.slots \ {s}) \cup {m}
  OBVIOUS
<1>3. n # 0 /\ ~s.metered /\ ~s.retry /\ SameRange(b[n], s)
  BY DEF Queue, Books, SlotsFit, Fits
<1>4. \A x \in next.slots : x = m \/ x \in job.slots \ {s}
  BY <1>2
<1>5. \A x \in job.slots \ {s} : x.id # 0 /\ x.req # s.req
  BY DEF Books, SlotsFit, OneEach
<1>6. ~Unknown(next)
  BY <1>1, <1>3, <1>4, <1>5 DEF Unknown
<1>7. SlotsFit(next, b, rev)
  <2>0. IsFiniteSet(job.slots)
    BY DEF Books, SlotsFit
  <2>1. /\ IsFiniteSet(next.slots)
        /\ Cardinality(next.slots) <= Cardinality(job.slots)
    <3>1. /\ IsFiniteSet((job.slots \ {s}) \cup {m})
          /\ Cardinality((job.slots \ {s}) \cup {m}) <= Cardinality(job.slots)
      BY <2>0, SwapSlot
    <3>. QED  BY <1>2, <3>1
  <2>2. Cardinality(next.slots) <= WorkersMax
    BY <2>1, FS_CardinalityType, SizesAssumption DEF Books, SlotsFit
  <2>3. Fits(m, b, rev)
    BY <1>1, <1>3 DEF Fits, SameRange
  <2>4. \A x \in next.slots : Fits(x, b, rev) /\ x.req <= next.submissions
                              /\ x.stage <= next.stage
    BY <1>1, <1>4, <2>3 DEF Books, SlotsFit
  <2>5. OneEach(next.slots)
    BY <1>1, <1>3, <1>4, <1>5 DEF Books, SlotsFit, OneEach
  <2>. QED  BY <1>6, <2>1, <2>2, <2>4, <2>5 DEF SlotsFit
<1>8. \A i \in DOMAIN b : On(job, b, i) => On(next, b, i)
  <2>1. ASSUME NEW i \in DOMAIN b, NEW x \in job.slots,
               x.id = i \/ (x.id = 0 /\ x.req = b[i].req)
        PROVE  On(next, b, i)
    <3>1. CASE x = s
      <4>1. i # 0
        BY DEF Queue
      <4>2. i = n
        BY <2>1, <3>1, <4>1
      <4>. QED  BY <1>1, <1>2, <4>2 DEF On
    <3>2. CASE x # s
      BY <1>2, <2>1, <3>2 DEF On
    <3>. QED  BY <3>1, <3>2
  <2>. QED  BY <2>1 DEF On
<1>9. RunningKept(next, b) /\ ResultsKept(next, b) /\ RangesSearched(next, b)
  BY <1>8 DEF Books, RunningKept, ResultsKept, RangesSearched, Credited
<1>10. Billed(next, b) = Billed(job, b)
  <2>1. n \notin Billed(job, b) /\ n \notin Billed(next, b)
    BY <1>1, <1>2, <1>3 DEF Billed
  <2>2. \A i \in DOMAIN b \ {n} : i # 0 /\ b[i].req # s.req
    BY DEF Queue
  <2>3. \A i \in DOMAIN b \ {n} : i \in Billed(next, b) <=> i \in Billed(job, b)
    BY <1>1, <1>2, <1>3, <2>2 DEF Billed
  <2>4. Billed(next, b) \subseteq DOMAIN b /\ Billed(job, b) \subseteq DOMAIN b
    BY DEF Billed
  <2>5. \A i \in DOMAIN b : i \in Billed(next, b) <=> i \in Billed(job, b)
    BY <2>1, <2>3
  <2>. QED  BY <2>4, <2>5
<1>. QED  BY <1>6, <1>7, <1>8, <1>9, <1>10 DEF Books, Passed

\* The unknown slot's request never became a Batch job, and never will.
LEMMA BooksUnsent ==
    ASSUME NEW job, JobOK(job), NEW next, NEW b, Queue(b), NEW rev, Books(job, b, rev),
           NEW s \in job.slots, s.id = 0, \A i \in DOMAIN b : b[i].req # s.req,
           next.slots = job.slots \ {s}, next.submissions = job.submissions,
           next.stage = job.stage, next.attempt = job.attempt,
           next.completed = job.completed, next.usage = job.usage,
           next.status = job.status
    PROVE  Books(next, b, rev) /\ ~Unknown(next)
<1>1. \A x \in next.slots : x \in job.slots /\ x.id # 0
  BY DEF Books, SlotsFit, OneEach
<1>2. ~Unknown(next)
  BY <1>1 DEF Unknown
<1>3. SlotsFit(next, b, rev)
  <2>1. IsFiniteSet(next.slots) /\ Cardinality(next.slots) <= Cardinality(job.slots)
    BY FS_Subset DEF Books, SlotsFit
  <2>2. Cardinality(next.slots) <= WorkersMax
    BY <2>1, FS_CardinalityType, SizesAssumption DEF Books, SlotsFit
  <2>. QED  BY <1>1, <1>2, <2>1, <2>2 DEF Books, SlotsFit, OneEach
<1>4. \A i \in DOMAIN b : i # 0
  BY DEF Queue
<1>5. \A i \in DOMAIN b : On(job, b, i) => On(next, b, i)
  BY <1>4 DEF On
<1>6. RunningKept(next, b) /\ ResultsKept(next, b) /\ RangesSearched(next, b)
  BY <1>5 DEF Books, RunningKept, ResultsKept, RangesSearched, Credited
<1>7. Billed(next, b) = Billed(job, b)
  <2>1. \A i \in DOMAIN b : i \in Billed(next, b) <=> i \in Billed(job, b)
    BY <1>4 DEF Billed
  <2>2. Billed(next, b) \subseteq DOMAIN b /\ Billed(job, b) \subseteq DOMAIN b
    BY DEF Billed
  <2>. QED  BY <2>1, <2>2
<1>. QED  BY <1>2, <1>3, <1>6, <1>7 DEF Books, Passed

\* After a resume, every slot that was found in flight may be repeated.
Retried(s) == [s EXCEPT !.retry = TRUE]

LEMMA RetriedSlots ==
    ASSUME NEW job, JobOK(job), job.retryRequested
    PROVE  /\ \A x \in RetryAll(job).slots : \E s \in job.slots : x = Retried(s)
           /\ \A s \in job.slots : Retried(s) \in RetryAll(job).slots
           /\ IsFiniteSet(job.slots) =>
                /\ IsFiniteSet(RetryAll(job).slots)
                /\ Cardinality(RetryAll(job).slots) <= Cardinality(job.slots)
           /\ RetryAll(job) = [job EXCEPT !.retryRequested = FALSE,
                                          !.slots = RetryAll(job).slots]
<1>. DEFINE f == [s \in job.slots |-> Retried(s)]
            slots == {Retried(s) : s \in job.slots}
<1>1. RetryAll(job) = [job EXCEPT !.retryRequested = FALSE, !.slots = slots]
  BY DEF RetryAll, Retried
<1>2. slots = {f[s] : s \in job.slots}
  OBVIOUS
<1>3. f \in Surjection(job.slots, slots)
  BY DEF Surjection
<1>4. IsFiniteSet(job.slots) => IsFiniteSet(slots) /\ Cardinality(slots) <= Cardinality(job.slots)
  <2>. HIDE DEF f, slots
  <2>. QED  BY <1>3, FS_Surjection
<1>5. RetryAll(job).slots = slots
  BY <1>1 DEF JobOK, Job
<1>. QED  BY <1>1, <1>4, <1>5

LEMMA BooksRetryAll ==
    ASSUME NEW job, JobOK(job), NEW b, Queue(b), NEW rev, Books(job, b, rev),
           ~Unknown(job), job.retryRequested => \A i \in DOMAIN b : b[i].revision < rev
    PROVE  /\ Books(RetryAll(job), b, rev)
           /\ ~Unknown(RetryAll(job))
           /\ \A i \in DOMAIN b : On(RetryAll(job), b, i) = On(job, b, i)
           /\ \A x \in RetryAll(job).slots : \E s \in job.slots : SameSlot(x, s)
<1>. DEFINE next == RetryAll(job)
<1>1. CASE ~job.retryRequested
  BY <1>1 DEF RetryAll, SameSlot
<1>2. CASE job.retryRequested
  <2>1. /\ IsFiniteSet(next.slots) /\ Cardinality(next.slots) <= Cardinality(job.slots)
        /\ next = [job EXCEPT !.retryRequested = FALSE, !.slots = next.slots]
    BY <1>2, RetriedSlots DEF Books, SlotsFit
  <2>2. \A s \in job.slots :
          LET m == Retried(s)
          IN  /\ m.req = s.req /\ m.id = s.id /\ m.metered = s.metered
              /\ m.stage = s.stage /\ m.attempt = s.attempt /\ m.retry
    BY DEF JobOK, Job, Slot, Retried
  <2>3. \A x \in next.slots : \E s \in job.slots :
          /\ x = Retried(s)
          /\ x.req = s.req /\ x.id = s.id /\ x.metered = s.metered
          /\ x.stage = s.stage /\ x.attempt = s.attempt /\ x.retry
    <3>1. ASSUME NEW x \in next.slots
          PROVE  \E s \in job.slots :
                   /\ x.req = s.req /\ x.id = s.id /\ x.metered = s.metered
                   /\ x.stage = s.stage /\ x.attempt = s.attempt /\ x.retry
                   /\ x = Retried(s)
      <4>1. PICK s \in job.slots : x = Retried(s)
        BY <1>2, RetriedSlots
      <4>. QED  BY <2>2, <4>1
    <3>. QED  BY <3>1
  <2>4. \A s \in job.slots : \E x \in next.slots :
          x.req = s.req /\ x.id = s.id /\ x.metered = s.metered
    BY <1>2, <2>2, RetriedSlots
  <2>5. /\ next.submissions = job.submissions /\ next.stage = job.stage
        /\ next.attempt = job.attempt /\ next.completed = job.completed
        /\ next.oneSubmissionAllowed = job.oneSubmissionAllowed
        /\ next.status = job.status /\ next.usage = job.usage
    BY <2>1 DEF JobOK, Job
  <2>. HIDE DEF next
  <2>6. ~Unknown(next)
    BY <2>3 DEF Unknown
  <2>7. SlotsFit(next, b, rev)
    <3>1. Cardinality(next.slots) <= WorkersMax
      BY <2>1, FS_CardinalityType, SizesAssumption DEF Books, SlotsFit
    <3>2. \A x \in next.slots : Fits(x, b, rev) /\ x.req <= next.submissions
                                /\ x.stage <= next.stage
      BY <1>2, <2>3, <2>5 DEF Books, SlotsFit, Fits, Unknown, SameRange
    <3>3. OneEach(next.slots)
      <4>1. ASSUME NEW x \in next.slots, NEW y \in next.slots,
                   x.req = y.req \/ (x.id = 0 /\ y.id = 0)
            PROVE  x = y
        <5>1. PICK s \in job.slots : x = Retried(s)
                                     /\ x.req = s.req /\ x.id = s.id
          BY <2>3
        <5>2. PICK u \in job.slots : y = Retried(u)
                                     /\ y.req = u.req /\ y.id = u.id
          BY <2>3
        <5>3. s = u
          BY <4>1, <5>1, <5>2 DEF Books, SlotsFit, OneEach
        <5>. QED  BY <5>1, <5>2, <5>3
      <4>. QED  BY <4>1 DEF OneEach
    <3>. QED  BY <2>1, <2>6, <3>1, <3>2, <3>3 DEF SlotsFit
  <2>8. \A i \in DOMAIN b : On(next, b, i) = On(job, b, i)
    <3>1. \A i : On(next, b, i) => On(job, b, i)
      BY <2>3 DEF On
    <3>2. \A i : On(job, b, i) => On(next, b, i)
      BY <2>4 DEF On
    <3>. QED  BY <3>1, <3>2 DEF On
  <2>9. RunningKept(next, b) /\ ResultsKept(next, b) /\ RangesSearched(next, b)
    BY <2>5, <2>8 DEF Books, RunningKept, ResultsKept, RangesSearched, Credited
  <2>10. Billed(next, b) = Billed(job, b)
    <3>1. \A i \in DOMAIN b : i \in Billed(next, b) <=> i \in Billed(job, b)
      BY <2>3, <2>4 DEF Billed
    <3>2. Billed(next, b) \subseteq DOMAIN b /\ Billed(job, b) \subseteq DOMAIN b
      BY DEF Billed
    <3>. QED  BY <3>1, <3>2
  <2>11. \A x \in next.slots : \E s \in job.slots : SameSlot(x, s)
    BY <2>3 DEF SameSlot
  <2>12. Books(next, b, rev)
    BY <2>5, <2>7, <2>9, <2>10 DEF Books, Passed
  <2>. QED  BY <2>6, <2>8, <2>11, <2>12 DEF next
<1>. QED  BY <1>1, <1>2

(***************************************************************************)
(* The invariant, when AWS Batch moves on, when a tick goes on without a   *)
(* save, and when the row is written.                                      *)
(***************************************************************************)
LEMMA SameQueueSame ==
    ASSUME NEW b
    PROVE  SameQueue(b, b)
BY DEF SameQueue, SameRange

LEMMA OldQueue ==
    ASSUME NEW job, NEW b, NEW c, SameQueue(b, c), NEW rev,
           RunningKept(job, b), StopsAreOld(job, b, rev)
    PROVE  StopsAreOld(job, c, rev)
BY DEF RunningKept, StopsAreOld, SameQueue, SameRange, On

LEMMA RowQueue ==
    ASSUME NEW job, NEW b, NEW c, SameQueue(b, c), NEW logged, RowFits(job, b, logged)
    PROVE  RowFits(job, c, logged)
<1>1. Books(job, c, job.revision) /\ RunningKept(job, b)
  BY BooksQueue DEF RowFits, Books
<1>2. job.status \in Searching => StopsAreOld(job, c, job.revision)
  BY <1>1, OldQueue DEF RowFits
<1>3. \A i \in DOMAIN c :
        /\ i \in DOMAIN b /\ c[i].stage = b[i].stage
        /\ c[i].revision = b[i].revision /\ c[i].req = b[i].req
  BY DEF SameQueue, SameRange
<1>. QED  BY <1>1, <1>2, <1>3 DEF RowFits

LEMMA PostQueue ==
    ASSUME NEW t, NEW saved, NEW b, NEW c, SameQueue(b, c), NEW r, PostFits(t, saved, b, r)
    PROVE  PostFits(t, saved, c, r)
<1>. DEFINE posted == SlotOf(t.job, t.req)
<1>1. \A i \in DOMAIN c : SameRange(c[i], posted) =>
        /\ i \in DOMAIN b /\ SameRange(b[i], posted)
        /\ c[i].revision = b[i].revision /\ (b[i].state = "live" \/ c[i].state = b[i].state)
  BY DEF SameQueue, SameRange
<1>2. \A i \in DOMAIN b : SameRange(b[i], posted) =>
         b[i].state \in Stopping /\ b[i].revision < r
  BY DEF PostFits
<1>3. "live" \notin Stopping
  BY DEF Stopping
<1>. HIDE DEF posted
<1>4. \A i \in DOMAIN c : SameRange(c[i], posted) => c[i].state \in Stopping /\ c[i].revision < r
  BY <1>1, <1>2, <1>3
<1>. QED  BY <1>4 DEF PostFits, posted

LEMMA FreshQueue ==
    ASSUME NEW t, NEW saved, NEW b, NEW c, SameQueue(b, c), NEW r, FreshFits(t, saved, b, r)
    PROVE  FreshFits(t, saved, c, r)
<1>1. Books(t.job, c, r) /\ RunningKept(t.job, b)
  BY BooksQueue DEF FreshFits, Books
<1>2. StopsAreOld(t.job, b, r) => StopsAreOld(t.job, c, r)
  BY <1>1, OldQueue
<1>3. t.pc = "poll" => PollFits(t.job, t.stop, saved, c, r)
  BY <1>2 DEF FreshFits, PollFits
<1>4. t.pc \in {"fill", "finish"} => LeaveFits(t.job, saved, c, r)
  BY <1>2 DEF FreshFits, LeaveFits
<1>5. t.pc = "sent" => t.id \in DOMAIN c /\ c[t.id].req = t.req
  BY DEF FreshFits, SameQueue
<1>. QED  BY <1>1, <1>3, <1>4, <1>5 DEF FreshFits

LEMMA TicksAre ==
    ASSUME TicksOK, NEW r \in Revisions, NEW t, Continue(r, t)
    PROVE  \A x \in Revisions : tick'[x] = IF x = r THEN t ELSE tick[x]
BY DEF Continue, TicksOK

LEMMA QueueMoves ==
    ASSUME WorkInv, SameQueue(batch, batch'), UNCHANGED <<row, tick, refused>>
    PROVE  WorkInv'
<1>1. RowInv'
  BY RowQueue DEF WorkInv, RowInv
<1>2. PostInv'
  BY PostQueue DEF WorkInv, PostInv
<1>3. FreshInv'
  BY FreshQueue DEF WorkInv, FreshInv
<1>. QED  BY <1>1, <1>2, <1>3 DEF WorkInv

LEMMA ContinueKeeps ==
    ASSUME TicksOK, WorkInv, NEW r \in Revisions, NEW t, Continue(r, t),
           SameQueue(batch, batch'), UNCHANGED <<row, refused>>,
           t.pc # "post", Fresh(t) => FreshFits(t, row, batch, r)
    PROVE  WorkInv'
<1>1. \A x \in Revisions : tick'[x] = IF x = r THEN t ELSE tick[x]
  BY TicksAre
<1>2. RowInv'
  BY RowQueue DEF WorkInv, RowInv
<1>3. PostInv'
  BY <1>1, PostQueue DEF WorkInv, PostInv
<1>4. \A x \in Revisions : Fresh(tick'[x]) => FreshFits(tick'[x], row, batch', x)
  BY <1>1, FreshQueue DEF WorkInv, FreshInv
<1>. QED  BY <1>2, <1>3, <1>4 DEF WorkInv, FreshInv

LEMMA StaledIs ==
    ASSUME NEW t, TickOK(t)
    PROVE  /\ ~Fresh(Staled(t))
           /\ Staled(t).pc = "post" =>
                t.pc = "post" /\ Staled(t).job = t.job /\ Staled(t).req = t.req
<1>1. CASE t.pc \in {"fill", "sent", "finish"}
  BY <1>1, IdleOK DEF Staled, Fresh, Active
<1>2. CASE t.pc \in {"drain", "poll", "post"}
  <2>1. Staled(t) = [t EXCEPT !.stale = TRUE]
    BY <1>2 DEF Staled
  <2>. QED  BY <1>2, <2>1 DEF TickOK, Tick, Fresh
<1>3. CASE t.pc \in {"closed", "wait"}
  BY <1>3 DEF Staled, Fresh, Active
<1>. QED  BY <1>1, <1>2, <1>3 DEF TickOK, Tick

\* What the slots that are owed an outcome need from a write of the row.
OwedKept(saved, next) ==
    /\ \A s \in saved.slots : s.id = 0 => s \in next.slots
    /\ saved.revision <= next.revision
    /\ next.retryRequested => saved.retryRequested \/ saved.revision < next.revision

LEMMA WriteKeeps ==
    ASSUME TicksOK, row.revision \in Nat, row'.revision \in Nat,
           WorkInv, UNCHANGED <<batch, refused>>, RowFits(row', batch, refused),
           (\E x \in Revisions : tick[x].pc = "post") => OwedKept(row, row'),
           \A x \in Revisions :
               \/ tick'[x] = OthersStale[x]
               \/ /\ tick'[x].pc # "post"
                  /\ Fresh(tick'[x]) => FreshFits(tick'[x], row', batch, x)
    PROVE  WorkInv'
<1>1. RowInv'
  BY DEF RowInv
<1>2. \A x \in Revisions : OthersStale[x] = Staled(tick[x]) /\ TickOK(tick[x])
  BY DEF OthersStale, TicksOK
<1>3. ASSUME NEW x \in Revisions, tick'[x].pc = "post"
      PROVE  PostFits(tick'[x], row', batch, x)
  <2>1. tick[x].pc = "post" /\ tick'[x].job = tick[x].job /\ tick'[x].req = tick[x].req
    BY <1>2, <1>3, StaledIs
  <2>2. PostFits(tick[x], row, batch, x)
    BY <2>1 DEF WorkInv, PostInv
  <2>3. OwedKept(row, row') /\ x \in Nat
    BY <2>1 DEF Revisions
  <2>4. x <= row'.revision /\ (row'.retryRequested => x < row'.revision)
    BY <2>2, <2>3 DEF PostFits, OwedKept
  <2>. QED  BY <2>1, <2>2, <2>3, <2>4 DEF PostFits, OwedKept
<1>4. ASSUME NEW x \in Revisions, Fresh(tick'[x])
      PROVE  FreshFits(tick'[x], row', batch, x)
  BY <1>2, <1>4, StaledIs
<1>. QED  BY <1>1, <1>3, <1>4 DEF WorkInv, PostInv, FreshInv

\* Somebody other than a tick writes the row, or a tick whose last step it is.
LEMMA OthersWrite ==
    ASSUME Consistent, WorkInv, JobOK(row'), UNCHANGED <<batch, refused>>,
           RowFits(row', batch, refused),
           (\E x \in Revisions : tick[x].pc = "post") => OwedKept(row, row'),
           NEW r, NEW pc \in {"closed", "wait"},
           tick' = OthersStale \/ tick' = [OthersStale EXCEPT ![r] = At(pc)]
    PROVE  WorkInv'
<1>1. \A x \in Revisions : tick'[x] = OthersStale[x] \/ tick'[x] = At(pc)
  BY DEF OthersStale
<1>2. At(pc).pc # "post" /\ ~Fresh(At(pc))
  BY IdleOK DEF Fresh, Active
<1>3. row.revision \in Nat /\ row'.revision \in Nat
  BY DEF Consistent, JobOK, Job, Revisions
<1>. QED  BY <1>1, <1>2, <1>3, WriteKeeps DEF Consistent

LEMMA SaveKeeps ==
    ASSUME Consistent, WorkInv, JobOK(row'), UNCHANGED <<batch, refused>>,
           NEW r \in Revisions, NEW t, NEW job, Save(r, job, t),
           RowFits(job, batch, refused),
           (\E x \in Revisions : tick[x].pc = "post") => OwedKept(row, job),
           t.pc # "post", Fresh(t) => FreshFits(t, job, batch, r)
    PROVE  WorkInv'
<1>1. row' = job /\ \A x \in Revisions : tick'[x] = IF x = r THEN t ELSE OthersStale[x]
  BY DEF Save, OthersStale
<1>2. row.revision \in Nat /\ row'.revision \in Nat
  BY DEF Consistent, JobOK, Job, Revisions
<1>. QED  BY <1>1, <1>2, WriteKeeps DEF Consistent

(***************************************************************************)
(* The owner's routes, and the reads that start a tick.                    *)
(***************************************************************************)
LEMMA Typed ==
    ASSUME Consistent
    PROVE  /\ JobOK(row) /\ Queue(batch) /\ TicksOK /\ row.revision \in Nat
           /\ \A r \in Revisions : JobOK(tick[r].job) /\ r \in Nat
<1>1. Queue(batch) /\ JobOK(row) /\ TicksOK
  BY QueueOK DEF Consistent
<1>2. row.revision \in Nat
  BY <1>1 DEF JobOK, Job, Revisions
<1>3. \A r \in Revisions : JobOK(tick[r].job) /\ r \in Nat
  BY <1>1 DEF TicksOK, TickOK, Revisions
<1>. QED  BY <1>1, <1>2, <1>3

\* A write of the row that leaves its slots and its progress alone.
LEMMA RowChanged ==
    ASSUME NEW job, JobOK(job), NEW next, JobOK(next), NEW b, Queue(b), NEW logged,
           RowFits(job, b, logged),
           next.slots = job.slots, next.submissions = job.submissions,
           next.stage = job.stage, next.attempt = job.attempt,
           next.completed = job.completed, next.usage = job.usage,
           next.oneSubmissionAllowed => job.oneSubmissionAllowed,
           job.status = "failed" => next.status = "failed",
           next.status = "awaiting_authorization" => job.status = next.status,
           \/ /\ next.revision = job.revision
              /\ next.retryRequested => job.retryRequested
              /\ next.status \in Searching => job.status \in Searching
           \/ job.revision < next.revision,
           "unknown" \in next.error =>
               next.status = "paused" /\ (Unknown(next) \/ Reconciled(next)),
           Unknown(next) => next.status = "searching" \/ "unknown" \in next.error
    PROVE  RowFits(next, b, logged) /\ OwedKept(job, next)
<1>1. job.revision \in Nat /\ next.revision \in Nat /\ job.revision <= next.revision
  BY DEF JobOK, Job, Revisions
<1>2. Books(next, b, next.revision)
  BY <1>1, BooksSame DEF RowFits
<1>3. \A i \in DOMAIN b :
        /\ b[i].stage <= next.stage /\ b[i].revision <= next.revision
        /\ next.retryRequested => b[i].revision < next.revision
        /\ b[i].req \notin logged
        /\ b[i].revision \in Nat /\ b[i].revision <= job.revision
  BY <1>1 DEF RowFits, Queue, Revisions
<1>4. next.status \in Searching => StopsAreOld(next, b, next.revision)
  <2>1. CASE job.revision < next.revision
    BY <1>1, <1>3, <2>1 DEF StopsAreOld
  <2>2. CASE ~(job.revision < next.revision)
    BY <2>2 DEF RowFits, StopsAreOld, On
  <2>. QED  BY <2>1, <2>2
<1>5. OwedKept(job, next)
  BY <1>1 DEF OwedKept
<1>. QED  BY <1>2, <1>3, <1>4, <1>5 DEF RowFits

LEMMA ClosedKeeps ==
    ASSUME Consistent, WorkInv, NEW r \in Revisions, NEW pc \in {"closed", "wait"},
           Continue(r, At(pc)), UNCHANGED <<row, batch, refused>>
    PROVE  WorkInv'
<1>1. At(pc).pc # "post" /\ ~Fresh(At(pc))
  BY IdleOK DEF Fresh, Active
<1>. QED  BY <1>1, ContinueKeeps, SameQueueSame DEF Consistent

LEMMA FailKeeps ==
    ASSUME Consistent, WorkInv, NEW r \in Revisions, Fail(r)
    PROVE  WorkInv'
BY ClosedKeeps DEF Fail

LEMMA PauseJobKeeps ==
    ASSUME Consistent, WorkInv, PauseJob
    PROVE  WorkInv'
<1>1. /\ row' = [row EXCEPT !.status = "paused", !.error = PauseError(row)]
      /\ row.status \in {"searching", "queued"}
      /\ tick' = OthersStale /\ UNCHANGED <<batch, refused>>
  BY DEF PauseJob
<1>2. JobOK(row')
  BY PauseJobQuiet DEF Quiet, RowOK
<1>3. /\ row'.status = "paused" /\ row'.error = PauseError(row)
      /\ row'.slots = row.slots /\ row'.submissions = row.submissions
      /\ row'.stage = row.stage /\ row'.attempt = row.attempt
      /\ row'.completed = row.completed /\ row'.usage = row.usage
      /\ row'.oneSubmissionAllowed = row.oneSubmissionAllowed
      /\ row'.revision = row.revision /\ row'.retryRequested = row.retryRequested
  BY <1>1 DEF Consistent, JobOK, Job
<1>4. Unknown(row') = Unknown(row)
  BY <1>3 DEF Unknown
<1>5. "unknown" \notin row.error /\ (Unknown(row) => row.status = "searching")
  BY <1>1 DEF WorkInv, RowInv, RowFits
<1>6. PauseError(row) = IF Unknown(row) THEN {"unknown"} ELSE row.error
  BY <1>5 DEF PauseError
<1>7. "unknown" \in row'.error <=> Unknown(row')
  BY <1>3, <1>4, <1>5, <1>6
<1>8. RowFits(row', batch, refused) /\ OwedKept(row, row')
  BY <1>1, <1>2, <1>3, <1>7, Typed, RowChanged DEF WorkInv, RowInv, Searching
<1>. QED  BY <1>1, <1>2, <1>8, OthersWrite

LEMMA ReadOffKeeps ==
    ASSUME Consistent, WorkInv, NEW r \in Revisions, ReadOff(r)
    PROVE  WorkInv'
<1>1. CASE row.status \in Terminal
  BY <1>1, FailKeeps DEF ReadOff, Fail
<1>2. CASE row.status \notin Terminal
  <2>. DEFINE lost == row.status = "searching" /\ Unknown(row)
              error == row.error \cup {"other"} \cup (IF lost THEN {"unknown"} ELSE {})
  <2>1. /\ row' = [row EXCEPT !.status = "paused", !.error = error,
                              !.oneSubmissionAllowed = @ /\ ~lost]
        /\ tick' = [OthersStale EXCEPT ![r] = At("closed")]
        /\ UNCHANGED <<batch, refused>>
    BY <1>2 DEF ReadOff
  <2>2. JobOK(row')
    BY ReadOffQuiet DEF Quiet, RowOK
  <2>3. "unknown" \in error <=> lost \/ "unknown" \in row.error
    OBVIOUS
  <2>. HIDE DEF error, lost
  <2>4. /\ row'.status = "paused" /\ row'.error = error
        /\ row'.slots = row.slots /\ row'.submissions = row.submissions
        /\ row'.stage = row.stage /\ row'.attempt = row.attempt
        /\ row'.completed = row.completed /\ row'.usage = row.usage
        /\ row'.oneSubmissionAllowed = (row.oneSubmissionAllowed /\ ~lost)
        /\ row'.revision = row.revision /\ row'.retryRequested = row.retryRequested
        /\ row'.notSubmittedAt = row.notSubmittedAt
    BY <2>1 DEF Consistent, JobOK, Job
  <2>5. Unknown(row') = Unknown(row)
    BY <2>4 DEF Unknown
  <2>6. "unknown" \in row'.error => Unknown(row') \/ Reconciled(row')
    <3>1. CASE lost
      BY <2>5, <3>1 DEF lost
    <3>2. CASE ~lost
      BY <2>3, <2>4, <2>5, <3>2 DEF WorkInv, RowInv, RowFits, Reconciled
    <3>. QED  BY <3>1, <3>2
  <2>7. Unknown(row') => "unknown" \in row'.error
    BY <2>3, <2>4, <2>5 DEF WorkInv, RowInv, RowFits, lost
  <2>8. row.status # "failed"
    BY <1>2 DEF Terminal
  <2>9. RowFits(row', batch, refused) /\ OwedKept(row, row')
    BY <2>2, <2>4, <2>6, <2>7, <2>8, Typed, RowChanged DEF WorkInv, RowInv, Searching
  <2>. QED  BY <2>1, <2>2, <2>9, OthersWrite
<1>. QED  BY <1>1, <1>2

LEMMA ReadUnknownKeeps ==
    ASSUME Consistent, WorkInv, NEW r \in Revisions, ReadUnknown(r)
    PROVE  WorkInv'
<1>1. /\ row' = [Pause(row, "unknown") EXCEPT !.oneSubmissionAllowed = FALSE]
      /\ row.status \in {"queued", "searching"} /\ Unknown(row)
      /\ tick' = [OthersStale EXCEPT ![r] = At("closed")]
      /\ UNCHANGED <<batch, refused>>
  BY DEF ReadUnknown, Polling
<1>2. JobOK(row')
  BY ReadUnknownQuiet DEF Quiet, RowOK
<1>3. /\ row'.status = "paused" /\ row'.error = {"unknown"}
      /\ row'.slots = row.slots /\ row'.submissions = row.submissions
      /\ row'.stage = row.stage /\ row'.attempt = row.attempt
      /\ row'.completed = row.completed /\ row'.usage = row.usage
      /\ ~row'.oneSubmissionAllowed
      /\ row'.revision = row.revision /\ row'.retryRequested = row.retryRequested
  BY <1>1 DEF Pause, Consistent, JobOK, Job
<1>4. Unknown(row')
  BY <1>1, <1>3 DEF Unknown
<1>5. RowFits(row', batch, refused) /\ OwedKept(row, row')
  BY <1>1, <1>2, <1>3, <1>4, Typed, RowChanged DEF WorkInv, RowInv, Searching
<1>. QED  BY <1>1, <1>2, <1>5, OthersWrite

LEMMA ResumeJobKeeps ==
    ASSUME Consistent, WorkInv, ResumeJob
    PROVE  WorkInv'
<1>. DEFINE job == [row EXCEPT !.status = "queued", !.retryRequested = TRUE,
                               !.error = {}, !.oneSubmissionAllowed = FALSE]
<1>1. /\ NextRevision(job, TRUE) /\ row.status = "paused"
      /\ "unknown" \in row.error => Reconciled(row)
  BY DEF ResumeJob, Resumable
<1>2. /\ row' = [job EXCEPT !.revision = row.revision + 1]
      /\ tick' = [OthersStale EXCEPT ![row.revision + 1] = At("wait")]
      /\ UNCHANGED <<batch, refused>>
  BY <1>1 DEF NextRevision
<1>3. JobOK(row')
  BY ResumeJobQuiet DEF Quiet, RowOK
<1>4. /\ row'.status = "queued" /\ row'.error = {}
      /\ row'.slots = row.slots /\ row'.submissions = row.submissions
      /\ row'.stage = row.stage /\ row'.attempt = row.attempt
      /\ row'.completed = row.completed /\ row'.usage = row.usage
      /\ ~row'.oneSubmissionAllowed
      /\ row'.revision = row.revision + 1
  BY <1>2 DEF Consistent, JobOK, Job
<1>5. ~Unknown(row)
  BY <1>1 DEF WorkInv, RowInv, RowFits, Books, SlotsFit, Reconciled
<1>6. ~Unknown(row')
  BY <1>4, <1>5 DEF Unknown
<1>7. row.revision < row'.revision
  BY <1>4, Typed
<1>8. RowFits(row', batch, refused) /\ OwedKept(row, row')
  BY <1>1, <1>3, <1>4, <1>6, <1>7, Typed, RowChanged DEF WorkInv, RowInv
<1>. QED  BY <1>2, <1>3, <1>8, OthersWrite

LEMMA RestartPollingKeeps ==
    ASSUME Consistent, WorkInv, NEW i \in DOMAIN batch, RestartPolling(i)
    PROVE  WorkInv'
<1>. DEFINE job == [row EXCEPT !.notSubmittedAt = 0]
<1>1. NextRevision(job, TRUE) /\ row.status = "searching"
  BY DEF RestartPolling
<1>2. /\ row' = [job EXCEPT !.revision = row.revision + 1]
      /\ tick' = [OthersStale EXCEPT ![row.revision + 1] = At("wait")]
      /\ UNCHANGED <<batch, refused>>
  BY <1>1 DEF NextRevision
<1>3. JobOK(row')
  BY RestartPollingQuiet DEF Quiet, RowOK
<1>4. /\ row'.status = "searching" /\ row'.error = row.error
      /\ row'.slots = row.slots /\ row'.submissions = row.submissions
      /\ row'.stage = row.stage /\ row'.attempt = row.attempt
      /\ row'.completed = row.completed /\ row'.usage = row.usage
      /\ row'.oneSubmissionAllowed = row.oneSubmissionAllowed
      /\ row'.revision = row.revision + 1
  BY <1>1, <1>2 DEF Consistent, JobOK, Job
<1>5. "unknown" \notin row'.error
  BY <1>1, <1>4 DEF WorkInv, RowInv, RowFits
<1>6. row.revision < row'.revision
  BY <1>4, Typed
<1>7. RowFits(row', batch, refused) /\ OwedKept(row, row')
  BY <1>1, <1>3, <1>4, <1>5, <1>6, Typed, RowChanged DEF WorkInv, RowInv
<1>. QED  BY <1>2, <1>3, <1>7, OthersWrite

(***************************************************************************)
(* The operator's reconciliation.                                          *)
(***************************************************************************)
\* A tick about to POST keeps the one slot whose outcome is owed.
LEMMA OneOwed ==
    ASSUME Consistent, WorkInv, NEW s \in row.slots, s.id = 0,
           NEW x \in Revisions, tick[x].pc = "post"
    PROVE  tick[x].req = s.req
<1>1. PICK u \in row.slots : u.id = 0 /\ u.req = tick[x].req
  BY DEF WorkInv, PostInv, PostFits
<1>2. u = s
  BY <1>1 DEF WorkInv, RowInv, RowFits, Books, SlotsFit, OneEach
<1>. QED  BY <1>1, <1>2

LEMMA TargetOwed ==
    ASSUME Consistent, UnknownSubmission
    PROVE  Target \in row.slots /\ Target.id = 0
<1>1. UnknownSlots # {}
  BY FS_EmptySet DEF UnknownSubmission
<1>. QED  BY <1>1 DEF Target, UnknownSlots

LEMMA AttachIdKeeps ==
    ASSUME Consistent, Named, WorkInv, NEW i \in DOMAIN batch, AttachId(i)
    PROVE  WorkInv'
<1>. DEFINE known == [Target EXCEPT !.id = i]
            base == Replace(row, Target, known)
<1>1. /\ UnknownSubmission /\ batch[i].req = Target.req
      /\ row' = [[base EXCEPT !.status = "searching", !.error = {},
                              !.retryRequested = FALSE, !.notSubmittedAt = 0]
                   EXCEPT !.revision = row.revision + 1]
      /\ tick' = [OthersStale EXCEPT ![row.revision + 1] = At("wait")]
      /\ UNCHANGED <<batch, refused>>
  BY DEF AttachId, NextRevision
<1>2. JobOK(row')
  BY AttachIdQuiet DEF Quiet, RowOK
<1>3. Target \in row.slots /\ Target.id = 0
  BY <1>1, TargetOwed
<1>4. known = Known(Target, i)
  BY DEF Known
<1>5. base = [row EXCEPT !.slots = (row.slots \ {Target}) \cup {known}]
  BY DEF Replace
<1>. HIDE DEF known
<1>6. /\ base.slots = (row.slots \ {Target}) \cup {known}
      /\ base.submissions = row.submissions
      /\ base.stage = row.stage /\ base.attempt = row.attempt
      /\ base.completed = row.completed /\ base.usage = row.usage
      /\ base.status = row.status
      /\ base.oneSubmissionAllowed = row.oneSubmissionAllowed
  BY <1>5 DEF Consistent, JobOK, Job
<1>. HIDE DEF base
<1>8. Books(base, batch, row.revision) /\ ~Unknown(base)
  <2>1. \A j \in DOMAIN batch : batch[j].req = Target.req => j = i
    BY <1>1 DEF Named, PostedOnce
  <2>2. Books(row, batch, row.revision)
    BY DEF WorkInv, RowInv, RowFits
  <2>. QED  BY <1>1, <1>3, <1>4, <1>6, <2>1, <2>2, Typed, BooksKnown
<1>9. /\ row'.status = "searching" /\ row'.error = {} /\ ~row'.retryRequested
      /\ row'.slots = base.slots /\ row'.submissions = base.submissions
      /\ row'.stage = base.stage /\ row'.attempt = base.attempt
      /\ row'.completed = base.completed /\ row'.usage = base.usage
      /\ row'.oneSubmissionAllowed = base.oneSubmissionAllowed
      /\ row'.revision = row.revision + 1
  BY <1>1, <1>5 DEF Consistent, JobOK, Job
<1>10. row.status # "failed" /\ row.revision + 1 \in Nat /\ row.revision <= row.revision + 1
  BY <1>1, Typed DEF UnknownSubmission
<1>11. Books(row', batch, row'.revision)
  <2>1. /\ base.status # "failed" /\ row'.status # "awaiting_authorization"
        /\ row'.oneSubmissionAllowed => base.oneSubmissionAllowed
    BY <1>6, <1>9, <1>10
  <2>2. row.revision \in Nat /\ row'.revision \in Nat /\ row.revision <= row'.revision
    BY <1>9, <1>10, Typed
  <2>. QED  BY <1>8, <1>9, <2>1, <2>2, Typed, BooksSame
<1>12. ~Unknown(row')
  BY <1>8, <1>9 DEF Unknown
<1>13. \A j \in DOMAIN batch :
         /\ batch[j].stage <= row'.stage /\ batch[j].revision <= row'.revision
         /\ batch[j].revision < row'.revision /\ batch[j].req \notin refused
  <2>1. \A j \in DOMAIN batch :
          /\ batch[j].stage <= row.stage /\ batch[j].revision <= row.revision
          /\ batch[j].req \notin refused /\ batch[j].revision \in Nat
    BY Typed DEF WorkInv, RowInv, RowFits, Queue, Revisions
  <2>. QED  BY <1>6, <1>9, <2>1, Typed
<1>14. RowFits(row', batch, refused)
  BY <1>9, <1>11, <1>12, <1>13 DEF RowFits, StopsAreOld
<1>15. ~\E x \in Revisions : tick[x].pc = "post"
  BY <1>1, <1>3, OneOwed DEF Named, PostedOnce
<1>. QED  BY <1>1, <1>2, <1>14, <1>15, OthersWrite

LEMMA DeclareNotSubmittedKeeps ==
    ASSUME Consistent, Named, WorkInv, DeclareNotSubmitted
    PROVE  WorkInv'
<1>. DEFINE base == Drop(row, Target)
            job == [base EXCEPT !.oneSubmissionAllowed = TRUE, !.retryRequested = FALSE,
                                !.notSubmittedAt = row.revision + 1]
<1>1. /\ UnknownSubmission
      /\ Target.req \in refused \/ WindowElapsed(Target.req)
      /\ row' = [job EXCEPT !.revision = row.revision + 1]
      /\ tick' = OthersStale
      /\ UNCHANGED <<batch, refused>>
  BY DEF DeclareNotSubmitted, NextRevision
<1>2. JobOK(row')
  BY DeclareNotSubmittedQuiet DEF Quiet, RowOK
<1>3. Target \in row.slots /\ Target.id = 0
  BY <1>1, TargetOwed
<1>4. \A j \in DOMAIN batch : batch[j].req # Target.req
  BY <1>1 DEF WindowElapsed, WorkInv, RowInv, RowFits
<1>5. ~\E x \in Revisions : tick[x].pc = "post"
  BY <1>1, <1>3, OneOwed DEF WindowElapsed, Named
<1>6. /\ row'.slots = row.slots \ {Target} /\ row'.submissions = row.submissions
      /\ row'.stage = row.stage /\ row'.attempt = row.attempt
      /\ row'.completed = row.completed /\ row'.usage = row.usage
      /\ row'.status = row.status /\ row'.error = row.error
      /\ row'.oneSubmissionAllowed /\ ~row'.retryRequested
      /\ row'.revision = row.revision + 1 /\ row'.notSubmittedAt = row.revision + 1
  BY <1>1 DEF Drop, Consistent, JobOK, Job
<1>7. row.revision + 1 \in Nat /\ row.revision <= row.revision + 1
  BY Typed
<1>8. Books(row, batch, row.revision)
  BY DEF WorkInv, RowInv, RowFits
<1>9. Books(row', batch, row.revision) /\ ~Unknown(row')
  BY <1>3, <1>4, <1>6, <1>8, Typed, BooksUnsent
<1>10. Books(row', batch, row'.revision)
  BY <1>6, <1>7, <1>9, Typed, BooksSame
<1>11. \A j \in DOMAIN batch :
         /\ batch[j].stage <= row'.stage /\ batch[j].revision <= row'.revision
         /\ batch[j].req \notin refused
  <2>1. \A j \in DOMAIN batch :
          /\ batch[j].stage <= row.stage /\ batch[j].revision <= row.revision
          /\ batch[j].req \notin refused /\ batch[j].revision \in Nat
    BY Typed DEF WorkInv, RowInv, RowFits, Queue, Revisions
  <2>. QED  BY <1>6, <2>1, Typed
<1>12. row'.status = "paused" /\ Reconciled(row')
  BY <1>1, <1>6 DEF UnknownSubmission, Reconciled
<1>13. RowFits(row', batch, refused)
  BY <1>6, <1>9, <1>10, <1>11, <1>12 DEF RowFits, Searching
<1>. QED  BY <1>1, <1>2, <1>5, <1>13, OthersWrite

(***************************************************************************)
(* Draining.  A slot is seen on the tick's copy and on the saved job alike.*)
(***************************************************************************)
See(job, b, s) == IF b[s.id].state # "live" /\ ~s.metered THEN Metered(job, s.req) ELSE job
SeenSlot(b, s) == IF b[s.id].state # "live" /\ ~s.metered THEN Marked(s) ELSE s

LEMMA SeenIs ==
    ASSUME NEW job, JobOK(job), NEW b, Queue(b), NEW rev, Books(job, b, rev),
           NEW s \in job.slots, s.id # 0
    PROVE  /\ JobOK(See(job, b, s)) /\ Books(See(job, b, s), b, rev)
           /\ See(job, b, s).slots = (job.slots \ {s}) \cup {SeenSlot(b, s)}
           /\ SlotOf(See(job, b, s), s.req) = SeenSlot(b, s)
           /\ SeenSlot(b, s).req = s.req /\ SeenSlot(b, s).id = s.id
           /\ SeenSlot(b, s).retry = s.retry
           /\ SeenSlot(b, s).stage = s.stage /\ SeenSlot(b, s).attempt = s.attempt
           /\ b[s.id].state # "live" => SeenSlot(b, s).metered
           /\ See(job, b, s).submissions = job.submissions
           /\ See(job, b, s).stage = job.stage
           /\ See(job, b, s).attempt = job.attempt
           /\ See(job, b, s).completed = job.completed
           /\ See(job, b, s).status = job.status
           /\ See(job, b, s).error = job.error
           /\ See(job, b, s).revision = job.revision
           /\ See(job, b, s).retryRequested = job.retryRequested
           /\ See(job, b, s).oneSubmissionAllowed = job.oneSubmissionAllowed
<1>1. OneEach(job.slots)
  BY DEF Books, SlotsFit
<1>2. \A m : m.req = s.req /\ OneEach((job.slots \ {s}) \cup {m}) =>
        (CHOOSE x \in (job.slots \ {s}) \cup {m} : x.req = s.req) = m
  BY DEF OneEach
<1>3. CASE b[s.id].state # "live" /\ ~s.metered
  <2>1. See(job, b, s) = Metered(job, s.req) /\ SeenSlot(b, s) = Marked(s)
    BY <1>3 DEF See, SeenSlot
  <2>2. JobOK(Metered(job, s.req)) /\ Books(Metered(job, s.req), b, rev)
    BY <1>3, MeteredOK, BooksMetered
  <2>3. Metered(job, s.req).slots = (job.slots \ {s}) \cup {Marked(s)} /\ Marked(s).req = s.req
    BY <1>1, MeteredSlots
  <2>4. OneEach((job.slots \ {s}) \cup {Marked(s)})
    BY <2>2, <2>3 DEF Books, SlotsFit
  <2>5. SlotOf(Metered(job, s.req), s.req) = Marked(s)
    BY <1>2, <2>3, <2>4 DEF SlotOf
  <2>. QED  BY <1>1, <2>1, <2>2, <2>5, MeteredSlots
<1>4. CASE ~(b[s.id].state # "live" /\ ~s.metered)
  <2>1. See(job, b, s) = job /\ SeenSlot(b, s) = s
    BY <1>4 DEF See, SeenSlot
  <2>2. job.slots = (job.slots \ {s}) \cup {s}
    OBVIOUS
  <2>3. SlotOf(job, s.req) = s
    BY <1>1 DEF SlotOf, OneEach
  <2>. QED  BY <1>4, <2>1, <2>2, <2>3
<1>. QED  BY <1>3, <1>4

LEMMA RowSeen ==
    ASSUME NEW job, JobOK(job), NEW b, Queue(b), NEW logged, RowFits(job, b, logged),
           NEW s \in job.slots, s.id # 0
    PROVE  RowFits(See(job, b, s), b, logged) /\ OwedKept(job, See(job, b, s))
<1>. DEFINE next == See(job, b, s)
            m == SeenSlot(b, s)
<1>1. Books(job, b, job.revision)
  BY DEF RowFits
<1>2. /\ Books(next, b, job.revision)
      /\ next.slots = (job.slots \ {s}) \cup {m}
      /\ m.req = s.req /\ m.id = s.id
      /\ next.stage = job.stage /\ next.status = job.status /\ next.error = job.error
      /\ next.revision = job.revision /\ next.retryRequested = job.retryRequested
      /\ next.oneSubmissionAllowed = job.oneSubmissionAllowed
  BY <1>1, SeenIs
<1>3. next.notSubmittedAt = job.notSubmittedAt
  BY DEF See, Metered, JobOK, Job
<1>. HIDE DEF next, m
<1>4. Unknown(next) = Unknown(job)
  BY <1>2 DEF Unknown
<1>5. \A i : On(job, b, i) => On(next, b, i)
  BY <1>2 DEF On
<1>6. job.revision <= next.revision
  BY <1>2 DEF JobOK, Job, Revisions
<1>7. OwedKept(job, next)
  BY <1>2, <1>6 DEF OwedKept
<1>8. next.status \in Searching => StopsAreOld(next, b, next.revision)
  BY <1>2, <1>5 DEF RowFits, StopsAreOld
<1>9. RowFits(next, b, logged)
  BY <1>2, <1>3, <1>4, <1>8 DEF RowFits, Reconciled
<1>. QED  BY <1>7, <1>9 DEF next

\* Slot s of the tick's copy is on the saved job, with its Batch job.
OnBoth(r, s) == s.id # 0 /\ \E x \in row.slots : SameSlot(s, x)

LEMMA SameSeen ==
    ASSUME NEW b, NEW s, NEW x, SameSlot(s, x), NEW job
    PROVE  See(job, b, s) = See(job, b, x)
BY DEF SameSlot, See

LEMMA ObserveKeeps ==
    ASSUME Consistent, WorkInv, NEW r \in Revisions, NEW s, NEW t, Observe(r, s, t),
           ~tick[r].stale => OnBoth(r, s), UNCHANGED <<batch, refused>>, t.pc # "post",
           Fresh(t) => FreshFits(t, See(row, batch, s), batch, r)
    PROVE  WorkInv'
<1>1. CASE NeedsMeter(s)
  <2>1. See(row, batch, s) = Metered(row, s.req)
    BY <1>1 DEF See, NeedsMeter, Live
  <2>2. Save(r, See(row, batch, s), t)
    BY <1>1, <2>1 DEF Observe
  <2>3. PICK x \in row.slots : SameSlot(s, x) /\ x.id # 0
    BY <2>2 DEF Save, OnBoth, SameSlot
  <2>4. See(row, batch, s) = See(row, batch, x)
    BY <2>3, SameSeen
  <2>5. RowFits(See(row, batch, s), batch, refused) /\ OwedKept(row, See(row, batch, s))
    BY <2>3, <2>4, Typed, RowSeen DEF WorkInv, RowInv
  <2>6. JobOK(row')
    BY <2>1, <2>2, MeteredOK, Typed DEF Save
  <2>. QED  BY <2>2, <2>5, <2>6, SaveKeeps
<1>2. CASE ~NeedsMeter(s)
  <2>1. See(row, batch, s) = row
    BY <1>2 DEF See, NeedsMeter, Live
  <2>2. Continue(r, t) /\ UNCHANGED row
    BY <1>2 DEF Observe
  <2>. QED  BY <2>1, <2>2, ContinueKeeps, SameQueueSame, Typed
<1>. QED  BY <1>1, <1>2

LEMMA UnreadableKeeps ==
    ASSUME Consistent, WorkInv, NEW r \in Revisions, NEW s, Unreadable(r, s),
           ~tick[r].stale => OnBoth(r, s)
    PROVE  WorkInv'
<1>1. At("closed").pc # "post" /\ ~Fresh(At("closed"))
  BY IdleOK DEF Fresh, Active
<1>2. CASE Observe(r, s, At("closed"))
  BY <1>1, <1>2, ObserveKeeps DEF Unreadable
<1>3. CASE tick[r].stale /\ Continue(r, At("closed")) /\ UNCHANGED row
  BY <1>3, FailKeeps DEF Unreadable, Fail
<1>. QED  BY <1>2, <1>3 DEF Unreadable

SameStates ==
    DOMAIN batch' = DOMAIN batch /\ \A i \in DOMAIN batch : batch'[i].state = batch[i].state

LEMMA CancelMoves ==
    ASSUME Consistent, NEW i, Cancel(i)
    PROVE  SameQueue(batch, batch') /\ SameStates
<1>1. \A j \in DOMAIN batch : batch[j] \in BatchJob
  <2>1. DOMAIN batch = 1..Len(batch) /\ Len(batch) \in Nat
    BY LenProperties DEF Consistent
  <2>. QED  BY <2>1, ElementOfSeq DEF Consistent
<1>2. /\ DOMAIN batch' = DOMAIN batch
      /\ \A j \in DOMAIN batch : batch'[j] = IF j = i THEN [batch[i] EXCEPT !.cancelled = TRUE]
                                             ELSE batch[j]
  BY DEF Cancel
<1>3. \A j \in DOMAIN batch :
        /\ batch'[j].req = batch[j].req /\ batch'[j].stage = batch[j].stage
        /\ batch'[j].attempt = batch[j].attempt /\ batch'[j].revision = batch[j].revision
        /\ batch'[j].state = batch[j].state
  BY <1>1, <1>2 DEF BatchJob
<1>. QED  BY <1>2, <1>3 DEF SameQueue, SameRange, SameStates

LEMMA EndsMoves ==
    ASSUME Consistent, NEW i \in DOMAIN batch, NEW outcome \in AllOutcomes, Ends(i, outcome)
    PROVE  SameQueue(batch, batch')
<1>1. \A j \in DOMAIN batch : batch[j] \in BatchJob
  <2>1. DOMAIN batch = 1..Len(batch) /\ Len(batch) \in Nat
    BY LenProperties DEF Consistent
  <2>. QED  BY <2>1, ElementOfSeq DEF Consistent
<1>2. /\ DOMAIN batch' = DOMAIN batch /\ batch[i].state = "live"
      /\ \A j \in DOMAIN batch : batch'[j] = IF j = i THEN [batch[i] EXCEPT !.state = outcome]
                                             ELSE batch[j]
  BY DEF Ends, Live
<1>3. \A j \in DOMAIN batch :
        /\ batch'[j].req = batch[j].req /\ batch'[j].stage = batch[j].stage
        /\ batch'[j].attempt = batch[j].attempt /\ batch'[j].revision = batch[j].revision
        /\ batch'[j].state = IF j = i THEN outcome ELSE batch[j].state
  BY <1>1, <1>2 DEF BatchJob
<1>4. outcome # "live"
  BY DEF AllOutcomes
<1>. QED  BY <1>2, <1>3, <1>4 DEF SameQueue, SameRange

LEMMA BatchEndsKeeps ==
    ASSUME Consistent, WorkInv, NEW i \in DOMAIN batch, BatchEnds(i)
    PROVE  WorkInv'
BY EndsMoves, QueueMoves DEF BatchEnds, Ends

LEMMA ReadDrainKeeps ==
    ASSUME Consistent, WorkInv, NEW r \in Revisions, ReadDrain(r)
    PROVE  WorkInv'
<1>. DEFINE todo == {s.req : s \in {x \in row.slots : x.id # 0}}
            t == [At("drain") EXCEPT !.job = row, !.todo = todo]
<1>1. /\ row.revision = r /\ row.status \in {"paused"} \cup Terminal
      /\ Continue(r, t) /\ UNCHANGED <<row, batch, refused>>
  BY DEF ReadDrain
<1>2. t.pc = "drain" /\ t.job = row /\ t.todo = todo /\ ~t.changed
  BY DEF At
<1>3. \A s \in row.slots : s.req \in todo => s.id # 0
  BY DEF WorkInv, RowInv, RowFits, Books, SlotsFit, OneEach
<1>. HIDE DEF t, todo
<1>4. row = [row EXCEPT !.slots = row.slots]
  BY DEF Consistent, JobOK, Job
<1>5. Draining(t, row)
  BY <1>1, <1>2, <1>3, <1>4 DEF Draining
<1>6. FreshFits(t, row, batch, r)
  BY <1>1, <1>2, <1>5 DEF FreshFits, WorkInv, RowInv, RowFits
<1>. QED  BY <1>1, <1>2, <1>6, ContinueKeeps, SameQueueSame, Typed

\* The copy and the saved job stay alike when a slot of both is seen.
LEMMA SeenAlike ==
    ASSUME NEW saved, JobOK(saved), NEW job, JobOK(job),
           job = [saved EXCEPT !.slots = job.slots], NEW b, NEW s
    PROVE  See(job, b, s) = [See(saved, b, s) EXCEPT !.slots = See(job, b, s).slots]
<1>1. CASE b[s.id].state # "live" /\ ~s.metered
  <2>. DEFINE v == Metered(job, s.req).slots
              w == Metered(saved, s.req).slots
  <2>1. /\ Metered(job, s.req) = [job EXCEPT !.usage = job.usage + 1, !.slots = v]
        /\ Metered(saved, s.req) = [saved EXCEPT !.usage = saved.usage + 1, !.slots = w]
    BY DEF Metered, JobOK, Job
  <2>2. job.usage = saved.usage
    BY DEF JobOK, Job
  <2>3. saved \in Job
    BY DEF JobOK
  <2>. HIDE DEF v, w
  <2>4. [[saved EXCEPT !.slots = job.slots] EXCEPT !.usage = saved.usage + 1, !.slots = v]
          = [[saved EXCEPT !.usage = saved.usage + 1, !.slots = w] EXCEPT !.slots = v]
    BY <2>3 DEF Job
  <2>5. Metered(job, s.req) = [Metered(saved, s.req) EXCEPT !.slots = v]
    BY <2>1, <2>2, <2>4
  <2>. QED  BY <1>1, <2>5 DEF See, v
<1>2. CASE ~(b[s.id].state # "live" /\ ~s.metered)
  BY <1>2 DEF See
<1>. QED  BY <1>1, <1>2

\* A drained slot is still on the saved job and has an ID.
LEMMA DrainedSlot ==
    ASSUME Consistent, WorkInv, NEW r \in Revisions, tick[r].pc = "drain", ~tick[r].stale
    PROVE  /\ FreshFits(tick[r], row, batch, r) /\ Draining(tick[r], row)
           /\ \A s \in Todo(r) : s \in tick[r].job.slots /\ s \in row.slots /\ OnBoth(r, s)
<1>1. FreshFits(tick[r], row, batch, r)
  BY DEF WorkInv, FreshInv, Fresh, Active
<1>2. Draining(tick[r], row)
  BY <1>1 DEF FreshFits
<1>. QED  BY <1>1, <1>2 DEF Draining, Todo, OnBoth, SameSlot

LEMMA DrainRunningKeeps ==
    ASSUME Consistent, WorkInv, NEW r \in Revisions, tick[r].pc = "drain",
           NEW s \in Todo(r), DrainRunning(r, s)
    PROVE  WorkInv'
<1>. DEFINE t == [Done(r, s) EXCEPT !.running = TRUE]
<1>1. Continue(r, t) /\ Cancel(s.id) /\ UNCHANGED <<row, refused>>
  BY DEF DrainRunning
<1>2. /\ t.pc = "drain" /\ t.stale = tick[r].stale /\ t.job = tick[r].job
      /\ t.todo = tick[r].todo \ {s.req} /\ t.changed = tick[r].changed
  BY DEF Done, Consistent, TicksOK, TickOK, Tick
<1>. HIDE DEF t
<1>3. ASSUME Fresh(t)  PROVE FreshFits(t, row, batch, r)
  <2>1. FreshFits(tick[r], row, batch, r) /\ Draining(tick[r], row)
    BY <1>2, <1>3, DrainedSlot DEF Fresh
  <2>2. Draining(t, row)
    BY <1>2, <2>1 DEF Draining
  <2>. QED  BY <1>2, <2>1, <2>2 DEF FreshFits
<1>. QED  BY <1>1, <1>2, <1>3, CancelMoves, ContinueKeeps, Typed

\* A finished search drops what ended: nothing of it is owed a credit.
LEMMA BooksEndedDrop ==
    ASSUME NEW job, JobOK(job), job.status \in Terminal, NEW b, Queue(b), NEW rev,
           Books(job, b, rev), NEW s \in job.slots, s.id # 0, s.metered
    PROVE  /\ Books(Drop(job, s), b, rev)
           /\ Drop(job, s).slots = job.slots \ {s}
           /\ Drop(job, s) = [job EXCEPT !.slots = Drop(job, s).slots]
<1>. DEFINE next == Drop(job, s)
<1>1. /\ next.slots = job.slots \ {s} /\ next.submissions = job.submissions
      /\ next.usage = job.usage /\ next.stage = job.stage
      /\ next.oneSubmissionAllowed = job.oneSubmissionAllowed
      /\ next.status = job.status /\ next.attempt = job.attempt
      /\ next.completed = job.completed /\ job.stage \in Int
      /\ next = [job EXCEPT !.slots = next.slots]
  BY DEF Drop, JobOK, Job, Stages, Verification
<1>. HIDE DEF next
<1>2. Passed(next) /\ RangesSearched(next, b)
  BY <1>1 DEF Books, Passed, RangesSearched
<1>3. ResultsKept(next, b)
  <2>1. CASE next.status = "failed"
    BY <2>1 DEF ResultsKept
  <2>2. CASE next.status # "failed"
    <3>1. next.stage = Verification
      BY <1>1, <1>2, <2>2 DEF Terminal, Passed
    <3>2. \A i \in DOMAIN b : b[i].stage # Verification
      BY SizesAssumption DEF Queue, SearchStages, Verification
    <3>. QED  BY <3>1, <3>2 DEF ResultsKept
  <2>. QED  BY <2>1, <2>2
<1>4. Books(next, b, rev)
  BY <1>1, <1>2, <1>3, BooksDrop
<1>. QED  BY <1>1, <1>4 DEF next

LEMMA DrainEndedKeeps ==
    ASSUME Consistent, WorkInv, NEW r \in Revisions, tick[r].pc = "drain",
           NEW s \in Todo(r), DrainEnded(r, s)
    PROVE  WorkInv'
<1>. DEFINE job == Seen(r, s)
            drop == job.status \in Terminal
            next == IF drop THEN Drop(job, SlotOf(job, s.req)) ELSE job
            changed == tick[r].changed \/ drop
            t == [Done(r, s) EXCEPT !.job = next, !.changed = changed]
            m == SeenSlot(batch, s)
            saved == See(row, batch, s)
            copy == tick[r].job
<1>1. Observe(r, s, t) /\ UNCHANGED <<batch, refused>> /\ batch[s.id].state # "live"
  <2>1. Done(r, s).changed = tick[r].changed
    BY DEF Done
  <2>. QED  BY <2>1 DEF DrainEnded, Live
<1>2. /\ t.pc = "drain" /\ t.stale = tick[r].stale /\ t.job = next
      /\ t.todo = tick[r].todo \ {s.req} /\ t.changed = changed
  BY DEF Done, Consistent, TicksOK, TickOK, Tick
<1>3. job = See(copy, batch, s)
  BY DEF Seen, See, NeedsMeter, Live
<1>. HIDE DEF t, saved, m, job
<1>4. ASSUME ~tick[r].stale  PROVE FreshFits(t, saved, batch, r)
  <2>1. /\ FreshFits(tick[r], row, batch, r) /\ Draining(tick[r], row)
        /\ s \in copy.slots /\ s \in row.slots /\ s.id # 0
    BY <1>4, DrainedSlot DEF OnBoth
  <2>2. Books(row, batch, r) /\ Books(copy, batch, r) /\ row.revision = r
    BY <2>1 DEF FreshFits, WorkInv, RowInv, RowFits
  <2>3. /\ saved.slots = (row.slots \ {s}) \cup {m}
        /\ saved.status = row.status /\ saved.revision = row.revision
    BY <2>1, <2>2, SeenIs, Typed DEF saved, m
  <2>4. /\ job.slots = (copy.slots \ {s}) \cup {m}
        /\ SlotOf(job, s.req) = m /\ m.req = s.req /\ m.id = s.id /\ m.metered
        /\ m.stage = s.stage
        /\ Books(job, batch, r) /\ JobOK(job)
        /\ job.status = copy.status
    BY <1>1, <1>3, <2>1, <2>2, SeenIs, Typed DEF m
  <2>5. job = [saved EXCEPT !.slots = job.slots]
    BY <1>3, <2>1, SeenAlike, Typed DEF saved, Draining
  <2>6. copy.slots \subseteq row.slots /\ copy.status = row.status
    BY <2>1 DEF Draining, Consistent, JobOK, Job
  <2>7. \A x \in row.slots : x.req = s.req => x = s
    BY <2>1, <2>2 DEF Books, SlotsFit, OneEach
  <2>8. /\ m \in job.slots /\ Books(t.job, batch, r)
        /\ t.job = [job EXCEPT !.slots = t.job.slots]
        /\ t.job.slots = job.slots \/ t.job.slots = job.slots \ {m}
        /\ job.status \notin Terminal => ~t.changed
    <3>1. m \in job.slots /\ job \in Job
      BY <2>4 DEF JobOK
    <3>2. CASE job.status \in Terminal
      <4>1. t.job = Drop(job, m)
        BY <1>2, <2>4, <3>2
      <4>. QED  BY <2>1, <2>4, <3>1, <3>2, <4>1, Typed, BooksEndedDrop
    <3>3. CASE job.status \notin Terminal
      <4>1. t.job = job /\ ~t.changed
        BY <1>2, <2>1, <2>4, <2>6, <3>3 DEF Draining
      <4>2. job = [job EXCEPT !.slots = job.slots]
        BY <3>1 DEF Job
      <4>. QED  BY <2>4, <3>1, <4>1, <4>2
    <3>. QED  BY <3>2, <3>3
  <2>9. t.job = [saved EXCEPT !.slots = t.job.slots]
    <3>. DEFINE kept == t.job.slots
    <3>1. [[saved EXCEPT !.slots = job.slots] EXCEPT !.slots = kept]
            = [saved EXCEPT !.slots = kept]
      OBVIOUS
    <3>2. t.job = [job EXCEPT !.slots = kept]
      BY <2>8
    <3>. HIDE DEF kept
    <3>3. t.job = [saved EXCEPT !.slots = kept]
      BY <2>5, <3>1, <3>2
    <3>. QED  BY <3>3 DEF kept
  <2>10. Draining(t, saved)
    <3>1. t.job.slots \subseteq saved.slots
      BY <2>3, <2>4, <2>6, <2>8
    <3>2. \A x \in saved.slots : x.id = 0 => x \in t.job.slots
      BY <2>1, <2>3, <2>4, <2>8 DEF Draining
    <3>3. \A x \in t.job.slots : x.req \in t.todo => x.id # 0
      BY <1>2, <2>1, <2>4, <2>8 DEF Draining
    <3>4. saved.status \in {"paused"} \cup Terminal
          /\ (saved.status \notin Terminal => ~t.changed)
      BY <2>1, <2>3, <2>4, <2>6, <2>8 DEF Draining
    <3>. QED  BY <2>9, <3>1, <3>2, <3>3, <3>4 DEF Draining
  <2>. QED  BY <1>2, <2>2, <2>3, <2>8, <2>10 DEF FreshFits
<1>5. Fresh(t) => FreshFits(t, saved, batch, r)
  BY <1>2, <1>4 DEF Fresh
<1>6. ~tick[r].stale => OnBoth(r, s)
  BY DrainedSlot
<1>. QED  BY <1>1, <1>2, <1>5, <1>6, ObserveKeeps DEF saved

LEMMA DrainKeeps ==
    ASSUME Consistent, WorkInv, NEW r \in Revisions, Drain(r)
    PROVE  WorkInv'
<1>1. PICK s \in Todo(r) : DrainRunning(r, s) \/ DrainEnded(r, s) \/ Unreadable(r, s)
  BY DEF Drain
<1>2. tick[r].pc = "drain"
  BY DEF Drain
<1>3. ~tick[r].stale => OnBoth(r, s)
  BY <1>2, DrainedSlot
<1>. QED
  BY <1>1, <1>2, <1>3, DrainRunningKeeps, DrainEndedKeeps, UnreadableKeeps

LEMMA DrainFinishKeeps ==
    ASSUME Consistent, WorkInv, NEW r \in Revisions, DrainFinish(r)
    PROVE  WorkInv'
<1>1. PICK pc \in {"closed", "wait"} : pc = IF tick[r].running THEN "wait" ELSE "closed"
  OBVIOUS
<1>2. CASE ~tick[r].changed
  <2>1. Continue(r, At(pc)) /\ UNCHANGED <<row, batch, refused>>
    BY <1>1, <1>2 DEF DrainFinish
  <2>. QED  BY <2>1, ClosedKeeps
<1>3. CASE tick[r].changed
  <2>. DEFINE job == tick[r].job
  <2>1. Save(r, job, At(pc)) /\ UNCHANGED <<batch, refused>> /\ tick[r].pc = "drain"
    BY <1>1, <1>3 DEF DrainFinish
  <2>2. FreshFits(tick[r], row, batch, r) /\ Draining(tick[r], row)
    BY <2>1, DrainedSlot DEF Save
  <2>3. /\ row.revision = r /\ Books(job, batch, r)
        /\ row.status \in Terminal /\ job = [row EXCEPT !.slots = job.slots]
        /\ job.slots \subseteq row.slots
        /\ \A s \in row.slots : s.id = 0 => s \in job.slots
    BY <1>3, <2>2 DEF FreshFits, Draining
  <2>4. /\ job.revision = row.revision /\ job.stage = row.stage
        /\ job.retryRequested = row.retryRequested /\ job.status = row.status
        /\ job.error = row.error
    BY <2>3 DEF Consistent, JobOK, Job
  <2>5. row.status # "paused" /\ row.status # "searching" /\ row.status \notin Searching
    BY <2>3 DEF Terminal, Searching
  <2>. HIDE DEF job
  <2>6. ~Unknown(row) /\ "unknown" \notin row.error
    BY <2>5 DEF WorkInv, RowInv, RowFits
  <2>7. ~Unknown(job)
    BY <2>3, <2>6 DEF Unknown
  <2>8. RowFits(job, batch, refused)
    BY <2>3, <2>4, <2>5, <2>6, <2>7 DEF WorkInv, RowInv, RowFits
  <2>9. OwedKept(row, job)
    BY <2>3, <2>4, Typed DEF OwedKept
  <2>10. At(pc).pc # "post" /\ ~Fresh(At(pc))
    BY IdleOK DEF Fresh, Active
  <2>11. JobOK(row')
    BY <2>1, Typed DEF Save, job
  <2>. QED  BY <2>1, <2>8, <2>9, <2>10, <2>11, SaveKeeps
<1>. QED  BY <1>2, <1>3

(***************************************************************************)
(* Polling.  Polled says what the tick's copy v and the saved job w are    *)
(* like once the tick has seen the ended slot m; each result then takes    *)
(* the slot off the copy and keeps the books.                              *)
(***************************************************************************)
Polled(v, w, stop, b, r, m) ==
    /\ JobOK(v) /\ Queue(b) /\ Books(v, b, r) /\ PollFits(v, stop, w, b, r)
    /\ m \in v.slots /\ m.id # 0 /\ m.metered
    /\ w.stage \in Nat /\ \A i \in DOMAIN b : b[i].stage <= w.stage

\* The slot's Batch job is of its range, and no other slot's.
LEMMA PolledSlot ==
    ASSUME NEW v, NEW w, NEW stop, NEW b, NEW r, NEW m, Polled(v, w, stop, b, r, m)
    PROVE  /\ m.id \in DOMAIN b /\ b[m.id].req = m.req
           /\ b[m.id].stage = m.stage /\ b[m.id].attempt = m.attempt
           /\ m.stage <= w.stage /\ w.stage <= v.stage
           /\ m.stage \in SearchStages /\ m.attempt \in Attempts
           /\ v.stage \in Nat
           /\ m.retry => b[m.id].revision < r
BY DEF Polled, Books, SlotsFit, Fits, SameRange, Queue, PollFits, Ahead, JobOK, Job,
       Stages, Verification

\* A copy that only lost the slot is still ahead of the saved job.
LEMMA AheadDrop ==
    ASSUME NEW v, NEW w, NEW next, Ahead(v, w), next.slots \subseteq v.slots,
           v.stage \in Nat, w.stage \in Nat, next.stage \in Nat, v.stage <= next.stage,
           next.revision = v.revision, next.retryRequested = v.retryRequested,
           "unknown" \notin next.error
    PROVE  Ahead(next, w)
BY DEF Ahead, Unknown

\* The part that every result has in common.
LEMMA PolledDrop ==
    ASSUME NEW v, NEW w, NEW stop, NEW b, NEW r, NEW m, Polled(v, w, stop, b, r, m),
           NEW next, next.slots = v.slots \ {m}, next.submissions = v.submissions,
           next.usage = v.usage, next.stage \in Nat, v.stage <= next.stage,
           next.revision = v.revision, next.retryRequested = v.retryRequested,
           next.oneSubmissionAllowed = v.oneSubmissionAllowed,
           "unknown" \notin next.error, next.status # "paused",
           Passed(next), ResultsKept(next, b), RangesSearched(next, b),
           NEW later, later \subseteq {w.stage},
           next.status \in Searching /\ next.stage \notin later => StopsAreOld(next, b, r)
    PROVE  Books(next, b, r) /\ PollFits(next, later, w, b, r)
<1>1. v.stage \in Nat
  BY PolledSlot
<1>2. Books(next, b, r)
  <2>1. next.stage \in Int /\ (next.oneSubmissionAllowed => v.oneSubmissionAllowed)
    OBVIOUS
  <2>. QED  BY <2>1, BooksDrop DEF Polled
<1>3. Ahead(next, w)
  BY <1>1, AheadDrop DEF Polled, PollFits
<1>. QED  BY <1>2, <1>3 DEF PollFits

LEMMA OnDrop ==
    ASSUME NEW v, NEW next, NEW b, NEW m \in v.slots, m.id # 0, next.slots = v.slots \ {m}
    PROVE  \A i : On(v, b, i) => On(next, b, i) \/ i = m.id
BY DEF On

LEMMA DropIs ==
    ASSUME NEW job, JobOK(job), NEW m
    PROVE  /\ Drop(job, m).slots = job.slots \ {m}
           /\ Drop(job, m).submissions = job.submissions
           /\ Drop(job, m).usage = job.usage /\ Drop(job, m).stage = job.stage
           /\ Drop(job, m).revision = job.revision
           /\ Drop(job, m).retryRequested = job.retryRequested
           /\ Drop(job, m).oneSubmissionAllowed = job.oneSubmissionAllowed
           /\ Drop(job, m).error = job.error /\ Drop(job, m).status = job.status
           /\ Drop(job, m).attempt = job.attempt
           /\ Drop(job, m).completed = job.completed
BY DEF Drop, JobOK, Job

LEMMA SupersededKeeps ==
    ASSUME NEW v, NEW w, NEW stop, NEW b, NEW r, NEW m, Polled(v, w, stop, b, r, m),
           ~Current(v, m)
    PROVE  Books(Drop(v, m), b, r) /\ PollFits(Drop(v, m), stop, w, b, r)
<1>. DEFINE next == Drop(v, m)
<1>1. JobOK(v) /\ m \in v.slots /\ m.id # 0 /\ Books(v, b, r) /\ PollFits(v, stop, w, b, r)
  BY DEF Polled
<1>2. /\ next.slots = v.slots \ {m} /\ next.submissions = v.submissions
      /\ next.usage = v.usage /\ next.stage = v.stage /\ next.revision = v.revision
      /\ next.retryRequested = v.retryRequested
      /\ next.oneSubmissionAllowed = v.oneSubmissionAllowed
      /\ next.error = v.error /\ next.status = v.status
      /\ next.attempt = v.attempt /\ next.completed = v.completed
  BY <1>1, DropIs
<1>. HIDE DEF next
<1>3. v.stage \in Nat /\ b[m.id].stage = m.stage
  BY PolledSlot
<1>4. next.status # "failed" => m.stage # v.stage
  BY <1>2 DEF Current
<1>5. \A i : On(v, b, i) => On(next, b, i) \/ i = m.id
  BY <1>1, <1>2, OnDrop
<1>6. Passed(next) /\ RangesSearched(next, b) /\ ResultsKept(next, b)
  BY <1>1, <1>2, <1>3, <1>4, <1>5
     DEF Books, Passed, RangesSearched, ResultsKept, Credited
<1>7. next.status \in Searching /\ next.stage \notin stop => StopsAreOld(next, b, r)
  BY <1>1, <1>2, <1>3, <1>4, <1>5 DEF PollFits, StopsAreOld, Searching
<1>8. "unknown" \notin next.error /\ next.status # "paused" /\ stop \subseteq {w.stage}
  BY <1>1, <1>2 DEF PollFits, Ahead
<1>9. next.stage \in Nat /\ v.stage <= next.stage
  BY <1>2, <1>3
<1>10. Books(next, b, r) /\ PollFits(next, stop, w, b, r)
  BY <1>2, <1>6, <1>7, <1>8, <1>9, PolledDrop
<1>. QED  BY <1>10 DEF next

LEMMA StoppedKeeps ==
    ASSUME NEW v, NEW w, NEW stop, NEW b, NEW r, NEW m, Polled(v, w, stop, b, r, m),
           Current(v, m), b[m.id].state \in Stopping,
           NEW later, later = IF stop = {} /\ ~m.retry THEN {m.stage} ELSE stop
    PROVE  Books(Drop(v, m), b, r) /\ PollFits(Drop(v, m), later, w, b, r)
<1>. DEFINE next == Drop(v, m)
<1>1. JobOK(v) /\ m \in v.slots /\ m.id # 0 /\ Books(v, b, r) /\ PollFits(v, stop, w, b, r)
  BY DEF Polled
<1>2. /\ next.slots = v.slots \ {m} /\ next.submissions = v.submissions
      /\ next.usage = v.usage /\ next.stage = v.stage /\ next.revision = v.revision
      /\ next.retryRequested = v.retryRequested
      /\ next.oneSubmissionAllowed = v.oneSubmissionAllowed
      /\ next.error = v.error /\ next.status = v.status
      /\ next.attempt = v.attempt /\ next.completed = v.completed
  BY <1>1, DropIs
<1>. HIDE DEF next
<1>3. /\ v.stage \in Nat /\ b[m.id].stage = m.stage
      /\ m.retry => b[m.id].revision < r
      /\ m.stage = v.stage /\ w.stage \in Nat
  <2>1. v.stage \in Nat /\ b[m.id].stage = m.stage /\ (m.retry => b[m.id].revision < r)
    BY PolledSlot
  <2>2. m.stage = v.stage
    BY DEF Current
  <2>3. w.stage \in Nat
    BY DEF Polled
  <2>. QED  BY <2>1, <2>2, <2>3
<1>4. v.stage = w.stage
  <2>1. m.stage <= w.stage /\ w.stage <= v.stage
    BY PolledSlot
  <2>. QED  BY <1>3, <2>1
<1>5. \A i : On(v, b, i) => On(next, b, i) \/ i = m.id
  BY <1>1, <1>2, OnDrop
<1>6. Passed(next) /\ RangesSearched(next, b) /\ ResultsKept(next, b)
  BY <1>1, <1>2, <1>3, <1>5
     DEF Books, Passed, RangesSearched, ResultsKept, Credited
<1>7. later \subseteq {w.stage} /\ (stop # {} => v.stage \in stop)
  BY <1>1, <1>3, <1>4 DEF PollFits
<1>8. next.status \in Searching /\ next.stage \notin later => StopsAreOld(next, b, r)
  BY <1>1, <1>2, <1>3, <1>5, <1>7 DEF PollFits, StopsAreOld
<1>9. "unknown" \notin next.error /\ next.status # "paused"
  BY <1>1, <1>2 DEF PollFits, Ahead
<1>10. next.stage \in Nat /\ v.stage <= next.stage
  BY <1>2, <1>3
<1>11. Books(next, b, r) /\ PollFits(next, later, w, b, r)
  BY <1>2, <1>6, <1>7, <1>8, <1>9, <1>10, PolledDrop
<1>. QED  BY <1>11 DEF next

Overflowed(job) == [job EXCEPT !.status = "failed", !.error = {"other"}]

LEMMA OverflowKeeps ==
    ASSUME NEW v, NEW w, NEW stop, NEW b, NEW r, NEW m, Polled(v, w, stop, b, r, m),
           NEW next, next = Overflowed(Drop(v, m))
    PROVE  Books(next, b, r) /\ PollFits(next, stop, w, b, r)
<1>1. JobOK(v) /\ m \in v.slots /\ m.id # 0 /\ Books(v, b, r) /\ PollFits(v, stop, w, b, r)
  BY DEF Polled
<1>2. JobOK(Drop(v, m))
  BY <1>1, DropOK
<1>3. /\ next.slots = v.slots \ {m} /\ next.submissions = v.submissions
      /\ next.usage = v.usage /\ next.stage = v.stage /\ next.revision = v.revision
      /\ next.retryRequested = v.retryRequested
      /\ next.oneSubmissionAllowed = v.oneSubmissionAllowed
      /\ next.error = {"other"} /\ next.status = "failed"
      /\ next.attempt = v.attempt /\ next.completed = v.completed
  BY <1>1, <1>2, DropIs DEF Overflowed, JobOK, Job
<1>4. next.stage \in Nat /\ v.stage <= next.stage
  BY <1>3, PolledSlot
<1>5. Passed(next) /\ RangesSearched(next, b) /\ ResultsKept(next, b)
  BY <1>1, <1>3 DEF Books, Passed, RangesSearched, ResultsKept
<1>6. /\ next.status \notin Searching /\ stop \subseteq {w.stage}
      /\ "unknown" \notin next.error /\ next.status # "paused"
  BY <1>1, <1>3 DEF Searching, PollFits
<1>. QED  BY <1>3, <1>4, <1>5, <1>6, PolledDrop

LEMMA HitKeeps ==
    ASSUME NEW v, NEW w, NEW stop, NEW b, NEW r, NEW m, Polled(v, w, stop, b, r, m),
           Current(v, m), b[m.id].state = "hit",
           NEW next, next = VerifiedHit(Drop(v, m))
    PROVE  Books(next, b, r) /\ PollFits(next, stop, w, b, r)
<1>1. JobOK(v) /\ m \in v.slots /\ m.id # 0 /\ Books(v, b, r) /\ PollFits(v, stop, w, b, r)
  BY DEF Polled
<1>2. JobOK(Drop(v, m))
  BY <1>1, DropOK
<1>3. /\ next.slots = v.slots \ {m} /\ next.submissions = v.submissions
      /\ next.usage = v.usage /\ next.stage = v.stage + 1 /\ next.revision = v.revision
      /\ next.retryRequested = v.retryRequested
      /\ next.oneSubmissionAllowed = v.oneSubmissionAllowed
      /\ next.error = v.error /\ next.attempt = 0 /\ next.completed = {}
      /\ next.status = IF v.stage + 1 = Verification
                       THEN "awaiting_authorization" ELSE "queued"
  BY <1>1, <1>2, DropIs DEF VerifiedHit, JobOK, Job
<1>4. /\ v.stage \in Nat /\ m.id \in DOMAIN b /\ b[m.id].stage = m.stage
      /\ m.stage = v.stage /\ m.stage <= w.stage /\ w.stage <= v.stage
  BY PolledSlot DEF Current
<1>5. \A i \in DOMAIN b : b[i].stage # next.stage
  BY <1>3, <1>4 DEF Polled, Queue, SearchStages
<1>6. Passed(next) /\ ResultsKept(next, b)
  BY <1>3, <1>5 DEF Passed, ResultsKept
<1>7. RangesSearched(next, b)
  <2>1. \A a \in 0..RangeSize : ~(a < next.attempt \/ a \in next.completed)
    BY <1>3
  <2>2. ASSUME NEW g \in 1..(next.stage - 1)
        PROVE  \E i \in DOMAIN b : b[i].stage = g /\ b[i].state = "hit"
    <3>1. CASE g = v.stage
      BY <1>4, <3>1
    <3>2. CASE g # v.stage
      <4>1. g \in 1..(v.stage - 1)
        BY <1>3, <1>4, <3>2
      <4>. QED  BY <1>1, <4>1 DEF Books, RangesSearched
    <3>. QED  BY <3>1, <3>2
  <2>. QED  BY <2>1, <2>2 DEF RangesSearched
<1>8. StopsAreOld(next, b, r)
  BY <1>5 DEF StopsAreOld
<1>9. /\ "unknown" \notin next.error /\ next.status # "paused" /\ stop \subseteq {w.stage}
      /\ next.stage \in Nat /\ v.stage <= next.stage
  BY <1>1, <1>3, <1>4 DEF PollFits, Ahead
<1>. QED  BY <1>3, <1>6, <1>7, <1>8, <1>9, PolledDrop

\* What is below the cursor, or kept above it, is what was and the credited range.
LEMMA CreditIs ==
    ASSUME NEW job, JobOK(job), NEW a \in Attempts, NEW next, next = Credit(job, a)
    PROVE  /\ \A x \in Nat : x < next.attempt \/ x \in next.completed <=>
                             x < job.attempt \/ x \in job.completed \/ x = a
           /\ next.slots = job.slots /\ next.submissions = job.submissions
           /\ next.usage = job.usage /\ next.stage = job.stage
           /\ next.revision = job.revision /\ next.retryRequested = job.retryRequested
           /\ next.oneSubmissionAllowed = job.oneSubmissionAllowed
           /\ next.error = job.error /\ next.status = job.status
<1>. DEFINE completed == job.completed \cup {a}
            open == {b \in job.attempt..RangeSize : b \notin completed}
            least == Least(open)
            kept == {b \in completed : b < job.attempt \/ b > least}
<1>1. open \subseteq 0..RangeSize /\ RangeSize \in open
  BY SizesAssumption DEF JobOK, Job, Attempts
<1>2. least \in open /\ \A b \in open : least <= b
  BY <1>1, LeastInSet, SizesAssumption
<1>3. next = [job EXCEPT !.attempt = least, !.completed = kept]
  BY DEF Credit
<1>4. /\ least \in Nat /\ job.attempt \in Nat /\ job.attempt <= least
      /\ least \notin completed /\ completed \subseteq Nat
  BY <1>1, <1>2, SizesAssumption DEF JobOK, Job, Attempts
<1>5. ASSUME NEW x \in Nat, job.attempt <= x, x < least  PROVE x \in completed
  <2>1. x \in job.attempt..RangeSize
    BY <1>1, <1>2, <1>4, <1>5, SizesAssumption
  <2>. QED  BY <1>2, <1>4, <1>5, <2>1
<1>. HIDE DEF open, least
<1>6. next.attempt = least /\ next.completed = kept
  BY <1>3 DEF JobOK, Job
<1>7. \A x \in Nat : x < least \/ x \in kept <=> x < job.attempt \/ x \in completed
  BY <1>4, <1>5
<1>8. /\ next.slots = job.slots /\ next.submissions = job.submissions
      /\ next.usage = job.usage /\ next.stage = job.stage
      /\ next.revision = job.revision /\ next.retryRequested = job.retryRequested
      /\ next.oneSubmissionAllowed = job.oneSubmissionAllowed
      /\ next.error = job.error /\ next.status = job.status
  BY <1>3 DEF JobOK, Job
<1>. HIDE DEF kept
<1>. QED  BY <1>6, <1>7, <1>8

LEMMA NoneKeeps ==
    ASSUME NEW v, NEW w, NEW stop, NEW b, NEW r, NEW m, Polled(v, w, stop, b, r, m),
           Current(v, m), b[m.id].state = "none",
           NEW next, next = Credit(Drop(v, m), m.attempt)
    PROVE  Books(next, b, r) /\ PollFits(next, stop, w, b, r)
<1>1. JobOK(v) /\ m \in v.slots /\ m.id # 0 /\ Books(v, b, r) /\ PollFits(v, stop, w, b, r)
  BY DEF Polled
<1>2. JobOK(Drop(v, m))
  BY <1>1, DropOK
<1>3. /\ m.attempt \in Attempts /\ v.stage \in Nat /\ m.id \in DOMAIN b
      /\ b[m.id].stage = m.stage /\ b[m.id].attempt = m.attempt /\ m.stage = v.stage
  BY PolledSlot DEF Current
<1>4. /\ \A x \in Nat : x < next.attempt \/ x \in next.completed <=>
                        x < v.attempt \/ x \in v.completed \/ x = m.attempt
      /\ next.slots = v.slots \ {m} /\ next.submissions = v.submissions
      /\ next.usage = v.usage /\ next.stage = v.stage /\ next.revision = v.revision
      /\ next.retryRequested = v.retryRequested
      /\ next.oneSubmissionAllowed = v.oneSubmissionAllowed
      /\ next.error = v.error /\ next.status = v.status
  <2>. DEFINE rest == Drop(v, m)
  <2>1. /\ \A x \in Nat : x < next.attempt \/ x \in next.completed <=>
                          x < rest.attempt \/ x \in rest.completed \/ x = m.attempt
        /\ next.slots = rest.slots /\ next.submissions = rest.submissions
        /\ next.usage = rest.usage /\ next.stage = rest.stage
        /\ next.revision = rest.revision
        /\ next.retryRequested = rest.retryRequested
        /\ next.oneSubmissionAllowed = rest.oneSubmissionAllowed
        /\ next.error = rest.error /\ next.status = rest.status
    <3>. HIDE DEF rest
    <3>1. JobOK(rest) /\ next = Credit(rest, m.attempt)
      BY <1>2 DEF rest
    <3>. QED  BY <1>3, <3>1, CreditIs
  <2>2. /\ rest.attempt = v.attempt /\ rest.completed = v.completed
        /\ rest.slots = v.slots \ {m} /\ rest.submissions = v.submissions
        /\ rest.usage = v.usage /\ rest.stage = v.stage /\ rest.revision = v.revision
        /\ rest.retryRequested = v.retryRequested
        /\ rest.oneSubmissionAllowed = v.oneSubmissionAllowed
        /\ rest.error = v.error /\ rest.status = v.status
    BY <1>1, DropIs
  <2>. HIDE DEF rest
  <2>. QED  BY <2>1, <2>2
<1>5. \A i \in DOMAIN b : b[i].attempt \in Nat
  BY DEF Polled, Queue, Attempts
<1>6. \A i \in DOMAIN b : Credited(v, b, i) => Credited(next, b, i)
  BY <1>4, <1>5 DEF Credited
<1>7. Credited(next, b, m.id)
  BY <1>3, <1>4, <1>5 DEF Credited
<1>8. ResultsKept(next, b)
  BY <1>1, <1>4, <1>6, <1>7, ResultsDrop
<1>9. RangesSearched(next, b)
  <2>1. ASSUME NEW a \in 0..RangeSize, a < next.attempt \/ a \in next.completed
        PROVE  \E i \in DOMAIN b : b[i].stage = next.stage /\ b[i].attempt = a
                                   /\ b[i].state = "none"
    <3>1. a < v.attempt \/ a \in v.completed \/ a = m.attempt
      BY <1>4, <2>1
    <3>2. CASE a = m.attempt
      BY <1>3, <1>4, <3>2
    <3>3. CASE a # m.attempt
      BY <1>1, <1>4, <3>1, <3>3 DEF Books, RangesSearched
    <3>. QED  BY <3>2, <3>3
  <2>2. \A g \in 1..(next.stage - 1) :
          \E i \in DOMAIN b : b[i].stage = g /\ b[i].state = "hit"
    BY <1>1, <1>4 DEF Books, RangesSearched
  <2>. QED  BY <2>1, <2>2 DEF RangesSearched
<1>10. next.status \in Searching /\ next.stage \notin stop => StopsAreOld(next, b, r)
  <2>1. \A i : On(v, b, i) => On(next, b, i) \/ i = m.id
    BY <1>1, <1>4, OnDrop
  <2>2. b[m.id].state \notin Stopping
    BY DEF Stopping
  <2>. QED  BY <1>1, <1>4, <2>1, <2>2 DEF PollFits, StopsAreOld
<1>11. /\ "unknown" \notin next.error /\ next.status # "paused" /\ stop \subseteq {w.stage}
       /\ next.stage \in Nat /\ v.stage <= next.stage /\ Passed(next)
  BY <1>1, <1>3, <1>4 DEF PollFits, Ahead, Books, Passed
<1>. QED  BY <1>4, <1>8, <1>9, <1>10, <1>11, PolledDrop

\* Seeing an ended slot, on the copy and on the saved job, is what Polled asks for.
LEMMA PollSeen ==
    ASSUME NEW saved, JobOK(saved), NEW job, JobOK(job), NEW b, Queue(b), NEW r,
           Books(saved, b, r), Books(job, b, r), NEW stop, PollFits(job, stop, saved, b, r),
           \A i \in DOMAIN b : b[i].stage <= saved.stage,
           NEW s \in job.slots, b[s.id].state # "live"
    PROVE  Polled(See(job, b, s), See(saved, b, s), stop, b, r, SeenSlot(b, s))
<1>. DEFINE v == See(job, b, s)
            w == See(saved, b, s)
            m == SeenSlot(b, s)
<1>1. PICK x \in saved.slots : SameSlot(s, x)
  BY DEF PollFits, Ahead
<1>2. s.id # 0 /\ x.id # 0 /\ x.id = s.id /\ x.req = s.req
  BY <1>1 DEF PollFits, Ahead, Unknown, SameSlot
<1>3. /\ JobOK(v) /\ Books(v, b, r) /\ v.slots = (job.slots \ {s}) \cup {m}
      /\ m.req = s.req /\ m.id = s.id /\ m.metered
      /\ v.stage = job.stage /\ v.status = job.status /\ v.error = job.error
      /\ v.revision = job.revision /\ v.retryRequested = job.retryRequested
  BY <1>2, SeenIs
<1>. DEFINE y == SeenSlot(b, x)
<1>4. /\ w.slots = (saved.slots \ {x}) \cup {y}
      /\ y.req = s.req /\ y.id = s.id /\ y.metered
      /\ w.stage = saved.stage /\ w.status = saved.status
      /\ w.revision = saved.revision
  BY <1>1, <1>2, SameSeen, SeenIs
<1>. HIDE DEF v, w, m, y
<1>5. Ahead(v, w)
  <2>1. ASSUME NEW z \in v.slots  PROVE \E u \in w.slots : SameSlot(z, u)
    <3>1. CASE z = m
      BY <1>3, <1>4, <3>1 DEF SameSlot
    <3>2. CASE z # m
      <4>1. z \in job.slots /\ z # s
        BY <1>3, <3>2
      <4>2. PICK u \in saved.slots : SameSlot(z, u)
        BY <4>1 DEF PollFits, Ahead
      <4>3. u # x
        BY <1>2, <4>1, <4>2 DEF SameSlot, Books, SlotsFit, OneEach
      <4>. QED  BY <1>4, <4>2, <4>3
    <3>. QED  BY <3>1, <3>2
  <2>2. ~Unknown(v) /\ ~Unknown(w)
    BY <1>2, <1>3, <1>4 DEF PollFits, Ahead, Unknown
  <2>. QED  BY <1>3, <1>4, <2>1, <2>2 DEF PollFits, Ahead
<1>6. \A i : On(job, b, i) => On(v, b, i)
  BY <1>3 DEF On
<1>7. PollFits(v, stop, w, b, r)
  BY <1>3, <1>4, <1>5, <1>6 DEF PollFits, StopsAreOld
<1>8. saved.stage \in Nat
  BY DEF JobOK, Job, Stages, Verification
<1>9. Polled(v, w, stop, b, r, m)
  BY <1>2, <1>3, <1>4, <1>7, <1>8 DEF Polled
<1>. QED  BY <1>9 DEF v, w, m

(***************************************************************************)
(* The read that starts a poll, and each step of it.                       *)
(***************************************************************************)
LEMMA PollingIs ==
    ASSUME NEW job, JobOK(job)
    PROVE  /\ Polling(job).slots = job.slots /\ Polling(job).submissions = job.submissions
           /\ Polling(job).usage = job.usage /\ Polling(job).stage = job.stage
           /\ Polling(job).attempt = job.attempt
           /\ Polling(job).completed = job.completed
           /\ Polling(job).revision = job.revision
           /\ Polling(job).retryRequested = job.retryRequested
           /\ Polling(job).oneSubmissionAllowed = job.oneSubmissionAllowed
           /\ Polling(job).error = job.error
           /\ job.status \in Searching => Polling(job).status \in Searching
           /\ job.status = "searching" => Polling(job).status = "searching"
BY DEF Polling, JobOK, Job, Searching

LEMMA RetryIs ==
    ASSUME NEW job, JobOK(job)
    PROVE  /\ RetryAll(job).stage = job.stage /\ RetryAll(job).status = job.status
           /\ RetryAll(job).revision = job.revision /\ RetryAll(job).error = job.error
           /\ ~RetryAll(job).retryRequested
BY DEF RetryAll, JobOK, Job

LEMMA ReadPollKeeps ==
    ASSUME Consistent, WorkInv, NEW r \in Revisions, ReadPoll(r)
    PROVE  WorkInv'
<1>. DEFINE todo == {s.req : s \in row.slots}
            job == Polling(row)
            copy == RetryAll(job)
            t == [At("poll") EXCEPT !.job = copy, !.todo = todo]
<1>1. /\ row.revision = r /\ row.status \in {"queued", "searching"}
      /\ ~(job.status = "searching" /\ Unknown(row))
      /\ row' = job
      /\ tick' = [(IF row' = row THEN tick ELSE OthersStale) EXCEPT ![r] = t]
      /\ UNCHANGED <<batch, refused>>
  BY DEF ReadPoll
<1>2. t.pc = "poll" /\ t.job = copy /\ t.stop = {}
  BY DEF At
<1>3. row.status \in Searching /\ "searching" \in Searching
  BY <1>1 DEF Searching
<1>4. /\ job.slots = row.slots /\ job.submissions = row.submissions
      /\ job.usage = row.usage /\ job.stage = row.stage
      /\ job.attempt = row.attempt /\ job.completed = row.completed
      /\ job.revision = row.revision /\ job.retryRequested = row.retryRequested
      /\ job.oneSubmissionAllowed = row.oneSubmissionAllowed
      /\ job.error = row.error /\ job.status \in Searching
      /\ row.status = "searching" => job.status = "searching"
      /\ JobOK(job)
  BY <1>3, Typed, PollingIs, PollingOK
<1>. HIDE DEF job, t
<1>5. "unknown" \notin row.error /\ ~Unknown(row)
  <2>1. row.status # "paused"
    BY <1>1
  <2>. QED  BY <1>1, <1>4, <2>1 DEF WorkInv, RowInv, RowFits
<1>6. ~Unknown(job)
  BY <1>4, <1>5 DEF Unknown
<1>7. RowFits(job, batch, refused) /\ OwedKept(row, job)
  <2>1. job.status # "awaiting_authorization" /\ row.status # "failed"
    BY <1>1, <1>4 DEF Searching
  <2>. QED  BY <1>3, <1>4, <1>5, <1>6, <2>1, Typed, RowChanged DEF WorkInv, RowInv
<1>8. /\ Books(copy, batch, r) /\ ~Unknown(copy)
      /\ \A i \in DOMAIN batch : On(copy, batch, i) = On(job, batch, i)
      /\ \A x \in copy.slots : \E s \in job.slots : SameSlot(x, s)
  <2>1. Books(job, batch, r) /\ (job.retryRequested => \A i \in DOMAIN batch : batch[i].revision < r)
    BY <1>1, <1>4, <1>7 DEF RowFits
  <2>. QED  BY <1>4, <1>6, <2>1, Typed, BooksRetryAll
<1>9. /\ copy.stage = job.stage /\ copy.status = job.status
      /\ copy.revision = job.revision /\ copy.error = job.error
      /\ ~copy.retryRequested
  BY <1>4, RetryIs
<1>. HIDE DEF copy
<1>10. StopsAreOld(copy, batch, r)
  BY <1>1, <1>4, <1>7, <1>8, <1>9 DEF RowFits, StopsAreOld
<1>11. job.stage <= copy.stage
  BY <1>4, <1>9 DEF JobOK, Job, Stages, Verification
<1>12. Ahead(copy, job)
  BY <1>4, <1>5, <1>6, <1>8, <1>9, <1>11 DEF Ahead
<1>13. FreshFits(t, job, batch, r)
  <2>1. copy.status # "paused"
    BY <1>4, <1>9 DEF Searching
  <2>2. PollFits(copy, t.stop, job, batch, r)
    BY <1>2, <1>10, <1>12, <2>1 DEF PollFits
  <2>. QED  BY <1>1, <1>2, <1>4, <1>8, <2>2 DEF FreshFits
<1>14. CASE row' = row
  <2>1. Continue(r, t)
    BY <1>1, <1>14 DEF Continue
  <2>. QED  BY <1>1, <1>2, <1>13, <1>14, <2>1, Typed, ContinueKeeps, SameQueueSame
<1>15. CASE row' # row
  <2>1. \A x \in Revisions : tick'[x] = IF x = r THEN t ELSE OthersStale[x]
    BY <1>1, <1>15 DEF OthersStale
  <2>2. row'.revision \in Nat
    BY <1>1, <1>4, Typed
  <2>. QED  BY <1>1, <1>2, <1>7, <1>13, <2>1, <2>2, Typed, WriteKeeps
<1>. QED  BY <1>14, <1>15

\* A polled slot has its ID, and is the saved job's.
LEMMA PolledFits ==
    ASSUME Consistent, WorkInv, NEW r \in Revisions, tick[r].pc = "poll", ~tick[r].stale
    PROVE  /\ FreshFits(tick[r], row, batch, r)
           /\ PollFits(tick[r].job, tick[r].stop, row, batch, r)
           /\ row.revision = r /\ Books(row, batch, r) /\ Books(tick[r].job, batch, r)
           /\ \A i \in DOMAIN batch : batch[i].stage <= row.stage
           /\ \A s \in Todo(r) : s \in tick[r].job.slots /\ s.id # 0 /\ OnBoth(r, s)
<1>1. FreshFits(tick[r], row, batch, r)
  BY DEF WorkInv, FreshInv, Fresh, Active
<1>2. PollFits(tick[r].job, tick[r].stop, row, batch, r)
  BY <1>1 DEF FreshFits
<1>3. row.revision = r /\ Books(row, batch, r) /\ Books(tick[r].job, batch, r)
      /\ \A i \in DOMAIN batch : batch[i].stage <= row.stage
  BY <1>1 DEF FreshFits, WorkInv, RowInv, RowFits
<1>4. \A s \in Todo(r) : s \in tick[r].job.slots /\ s.id # 0 /\ OnBoth(r, s)
  BY <1>2 DEF PollFits, Ahead, Todo, OnBoth, Unknown
<1>. QED  BY <1>1, <1>2, <1>3, <1>4

LEMMA PollRunningKeeps ==
    ASSUME Consistent, WorkInv, NEW r \in Revisions, tick[r].pc = "poll",
           NEW s \in Todo(r), PollRunning(r, s)
    PROVE  WorkInv'
<1>. DEFINE t == Done(r, s)
<1>1. Continue(r, t) /\ UNCHANGED <<row, refused>> /\ (UNCHANGED batch \/ Cancel(s.id))
  BY DEF PollRunning
<1>2. SameQueue(batch, batch')
  BY <1>1, CancelMoves, SameQueueSame
<1>3. /\ t.pc = "poll" /\ t.stale = tick[r].stale /\ t.job = tick[r].job
      /\ t.stop = tick[r].stop
  BY DoneOK DEF Consistent
<1>. HIDE DEF t
<1>4. ASSUME Fresh(t)  PROVE FreshFits(t, row, batch, r)
  <2>1. FreshFits(tick[r], row, batch, r)
    BY <1>3, <1>4, PolledFits DEF Fresh
  <2>. QED  BY <1>3, <2>1 DEF FreshFits
<1>. QED  BY <1>1, <1>2, <1>3, <1>4, ContinueKeeps, Typed

\* An ended slot is seen, and its result settled on the copy, which goes on as job.
LEMMA PollSettles ==
    ASSUME Consistent, WorkInv, NEW r \in Revisions, tick[r].pc = "poll",
           NEW s \in Todo(r), batch[s.id].state # "live",
           NEW t, t.pc = "poll", t.stale = tick[r].stale,
           Observe(r, s, t), UNCHANGED <<batch, refused>>,
           \A v, w, m :
             v = Seen(r, s) /\ m = SlotOf(v, s.req) /\ m.req = s.req /\ m.id = s.id
             /\ m.stage = s.stage /\ m.attempt = s.attempt /\ m.retry = s.retry
             /\ v.stage = tick[r].job.stage /\ v.status = tick[r].job.status
             /\ Polled(v, w, tick[r].stop, batch, r, m) =>
               Books(t.job, batch, r) /\ PollFits(t.job, t.stop, w, batch, r)
    PROVE  WorkInv'
<1>. DEFINE copy == tick[r].job
            v == See(copy, batch, s)
            w == See(row, batch, s)
            m == SeenSlot(batch, s)
<1>1. Seen(r, s) = v
  BY DEF Seen, See, NeedsMeter, Live
<1>2. ~tick[r].stale => OnBoth(r, s)
  BY PolledFits
<1>3. ASSUME ~tick[r].stale  PROVE FreshFits(t, w, batch, r)
  <2>1. /\ PollFits(copy, tick[r].stop, row, batch, r)
        /\ row.revision = r /\ Books(row, batch, r) /\ Books(copy, batch, r)
        /\ \A i \in DOMAIN batch : batch[i].stage <= row.stage
        /\ s \in copy.slots /\ s.id # 0
    BY <1>3, PolledFits
  <2>2. Polled(v, w, tick[r].stop, batch, r, m)
    BY <2>1, Typed, PollSeen
  <2>3. /\ m = SlotOf(v, s.req) /\ m.req = s.req /\ m.id = s.id
        /\ m.stage = s.stage /\ m.attempt = s.attempt /\ m.retry = s.retry
        /\ v.stage = copy.stage /\ v.status = copy.status
    BY <2>1, Typed, SeenIs
  <2>4. PICK x \in row.slots : SameSlot(s, x)
    BY <1>2, <1>3 DEF OnBoth
  <2>5. w.revision = r
    <3>1. w = See(row, batch, x) /\ x.id # 0
      BY <2>1, <2>4, SameSeen DEF SameSlot
    <3>. QED  BY <2>1, <3>1, Typed, SeenIs
  <2>. HIDE DEF v, w, m
  <2>6. Books(t.job, batch, r) /\ PollFits(t.job, t.stop, w, batch, r)
    BY <1>1, <2>2, <2>3
  <2>. QED  BY <2>5, <2>6 DEF FreshFits
<1>4. Fresh(t) => FreshFits(t, w, batch, r)
  BY <1>3 DEF Fresh
<1>. QED  BY <1>2, <1>4, ObserveKeeps

\* How a tick goes on once it settled a slot.
SettledOn(r, t, job, stop) ==
    t.pc = "poll" /\ t.stale = tick[r].stale /\ t.job = job /\ t.stop = stop

LEMMA SettledIs ==
    ASSUME Consistent, NEW r \in Revisions, tick[r].pc = "poll", NEW s, NEW job
    PROVE  /\ SettledOn(r, [Done(r, s) EXCEPT !.job = job], job, tick[r].stop)
           /\ \A stop : SettledOn(r, [Done(r, s) EXCEPT !.job = job, !.stop = stop], job, stop)
           /\ \A review : SettledOn(r, [Done(r, s) EXCEPT !.job = job, !.review = review],
                                    job, tick[r].stop)
BY DoneOK DEF SettledOn, Consistent, Tick

LEMMA CurrentAlike ==
    ASSUME NEW job, NEW s, NEW v, NEW m, v.stage = job.stage, v.status = job.status,
           m.stage = s.stage
    PROVE  Current(v, m) = Current(job, s)
BY DEF Current

LEMMA PollKeeps ==
    ASSUME Consistent, WorkInv, NEW r \in Revisions, Poll(r)
    PROVE  WorkInv'
<1>1. PICK s \in Todo(r) :
         \/ PollRunning(r, s) \/ PollSuperseded(r, s) \/ PollStopped(r, s)
         \/ PollOverflow(r, s) \/ PollHit(r, s) \/ PollInvalid(r, s)
         \/ PollNone(r, s) \/ Unreadable(r, s)
  BY DEF Poll
<1>2. tick[r].pc = "poll"
  BY DEF Poll
<1>. DEFINE job == Seen(r, s)
            rest == Drop(job, SlotOf(job, s.req))
            stop == tick[r].stop
            Settles(next, later) ==
              /\ batch[s.id].state # "live"
              /\ \A w, m :
                   m = SlotOf(job, s.req) /\ m.id = s.id
                   /\ m.stage = s.stage /\ m.attempt = s.attempt /\ m.retry = s.retry
                   /\ Current(job, m) = Current(tick[r].job, s)
                   /\ Polled(job, w, stop, batch, r, m) =>
                     Books(next, batch, r) /\ PollFits(next, later, w, batch, r)
<1>3. ASSUME NEW t, NEW next, NEW later, SettledOn(r, t, next, later),
             Observe(r, s, t), UNCHANGED <<batch, refused>>, Settles(next, later)
      PROVE  WorkInv'
  <2>1. ASSUME NEW v, NEW w, NEW m,
               v = Seen(r, s) /\ m = SlotOf(v, s.req) /\ m.req = s.req /\ m.id = s.id
               /\ m.stage = s.stage /\ m.attempt = s.attempt /\ m.retry = s.retry
               /\ v.stage = tick[r].job.stage /\ v.status = tick[r].job.status
               /\ Polled(v, w, tick[r].stop, batch, r, m)
        PROVE  Books(t.job, batch, r) /\ PollFits(t.job, t.stop, w, batch, r)
    <3>1. Current(v, m) = Current(tick[r].job, s)
      BY <2>1, CurrentAlike
    <3>. HIDE DEF job
    <3>2. v = job
      BY <2>1 DEF job
    <3>3. t.job = next /\ t.stop = later
      BY <1>3 DEF SettledOn
    <3>. QED  BY <1>3, <2>1, <3>1, <3>2, <3>3
  <2>2. t.pc = "poll" /\ t.stale = tick[r].stale /\ batch[s.id].state # "live"
    BY <1>3 DEF SettledOn
  <2>. HIDE DEF job, rest, stop, Settles
  <2>. QED  BY <1>2, <1>3, <2>1, <2>2, PollSettles
<1>4. CASE PollRunning(r, s)
  BY <1>2, <1>4, PollRunningKeeps
<1>5. CASE PollSuperseded(r, s)
  <2>1. Observe(r, s, [Done(r, s) EXCEPT !.job = rest]) /\ UNCHANGED <<batch, refused>>
        /\ batch[s.id].state # "live" /\ ~Current(tick[r].job, s)
    BY <1>5 DEF PollSuperseded, Live
  <2>2. Settles(rest, stop)
    <3>. HIDE DEF job, stop
    <3>. QED  BY <2>1, SupersededKeeps
  <2>. QED  BY <1>2, <1>3, <2>1, <2>2, SettledIs
<1>6. CASE PollStopped(r, s)
  <2>. DEFINE later == IF stop = {} /\ ~s.retry THEN {s.stage} ELSE stop
  <2>1. Observe(r, s, [Done(r, s) EXCEPT !.job = rest, !.stop = later])
        /\ UNCHANGED <<batch, refused>>
        /\ batch[s.id].state \in Stopping /\ Current(tick[r].job, s)
    <3>1. Done(r, s).stop = stop
      BY DEF Done
    <3>. QED  BY <1>6, <3>1 DEF PollStopped, Stopping
  <2>2. Settles(rest, later)
    <3>. HIDE DEF job, stop
    <3>1. batch[s.id].state # "live"
      BY <2>1 DEF Stopping
    <3>2. ASSUME NEW w, NEW m,
                 m = SlotOf(job, s.req) /\ m.id = s.id
                 /\ m.stage = s.stage /\ m.attempt = s.attempt /\ m.retry = s.retry
                 /\ Current(job, m) = Current(tick[r].job, s)
                 /\ Polled(job, w, stop, batch, r, m)
          PROVE  Books(rest, batch, r) /\ PollFits(rest, later, w, batch, r)
      <4>1. later = IF stop = {} /\ ~m.retry THEN {m.stage} ELSE stop
        BY <3>2
      <4>2. rest = Drop(job, m)
        BY <3>2
      <4>. HIDE DEF later, rest
      <4>. QED  BY <2>1, <3>2, <4>1, <4>2, StoppedKeeps
    <3>. QED  BY <3>1, <3>2
  <2>. HIDE DEF later
  <2>. QED  BY <1>2, <1>3, <2>1, <2>2, SettledIs
<1>7. CASE PollOverflow(r, s)
  <2>. DEFINE next == Overflowed(rest)
  <2>1. Observe(r, s, [Done(r, s) EXCEPT !.job = next]) /\ UNCHANGED <<batch, refused>>
        /\ batch[s.id].state = "overflow"
    BY <1>7 DEF PollOverflow, Overflowed
  <2>2. Settles(next, stop)
    <3>. HIDE DEF job, stop
    <3>. QED  BY <2>1, OverflowKeeps
  <2>. QED  BY <1>2, <1>3, <2>1, <2>2, SettledIs
<1>8. CASE PollHit(r, s)
  <2>. DEFINE next == VerifiedHit(rest)
  <2>1. Observe(r, s, [Done(r, s) EXCEPT !.job = next]) /\ UNCHANGED <<batch, refused>>
        /\ batch[s.id].state = "hit" /\ Current(tick[r].job, s)
    BY <1>8 DEF PollHit
  <2>2. Settles(next, stop)
    <3>. HIDE DEF job, stop
    <3>. QED  BY <2>1, HitKeeps
  <2>. QED  BY <1>2, <1>3, <2>1, <2>2, SettledIs
<1>9. CASE PollInvalid(r, s)
  <2>. DEFINE review == IF tick[r].review = {} THEN {s.stage} ELSE tick[r].review
  <2>1. Observe(r, s, [Done(r, s) EXCEPT !.job = job, !.review = review])
        /\ UNCHANGED <<batch, refused>> /\ batch[s.id].state = "invalid"
    <3>1. Done(r, s).review = tick[r].review
      BY DEF Done
    <3>. QED  BY <1>9, <3>1 DEF PollInvalid
  <2>2. Settles(job, stop)
    BY <2>1 DEF Polled
  <2>. HIDE DEF review, job, Settles
  <2>3. SettledOn(r, [Done(r, s) EXCEPT !.job = job, !.review = review], job, stop)
    BY <1>2, SettledIs
  <2>. QED  BY <1>3, <2>1, <2>2, <2>3
<1>10. CASE PollNone(r, s)
  <2>. DEFINE next == Credit(rest, s.attempt)
  <2>1. Observe(r, s, [Done(r, s) EXCEPT !.job = next]) /\ UNCHANGED <<batch, refused>>
        /\ batch[s.id].state = "none" /\ Current(tick[r].job, s)
    BY <1>10 DEF PollNone
  <2>2. Settles(next, stop)
    <3>. HIDE DEF job, stop
    <3>. QED  BY <2>1, NoneKeeps
  <2>. QED  BY <1>2, <1>3, <2>1, <2>2, SettledIs
<1>11. CASE Unreadable(r, s)
  BY <1>2, <1>11, PolledFits, UnreadableKeeps
<1>. QED  BY <1>1, <1>4, <1>5, <1>6, <1>7, <1>8, <1>9, <1>10, <1>11

(***************************************************************************)
(* After the poll: the job may be paused, GPUs are filled, and the last    *)
(* save makes the copy the saved job.                                      *)
(***************************************************************************)
\* The tick's copy is paused, for a reason that is not an unknown submission.
LEMMA PausedFits ==
    ASSUME NEW job, JobOK(job), job.status \in Searching, NEW saved, NEW b, Queue(b),
           NEW r \in Nat, Books(job, b, r), Ahead(job, saved),
           NEW reason, reason # "unknown"
    PROVE  /\ Books(Pause(job, reason), b, r) /\ LeaveFits(Pause(job, reason), saved, b, r)
           /\ Pause(job, reason).status = "paused"
<1>. DEFINE next == Pause(job, reason)
<1>1. /\ next.slots = job.slots /\ next.submissions = job.submissions
      /\ next.stage = job.stage /\ next.attempt = job.attempt
      /\ next.completed = job.completed /\ next.usage = job.usage
      /\ next.oneSubmissionAllowed = job.oneSubmissionAllowed
      /\ next.revision = job.revision /\ next.retryRequested = job.retryRequested
      /\ next.status = "paused" /\ next.error = {reason}
  BY DEF Pause, JobOK, Job
<1>. HIDE DEF next
<1>2. Books(next, b, r)
  <2>1. job.status # "failed" /\ next.status # "awaiting_authorization" /\ r <= r
    BY <1>1 DEF Searching
  <2>. QED  BY <1>1, <2>1, BooksSame
<1>3. Ahead(next, saved)
  BY <1>1 DEF Ahead, Unknown
<1>4. next.status \notin Searching
  BY <1>1 DEF Searching
<1>5. LeaveFits(next, saved, b, r)
  BY <1>3, <1>4 DEF LeaveFits
<1>. QED  BY <1>1, <1>2, <1>5 DEF next

LEMMA PollFinishKeeps ==
    ASSUME Consistent, WorkInv, NEW r \in Revisions, PollFinish(r)
    PROVE  WorkInv'
<1>. DEFINE job == tick[r].job
            paused == IF job.status \notin {"queued", "searching"} THEN job
                      ELSE IF job.stage \in tick[r].review THEN Pause(job, "review")
                      ELSE IF job.stage \in tick[r].stop THEN Pause(job, "other")
                      ELSE job
            pc == IF paused.status \in {"queued", "searching"} THEN "fill" ELSE "finish"
            t == [At(pc) EXCEPT !.job = paused]
<1>1. Continue(r, IF tick[r].stale THEN At("closed") ELSE t)
      /\ UNCHANGED <<row, batch, refused>> /\ tick[r].pc = "poll"
  BY DEF PollFinish
<1>2. CASE tick[r].stale
  BY <1>1, <1>2, FailKeeps DEF Fail
<1>3. CASE ~tick[r].stale
  <2>1. /\ PollFits(job, tick[r].stop, row, batch, r)
        /\ row.revision = r /\ Books(job, batch, r) /\ JobOK(job)
    BY <1>1, <1>3, PolledFits, Typed
  <2>2. t.pc \in {"fill", "finish"} /\ t.job = paused
    BY DEF At
  <2>. HIDE DEF t, pc
  <2>3. Books(paused, batch, r) /\ LeaveFits(paused, row, batch, r)
    <3>1. CASE job.status \notin {"queued", "searching"}
      BY <2>1, <3>1 DEF PollFits, LeaveFits, Searching
    <3>2. CASE job.status \in {"queued", "searching"}
      <4>1. job.status \in Searching /\ Ahead(job, row) /\ r \in Nat
        BY <2>1, <3>2, Typed DEF Searching, PollFits
      <4>2. \A reason : reason # "unknown" =>
              Books(Pause(job, reason), batch, r) /\ LeaveFits(Pause(job, reason), row, batch, r)
        <5>. HIDE DEF job
        <5>. QED  BY <2>1, <4>1, Typed, PausedFits
      <4>3. job.stage \notin tick[r].stop => LeaveFits(job, row, batch, r)
        BY <2>1, <4>1 DEF PollFits, LeaveFits
      <4>. QED  BY <2>1, <3>2, <4>2, <4>3
    <3>. QED  BY <3>1, <3>2
  <2>. HIDE DEF paused
  <2>4. FreshFits(t, row, batch, r) /\ t.pc # "post"
    BY <2>1, <2>2, <2>3 DEF FreshFits
  <2>. QED  BY <1>1, <1>3, <2>4, ContinueKeeps, SameQueueSame, Typed
<1>. QED  BY <1>2, <1>3

\* A tick that fills, or is about to finish, holds a copy ahead of the saved job.
LEMMA FilledFits ==
    ASSUME Consistent, WorkInv, NEW r \in Revisions, tick[r].pc \in {"fill", "finish"}
    PROVE  /\ row.revision = r /\ Books(tick[r].job, batch, r)
           /\ LeaveFits(tick[r].job, row, batch, r)
           /\ tick[r].pc = "fill" => tick[r].job.status \in Searching
<1>1. TickOK(tick[r])
  BY DEF Consistent, TicksOK
<1>2. ~tick[r].stale /\ (tick[r].pc = "fill" => tick[r].job.status \in Searching)
  BY <1>1 DEF TickOK, Searching
<1>3. FreshFits(tick[r], row, batch, r)
  BY <1>2 DEF WorkInv, FreshInv, Fresh, Active
<1>. QED  BY <1>2, <1>3 DEF FreshFits

LEMMA LeaveKeeps ==
    ASSUME Consistent, WorkInv, NEW r \in Revisions, tick[r].pc = "fill",
           Leave(r, tick[r].job)
           \/ \E reason : reason # "unknown" /\ Leave(r, Pause(tick[r].job, reason))
    PROVE  WorkInv'
<1>1. /\ row.revision = r /\ Books(tick[r].job, batch, r)
      /\ LeaveFits(tick[r].job, row, batch, r)
      /\ tick[r].job.status \in Searching /\ JobOK(tick[r].job) /\ r \in Nat
  BY FilledFits, Typed
<1>2. ASSUME NEW next, Leave(r, next), Books(next, batch, r), LeaveFits(next, row, batch, r)
      PROVE  WorkInv'
  <2>. DEFINE t == [At("finish") EXCEPT !.job = next]
  <2>1. t.pc = "finish" /\ t.job = next
    BY DEF At
  <2>2. Continue(r, t) /\ UNCHANGED <<row, batch, refused>>
    BY <1>2 DEF Leave
  <2>. HIDE DEF t
  <2>3. FreshFits(t, row, batch, r) /\ t.pc # "post"
    BY <1>1, <1>2, <2>1 DEF FreshFits
  <2>. QED  BY <2>2, <2>3, ContinueKeeps, SameQueueSame, Typed
<1>3. CASE Leave(r, tick[r].job)
  BY <1>1, <1>2, <1>3
<1>4. ASSUME NEW reason, reason # "unknown", Leave(r, Pause(tick[r].job, reason))
      PROVE  WorkInv'
  <2>1. Ahead(tick[r].job, row)
    BY <1>1 DEF LeaveFits
  <2>2. Books(Pause(tick[r].job, reason), batch, r)
        /\ LeaveFits(Pause(tick[r].job, reason), row, batch, r)
    BY <1>1, <1>4, <2>1, Typed, PausedFits
  <2>. QED  BY <1>2, <1>4, <2>2
<1>. QED  BY <1>3, <1>4

LEMMA FillKeeps ==
    ASSUME Consistent, WorkInv, NEW r \in Revisions,
           FillStop(r) \/ FillExhausted(r) \/ FillRefused(r) \/ FillUnprepared(r)
    PROVE  WorkInv'
<1>1. /\ tick[r].pc = "fill"
      /\ \/ Leave(r, tick[r].job)
         \/ Leave(r, Pause(tick[r].job, "exhausted")) \/ Leave(r, Pause(tick[r].job, "other"))
  BY DEF FillStop, FillExhausted, FillRefused, FillUnprepared
<1>. QED  BY <1>1, LeaveKeeps

\* While a copy is ahead of the saved job, nothing is being sent.
LEMMA NoneSent ==
    ASSUME WorkInv, ~Unknown(row)
    PROVE  ~\E x \in Revisions : tick[x].pc = "post"
BY DEF WorkInv, PostInv, PostFits, Unknown

LEMMA FinishKeeps ==
    ASSUME Consistent, WorkInv, NEW r \in Revisions, Finish(r)
    PROVE  WorkInv'
<1>. DEFINE job == tick[r].job
<1>1. PICK pc \in {"closed", "wait"} : pc = IF TickDone(tick[r].job) THEN "closed" ELSE "wait"
  OBVIOUS
<1>2. Save(r, job, At(pc)) /\ tick[r].pc = "finish" /\ UNCHANGED <<batch, refused>>
  BY <1>1 DEF Finish
<1>3. /\ row.revision = r /\ Books(job, batch, r) /\ LeaveFits(job, row, batch, r)
      /\ JobOK(job) /\ JobOK(row) /\ Queue(batch)
  BY <1>2, FilledFits, Typed
<1>. HIDE DEF job
<1>4. /\ ~Unknown(row) /\ ~Unknown(job) /\ row.stage <= job.stage /\ job.revision = row.revision
      /\ ~job.retryRequested /\ "unknown" \notin job.error
      /\ job.status \in Searching => StopsAreOld(job, batch, r)
  BY <1>3 DEF LeaveFits, Ahead
<1>5. \A i \in DOMAIN batch :
        /\ batch[i].stage <= job.stage /\ batch[i].revision <= job.revision
        /\ batch[i].req \notin refused
  <2>1. \A i \in DOMAIN batch :
          /\ batch[i].stage <= row.stage /\ batch[i].revision <= row.revision
          /\ batch[i].req \notin refused /\ batch[i].stage \in Nat
    BY <1>3 DEF WorkInv, RowInv, RowFits, Queue, SearchStages
  <2>2. row.stage \in Nat /\ job.stage \in Nat
    BY <1>3 DEF JobOK, Job, Stages, Verification
  <2>. QED  BY <1>4, <2>1, <2>2
<1>6. RowFits(job, batch, refused)
  BY <1>3, <1>4, <1>5 DEF RowFits
<1>7. At(pc).pc # "post" /\ ~Fresh(At(pc))
  BY IdleOK DEF Fresh, Active
<1>8. JobOK(row')
  BY <1>2, <1>3 DEF Save
<1>. QED  BY <1>2, <1>4, <1>6, <1>7, <1>8, NoneSent, SaveKeeps

(***************************************************************************)
(* The reservation.                                                        *)
(***************************************************************************)
\* The chunk that is paid for next is neither done nor running.
LEMMA NextAttemptFree ==
    ASSUME NEW job, JobOK(job)
    PROVE  /\ NextAttempt(job) \in Nat /\ job.attempt <= NextAttempt(job)
           /\ NextAttempt(job) \notin Assigned(job) /\ NextAttempt(job) \notin job.completed
<1>. DEFINE free == {a \in job.attempt..RangeSize : a \notin Assigned(job) \cup job.completed}
<1>1. Assigned(job) \subseteq Attempts
  BY DEF Assigned, JobOK, Job, Slot
<1>2. free \subseteq 0..RangeSize /\ RangeSize \in free
  BY <1>1, SizesAssumption DEF JobOK, Job, Attempts
<1>3. NextAttempt(job) = Least(free)
  BY DEF NextAttempt
<1>4. \A a \in free : a \in Nat /\ job.attempt <= a /\ a \notin Assigned(job) /\ a \notin job.completed
  BY SizesAssumption DEF JobOK, Job
<1>. HIDE DEF free
<1>5. free \in SUBSET Nat /\ free # {}
  BY <1>2, SizesAssumption
<1>6. Least(free) \in free
  BY <1>5, LeastInSet
<1>. QED  BY <1>3, <1>4, <1>6

\* The slot that a job pays for next, and the job with it.
NewSlot(job) == [req |-> Request(job), stage |-> job.stage,
                 attempt |-> NextAttempt(job), id |-> 0, retry |-> FALSE, metered |-> FALSE]
Submitting(job) == [job EXCEPT !.status = "searching",
                               !.reserved = NextReservation(job),
                               !.submissions = @ + 1,
                               !.slots = @ \cup {NewSlot(job)},
                               !.oneSubmissionAllowed = FALSE]

LEMMA SubmittingIs ==
    ASSUME NEW job, JobOK(job)
    PROVE  /\ Submitting(job).slots = job.slots \cup {NewSlot(job)}
           /\ NewSlot(job).req = job.submissions + 1 /\ NewSlot(job).id = 0
           /\ ~NewSlot(job).metered /\ ~NewSlot(job).retry
           /\ NewSlot(job).stage = job.stage /\ NewSlot(job).attempt = NextAttempt(job)
           /\ Submitting(job).status = "searching"
           /\ Submitting(job).submissions = job.submissions + 1
           /\ ~Submitting(job).oneSubmissionAllowed
           /\ Submitting(job).stage = job.stage /\ Submitting(job).attempt = job.attempt
           /\ Submitting(job).completed = job.completed
           /\ Submitting(job).usage = job.usage /\ Submitting(job).error = job.error
           /\ Submitting(job).revision = job.revision
           /\ Submitting(job).retryRequested = job.retryRequested
<1>1. /\ NewSlot(job).req = job.submissions + 1 /\ NewSlot(job).id = 0
      /\ ~NewSlot(job).metered /\ ~NewSlot(job).retry
      /\ NewSlot(job).stage = job.stage /\ NewSlot(job).attempt = NextAttempt(job)
  BY DEF NewSlot, Request
<1>. QED  BY <1>1 DEF Submitting, JobOK, Job

\* Whatever Batch jobs the range of the next chunk had stopped without its result.
LEMMA NextIsOpen ==
    ASSUME NEW job, JobOK(job), NEW b, Queue(b), NEW r, Books(job, b, r), ~Unknown(job),
           job.status # "failed", StopsAreOld(job, b, r),
           NEW i \in DOMAIN b, SameRange(b[i], NewSlot(job))
    PROVE  b[i].state \in Stopping /\ b[i].revision < r
<1>1. b[i].stage = job.stage /\ b[i].attempt = NextAttempt(job)
  BY SubmittingIs DEF SameRange
<1>2. ~On(job, b, i)
  <2>1. ASSUME NEW s \in job.slots, s.id = i \/ (s.id = 0 /\ s.req = b[i].req)  PROVE FALSE
    <3>1. s.id = i /\ s.id # 0
      BY <2>1 DEF Unknown
    <3>2. SameRange(b[i], s)
      BY <3>1 DEF Books, SlotsFit, Fits
    <3>3. s.stage = job.stage /\ s.attempt = NextAttempt(job)
      BY <1>1, <3>2 DEF SameRange
    <3>4. NextAttempt(job) \in Assigned(job)
      BY <3>3 DEF Assigned
    <3>. QED  BY <3>4, NextAttemptFree
  <2>. QED  BY <2>1 DEF On
<1>3. ~Credited(job, b, i)
  <2>1. job.attempt \in Nat
    BY SizesAssumption DEF JobOK, Job
  <2>. QED  BY <1>1, <2>1, NextAttemptFree DEF Credited
<1>. QED  BY <1>1, <1>2, <1>3 DEF Books, ResultsKept, StopsAreOld

LEMMA ReserveKeeps ==
    ASSUME Consistent, Named, WorkInv, NEW r \in Revisions, Reserve(r)
    PROVE  WorkInv'
<1>. DEFINE job == tick[r].job
            slot == NewSlot(job)
            next == Submitting(job)
            t == [At("post") EXCEPT !.job = next, !.req = slot.req]
<1>1. /\ tick[r].pc = "fill" /\ HasRoom(job) /\ Save(r, next, t)
      /\ UNCHANGED <<batch, refused>>
  BY DEF Reserve, NewSlot, Submitting
<1>2. /\ row.revision = r /\ Books(job, batch, r) /\ LeaveFits(job, row, batch, r)
      /\ job.status \in Searching /\ JobOK(job) /\ JobOK(row) /\ Queue(batch) /\ r \in Nat
  BY <1>1, FilledFits, Typed
<1>3. /\ ~Unknown(row) /\ ~Unknown(job) /\ row.stage <= job.stage /\ job.revision = row.revision
      /\ ~job.retryRequested /\ "unknown" \notin job.error /\ StopsAreOld(job, batch, r)
      /\ job.status # "failed"
  BY <1>2 DEF LeaveFits, Ahead, Searching
<1>4. job.submissions = row.submissions
  <2>1. TickOK(tick[r]) /\ Copies(tick[r], row)
    BY DEF Consistent, TicksOK
  <2>. QED  BY <1>1, <2>1 DEF TickOK, Copies, Active
<1>5. /\ next.slots = job.slots \cup {slot}
      /\ slot.req = job.submissions + 1 /\ slot.id = 0 /\ ~slot.metered /\ ~slot.retry
      /\ slot.stage = job.stage
      /\ next.status = "searching" /\ next.submissions = job.submissions + 1
      /\ ~next.oneSubmissionAllowed /\ next.stage = job.stage
      /\ next.attempt = job.attempt /\ next.completed = job.completed
      /\ next.usage = job.usage /\ next.error = job.error
      /\ next.revision = job.revision /\ next.retryRequested = job.retryRequested
  BY <1>2, SubmittingIs
<1>6. \A i \in DOMAIN batch : SameRange(batch[i], slot) =>
        batch[i].state \in Stopping /\ batch[i].revision < r
  BY <1>2, <1>3, NextIsOpen
<1>7. t.pc = "post" /\ t.job = next /\ t.req = slot.req
  BY DEF At
<1>. HIDE DEF t, next, slot, job
<1>8. Books(next, batch, r)
  <2>1. \A i \in DOMAIN batch : batch[i].req <= job.submissions
    BY <1>4 DEF Named
  <2>. QED  BY <1>1, <1>2, <1>3, <1>5, <2>1, BooksReserve
<1>9. RowFits(next, batch, refused)
  <2>1. \A i \in DOMAIN batch :
          /\ batch[i].stage <= next.stage /\ batch[i].revision <= next.revision
          /\ batch[i].req \notin refused
    <3>1. \A i \in DOMAIN batch :
            /\ batch[i].stage <= row.stage /\ batch[i].revision <= row.revision
            /\ batch[i].req \notin refused /\ batch[i].stage \in Nat
      BY <1>2 DEF WorkInv, RowInv, RowFits, Queue, SearchStages
    <3>2. row.stage \in Nat /\ job.stage \in Nat
      BY <1>2 DEF JobOK, Job, Stages, Verification
    <3>. QED  BY <1>3, <1>5, <3>1, <3>2
  <2>2. StopsAreOld(next, batch, r)
    BY <1>3, <1>5 DEF StopsAreOld, On
  <2>. QED  BY <1>2, <1>3, <1>5, <1>8, <2>1, <2>2 DEF RowFits
<1>10. row' = next /\ \A x \in Revisions : tick'[x] = IF x = r THEN t ELSE Staled(tick[x])
  <2>1. row' = next /\ tick' = [OthersStale EXCEPT ![r] = t]
    BY <1>1 DEF Save
  <2>2. OthersStale = [x \in Revisions |-> Staled(tick[x])]
    BY DEF OthersStale
  <2>. QED  BY <2>1, <2>2
<1>11. \A x \in Revisions : TickOK(tick[x])
  BY DEF Consistent, TicksOK
<1>12. ASSUME NEW x \in Revisions, tick'[x].pc = "post"  PROVE x = r
  BY <1>3, <1>10, <1>11, <1>12, NoneSent, StaledIs
<1>13. PostFits(t, next, batch, r)
  <2>1. slot \in next.slots /\ SlotOf(next, slot.req) = slot
    BY <1>5, <1>8 DEF Books, SlotsFit, OneEach, SlotOf
  <2>2. SameRange(slot, slot) /\ r <= next.revision /\ ~next.retryRequested
    BY <1>2, <1>3, <1>5 DEF SameRange
  <2>. QED  BY <1>5, <1>6, <1>7, <2>1, <2>2 DEF PostFits
<1>14. FreshFits(t, next, batch, r)
  <2>1. Sending(t, next)
    BY <1>3, <1>5, <1>7 DEF Sending
  <2>. QED  BY <1>2, <1>3, <1>5, <1>7, <1>8, <2>1 DEF FreshFits
<1>15. \A x \in Revisions : Fresh(tick'[x]) => x = r
  BY <1>10, <1>11, StaledIs
<1>16. tick'[r] = t /\ batch' = batch /\ refused' = refused
  BY <1>1, <1>10
<1>. QED
  BY <1>9, <1>10, <1>12, <1>13, <1>14, <1>15, <1>16 DEF WorkInv, RowInv, PostInv, FreshInv

(***************************************************************************)
(* The POST, and the record of its answer.                                 *)
(***************************************************************************)
\* The slot that is being sent is on the saved job, and no other POST is under way.
LEMMA SendingSlot ==
    ASSUME Consistent, Named, WorkInv, NEW r \in Revisions, tick[r].pc = "post"
    PROVE  /\ PostFits(tick[r], row, batch, r)
           /\ \E p \in row.slots : p.id = 0 /\ p.req = tick[r].req
                                   /\ SameRange(p, SlotOf(tick[r].job, tick[r].req))
           /\ \A x \in Revisions : tick[x].pc = "post" => x = r
<1>1. PostFits(tick[r], row, batch, r)
  BY DEF WorkInv, PostInv
<1>2. PICK p \in row.slots : p.id = 0 /\ p.req = tick[r].req
                             /\ SameRange(p, SlotOf(tick[r].job, tick[r].req))
  BY <1>1 DEF PostFits
<1>3. \A x \in Revisions : tick[x].pc = "post" => x = r
  BY <1>2, OneOwed DEF Named, PostedOnce
<1>. QED  BY <1>1, <1>2, <1>3

\* The job that AWS Batch accepts from execution r.
Sent(r) ==
    LET s == SlotOf(tick[r].job, tick[r].req)
    IN  [req |-> s.req, stage |-> s.stage, attempt |-> s.attempt,
         revision |-> r, state |-> "live", cancelled |-> FALSE]

LEMMA SentIs ==
    ASSUME Consistent, NEW r \in Revisions, tick[r].pc = "post", batch' = Accepted(r)
    PROVE  /\ Queue(batch') /\ Accepting(batch, batch', Sent(r))
           /\ batch'[Len(batch) + 1] = Sent(r) /\ Len(batch) + 1 \in DOMAIN batch'
           /\ Sent(r).req = tick[r].req /\ Sent(r).state = "live" /\ Sent(r).revision = r
           /\ SameRange(Sent(r), SlotOf(tick[r].job, tick[r].req))
<1>. DEFINE s == SlotOf(tick[r].job, tick[r].req)
<1>1. \E x \in tick[r].job.slots : x.req = tick[r].req
  BY DEF Consistent, TicksOK, TickOK
<1>2. s \in tick[r].job.slots /\ s.req = tick[r].req
  BY <1>1 DEF SlotOf
<1>3. JobOK(tick[r].job)
  BY Typed
<1>4. s \in Slot
  BY <1>2, <1>3 DEF JobOK, Job
<1>. HIDE DEF s
<1>5. /\ Sent(r).req = tick[r].req /\ Sent(r).state = "live" /\ Sent(r).revision = r
      /\ SameRange(Sent(r), s) /\ Sent(r) \in BatchJob
  BY <1>2, <1>4 DEF Sent, SameRange, BatchJob, BatchState, Slot, s
<1>6. batch' = Append(batch, Sent(r)) /\ batch \in Seq(BatchJob)
  BY DEF Accepted, Sent, Consistent
<1>7. /\ batch' \in Seq(BatchJob) /\ Len(batch') = Len(batch) + 1 /\ Len(batch) \in Nat
      /\ \A i \in 1..Len(batch) : batch'[i] = batch[i]
      /\ batch'[Len(batch) + 1] = Sent(r)
  BY <1>5, <1>6, AppendProperties, LenProperties
<1>8. DOMAIN batch = 1..Len(batch) /\ DOMAIN batch' = 1..Len(batch')
  BY <1>6, <1>7, LenProperties
<1>9. DOMAIN batch' = DOMAIN batch \cup {Len(batch) + 1} /\ Len(batch) + 1 \notin DOMAIN batch
  BY <1>7, <1>8
<1>10. Accepting(batch, batch', Sent(r))
  BY <1>7, <1>8, <1>9 DEF Accepting
<1>. QED  BY <1>5, <1>7, <1>9, <1>10, QueueOK DEF s

\* A copy that can still be saved has the slot that is being sent, so that it knows
\* of the Batch job as the saved job does.
LEMMA FreshAccept ==
    ASSUME NEW t, Fresh(t), t \in Tick, NEW saved, NEW b, Queue(b), NEW c, Queue(c), NEW e,
           Accepting(b, c, e), NEW r, FreshFits(t, saved, b, r),
           NEW p \in saved.slots, p.id = 0, e.req = p.req, SameRange(e, p), e.state = "live"
    PROVE  FreshFits(t, saved, c, r)
<1>1. t.pc \notin {"poll", "fill", "finish"}
  BY DEF FreshFits, PollFits, LeaveFits, Ahead, Unknown
<1>2. t.pc \in {"drain", "post", "sent"}
  BY <1>1 DEF Tick, Fresh, Active
<1>3. p \in t.job.slots
  BY <1>2 DEF FreshFits, Draining, Sending
<1>4. Books(t.job, c, r)
  BY <1>3, BooksAccept DEF FreshFits
<1>5. t.pc = "sent" => t.id \in DOMAIN c /\ c[t.id].req = t.req
  BY DEF FreshFits, Accepting
<1>. QED  BY <1>1, <1>4, <1>5 DEF FreshFits

LEMMA AcceptKeeps ==
    ASSUME Consistent, Named, WorkInv, NEW r \in Revisions, tick[r].pc = "post",
           batch' = Accepted(r), NEW t, Continue(r, t), UNCHANGED <<row, refused>>,
           t.pc # "post", Fresh(t) => FreshFits(t, row, batch', r)
    PROVE  WorkInv'
<1>. DEFINE e == Sent(r)
<1>1. /\ Queue(batch) /\ Queue(batch') /\ Accepting(batch, batch', e)
      /\ e.req = tick[r].req /\ e.state = "live" /\ e.revision = r
      /\ SameRange(e, SlotOf(tick[r].job, tick[r].req))
  BY Typed, SentIs
<1>. HIDE DEF e
<1>2. PICK p \in row.slots : p.id = 0 /\ p.req = tick[r].req
                             /\ SameRange(p, SlotOf(tick[r].job, tick[r].req))
  BY SendingSlot
<1>3. e.req = p.req /\ SameRange(e, p)
  BY <1>1, <1>2 DEF SameRange
<1>4. PICK n : /\ DOMAIN batch' = DOMAIN batch \cup {n} /\ n \notin DOMAIN batch
               /\ batch'[n] = e /\ \A i \in DOMAIN batch : batch'[i] = batch[i]
  BY <1>1 DEF Accepting
<1>5. RowFits(row, batch', refused)
  <2>1. Books(row, batch, row.revision) /\ p.stage <= row.stage
    BY DEF WorkInv, RowInv, RowFits, Books, SlotsFit
  <2>2. Books(row, batch', row.revision)
    BY <1>1, <1>2, <1>3, <2>1, BooksAccept
  <2>3. /\ e.stage <= row.stage /\ e.revision <= row.revision
        /\ row.retryRequested => e.revision < row.revision
        /\ e.req \notin refused
    <3>1. e.stage <= row.stage
      BY <1>3, <2>1 DEF SameRange
    <3>2. r <= row.revision /\ (row.retryRequested => r < row.revision)
      BY SendingSlot DEF PostFits
    <3>3. e.req \notin refused
      BY <1>1 DEF Named
    <3>. QED  BY <1>1, <3>1, <3>2, <3>3
  <2>4. row.status \in Searching => StopsAreOld(row, batch', row.revision)
    <3>1. e.state \notin Stopping
      BY <1>1 DEF Stopping
    <3>. QED  BY <1>4, <3>1 DEF WorkInv, RowInv, RowFits, StopsAreOld, On
  <2>5. \A i \in DOMAIN batch' :
          /\ batch'[i].stage <= row.stage /\ batch'[i].revision <= row.revision
          /\ row.retryRequested => batch'[i].revision < row.revision
          /\ batch'[i].req \notin refused
    BY <1>4, <2>3 DEF WorkInv, RowInv, RowFits
  <2>. QED  BY <2>2, <2>4, <2>5 DEF WorkInv, RowInv, RowFits
<1>6. \A x \in Revisions : tick'[x] = IF x = r THEN t ELSE tick[x]
  BY TicksAre, Typed
<1>7. \A x \in Revisions : tick'[x].pc # "post"
  BY <1>6, SendingSlot
<1>8. ASSUME NEW x \in Revisions, Fresh(tick'[x])
      PROVE  FreshFits(tick'[x], row, batch', x)
  <2>1. CASE x = r
    BY <1>6, <1>8, <2>1
  <2>2. CASE x # r
    <3>1. tick'[x] = tick[x] /\ tick[x] \in Tick
      BY <1>6, <2>2 DEF Consistent, TicksOK
    <3>2. FreshFits(tick[x], row, batch, x)
      BY <1>8, <3>1 DEF WorkInv, FreshInv
    <3>. QED  BY <1>1, <1>2, <1>3, <1>8, <3>1, <3>2, FreshAccept
  <2>. QED  BY <2>1, <2>2
<1>. QED  BY <1>5, <1>7, <1>8 DEF WorkInv, RowInv, PostInv, FreshInv

LEMMA PostAcceptedKeeps ==
    ASSUME Consistent, Named, WorkInv, NEW r \in Revisions, PostAccepted(r)
    PROVE  WorkInv'
<1>. DEFINE t == [tick[r] EXCEPT !.pc = "sent", !.id = Len(batch) + 1]
<1>1. /\ tick[r].pc = "post" /\ batch' = Accepted(r) /\ UNCHANGED <<row, refused>>
      /\ Continue(r, IF tick[r].stale THEN At("closed") ELSE t)
  BY DEF PostAccepted
<1>2. At("closed").pc # "post" /\ ~Fresh(At("closed"))
  BY IdleOK DEF Fresh, Active
<1>3. CASE tick[r].stale
  BY <1>1, <1>2, <1>3, AcceptKeeps
<1>4. CASE ~tick[r].stale
  <2>1. /\ t.pc = "sent" /\ t.id = Len(batch) + 1 /\ t.job = tick[r].job
        /\ t.req = tick[r].req
    BY DEF Consistent, TicksOK, TickOK, Tick
  <2>. HIDE DEF t
  <2>2. FreshFits(tick[r], row, batch, r) /\ Fresh(tick[r]) /\ tick[r] \in Tick
    BY <1>1, <1>4 DEF WorkInv, FreshInv, Fresh, Active, Consistent, TicksOK
  <2>3. PICK p \in row.slots : p.id = 0 /\ p.req = tick[r].req
                               /\ SameRange(p, SlotOf(tick[r].job, tick[r].req))
    BY <1>1, SendingSlot
  <2>4. FreshFits(tick[r], row, batch', r)
    <3>1. Sent(r).req = p.req /\ SameRange(Sent(r), p) /\ Sent(r).state = "live"
      BY <1>1, <2>3, SentIs DEF SameRange
    <3>2. Queue(batch) /\ Queue(batch') /\ Accepting(batch, batch', Sent(r))
      BY <1>1, Typed, SentIs
    <3>. QED  BY <2>2, <2>3, <3>1, <3>2, FreshAccept
  <2>5. t.id \in DOMAIN batch' /\ batch'[t.id].req = t.req
    BY <1>1, <2>1, SentIs
  <2>6. Sending(t, row)
    BY <1>1, <2>1, <2>4 DEF FreshFits, Sending
  <2>7. FreshFits(t, row, batch', r)
    BY <2>1, <2>4, <2>5, <2>6 DEF FreshFits
  <2>. QED  BY <1>1, <1>4, <2>1, <2>7, AcceptKeeps
<1>. QED  BY <1>3, <1>4

LEMMA PostLostKeeps ==
    ASSUME Consistent, Named, WorkInv, NEW r \in Revisions, PostLost(r)
    PROVE  WorkInv'
<1>1. At("closed").pc # "post" /\ ~Fresh(At("closed"))
  BY IdleOK DEF Fresh, Active
<1>. QED  BY <1>1, AcceptKeeps DEF PostLost

LEMMA PostRefusedKeeps ==
    ASSUME Consistent, Named, WorkInv, NEW r \in Revisions, PostRefused(r)
    PROVE  WorkInv'
<1>1. /\ tick[r].pc = "post" /\ refused' = refused \cup {tick[r].req}
      /\ Continue(r, At("closed")) /\ UNCHANGED <<row, batch>>
  BY DEF PostRefused
<1>2. At("closed").pc # "post" /\ ~Fresh(At("closed"))
  BY IdleOK DEF Fresh, Active
<1>3. \A x \in Revisions : tick'[x] = IF x = r THEN At("closed") ELSE tick[x]
  BY <1>1, TicksAre, Typed
<1>4. \A i \in DOMAIN batch : batch[i].req \notin refused'
  BY <1>1 DEF Named, PostedOnce, WorkInv, RowInv, RowFits
<1>5. RowFits(row, batch, refused')
  BY <1>4 DEF WorkInv, RowInv, RowFits
<1>. QED  BY <1>1, <1>2, <1>3, <1>5 DEF WorkInv, RowInv, PostInv, FreshInv

LEMMA RecordIdKeeps ==
    ASSUME Consistent, Named, WorkInv, NEW r \in Revisions, RecordId(r)
    PROVE  WorkInv'
<1>. DEFINE job == tick[r].job
            n == tick[r].id
            s == SlotOf(job, tick[r].req)
            m == Known(s, n)
            next == Replace(job, s, m)
            t == [At("fill") EXCEPT !.job = next]
<1>1. tick[r].pc = "sent" /\ Save(r, next, t) /\ UNCHANGED <<batch, refused>>
  BY DEF RecordId, Known
<1>2. /\ row.revision = r /\ Books(job, batch, r) /\ Sending(tick[r], row)
      /\ n \in DOMAIN batch /\ batch[n].req = tick[r].req
  <2>1. ~tick[r].stale
    BY <1>1 DEF Save
  <2>2. FreshFits(tick[r], row, batch, r)
    BY <1>1, <2>1 DEF WorkInv, FreshInv, Fresh, Active
  <2>. QED  BY <1>1, <2>2 DEF FreshFits
<1>3. job = row /\ row.status = "searching" /\ ~row.retryRequested
      /\ \E x \in row.slots : x.id = 0 /\ x.req = tick[r].req
  BY <1>2 DEF Sending
<1>4. s \in row.slots /\ s.id = 0 /\ s.req = tick[r].req
  BY <1>2, <1>3 DEF SlotOf, Books, SlotsFit, OneEach
<1>5. next = [row EXCEPT !.slots = (row.slots \ {s}) \cup {m}]
  BY <1>3 DEF Replace
<1>6. t.pc = "fill" /\ t.job = next
  BY DEF At
<1>. HIDE DEF t, s, m
<1>7. /\ next.slots = (row.slots \ {s}) \cup {m} /\ next.submissions = row.submissions
      /\ next.stage = row.stage /\ next.attempt = row.attempt
      /\ next.completed = row.completed /\ next.usage = row.usage
      /\ next.status = row.status /\ next.error = row.error
      /\ next.revision = row.revision /\ next.retryRequested = row.retryRequested
      /\ next.oneSubmissionAllowed = row.oneSubmissionAllowed
  BY <1>5 DEF Consistent, JobOK, Job
<1>. HIDE DEF next
<1>8. /\ Books(next, batch, r) /\ ~Unknown(next)
      /\ \A i \in DOMAIN batch : On(row, batch, i) => On(next, batch, i)
  <2>1. \A i \in DOMAIN batch : batch[i].req = s.req => i = n
    BY <1>2, <1>4 DEF Named, PostedOnce
  <2>2. m = Known(s, n) /\ batch[n].req = s.req /\ Books(row, batch, r)
    BY <1>2, <1>3, <1>4 DEF m
  <2>. HIDE DEF n
  <2>3. n \in DOMAIN batch
    BY <1>2 DEF n
  <2>. QED  BY <1>4, <1>7, <2>1, <2>2, <2>3, Typed, BooksKnown
<1>9. "unknown" \notin row.error /\ StopsAreOld(row, batch, row.revision)
  BY <1>3 DEF WorkInv, RowInv, RowFits, Searching
<1>10. StopsAreOld(next, batch, r)
  BY <1>2, <1>7, <1>8, <1>9 DEF StopsAreOld
<1>11. RowFits(next, batch, refused)
  BY <1>2, <1>3, <1>7, <1>8, <1>9, <1>10 DEF WorkInv, RowInv, RowFits
<1>12. ~\E x \in Revisions : tick[x].pc = "post"
  BY <1>2, <1>4, OneOwed DEF Named, PostedOnce
<1>13. FreshFits(t, next, batch, r)
  <2>1. next.stage <= next.stage
    BY <1>7, Typed DEF JobOK, Job, Stages, Verification
  <2>2. \A x \in next.slots : SameSlot(x, x)
    BY DEF SameSlot
  <2>3. LeaveFits(next, next, batch, r)
    BY <1>3, <1>7, <1>8, <1>9, <1>10, <2>1, <2>2 DEF LeaveFits, Ahead, Searching
  <2>. QED  BY <1>2, <1>6, <1>7, <1>8, <2>3 DEF FreshFits
<1>14. JobOK(row')
  BY RecordIdQuiet DEF Quiet, RowOK
<1>. QED  BY <1>1, <1>6, <1>11, <1>12, <1>13, <1>14, SaveKeeps

(***************************************************************************)
(* The invariant holds, and what follows from it.                          *)
(***************************************************************************)
LEMMA WorkKeeps ==
    ASSUME Consistent, Named, WorkInv, NEW r \in Revisions,
           Work(r) \/ PostLost(r) \/ PostRefused(r) \/ Crash(r)
    PROVE  WorkInv'
<1>1. CASE ReadDone(r)
  BY <1>1, FailKeeps DEF ReadDone, Fail
<1>2. CASE ReadOff(r) \/ ReadDrain(r) \/ ReadUnknown(r) \/ ReadPoll(r)
  BY <1>2, ReadOffKeeps, ReadDrainKeeps, ReadUnknownKeeps, ReadPollKeeps
<1>3. CASE Drain(r) \/ DrainFinish(r) \/ Poll(r) \/ PollFinish(r)
  BY <1>3, DrainKeeps, DrainFinishKeeps, PollKeeps, PollFinishKeeps
<1>4. CASE FillStop(r) \/ FillExhausted(r) \/ FillRefused(r) \/ FillUnprepared(r)
  BY <1>4, FillKeeps
<1>5. CASE Reserve(r) \/ PostAccepted(r) \/ PostLost(r) \/ PostRefused(r)
  BY <1>5, ReserveKeeps, PostAcceptedKeeps, PostLostKeeps, PostRefusedKeeps
<1>6. CASE RecordId(r) \/ Finish(r)
  BY <1>6, RecordIdKeeps, FinishKeeps
<1>7. CASE Conflict(r) \/ Crash(r)
  BY <1>7, FailKeeps DEF Conflict, Crash
<1>. QED  BY <1>1, <1>2, <1>3, <1>4, <1>5, <1>6, <1>7 DEF Work

LEMMA StepWork == Consistent /\ Named /\ WorkInv /\ [Next]_vars => WorkInv'
<1>. SUFFICES ASSUME Consistent, Named, WorkInv, [Next]_vars PROVE WorkInv'
  OBVIOUS
<1>1. CASE UNCHANGED vars
  BY <1>1, QueueMoves, SameQueueSame DEF vars
<1>2. CASE \E r \in Revisions : Work(r) \/ PostLost(r) \/ PostRefused(r) \/ Crash(r)
  BY <1>2, WorkKeeps
<1>3. CASE PauseJob \/ ResumeJob \/ DeclareNotSubmitted
  BY <1>3, PauseJobKeeps, ResumeJobKeeps, DeclareNotSubmittedKeeps
<1>4. CASE \E i \in DOMAIN batch : AttachId(i) \/ RestartPolling(i) \/ BatchEnds(i)
  BY <1>4, AttachIdKeeps, RestartPollingKeeps, BatchEndsKeeps
<1>. QED  BY <1>1, <1>2, <1>3, <1>4 DEF Next

LEMMA InitWork == Init => WorkInv
<1>. SUFFICES ASSUME Init PROVE WorkInv
  OBVIOUS
<1>1. /\ row.slots = {} /\ row.status = "queued" /\ row.error = {} /\ row.usage = 0
      /\ row.attempt = 0 /\ row.completed = {} /\ row.stage = 1
      /\ ~row.oneSubmissionAllowed
  BY DEF Init, NewJob
<1>2. DOMAIN batch = {}
  BY DEF Init
<1>3. SlotsFit(row, batch, row.revision)
  <2>1. IsFiniteSet({}) /\ Cardinality({}) = 0
    BY FS_EmptySet
  <2>. QED  BY <1>1, <2>1, SizesAssumption DEF SlotsFit, OneEach, Unknown
<1>4. RangesSearched(row, batch)
  <2>1. \A a \in 0..RangeSize : ~(a < 0)
    OBVIOUS
  <2>2. 1..(1 - 1) = {}
    OBVIOUS
  <2>. QED  BY <1>1, <2>1, <2>2 DEF RangesSearched
<1>5. Billed(row, batch) = {}
  BY <1>2 DEF Billed
<1>6. RowInv
  BY <1>1, <1>2, <1>3, <1>4, <1>5, FS_EmptySet
     DEF RowInv, RowFits, Books, Passed, RunningKept, ResultsKept, StopsAreOld, Unknown
<1>7. \A r \in Revisions : tick[r].pc \in {"wait", "closed"}
  BY IdleOK DEF Init
<1>. QED  BY <1>6, <1>7 DEF WorkInv, PostInv, FreshInv, Fresh, Active

\* Whatever crashes, races or is lost, a Batch job that runs is on the saved job, by
\* its ID or by the request that the operator's script can discover it by, and so
\* is the request of a POST that a tick may still send (fillSlots of parallel-search.ts).
THEOREM PaidWorkNeverOrphaned == Spec => []NoOrphanedWork
<1>1. WorkInv => NoOrphanedWork
  BY DEF WorkInv, RowInv, RowFits, Books, RunningKept, On, PostInv, PostFits,
         NoOrphanedWork, Live, Tracked
<1>. QED
  BY <1>1, InitConsistent, StepConsistent, InitNamed, StepNamed, InitWork, StepWork, PTL
     DEF Spec

\* The cursor and the completed chunks of parallel-search.ts never claim more than
\* was searched: each range they count ended without a hit, and each stage that the
\* search left had one.
THEOREM RangesNeverSkipped == Spec => []NoRangeSkipped
<1>1. WorkInv => NoRangeSkipped
  BY DEF WorkInv, RowInv, RowFits, Books, RangesSearched, NoRangeSkipped, SameRange
<1>. QED
  BY <1>1, InitConsistent, StepConsistent, InitNamed, StepNamed, InitWork, StepWork, PTL
     DEF Spec

\* A chunk of the current stage that ended with a result is credited, or its slot is
\* still on the saved job: no save of a tick, whatever it raced, forgets it.
THEOREM ResultsNeverLost == Spec => []NoResultLost
<1>1. WorkInv => NoResultLost
  BY DEF WorkInv, RowInv, RowFits, Books, ResultsKept, On, Credited, Stopping,
         NoResultLost, Tracked
<1>. QED
  BY <1>1, InitConsistent, StepConsistent, InitNamed, StepNamed, InitWork, StepWork, PTL
     DEF Spec

\* The GPU time of every Batch job that ended is in the job's usage once, unless a
\* tick has yet to see it end: metering is never repeated nor undone by a stale copy.
THEOREM MeteredExactlyOnce == Spec => []MeteredOnce
<1>1. WorkInv => MeteredOnce
  BY DEF WorkInv, RowInv, RowFits, Books, Billed, MeteredOnce, Live
<1>. QED
  BY <1>1, InitConsistent, StepConsistent, InitNamed, StepNamed, InitWork, StepWork, PTL
     DEF Spec

\* There is never more than one submission of unknown outcome, and a job paused for
\* one can be reconciled or, after the operator's decision, resumed
\* (server/reconcile-submission.ts and the resume route of server/app.ts).
THEOREM UnknownAlwaysHasRecourse == Spec => []UnknownHasRecourse
<1>1. WorkInv => UnknownHasRecourse
  <2>. SUFFICES ASSUME WorkInv PROVE UnknownHasRecourse
    OBVIOUS
  <2>1. RowFits(row, batch, refused) /\ OneEach(row.slots)
    BY DEF WorkInv, RowInv, RowFits, Books, SlotsFit
  <2>2. CASE Unknown(row)
    <3>1. PICK s \in row.slots : s.id = 0
      BY <2>2 DEF Unknown
    <3>2. UnknownSlots = {s}
      BY <2>1, <3>1 DEF UnknownSlots, OneEach
    <3>3. Cardinality({s}) = 1
      BY FS_Singleton
    <3>. QED  BY <2>1, <3>2, <3>3 DEF UnknownHasRecourse, RowFits
  <2>3. CASE ~Unknown(row)
    <3>1. UnknownSlots = {}
      BY <2>3 DEF UnknownSlots, Unknown
    <3>2. Cardinality({}) = 0
      BY FS_EmptySet
    <3>. QED  BY <2>1, <2>3, <3>1, <3>2 DEF UnknownHasRecourse, RowFits
  <2>. QED  BY <2>2, <2>3
<1>. QED
  BY <1>1, InitConsistent, StepConsistent, InitNamed, StepNamed, InitWork, StepWork, PTL
     DEF Spec

(***************************************************************************)
(* A range is paid for anew only after it stopped.                         *)
(***************************************************************************)
LEMMA CopyMoves ==
    ASSUME Consistent, NEW r \in Revisions, Drain(r) \/ Poll(r)
    PROVE  SameQueue(batch, batch') /\ SameStates
<1>1. UNCHANGED batch \/ \E i : Cancel(i)
  BY DEF Drain, Poll, DrainRunning, DrainEnded, Unreadable, PollRunning, PollSuperseded,
         PollStopped, PollOverflow, PollHit, PollInvalid, PollNone
<1>. QED  BY <1>1, CancelMoves, SameQueueSame DEF SameStates

\* AWS Batch ends a job, or accepts what one execution sends; else no job's state moves.
LEMMA QueueStep ==
    ASSUME Consistent, [Next]_vars
    PROVE  \/ SameQueue(batch, batch') /\ SameStates
           \/ \E i \in DOMAIN batch : BatchEnds(i) /\ SameQueue(batch, batch')
           \/ \E r \in Revisions : PostAccepted(r) \/ PostLost(r)
<1>1. CASE UNCHANGED batch
  BY <1>1, SameQueueSame DEF SameStates
<1>2. ASSUME NEW r \in Revisions, Drain(r) \/ Poll(r)
      PROVE  SameQueue(batch, batch') /\ SameStates
  BY <1>2, CopyMoves
<1>3. ASSUME NEW i \in DOMAIN batch, BatchEnds(i)  PROVE SameQueue(batch, batch')
  BY <1>3, EndsMoves DEF BatchEnds
<1>4. ASSUME NEW r \in Revisions, Work(r) \/ PostRefused(r) \/ Crash(r),
             ~(Drain(r) \/ Poll(r) \/ PostAccepted(r))
      PROVE  UNCHANGED batch
  BY <1>4 DEF Work, PostRefused, Crash, Conflict, Fail, ReadDone, ReadOff, ReadDrain,
              ReadUnknown, ReadPoll, DrainFinish, PollFinish, FillStop, FillExhausted,
              FillRefused, FillUnprepared, Leave, Reserve, RecordId, Finish
<1>5. ASSUME PauseJob \/ ResumeJob \/ DeclareNotSubmitted
               \/ \E i \in DOMAIN batch : AttachId(i) \/ RestartPolling(i)
      PROVE  UNCHANGED batch
  BY <1>5 DEF PauseJob, ResumeJob, DeclareNotSubmitted, AttachId, RestartPolling, NextRevision
<1>. QED  BY <1>1, <1>2, <1>3, <1>4, <1>5 DEF Next, vars

LEMMA StepRepost ==
    Consistent /\ Named /\ WorkInv /\ RepostOnlyAfterStop /\ [Next]_vars
      => RepostOnlyAfterStop'
<1>. SUFFICES ASSUME Consistent, Named, WorkInv, RepostOnlyAfterStop, [Next]_vars
              PROVE  RepostOnlyAfterStop'
  OBVIOUS
<1>1. CASE SameQueue(batch, batch')
  BY <1>1 DEF RepostOnlyAfterStop, SameQueue, SameRange
<1>2. ASSUME NEW r \in Revisions, PostAccepted(r) \/ PostLost(r)
      PROVE  RepostOnlyAfterStop'
  <2>. DEFINE n == Len(batch) + 1
              posted == SlotOf(tick[r].job, tick[r].req)
  <2>1. tick[r].pc = "post" /\ batch' = Accepted(r)
    BY <1>2 DEF PostAccepted, PostLost
  <2>2. /\ DOMAIN batch = 1..Len(batch) /\ Len(batch) \in Nat
        /\ DOMAIN batch' = DOMAIN batch \cup {n}
        /\ \A i \in DOMAIN batch : batch'[i] = batch[i]
        /\ batch'[n].revision = r /\ SameRange(batch'[n], posted)
    <3>1. batch' = Append(batch, Sent(r)) /\ batch \in Seq(BatchJob)
      BY <2>1 DEF Accepted, Sent, Consistent
    <3>2. /\ DOMAIN batch = 1..Len(batch) /\ Len(batch) \in Nat
          /\ DOMAIN batch' = DOMAIN batch \cup {n}
          /\ \A i \in DOMAIN batch : batch'[i] = batch[i]
      BY <3>1, LenProperties
    <3>. QED  BY <2>1, <3>2, SentIs
  <2>3. \A i \in DOMAIN batch : SameRange(batch[i], posted) =>
          batch[i].state \in Stopping /\ batch[i].revision < r
    BY <2>1, SendingSlot DEF PostFits
  <2>. HIDE DEF posted
  <2>4. ASSUME NEW i \in DOMAIN batch', NEW j \in DOMAIN batch', i < j,
               SameRange(batch'[i], batch'[j])
        PROVE  batch'[i].state \in {"failed", "partial"}
               /\ batch'[i].revision < batch'[j].revision
    <3>1. i \in DOMAIN batch
      BY <2>2, <2>4
    <3>2. CASE j \in DOMAIN batch
      BY <2>2, <2>4, <3>1, <3>2 DEF RepostOnlyAfterStop
    <3>3. CASE j = n
      <4>1. SameRange(batch[i], posted)
        BY <2>2, <2>4, <3>1, <3>3 DEF SameRange
      <4>. QED  BY <2>2, <2>3, <3>1, <3>3, <4>1 DEF Stopping
    <3>. QED  BY <2>2, <3>2, <3>3
  <2>. QED  BY <2>4 DEF RepostOnlyAfterStop
<1>. QED  BY <1>1, <1>2, QueueStep

\* A range is paid for again only after each earlier Batch job for it failed or was
\* cut short, and only by an execution of a later revision, hence after an explicit
\* resume: no retry of a tick resubmits (resumeOrFail and fillSlots).
THEOREM RepostsOnlyAfterStop == Spec => []RepostOnlyAfterStop
<1>1. Init => RepostOnlyAfterStop
  BY DEF Init, RepostOnlyAfterStop
<1>. QED
  BY <1>1, InitConsistent, StepConsistent, InitNamed, StepNamed, InitWork, StepWork,
     StepRepost, PTL DEF Spec

(***************************************************************************)
(* The budget of PaidSearch.                                               *)
(***************************************************************************)
Running == {i \in DOMAIN batch : Live(i)}

\* What is charged is one Timeout for each submission.
LEMMA WholeTimeouts ==
    ASSUME NEW n \in Nat
    PROVE  (Timeout * n) \div Timeout = n
<1>. DEFINE d == (Timeout * n) \div Timeout
<1>1. Timeout \in Int /\ Timeout > 0 /\ Timeout * n \in Int
  BY SizesAssumption
<1>2. d \in Int /\ Timeout * d <= Timeout * n /\ Timeout * n < Timeout * (d + 1)
  BY <1>1
<1>. HIDE DEF d
<1>3. d <= n
  BY <1>1, <1>2
<1>4. n < d + 1
  BY <1>1, <1>2
<1>. QED  BY <1>2, <1>3, <1>4 DEF d

LEMMA RoomInCap ==
    ASSUME NEW n \in Nat, Timeout * (n + 1) <= MaxGpuSeconds
    PROVE  n < MaxGpuSeconds \div Timeout
<1>. DEFINE d == MaxGpuSeconds \div Timeout
<1>1. Timeout \in Int /\ Timeout > 0 /\ MaxGpuSeconds \in Int
  BY SizesAssumption
<1>2. d \in Int /\ MaxGpuSeconds < Timeout * (d + 1)
  BY <1>1
<1>. HIDE DEF d
<1>3. n + 1 < d + 1
  BY <1>1, <1>2
<1>. QED  BY <1>2, <1>3 DEF d

LEMMA RunningFinite ==
    ASSUME Consistent
    PROVE  IsFiniteSet(Running) /\ Cardinality(Running) \in Nat
<1>1. IsFiniteSet(DOMAIN batch) /\ Running \subseteq DOMAIN batch
  BY Typed DEF Queue, Running
<1>. QED  BY <1>1, FS_Subset, FS_CardinalityType

\* Every Batch job that runs has a slot of its own beside the one being sent.
LEMMA RoomToRun ==
    ASSUME Consistent, Named, WorkInv, NEW r \in Revisions, tick[r].pc = "post"
    PROVE  Cardinality(Running) < WorkersMax
<1>1. Books(row, batch, row.revision)
  BY DEF WorkInv, RowInv, RowFits
<1>2. PICK p \in row.slots : p.id = 0 /\ p.req = tick[r].req
  BY SendingSlot
<1>. DEFINE others == row.slots \ {p}
            slotOf == [i \in Running |-> CHOOSE s \in others : s.id = i]
<1>3. \A i \in Running : \E s \in others : s.id = i
  <2>1. ASSUME NEW i \in Running  PROVE \E s \in others : s.id = i
    <3>1. i \in DOMAIN batch /\ batch[i].state = "live" /\ i # 0
      BY Typed DEF Running, Live, Queue
    <3>2. PICK s \in row.slots : s.id = i \/ (s.id = 0 /\ s.req = batch[i].req)
      BY <1>1, <3>1 DEF Books, RunningKept, On
    <3>3. s.id # 0
      BY <1>1, <1>2, <3>1, <3>2 DEF Books, SlotsFit, OneEach, Named, PostedOnce
    <3>. QED  BY <1>2, <3>2, <3>3
  <2>. QED  BY <2>1
<1>4. \A i \in Running : slotOf[i] \in others /\ slotOf[i].id = i
  BY <1>3
<1>5. slotOf \in Injection(Running, others)
  BY <1>4 DEF Injection, IsInjective
<1>6. /\ IsFiniteSet(row.slots) /\ Cardinality(row.slots) \in Nat
      /\ Cardinality(row.slots) <= WorkersMax
  BY <1>1, FS_CardinalityType DEF Books, SlotsFit
<1>7. IsFiniteSet(others) /\ Cardinality(others) = Cardinality(row.slots) - 1
  BY <1>6, FS_RemoveElement
<1>8. Cardinality(Running) <= Cardinality(others)
  <2>. HIDE DEF slotOf, others
  <2>. QED  BY <1>5, <1>7, FS_Injection
<1>. QED  BY <1>6, <1>7, <1>8, RunningFinite, SizesAssumption

LEMMA BudgetStep ==
    ASSUME Consistent, Charged, Consistent', Charged'
    PROVE  /\ row.reserved \div Timeout = row.submissions
           /\ row'.reserved \div Timeout = row'.submissions
           /\ row.submissions \in Nat /\ Len(batch) + Cardinality(refused) \in Nat
           /\ Budget!vars = <<row.submissions, Len(batch) + Cardinality(refused),
                              Cardinality(Running)>>
           /\ (Budget!vars)' = <<row'.submissions, Len(batch') + Cardinality(refused'),
                                 Cardinality(Running')>>
<1>1. /\ row.submissions \in Nat /\ row'.submissions \in Nat
      /\ Len(batch) \in Nat /\ Cardinality(refused) \in Nat
  BY LenProperties, FS_CardinalityType DEF Consistent, JobOK, Job, Charged
<1>2. row.reserved \div Timeout = row.submissions
  BY <1>1, WholeTimeouts DEF Charged
<1>3. row'.reserved \div Timeout = row'.submissions
  BY <1>1, WholeTimeouts DEF Charged
<1>. QED  BY <1>1, <1>2, <1>3 DEF Budget!vars, Running

LEMMA SameRunning ==
    ASSUME SameStates
    PROVE  Running' = Running
BY DEF SameStates, Running, Live

LEMMA SameLength ==
    ASSUME NEW m \in Nat, NEW n \in Nat, 1..m = 1..n
    PROVE  m = n
<1>1. \A k, l \in Nat : 1..k = 1..l => k <= l
  OBVIOUS
<1>2. m <= n /\ n <= m
  BY <1>1
<1>. QED  BY <1>2

LEMMA StepInBudget ==
    Consistent /\ Named /\ Charged /\ WorkInv /\ [Next]_vars => [Budget!Next]_(Budget!vars)
<1>. SUFFICES ASSUME Consistent, Named, Charged, WorkInv, [Next]_vars
              PROVE  [Budget!Next]_(Budget!vars)
  OBVIOUS
<1>1. /\ row.reserved \div Timeout = row.submissions
      /\ row'.reserved \div Timeout = row'.submissions
      /\ row.submissions \in Nat /\ Len(batch) + Cardinality(refused) \in Nat
      /\ Budget!vars = <<row.submissions, Len(batch) + Cardinality(refused),
                         Cardinality(Running)>>
      /\ (Budget!vars)' = <<row'.submissions, Len(batch') + Cardinality(refused'),
                            Cardinality(Running')>>
  BY StepConsistent, StepCharged, BudgetStep
<1>2. /\ Len(batch) \in Nat /\ IsFiniteSet(refused) /\ Cardinality(refused) \in Nat
      /\ IsFiniteSet(Posting) /\ Cardinality(Posting) \in Nat
      /\ Len(batch) + Cardinality(refused) + Cardinality(Posting) <= row.submissions
      /\ IsFiniteSet(Running) /\ Cardinality(Running) \in Nat
  BY LenProperties, FS_CardinalityType, PostingFinite, RunningFinite DEF Charged, Consistent
<1>3. ASSUME NEW r \in Revisions, tick[r].pc = "post"
      PROVE  Len(batch) + Cardinality(refused) < row.submissions
  <2>1. Posting # {}
    BY <1>3 DEF Posting
  <2>2. Cardinality(Posting) >= 1
    BY <1>2, <2>1, FS_EmptySet
  <2>. DEFINE answers == Len(batch) + Cardinality(refused)
  <2>3. answers \in Nat /\ Cardinality(Posting) \in Nat /\ row.submissions \in Nat
        /\ answers + Cardinality(Posting) <= row.submissions
    BY <1>1, <1>2
  <2>. HIDE DEF answers
  <2>4. answers < row.submissions
    BY <2>2, <2>3
  <2>. QED  BY <2>4 DEF answers
<1>4. CASE SameStates
  <2>1. Running' = Running /\ Len(batch') = Len(batch)
    <3>1. DOMAIN batch = 1..Len(batch) /\ DOMAIN batch' = 1..Len(batch') /\ Len(batch') \in Nat
      BY StepConsistent, LenProperties DEF Consistent
    <3>2. 1..Len(batch') = 1..Len(batch)
      BY <1>4, <3>1 DEF SameStates
    <3>3. Len(batch) \in Nat
      BY <1>2
    <3>4. Len(batch') = Len(batch)
      BY <3>1, <3>2, <3>3, SameLength
    <3>. QED  BY <1>4, <3>4, SameRunning
  <2>2. CASE Quiet
    BY <1>1, <2>1, <2>2 DEF Quiet, RowOK
  <2>3. ASSUME NEW r \in Revisions, Reserves(r)  PROVE Budget!Charge
    <3>1. /\ row'.submissions = row.submissions + 1 /\ refused' = refused
          /\ row'.reserved <= MaxGpuSeconds
      BY <2>3 DEF Reserves
    <3>2. row'.reserved = Timeout * (row.submissions + 1)
      BY <3>1, StepCharged DEF Charged
    <3>3. row.submissions < MaxGpuSeconds \div Timeout
      BY <1>1, <3>1, <3>2, RoomInCap
    <3>. QED  BY <1>1, <2>1, <3>1, <3>3 DEF Budget!Charge, Running
  <2>4. ASSUME NEW r \in Revisions, Posts(r)  PROVE Budget!Refuse
    <3>1. /\ tick[r].pc = "post" /\ row' = row
          /\ batch' = batch /\ refused' = refused \cup {tick[r].req}
      BY <1>2, <2>1, <2>4 DEF Posts, PostOver, Accepts
    <3>2. Cardinality(refused') = Cardinality(refused) + 1
      BY <1>2, <3>1, FS_AddElement DEF Named
    <3>3. Len(batch') + Cardinality(refused') = (Len(batch) + Cardinality(refused)) + 1
      BY <1>2, <2>1, <3>2
    <3>4. Len(batch) + Cardinality(refused) < row.submissions
      BY <1>3, <3>1
    <3>5. row'.submissions = row.submissions /\ Cardinality(Running') = Cardinality(Running)
      BY <2>1, <3>1
    <3>. QED  BY <1>1, <3>3, <3>4, <3>5 DEF Budget!Refuse, Running
  <2>. QED  BY <2>2, <2>3, <2>4, StepKinds DEF Budget!Next
<1>5. ASSUME NEW i \in DOMAIN batch, BatchEnds(i), SameQueue(batch, batch')
      PROVE  Budget!End
  <2>1. PICK outcome \in AllOutcomes : Ends(i, outcome)
    BY <1>5 DEF BatchEnds
  <2>2. /\ i \in Running /\ UNCHANGED <<row, refused>> /\ outcome # "live"
        /\ batch' = [batch EXCEPT ![i].state = outcome]
    BY <2>1 DEF Ends, Running, AllOutcomes
  <2>3. Len(batch') = Len(batch)
    BY <2>2, ExceptSeq DEF Consistent
  <2>4. Running' = Running \ {i}
    <3>1. batch[i] \in BatchJob
      BY ElementOfSeq, LenProperties DEF Consistent
    <3>2. batch'[i].state = outcome /\ DOMAIN batch' = DOMAIN batch
          /\ \A j \in DOMAIN batch : j # i => batch'[j] = batch[j]
      BY <2>2, <3>1 DEF BatchJob
    <3>. QED  BY <2>2, <3>2 DEF Running, Live
  <2>5. Cardinality(Running') = Cardinality(Running) - 1 /\ Cardinality(Running) > 0
    <3>1. Cardinality(Running \ {i}) = Cardinality(Running) - 1
          /\ Cardinality(Running \ {i}) \in Nat
      BY <1>2, <2>2, FS_RemoveElement, FS_CardinalityType
    <3>. QED  BY <1>2, <2>4, <3>1
  <2>. QED  BY <1>1, <2>2, <2>3, <2>5 DEF Budget!End, Running
<1>6. ASSUME NEW r \in Revisions, PostAccepted(r) \/ PostLost(r)
      PROVE  Budget!Accept
  <2>1. /\ tick[r].pc = "post" /\ batch' = Accepted(r) /\ UNCHANGED <<row, refused>>
    BY <1>6 DEF PostAccepted, PostLost
  <2>2. batch' = Append(batch, Sent(r)) /\ batch \in Seq(BatchJob) /\ Sent(r).state = "live"
    BY <2>1, SentIs DEF Accepted, Sent, Consistent
  <2>3. /\ Len(batch') = Len(batch) + 1
        /\ DOMAIN batch = 1..Len(batch) /\ DOMAIN batch' = 1..(Len(batch) + 1)
        /\ batch'[Len(batch) + 1] = Sent(r)
        /\ \A j \in DOMAIN batch : batch'[j] = batch[j]
    BY <2>2, LenProperties
  <2>4. Running' = Running \cup {Len(batch) + 1} /\ Len(batch) + 1 \notin Running
    BY <1>2, <2>2, <2>3 DEF Running, Live
  <2>5. Cardinality(Running') = Cardinality(Running) + 1
    BY <1>2, <2>4, FS_AddElement
  <2>6. Len(batch') + Cardinality(refused') = (Len(batch) + Cardinality(refused)) + 1
    BY <1>2, <2>1, <2>3
  <2>. QED
    BY <1>1, <1>3, <2>1, <2>5, <2>6, RoomToRun DEF Budget!Accept, Running
<1>. QED  BY <1>4, <1>5, <1>6, QueueStep DEF Budget!Next

\* Searching on several GPUs keeps what PaidSearch promises of GPU time: it is charged
\* before it is used, never beyond the withdrawal's cap nor given back, each charge
\* pays for one request at most, and no more Batch jobs run at once than the GPUs of
\* the job, though crashed, stale and reconciled ticks post beside each other.
THEOREM ImplementsPaidSearch == Spec => KeepsBudget
<1>1. Init => Budget!Init
  <2>. SUFFICES ASSUME Init PROVE Budget!Init
    OBVIOUS
  <2>1. row.reserved = 0 /\ Len(batch) = 0 /\ refused = {} /\ Running = {}
    BY EmptySeq DEF Init, NewJob, Running
  <2>2. 0 \div Timeout = 0
    BY SizesAssumption
  <2>. QED  BY <2>1, <2>2, FS_EmptySet DEF Budget!Init, Running
<1>. QED
  BY <1>1, InitConsistent, StepConsistent, InitNamed, StepNamed, InitCharged, StepCharged,
     InitWork, StepWork, StepInBudget, PTL DEF Spec, KeepsBudget, Budget!Spec
=============================================================================
