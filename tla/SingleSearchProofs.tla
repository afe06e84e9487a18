------------------------- MODULE SingleSearchProofs -------------------------
(***************************************************************************)
(* The search on one GPU never has two Batch jobs that run, each that runs *)
(* is on the withdrawal's record, no candidate is skipped, and the search  *)
(* implements PaidSearch: for any ranges, budget, number of revisions,     *)
(* crashes and lost answers.                                               *)
(*                                                                         *)
(* RunsOnRecord is not inductive: a new Batch job comes from a POST, and   *)
(* what a POST may meet follows from the reservation before it.  SearchInv *)
(* adds what each tick under way knows of the row.  Nor is the order of    *)
(* the search, NoCandidateSkipped, for which UnitInv is needed besides.    *)
(***************************************************************************)
EXTENDS SingleSearch, TLAPS, FiniteSetTheorems

\* The outcome of the row's last request is not known: no ID was recorded for it,
\* and no operator has declared it as not submitted.
Owed ==
    /\ row.id = 0 /\ ~row.oneSubmissionAllowed
    /\ row.status = "searching" \/ (row.status = "paused" /\ "unknown" \in row.error)

Posting(r) == tick[r].pc = "post"
Requests == {batch[i].request : i \in DOMAIN batch} \cup refused

\* The row names a stage to search until the search is over, and a Batch job or none.
RowInv ==
    /\ row.status = "absent" => row = NoJob
    /\ row.status \notin Terminal => row.stage \in SearchStages
    /\ row.id = 0 \/ row.id \in DOMAIN batch

\* There is a unit to search next, unless the stage is said to be exhausted.
RangeInv ==
    /\ row.status \notin Terminal /\ "exhausted" \notin row.error =>
         HasRange(row.stage, row.attempt)
    /\ "exhausted" \in row.error => row.status = "paused" /\ "unknown" \notin row.error

\* A tick that can still save holds the row as it is; a POST that may be sent is of
\* the row's last request.
TickInv ==
    \A r \in Revisions :
        /\ tick[r].pc \in {"fill", "poll", "sent"} => tick[r].job = row
        /\ tick[r].pc = "fill" => row.status = "queued" /\ row.id = 0 /\ row.revision = r
        /\ tick[r].pc = "poll" => row.status = "searching" /\ row.id # 0
        /\ tick[r].pc = "sent" =>
             Owed /\ tick[r].id \in DOMAIN batch /\ batch[tick[r].id].request = row.request
        /\ tick[r].pc = "drain" => tick[r].id \in DOMAIN batch
        /\ Posting(r) =>
             /\ ~tick[r].stale => tick[r].job = row
             /\ tick[r].job.stage \in SearchStages
             /\ tick[r].job.request = row.request

\* A request is sent by one tick, while its outcome is owed, and was never sent.
PostInv ==
    /\ \A r \in Revisions : Posting(r) => Owed /\ row.request \notin Requests
    /\ \A r, s \in Revisions : Posting(r) /\ Posting(s) => r = s

\* A Batch job that runs is the last one, and is on record.
LiveInv ==
    \A i \in DOMAIN batch : Live(i) =>
        /\ i = Len(batch)
        /\ row.id = i \/ (Owed /\ batch[i].request = row.request)

\* Requests are numbered as they are charged, and what was sent was charged, once.
ChargeInv ==
    /\ \A i, j \in DOMAIN batch : batch[i].request = batch[j].request => i = j
    /\ row.request <= row.reserved
    /\ \A q \in Requests : q <= row.reserved
    /\ IsFiniteSet(refused)
    /\ Len(batch) + Cardinality(refused) <= row.reserved
    /\ \A r \in Revisions : Posting(r) => Len(batch) + Cardinality(refused) < row.reserved

\* An execution runs once; the one that made a request without an ID is in its POST,
\* after it, or dead.
StartedInv ==
    /\ \A r \in Revisions : tick[r].pc # "closed" => r \in started
    /\ Unknown(row) => /\ row.revision \in started
                       /\ tick[row.revision].pc \in {"post", "sent", "failed"}

SearchInv ==
    TypeOK /\ RowInv /\ RangeInv /\ TickInv /\ PostInv /\ LiveInv /\ ChargeInv /\ StartedInv

(***************************************************************************)
(* What the helpers on jobs and ticks give.                                *)
(***************************************************************************)
LEMMA NewJobFacts ==
    /\ NewJob \in Job /\ NewJob.status = "queued" /\ NewJob.error = {}
    /\ NewJob.stage = "pinning" /\ NewJob.attempt = 0 /\ NewJob.id = 0
    /\ NewJob.request = 0 /\ NewJob.reserved = 0 /\ NewJob.revision = 0
    /\ NoJob \in Job /\ NoJob.status = "absent" /\ NoJob.error = {}
    /\ NoJob.id = 0 /\ NoJob.request = 0 /\ NoJob.reserved = 0 /\ NoJob.stage = "pinning"
    /\ NoJob.attempt = 0
<1>1. 0 \in Revisions /\ 0 \in 0..MaxExecutions
  BY BoundAssumption DEF Revisions
<1>2. NewJob \in Job
  BY <1>1 DEF NewJob, Job, Statuses, Reasons, Stages
<1>3. NoJob \in Job
  BY <1>2 DEF NoJob, Job, Statuses
<1>. QED  BY <1>2, <1>3 DEF NewJob, NoJob

LEMMA AtFacts ==
    \A pc \in {"closed", "failed", "wait", "drain", "poll", "fill", "post", "sent"} :
        At(pc) \in Tick /\ At(pc).pc = pc /\ ~At(pc).stale
  BY NewJobFacts DEF At, Tick

LEMMA TickUpdates ==
    /\ \A x \in Tick : [x EXCEPT !.stale = TRUE] \in Tick
    /\ \A x \in Tick, job \in Job : [x EXCEPT !.job = job] \in Tick
    /\ \A x \in Tick, n \in Nat :
         [x EXCEPT !.id = n] \in Tick /\ [x EXCEPT !.pc = "sent", !.id = n] \in Tick
<1>1. \A x \in Tick : [x EXCEPT !.stale = TRUE] \in Tick
  BY DEF Tick
<1>2. \A x \in Tick, job \in Job : [x EXCEPT !.job = job] \in Tick
  BY DEF Tick
<1>3. \A x \in Tick, n \in Nat : [x EXCEPT !.id = n] \in Tick
  BY DEF Tick
<1>4. \A x \in Tick, n \in Nat : [x EXCEPT !.pc = "sent", !.id = n] \in Tick
  BY DEF Tick
<1>. QED  BY <1>1, <1>2, <1>3, <1>4

\* A tick behind whose back the row was written can save no more; its POST, or the
\* end of the job it found paused, is still to come.
LEMMA StaledFacts ==
    \A x \in Tick :
        /\ Staled(x) \in Tick
        /\ Staled(x).pc \notin {"fill", "poll", "sent"}
        /\ Staled(x).pc = "post" => x.pc = "post" /\ Staled(x).stale /\ Staled(x).job = x.job
        /\ Staled(x).pc = "drain" => x.pc = "drain" /\ Staled(x).id = x.id
<1>. SUFFICES ASSUME NEW x \in Tick
     PROVE  /\ Staled(x) \in Tick
            /\ Staled(x).pc \notin {"fill", "poll", "sent"}
            /\ Staled(x).pc = "post" => x.pc = "post" /\ Staled(x).stale /\ Staled(x).job = x.job
            /\ Staled(x).pc = "drain" => x.pc = "drain" /\ Staled(x).id = x.id
  OBVIOUS
<1>1. CASE x.pc \in {"poll", "fill", "sent"}
  <2>1. Staled(x) = At("failed")
    BY <1>1 DEF Staled
  <2>. QED  BY <2>1, AtFacts
<1>2. CASE x.pc = "post"
  <2>1. Staled(x) = [x EXCEPT !.stale = TRUE]
    BY <1>2 DEF Staled
  <2>2. /\ [x EXCEPT !.stale = TRUE].pc = x.pc /\ [x EXCEPT !.stale = TRUE].stale
        /\ [x EXCEPT !.stale = TRUE].job = x.job
    BY DEF Tick
  <2>. QED  BY <1>2, <2>1, <2>2, TickUpdates
<1>3. CASE x.pc \notin {"poll", "fill", "sent", "post"}
  BY <1>3 DEF Staled
<1>. QED  BY <1>1, <1>2, <1>3

LEMMA OthersFacts ==
    ASSUME TypeOK
    PROVE  OthersStale \in [Revisions -> Tick] /\ \A r \in Revisions : OthersStale[r] = Staled(tick[r])
  BY StaledFacts DEF TypeOK, OthersStale

\* What the job becomes.
LEMMA DisabledFacts ==
    ASSUME NEW x \in Job
    PROVE  /\ Disabled(x) \in Job /\ Disabled(x).status = "paused"
           /\ Disabled(x).id = x.id /\ Disabled(x).stage = x.stage
           /\ Disabled(x).attempt = x.attempt
           /\ "exhausted" \in Disabled(x).error <=> "exhausted" \in x.error
           /\ Disabled(x).request = x.request /\ Disabled(x).reserved = x.reserved
           /\ "unknown" \in Disabled(x).error <=> "unknown" \in x.error \/ Unknown(x)
           /\ Disabled(x).oneSubmissionAllowed => x.oneSubmissionAllowed
<1>1. Disabled(x) \in Job
  BY DEF Disabled, Job, Statuses, Reasons, Unknown
<1>. QED  BY <1>1 DEF Disabled, Job

LEMMA PauseFacts ==
    ASSUME NEW x \in Job, NEW reasons \in SUBSET Reasons
    PROVE  /\ Pause(x, reasons) \in Job /\ Pause(x, reasons).status = "paused"
           /\ Pause(x, reasons).error = reasons
           /\ Pause(x, reasons).id = x.id /\ Pause(x, reasons).stage = x.stage
           /\ Pause(x, reasons).attempt = x.attempt
           /\ Pause(x, reasons).request = x.request /\ Pause(x, reasons).reserved = x.reserved
           /\ Pause(x, reasons).oneSubmissionAllowed = x.oneSubmissionAllowed
  BY DEF Pause, Job, Statuses

LEMMA ReservedFacts ==
    ASSUME NEW x \in Job, ~Exceeds(x)
    PROVE  /\ Reserved(x) \in Job /\ Reserved(x).status = "searching"
           /\ Reserved(x).id = x.id /\ Reserved(x).stage = x.stage
           /\ Reserved(x).attempt = x.attempt /\ Reserved(x).error = x.error
           /\ Reserved(x).revision = x.revision
           /\ Reserved(x).request = x.reserved + 1 /\ Reserved(x).reserved = x.reserved + 1
           /\ ~Reserved(x).oneSubmissionAllowed
<1>1. x.reserved + 1 \in 0..MaxExecutions /\ x.reserved \in Nat
  BY BoundAssumption DEF Exceeds, Job
<1>2. Reserved(x) \in Job
  BY <1>1 DEF Reserved, Job, Statuses
<1>. QED  BY <1>2 DEF Reserved, Job

LEMMA StoppedFacts ==
    ASSUME NEW x \in Job
    PROVE  /\ Stopped(x) \in Job /\ Stopped(x).status \in {"queued", "paused"}
           /\ Stopped(x).id \in {0, x.id}
           /\ Stopped(x).stage = x.stage /\ Stopped(x).attempt = x.attempt
           /\ Stopped(x).error \in {x.error, {"other"}}
           /\ Stopped(x).request = x.request /\ Stopped(x).reserved = x.reserved
  BY DEF Stopped, Requeued, Pause, Job, Statuses, Reasons

LEMMA HitFacts ==
    ASSUME NEW x \in Job, x.stage \in SearchStages
    PROVE  /\ VerifiedHit(x) \in Job
           /\ VerifiedHit(x).status \in {"queued", "awaiting_authorization"}
           /\ VerifiedHit(x).status = "queued" =>
                VerifiedHit(x).stage \in SearchStages
           /\ VerifiedHit(x).attempt = 0 /\ VerifiedHit(x).error = x.error
           /\ VerifiedHit(x).id = 0
           /\ VerifiedHit(x).request = x.request /\ VerifiedHit(x).reserved = x.reserved
<1>1. x.stage \in {"pinning", "round1", "round2"}
  BY DEF SearchStages, Stages
<1>2. /\ NextStage[x.stage] \in Stages
      /\ x.stage # "round2" => NextStage[x.stage] \in SearchStages
  BY <1>1 DEF NextStage, Stages, SearchStages
<1>. QED  BY <1>2 DEF VerifiedHit, Job, Statuses

LEMMA NextUnitFacts ==
    ASSUME NEW x \in Job, "exhausted" \notin x.error
    PROVE  /\ NextUnit(x) \in Job /\ NextUnit(x).status \in {"queued", "paused"}
           /\ NextUnit(x).id = 0 /\ NextUnit(x).stage = x.stage
           /\ NextUnit(x).status = "queued" =>
                "exhausted" \notin NextUnit(x).error /\ HasRange(x.stage, NextUnit(x).attempt)
           /\ NextUnit(x).status = "paused" => NextUnit(x).error = {"exhausted"}
           /\ NextUnit(x).request = x.request /\ NextUnit(x).reserved = x.reserved
<1>. DEFINE next == [x EXCEPT !.attempt = @ + 1, !.id = 0, !.retryRequested = FALSE]
<1>1. /\ next \in Job /\ next.id = 0 /\ next.stage = x.stage /\ next.error = x.error
      /\ next.request = x.request /\ next.reserved = x.reserved
  <2>1. x.attempt + 1 \in Nat
    BY DEF Job
  <2>2. next = [x EXCEPT !.attempt = x.attempt + 1, !.id = 0, !.retryRequested = FALSE]
    OBVIOUS
  <2>. QED  BY <2>1, <2>2 DEF Job
<1>2. CASE HasRange(next.stage, next.attempt)
  <2>1. NextUnit(x) = [next EXCEPT !.status = "queued"]
    BY <1>2 DEF NextUnit
  <2>. HIDE DEF next
  <2>. QED  BY <1>1, <1>2, <2>1 DEF Job, Statuses
<1>3. CASE ~HasRange(next.stage, next.attempt)
  <2>1. NextUnit(x) = Pause(next, {"exhausted"})
    BY <1>3 DEF NextUnit
  <2>. HIDE DEF next
  <2>2. {"exhausted"} \in SUBSET Reasons
    BY DEF Reasons
  <2>. QED  BY <1>1, <2>1, <2>2, PauseFacts
<1>. QED  BY <1>2, <1>3

\* A stage begins with a unit.
LEMMA FirstUnit == \A stage \in SearchStages : HasRange(stage, 0)
  BY RangeAssumption DEF HasRange, Start, Chunk, Total

\* What the ticks become, when one of them or the whole row moves.
LEMMA OneMoves ==
    ASSUME TypeOK, NEW r \in Revisions, NEW t \in Tick, tick' = [tick EXCEPT ![r] = t]
    PROVE  /\ tick' \in [Revisions -> Tick] /\ tick'[r] = t
           /\ \A s \in Revisions : s # r => tick'[s] = tick[s]
  BY DEF TypeOK

LEMMA AllMove ==
    ASSUME TypeOK, NEW r \in Revisions, NEW t \in Tick, tick' = [OthersStale EXCEPT ![r] = t]
    PROVE  /\ tick' \in [Revisions -> Tick] /\ tick'[r] = t
           /\ \A s \in Revisions : s # r => tick'[s] = Staled(tick[s])
  BY OthersFacts

(***************************************************************************)
(* The two kinds of steps.                                                 *)
(***************************************************************************)
\* The row stays as it is: ticks move on or end, executions start, Batch jobs end.
LEMMA TicksMove ==
    ASSUME SearchInv, row' = row, refused' = refused,
           starts' \subseteq Revisions, lost' \in Nat,
           started' \subseteq Revisions, started \subseteq started',
           batch' \in Seq(BatchJob), Len(batch') = Len(batch),
           \A i \in DOMAIN batch : batch'[i].request = batch[i].request /\ (Live(i)' => Live(i)),
           tick' \in [Revisions -> Tick],
           \A s \in Revisions :
               \/ tick'[s] = tick[s]
               \/ tick'[s].pc = "failed" /\ s \in started
               \/ /\ tick[s].pc \notin {"post", "sent", "failed"} \/ s \notin started
                  /\ tick'[s].pc # "closed" => s \in started'
                  /\ \/ tick'[s].pc \in {"closed", "wait"}
                     \/ tick'[s].pc = "drain" /\ tick'[s].id \in DOMAIN batch
                     \/ /\ tick'[s].pc = "fill" /\ tick'[s].job = row
                        /\ row.status = "queued" /\ row.id = 0 /\ row.revision = s
    PROVE  SearchInv'
<1>. USE DEF SearchInv
<1>1. DOMAIN batch' = DOMAIN batch
  BY DEF TypeOK
<1>2. TypeOK'
  BY DEF TypeOK
<1>3. RowInv' /\ RangeInv'
  BY <1>1 DEF RowInv, RangeInv
<1>4. Owed' <=> Owed
  BY DEF Owed
<1>5. Requests' = Requests
  BY <1>1 DEF Requests
<1>6. \A s \in Revisions : Posting(s)' => Posting(s) /\ tick'[s] = tick[s]
  BY DEF Posting
<1>7. TickInv'
  BY <1>1, <1>4, <1>6 DEF TickInv, Posting
<1>8. PostInv'
  BY <1>4, <1>5, <1>6 DEF PostInv
<1>9. LiveInv'
  BY <1>1, <1>4 DEF LiveInv
<1>10. ChargeInv'
  BY <1>1, <1>5, <1>6 DEF ChargeInv
<1>11. StartedInv'
  <2>1. row \in Job
    BY DEF TypeOK
  <2>2. row.revision \in Revisions
    BY <2>1 DEF Job
  <2>. QED  BY <2>2 DEF StartedInv, Unknown
<1>. QED  BY <1>2, <1>3, <1>7, <1>8, <1>9, <1>10, <1>11

\* The row is saved, and Batch and the count of requests stay: the ticks of E go on
\* or end, and the others are too late.
LEMMA RowMoves ==
    ASSUME SearchInv, NEW E \in SUBSET Revisions,
           row' \in Job, batch' = batch, refused' = refused,
           starts' \subseteq Revisions, lost' = lost, started' = started,
           tick' \in [Revisions -> Tick],
           \A s \in E : tick'[s].pc \in {"closed", "wait"} /\ tick[s].pc # "closed",
           \A s \in Revisions \ E : tick'[s] = Staled(tick[s]),
           row'.request = row.request, row'.reserved = row.reserved,
           row'.status # "absent",
           row'.status \in Terminal \/ row'.stage \in SearchStages,
           row'.id \in {0} \cup DOMAIN batch,
           ~Unknown(row'), RangeInv',
           \A s \in Revisions : Posting(s) => Owed',
           \A i \in DOMAIN batch :
               Live(i) => row'.id = i \/ (Owed' /\ batch[i].request = row.request)
    PROVE  SearchInv'
<1>. USE DEF SearchInv
<1>1. \A s \in Revisions : tick[s] \in Tick
  BY DEF TypeOK
<1>2. TypeOK'
  BY DEF TypeOK
<1>3. RowInv'
  BY DEF RowInv
<1>4. Requests' = Requests
  BY DEF Requests
<1>5. \A s \in Revisions : Posting(s)' =>
        /\ s \notin E /\ Posting(s) /\ tick'[s].stale /\ tick'[s].job = tick[s].job
  BY <1>1, StaledFacts DEF Posting
<1>6. \A s \in Revisions :
        /\ tick'[s].pc \notin {"fill", "poll", "sent"}
        /\ tick'[s].pc = "drain" => tick[s].pc = "drain" /\ tick'[s].id = tick[s].id
  BY <1>1, StaledFacts
<1>7. TickInv'
  <2>1. \A s \in Revisions : tick'[s].pc = "drain" => tick'[s].id \in DOMAIN batch
    BY <1>6 DEF TickInv
  <2>2. \A s \in Revisions : Posting(s)' =>
          /\ tick'[s].stale
          /\ tick'[s].job.stage \in SearchStages /\ tick'[s].job.request = row'.request
    BY <1>5 DEF TickInv
  <2>. QED  BY <1>6, <2>1, <2>2 DEF TickInv
<1>8. PostInv'
  BY <1>4, <1>5 DEF PostInv
<1>9. LiveInv'
  BY DEF LiveInv, Live
<1>10. ChargeInv'
  BY <1>4, <1>5 DEF ChargeInv
<1>11. StartedInv'
  <2>1. \A s \in Revisions : tick'[s].pc # "closed" => tick[s].pc # "closed"
    BY <1>1, AtFacts DEF Staled
  <2>. QED  BY <2>1 DEF StartedInv
<1>. QED  BY <1>2, <1>3, <1>7, <1>8, <1>9, <1>10, <1>11

(***************************************************************************)
(* Each action keeps SearchInv.                                            *)
(***************************************************************************)
\* Creation, and the start of executions.
LEMMA CreateJobKeeps == ASSUME SearchInv, CreateJob PROVE SearchInv'
<1>. USE DEF SearchInv
<1>1. row = NoJob /\ row' = NewJob
  BY DEF RowInv, CreateJob
<1>2. ~Owed /\ row'.request = row.request /\ row'.reserved = row.reserved
  BY <1>1, NewJobFacts DEF Owed
<1>3. \A s \in Revisions : ~Posting(s) /\ tick[s].pc \notin {"fill", "poll", "sent"}
  BY <1>1, <1>2, NewJobFacts DEF TickInv, PostInv
<1>4. \A s \in Revisions : Staled(tick[s]) = tick[s]
  BY <1>3 DEF Staled, Posting
<1>5. \A i \in DOMAIN batch : ~Live(i)
  BY <1>1, <1>2, NewJobFacts DEF LiveInv, TypeOK
<1>6. RangeInv' /\ row'.stage \in SearchStages
  BY <1>1, NewJobFacts, FirstUnit DEF RangeInv, SearchStages, Stages
<1>7. 0 \in Revisions
  BY BoundAssumption DEF Revisions
<1>8. ~Unknown(row')
  BY <1>1, NewJobFacts DEF Unknown
<1>. QED
  <2>1. /\ row' \in Job /\ row'.status # "absent" /\ row'.id = 0
        /\ batch' = batch /\ refused' = refused /\ starts' \subseteq Revisions
        /\ lost' = lost /\ started' = started
    BY <1>1, <1>7, NewJobFacts DEF CreateJob
  <2>2. tick' \in [Revisions -> Tick] /\ \A s \in Revisions \ {} : tick'[s] = Staled(tick[s])
    BY <1>4 DEF CreateJob, TypeOK
  <2>. HIDE DEF SearchInv
  <2>. DEFINE E == {}
  <2>3. /\ E \in SUBSET Revisions
        /\ \A s \in E : tick'[s].pc \in {"closed", "wait"} /\ tick[s].pc # "closed"
        /\ \A s \in Revisions \ E : tick'[s] = Staled(tick[s])
    BY <2>2
  <2>. HIDE DEF E
  <2>. QED  BY <1>2, <1>3, <1>5, <1>6, <1>8, <2>1, <2>2, <2>3, RowMoves

LEMMA StartsKeep ==
    ASSUME SearchInv, NEW r \in Revisions,
           ReplayCreation \/ StartExecution(r) \/ StartLost(r)
    PROVE  SearchInv'
<1>1. /\ row' = row /\ refused' = refused /\ batch' = batch
      /\ row.revision \in Revisions
  BY DEF SearchInv, TypeOK, Job, ReplayCreation, StartExecution, StartLost
<1>2. /\ starts' \subseteq Revisions /\ lost' \in Nat
      /\ started' \subseteq Revisions /\ started \subseteq started'
  BY <1>1 DEF SearchInv, TypeOK, ReplayCreation, StartExecution, StartLost
<1>3. tick' = tick \/ (StartExecution(r) /\ r \notin started /\ tick' = [tick EXCEPT ![r] = At("wait")])
  BY DEF ReplayCreation, StartExecution, StartLost
<1>4. /\ tick' \in [Revisions -> Tick]
      /\ \A s \in Revisions : \/ tick'[s] = tick[s]
                              \/ s \notin started /\ s \in started' /\ tick'[s].pc = "wait"
  BY <1>3, AtFacts, OneMoves DEF SearchInv, TypeOK, StartExecution
<1>5. Len(batch') = Len(batch) /\ batch' \in Seq(BatchJob)
  BY <1>1 DEF SearchInv, TypeOK
<1>6. \A i \in DOMAIN batch : batch'[i].request = batch[i].request /\ (Live(i)' => Live(i))
  BY <1>1 DEF Live
<1>. QED  BY <1>1, <1>2, <1>4, <1>5, <1>6, TicksMove

\* A tick goes on or ends, and saves nothing.
LEMMA QuietTickKeeps ==
    ASSUME SearchInv, NEW r \in Revisions, NEW t \in Tick, Keep, UNCHANGED <<batch, refused>>,
           tick' = [tick EXCEPT ![r] = t], tick[r].pc # "closed",
           \/ t.pc = "failed"
           \/ /\ tick[r].pc \notin {"post", "sent", "failed"}
              /\ \/ t.pc \in {"closed", "wait"}
                 \/ t.pc = "drain" /\ t.id \in DOMAIN batch
                 \/ /\ t.pc = "fill" /\ t.job = row
                    /\ row.status = "queued" /\ row.id = 0 /\ row.revision = r
    PROVE  SearchInv'
<1>1. /\ row' = row /\ refused' = refused /\ batch' = batch
      /\ starts' = starts /\ lost' = lost /\ started' = started
  BY DEF Keep
<1>2. /\ tick' \in [Revisions -> Tick] /\ tick'[r] = t
      /\ \A s \in Revisions : s # r => tick'[s] = tick[s]
  BY OneMoves DEF SearchInv
<1>3. r \in started
  BY DEF SearchInv, StartedInv
<1>4. Len(batch') = Len(batch) /\ batch' \in Seq(BatchJob)
  BY <1>1 DEF SearchInv, TypeOK
<1>5. \A i \in DOMAIN batch : batch'[i].request = batch[i].request /\ (Live(i)' => Live(i))
  BY <1>1 DEF Live
<1>6. starts' \subseteq Revisions /\ lost' \in Nat /\ started' \subseteq Revisions
  BY <1>1 DEF SearchInv, TypeOK
<1>7. \A s \in Revisions :
               \/ tick'[s] = tick[s]
               \/ tick'[s].pc = "failed" /\ s \in started
               \/ /\ tick[s].pc \notin {"post", "sent", "failed"} \/ s \notin started
                  /\ tick'[s].pc # "closed" => s \in started'
                  /\ \/ tick'[s].pc \in {"closed", "wait"}
                     \/ tick'[s].pc = "drain" /\ tick'[s].id \in DOMAIN batch
                     \/ /\ tick'[s].pc = "fill" /\ tick'[s].job = row
                        /\ row.status = "queued" /\ row.id = 0 /\ row.revision = s
  BY <1>1, <1>2, <1>3
<1>. QED  BY <1>1, <1>2, <1>4, <1>5, <1>6, <1>7, TicksMove

LEMMA ReadsKeep ==
    ASSUME SearchInv, NEW r \in Revisions,
           ReadDone(r) \/ ReadPaused(r) \/ ReadFill(r) \/ PollUnreadable(r) \/ Crash(r)
    PROVE  SearchInv'
<1>1. row \in Job /\ (row.id = 0 \/ row.id \in DOMAIN batch) /\ DOMAIN batch \subseteq Nat
  BY DEF SearchInv, TypeOK, RowInv
<1>2. CASE ReadDone(r)
  BY <1>2, AtFacts, QuietTickKeeps DEF ReadDone, Continue
<1>3. CASE ReadPaused(r)
  <2>. DEFINE t == IF row.id = 0 THEN At("closed") ELSE [At("drain") EXCEPT !.id = row.id]
  <2>1. t \in Tick /\ (t.pc = "closed" \/ (t.pc = "drain" /\ t.id \in DOMAIN batch))
    <3>1. CASE row.id = 0
      BY <3>1, AtFacts
    <3>2. CASE row.id # 0
      BY <1>1, <3>2, AtFacts, TickUpdates DEF At
    <3>. QED  BY <3>1, <3>2
  <2>2. /\ Keep /\ UNCHANGED <<batch, refused>> /\ tick' = [tick EXCEPT ![r] = t]
        /\ tick[r].pc = "wait"
    BY <1>3 DEF ReadPaused, Continue, Reads
  <2>. HIDE DEF t
  <2>. QED  BY <2>1, <2>2, QuietTickKeeps
<1>4. CASE ReadFill(r)
  <2>. DEFINE t == [At("fill") EXCEPT !.job = row]
  <2>1. t \in Tick /\ t.pc = "fill" /\ t.job = row
    BY <1>1, AtFacts, TickUpdates DEF At
  <2>2. /\ Keep /\ UNCHANGED <<batch, refused>> /\ tick' = [tick EXCEPT ![r] = t]
        /\ tick[r].pc = "wait" /\ row.status = "queued" /\ row.id = 0 /\ row.revision = r
    BY <1>4 DEF ReadFill, Continue, Reads
  <2>. HIDE DEF t
  <2>. QED  BY <2>1, <2>2, QuietTickKeeps
<1>5. CASE PollUnreadable(r)
  BY <1>5, AtFacts, QuietTickKeeps DEF PollUnreadable, Continue
<1>6. CASE Crash(r)
  BY <1>6, AtFacts, QuietTickKeeps DEF Crash, Continue
<1>. QED  BY <1>2, <1>3, <1>4, <1>5, <1>6

\* A tick that holds the row saves it, and waits or ends.
LEMMA TickSaveKeeps ==
    ASSUME SearchInv, NEW r \in Revisions, NEW job \in Job, NEW t \in Tick,
           Save(r, job, t), UNCHANGED <<batch, refused>>,
           tick[r].pc \in {"fill", "poll", "sent"}, t.pc \in {"closed", "wait"},
           job.request = row.request, job.reserved = row.reserved,
           job.status # "absent", job.status \in Terminal \/ job.stage \in SearchStages,
           job.id \in {0} \cup DOMAIN batch, ~Unknown(job),
           job.status \notin Terminal /\ "exhausted" \notin job.error =>
               HasRange(job.stage, job.attempt),
           "exhausted" \in job.error => job.status = "paused" /\ "unknown" \notin job.error,
           \A i \in DOMAIN batch : Live(i) => job.id = i
    PROVE  SearchInv'
<1>1. \A s \in Revisions : ~Posting(s)
  <2>1. CASE tick[r].pc \in {"fill", "poll"}
    BY <2>1 DEF SearchInv, TickInv, PostInv, Owed
  <2>2. CASE tick[r].pc = "sent"
    BY <2>2 DEF SearchInv, TickInv, PostInv, Requests
  <2>. QED  BY <2>1, <2>2
<1>2. /\ row' = job /\ tick' = [OthersStale EXCEPT ![r] = t]
      /\ batch' = batch /\ refused' = refused
      /\ starts' = starts /\ lost' = lost /\ started' = started
  BY DEF Save
<1>3. TypeOK
  BY DEF SearchInv
<1>. DEFINE E == {r}
<1>4. /\ E \in SUBSET Revisions /\ tick' \in [Revisions -> Tick]
      /\ \A s \in E : tick'[s].pc \in {"closed", "wait"} /\ tick[s].pc # "closed"
      /\ \A s \in Revisions \ E : tick'[s] = Staled(tick[s])
  BY <1>2, <1>3, AllMove
<1>. HIDE DEF E
<1>5. starts' \subseteq Revisions
  BY <1>2, <1>3 DEF TypeOK
<1>6. RangeInv' /\ ~Unknown(row')
  BY <1>2 DEF RangeInv
<1>. QED  BY <1>1, <1>2, <1>4, <1>5, <1>6, RowMoves

\* What a tick that holds the row knows of it.
LEMMA FillFacts ==
    ASSUME SearchInv, NEW r \in Revisions, tick[r].pc = "fill"
    PROVE  /\ tick[r].job = row /\ row \in Job /\ row.status = "queued" /\ row.id = 0
           /\ row.revision = r /\ row.stage \in SearchStages /\ "exhausted" \notin row.error
           /\ HasRange(row.stage, row.attempt)
           /\ \A i \in DOMAIN batch : ~Live(i)
           /\ \A s \in Revisions : ~Posting(s)
<1>1. /\ tick[r].job = row /\ row \in Job /\ row.status = "queued" /\ row.id = 0
      /\ row.revision = r
  BY DEF SearchInv, TypeOK, TickInv
<1>2. row.stage \in SearchStages
  BY <1>1 DEF SearchInv, RowInv, Terminal
<1>3. "exhausted" \notin row.error /\ HasRange(row.stage, row.attempt)
  BY <1>1 DEF SearchInv, RangeInv, Terminal
<1>4. ~Owed
  BY <1>1 DEF Owed
<1>5. \A i \in DOMAIN batch : ~Live(i)
  BY <1>1, <1>4 DEF SearchInv, LiveInv, TypeOK
<1>6. \A s \in Revisions : ~Posting(s)
  BY <1>4 DEF SearchInv, PostInv
<1>. QED  BY <1>1, <1>2, <1>3, <1>5, <1>6

LEMMA PollFacts ==
    ASSUME SearchInv, NEW r \in Revisions, tick[r].pc = "poll"
    PROVE  /\ tick[r].job = row /\ row \in Job /\ row.status = "searching"
           /\ row.id # 0 /\ row.id \in DOMAIN batch
           /\ row.stage \in SearchStages /\ "exhausted" \notin row.error
           /\ HasRange(row.stage, row.attempt)
           /\ \A i \in DOMAIN batch : Live(i) => i = row.id
           /\ Polled(r) # "live" => \A i \in DOMAIN batch : ~Live(i)
<1>1. /\ tick[r].job = row /\ row \in Job /\ row.status = "searching" /\ row.id # 0
  BY DEF SearchInv, TypeOK, TickInv
<1>2. row.stage \in SearchStages /\ row.id \in DOMAIN batch
  BY <1>1 DEF SearchInv, RowInv, Terminal
<1>3. "exhausted" \notin row.error /\ HasRange(row.stage, row.attempt)
  BY <1>1 DEF SearchInv, RangeInv, Terminal
<1>4. \A i \in DOMAIN batch : Live(i) => i = row.id
  BY <1>1 DEF SearchInv, LiveInv, Owed
<1>5. Polled(r) # "live" => \A i \in DOMAIN batch : ~Live(i)
  BY <1>1, <1>4 DEF Polled, Live
<1>. QED  BY <1>1, <1>2, <1>3, <1>4, <1>5

LEMMA AfterFacts == \A job \in Job : After(job) \in Tick /\ After(job).pc \in {"closed", "wait"}
  BY AtFacts DEF After

LEMMA FillsKeep ==
    ASSUME SearchInv, NEW r \in Revisions, FillRefused(r) \/ PrepareFails(r)
    PROVE  SearchInv'
<1>1. /\ tick[r].pc = "fill" /\ UNCHANGED <<batch, refused>>
      /\ Save(r, Pause(tick[r].job, {"other"}), At("closed"))
  BY DEF FillRefused, PrepareFails
<1>. DEFINE job == Pause(row, {"other"})
<1>2. {"other"} \in SUBSET Reasons
  BY DEF Reasons
<1>3. /\ job \in Job /\ job.status = "paused" /\ job.error = {"other"} /\ job.id = 0
      /\ job.stage = row.stage /\ job.attempt = row.attempt
      /\ job.request = row.request /\ job.reserved = row.reserved
  BY <1>1, <1>2, FillFacts, PauseFacts
<1>4. Save(r, job, At("closed"))
  BY <1>1, FillFacts
<1>. HIDE DEF job
<1>5. ~Unknown(job)
  BY <1>3 DEF Unknown
<1>. QED  BY <1>1, <1>3, <1>4, <1>5, FillFacts, AtFacts, TickSaveKeeps

LEMMA RecordIdKeeps == ASSUME SearchInv, NEW r \in Revisions, RecordId(r) PROVE SearchInv'
<1>1. /\ tick[r].pc = "sent" /\ UNCHANGED <<batch, refused>>
      /\ Save(r, [tick[r].job EXCEPT !.id = tick[r].id], At("wait"))
  BY DEF RecordId
<1>2. /\ tick[r].job = row /\ row \in Job /\ Owed /\ tick[r].id \in DOMAIN batch
      /\ batch[tick[r].id].request = row.request /\ tick[r].id # 0 /\ tick[r].id \in Nat
  BY <1>1 DEF SearchInv, TickInv, TypeOK
<1>. DEFINE job == [row EXCEPT !.id = tick[r].id]
<1>3. /\ job \in Job /\ job.status = row.status /\ job.error = row.error
      /\ job.id = tick[r].id /\ job.stage = row.stage /\ job.attempt = row.attempt
      /\ job.request = row.request /\ job.reserved = row.reserved
  BY <1>2 DEF Job
<1>4. Save(r, job, At("wait"))
  BY <1>1, <1>2
<1>. HIDE DEF job
<1>5. row.status \in {"searching", "paused"} /\ row.stage \in SearchStages
  BY <1>2 DEF Owed, SearchInv, RowInv, Terminal
<1>6. \A i \in DOMAIN batch : Live(i) => job.id = i
  BY <1>2, <1>3 DEF SearchInv, LiveInv, ChargeInv, Owed
<1>7. ~Unknown(job)
  BY <1>2, <1>3 DEF Unknown
<1>8. /\ "exhausted" \in job.error => job.status = "paused" /\ "unknown" \notin job.error
      /\ "exhausted" \notin job.error => HasRange(job.stage, job.attempt)
  BY <1>3, <1>5 DEF SearchInv, RangeInv, Terminal
<1>. QED  BY <1>1, <1>2, <1>3, <1>4, <1>5, <1>6, <1>7, <1>8, AtFacts, TickSaveKeeps

\* Every answer of a poll.
LEMMA PollsKeep ==
    ASSUME SearchInv, NEW r \in Revisions,
           \/ PollRunning(r) \/ PollStopped(r) \/ PollOverflow(r) \/ PollHit(r)
           \/ PollInvalid(r) \/ PollNone(r)
    PROVE  SearchInv'
<1>. DEFINE Good(job) ==
       /\ job \in Job /\ job.request = row.request /\ job.reserved = row.reserved
       /\ job.status # "absent" /\ (job.status \in Terminal \/ job.stage \in SearchStages)
       /\ job.id \in {0, row.id} /\ ~Unknown(job)
       /\ job.status \notin Terminal /\ "exhausted" \notin job.error =>
            HasRange(job.stage, job.attempt)
       /\ "exhausted" \in job.error => job.status = "paused" /\ "unknown" \notin job.error
       /\ job.id = row.id \/ Polled(r) # "live"
<1>1. tick[r].pc = "poll" /\ UNCHANGED <<batch, refused>>
  BY DEF PollRunning, PollStopped, PollOverflow, PollHit, PollInvalid, PollNone, PollSaves
<1>2. \E job : Good(job) /\ Save(r, job, After(job))
  <2>1. /\ tick[r].job = row /\ row \in Job /\ row.status = "searching" /\ row.id # 0
        /\ row.stage \in SearchStages /\ "exhausted" \notin row.error
        /\ HasRange(row.stage, row.attempt)
    BY <1>1, PollFacts
  <2>2. ASSUME PollRunning(r) PROVE Good(row) /\ Save(r, row, After(row))
    BY <2>1, <2>2 DEF PollRunning, PollSaves, Unknown
  <2>3. ASSUME PollStopped(r) PROVE Good(Stopped(row)) /\ Save(r, Stopped(row), After(Stopped(row)))
    BY <2>1, <2>3, StoppedFacts DEF PollStopped, PollSaves, Unknown
  <2>4. ASSUME PollOverflow(r)
        PROVE  LET job == [row EXCEPT !.status = "failed", !.retryRequested = FALSE]
               IN  Good(job) /\ Save(r, job, After(job))
    <3>. DEFINE job == [row EXCEPT !.status = "failed", !.retryRequested = FALSE]
    <3>1. /\ job \in Job /\ job.status = "failed" /\ job.error = row.error /\ job.id = row.id
          /\ job.request = row.request /\ job.reserved = row.reserved
      BY <2>1 DEF Job, Statuses
    <3>2. Save(r, job, After(job))
      BY <2>1, <2>4 DEF PollOverflow, PollSaves
    <3>. HIDE DEF job
    <3>3. Good(job)
      BY <2>1, <3>1 DEF Terminal, Unknown
    <3>. QED  BY <3>2, <3>3 DEF job
  <2>5. ASSUME PollHit(r) PROVE Good(VerifiedHit(row)) /\ Save(r, VerifiedHit(row), After(VerifiedHit(row)))
    BY <2>1, <2>5, HitFacts, FirstUnit DEF PollHit, PollSaves, Unknown, Terminal
  <2>6. ASSUME PollInvalid(r)
        PROVE  Good(Pause(row, {"review"})) /\ Save(r, Pause(row, {"review"}), After(Pause(row, {"review"})))
    <3>1. {"review"} \in SUBSET Reasons
      BY DEF Reasons
    <3>. QED  BY <2>1, <2>6, <3>1, PauseFacts DEF PollInvalid, PollSaves, Unknown
  <2>7. ASSUME PollNone(r) PROVE Good(NextUnit(row)) /\ Save(r, NextUnit(row), After(NextUnit(row)))
    BY <2>1, <2>7, NextUnitFacts DEF PollNone, PollSaves, Unknown
  <2>. HIDE DEF Good
  <2>. QED  BY <2>2, <2>3, <2>4, <2>5, <2>6, <2>7
<1>3. PICK job : Good(job) /\ Save(r, job, After(job))
  BY <1>2
<1>4. job.id \in {0} \cup DOMAIN batch /\ \A i \in DOMAIN batch : Live(i) => job.id = i
  BY <1>1, <1>3, PollFacts
<1>. QED  BY <1>1, <1>3, <1>4, AfterFacts, TickSaveKeeps

\* The row is saved by somebody else than a tick that holds it, or is switched off.
LEMMA ReadOffKeeps == ASSUME SearchInv, NEW r \in Revisions, ReadOff(r) PROVE SearchInv'
<1>1. /\ row \in Job /\ tick[r].pc = "wait" /\ row.status \notin Terminal
      /\ row' = Disabled(row) /\ tick' = [OthersStale EXCEPT ![r] = At("closed")]
      /\ batch' = batch /\ refused' = refused
      /\ starts' = starts /\ lost' = lost /\ started' = started /\ TypeOK
  BY DEF ReadOff, Reads, Save, SearchInv, TypeOK
<1>. DEFINE E == {r}
<1>2. /\ E \in SUBSET Revisions /\ tick' \in [Revisions -> Tick]
      /\ \A s \in E : tick'[s].pc \in {"closed", "wait"} /\ tick[s].pc # "closed"
      /\ \A s \in Revisions \ E : tick'[s] = Staled(tick[s])
  <2>1. At("closed") \in Tick /\ At("closed").pc = "closed"
    BY AtFacts
  <2>2. /\ tick' \in [Revisions -> Tick] /\ tick'[r] = At("closed")
        /\ \A s \in Revisions : s # r => tick'[s] = Staled(tick[s])
    BY <1>1, <2>1, AllMove
  <2>. QED  BY <1>1, <2>1, <2>2
<1>. HIDE DEF E
<1>3. /\ row' \in Job /\ row'.status = "paused" /\ row'.id = row.id
      /\ row'.stage = row.stage /\ row'.attempt = row.attempt
      /\ "exhausted" \in row'.error <=> "exhausted" \in row.error
      /\ row'.request = row.request /\ row'.reserved = row.reserved
      /\ "unknown" \in row'.error <=> "unknown" \in row.error \/ Unknown(row)
      /\ row'.oneSubmissionAllowed => row.oneSubmissionAllowed
  BY <1>1, DisabledFacts
<1>4. Owed => Owed'
  BY <1>3 DEF Owed, Unknown
<1>5. row.stage \in SearchStages /\ (row.id = 0 \/ row.id \in DOMAIN batch)
  BY <1>1 DEF SearchInv, RowInv
<1>6. RangeInv'
  BY <1>1, <1>3 DEF SearchInv, RangeInv, Unknown
<1>7. ~Unknown(row') /\ starts' \subseteq Revisions
  BY <1>1, <1>3 DEF Unknown, TypeOK
<1>8. \A s \in Revisions : Posting(s) => Owed'
  BY <1>4 DEF SearchInv, PostInv
<1>9. \A i \in DOMAIN batch :
        Live(i) => row'.id = i \/ (Owed' /\ batch[i].request = row.request)
  BY <1>3, <1>4 DEF SearchInv, LiveInv
<1>. QED  BY <1>1, <1>2, <1>3, <1>5, <1>6, <1>7, <1>8, <1>9, RowMoves

\* Nobody's tick goes on: the owner or the operator saves the row.
LEMMA OthersSave ==
    ASSUME SearchInv, row' \in Job, tick' = OthersStale, batch' = batch, refused' = refused,
           starts' \subseteq Revisions, lost' = lost, started' = started,
           row'.request = row.request, row'.reserved = row.reserved,
           row'.status # "absent", row'.status \notin Terminal,
           row'.stage \in SearchStages,
           row'.id \in {0} \cup DOMAIN batch, ~Unknown(row'), RangeInv',
           \A s \in Revisions : Posting(s) => Owed',
           \A i \in DOMAIN batch :
               Live(i) => row'.id = i \/ (Owed' /\ batch[i].request = row.request)
    PROVE  SearchInv'
<1>. DEFINE E == {}
<1>1. /\ E \in SUBSET Revisions /\ tick' \in [Revisions -> Tick]
      /\ \A s \in E : tick'[s].pc \in {"closed", "wait"} /\ tick[s].pc # "closed"
      /\ \A s \in Revisions \ E : tick'[s] = Staled(tick[s])
  BY OthersFacts DEF SearchInv
<1>. HIDE DEF E
<1>. QED  BY <1>1, RowMoves

LEMMA PauseJobKeeps == ASSUME SearchInv, PauseJob PROVE SearchInv'
<1>1. /\ row \in Job /\ row.status \in {"searching", "queued"} /\ "exhausted" \notin row.error
      /\ row' = Pause(row, PauseError(row)) /\ tick' = OthersStale
      /\ batch' = batch /\ refused' = refused
      /\ starts' \subseteq Revisions /\ lost' = lost /\ started' = started
  BY DEF PauseJob, SearchInv, TypeOK, RangeInv
<1>2. PauseError(row) \in SUBSET Reasons /\ "exhausted" \notin PauseError(row)
  BY <1>1 DEF PauseError, Reasons, Job
<1>3. /\ row' \in Job /\ row'.status = "paused" /\ row'.error = PauseError(row)
      /\ row'.id = row.id /\ row'.stage = row.stage /\ row'.attempt = row.attempt
      /\ row'.request = row.request /\ row'.reserved = row.reserved
      /\ row'.oneSubmissionAllowed = row.oneSubmissionAllowed
  BY <1>1, <1>2, PauseFacts
<1>4. Owed => Owed'
  BY <1>1, <1>3 DEF Owed, PauseError, Unknown
<1>5. row.stage \in SearchStages /\ (row.id = 0 \/ row.id \in DOMAIN batch)
  BY <1>1 DEF SearchInv, RowInv, Terminal
<1>6. RangeInv'
  BY <1>1, <1>2, <1>3 DEF SearchInv, RangeInv, Terminal
<1>7. ~Unknown(row') /\ row'.status \notin Terminal
  BY <1>3 DEF Unknown, Terminal
<1>8. \A s \in Revisions : Posting(s) => Owed'
  BY <1>4 DEF SearchInv, PostInv
<1>9. \A i \in DOMAIN batch :
        Live(i) => row'.id = i \/ (Owed' /\ batch[i].request = row.request)
  BY <1>3, <1>4 DEF SearchInv, LiveInv
<1>. QED  BY <1>1, <1>3, <1>5, <1>6, <1>7, <1>8, <1>9, OthersSave

\* The next revision: a resume, or a reconciliation.
LEMMA RevisionKeeps ==
    ASSUME SearchInv, NEW job \in Job, NEW start \in BOOLEAN, NextRevision(job, start),
           job.request = row.request, job.reserved = row.reserved,
           job.status \in {"queued", "searching", "paused"}, job.stage = row.stage,
           row.status \notin Terminal, job.attempt = row.attempt,
           job.id \in {0} \cup DOMAIN batch, ~Unknown(job),
           "exhausted" \notin row.error, "exhausted" \notin job.error,
           \A s \in Revisions : ~Posting(s),
           \A i \in DOMAIN batch : Live(i) => job.id = i
    PROVE  SearchInv'
<1>1. /\ row \in Job /\ row.revision + 1 \in Revisions
      /\ row' = [job EXCEPT !.revision = row.revision + 1] /\ tick' = OthersStale
      /\ batch' = batch /\ refused' = refused /\ lost' = lost /\ started' = started
  BY BoundAssumption DEF NextRevision, SearchInv, TypeOK, Job, Revisions
<1>2. starts' \subseteq Revisions
  BY <1>1 DEF NextRevision, SearchInv, TypeOK
<1>3. /\ row' \in Job /\ row'.status = job.status /\ row'.error = job.error
      /\ row'.id = job.id /\ row'.stage = job.stage /\ row'.attempt = job.attempt
      /\ row'.request = job.request /\ row'.reserved = job.reserved
  BY <1>1 DEF Job
<1>4. row.stage \in SearchStages /\ HasRange(row.stage, row.attempt)
  BY DEF SearchInv, RowInv, RangeInv
<1>5. ~Unknown(row') /\ RangeInv' /\ row'.status \notin Terminal
  BY <1>3, <1>4 DEF Unknown, RangeInv, Terminal
<1>. QED  BY <1>1, <1>2, <1>3, <1>4, <1>5, OthersSave

LEMMA ResumeJobKeeps == ASSUME SearchInv, ResumeJob PROVE SearchInv'
<1>. DEFINE job == [row EXCEPT !.status = "queued", !.retryRequested = TRUE,
                               !.error = {}, !.oneSubmissionAllowed = FALSE]
<1>1. /\ row \in Job /\ row.status = "paused" /\ "exhausted" \notin row.error
      /\ "unknown" \in row.error => row.oneSubmissionAllowed
      /\ NextRevision(job, TRUE)
  BY DEF ResumeJob, Resumable, Reconciled, SearchInv, TypeOK
<1>2. /\ job \in Job /\ job.status = "queued" /\ job.error = {} /\ job.id = row.id
      /\ job.stage = row.stage /\ job.attempt = row.attempt
      /\ job.request = row.request /\ job.reserved = row.reserved
  BY <1>1 DEF Job, Statuses, Reasons
<1>. HIDE DEF job
<1>3. ~Owed
  BY <1>1 DEF Owed
<1>4. \A s \in Revisions : ~Posting(s)
  BY <1>3 DEF SearchInv, PostInv
<1>5. \A i \in DOMAIN batch : Live(i) => job.id = i
  BY <1>2, <1>3 DEF SearchInv, LiveInv
<1>6. job.id \in {0} \cup DOMAIN batch /\ ~Unknown(job) /\ row.status \notin Terminal
  BY <1>1, <1>2 DEF SearchInv, RowInv, Unknown, Terminal
<1>. QED  BY <1>1, <1>2, <1>4, <1>5, <1>6, RevisionKeeps

\* What the operator finds: the request that is owed is not one to be posted.
LEMMA AttachIdKeeps == ASSUME SearchInv, NEW i \in DOMAIN batch, AttachId(i) PROVE SearchInv'
<1>. DEFINE job == [row EXCEPT !.id = i, !.status = "searching", !.error = {},
                               !.retryRequested = FALSE, !.notSubmittedAt = 0]
<1>1. /\ row \in Job /\ row.status = "paused" /\ row.id = 0
      /\ "unknown" \in row.error /\ "exhausted" \notin row.error
      /\ batch[i].request = row.request /\ NextRevision(job, TRUE)
      /\ i \in Nat /\ i # 0
  <2>1. row \in Job /\ batch \in Seq(BatchJob)
    BY DEF SearchInv, TypeOK
  <2>2. row.status = "paused" /\ row.id = 0 /\ "unknown" \in row.error
    BY DEF AttachId, UnknownSubmission
  <2>3. "exhausted" \notin row.error
    BY <2>2 DEF SearchInv, RangeInv
  <2>4. batch[i].request = row.request /\ NextRevision(job, TRUE)
    BY DEF AttachId
  <2>5. i \in Nat /\ i # 0
    BY <2>1
  <2>. QED  BY <2>1, <2>2, <2>3, <2>4, <2>5
<1>2. /\ job \in Job /\ job.status = "searching" /\ job.error = {} /\ job.id = i
      /\ job.stage = row.stage /\ job.attempt = row.attempt
      /\ job.request = row.request /\ job.reserved = row.reserved
  BY <1>1 DEF Job, Statuses, Reasons
<1>. HIDE DEF job
<1>3. \A s \in Revisions : ~Posting(s)
  BY <1>1 DEF SearchInv, PostInv, Requests
<1>4. \A j \in DOMAIN batch : Live(j) => job.id = j
  BY <1>1, <1>2 DEF SearchInv, LiveInv, ChargeInv
<1>5. ~Unknown(job) /\ row.status \notin Terminal
  BY <1>1, <1>2 DEF Unknown, Terminal
<1>. QED  BY <1>1, <1>2, <1>3, <1>4, <1>5, RevisionKeeps

LEMMA RestartPollingKeeps == ASSUME SearchInv, NEW i \in DOMAIN batch, RestartPolling(i) PROVE SearchInv'
<1>. DEFINE job == [row EXCEPT !.notSubmittedAt = 0]
<1>1. /\ row \in Job /\ row.status = "searching" /\ row.id = i /\ i # 0
      /\ "exhausted" \notin row.error /\ NextRevision(job, TRUE)
  <2>1. row \in Job /\ batch \in Seq(BatchJob)
    BY DEF SearchInv, TypeOK
  <2>2. row.status = "searching" /\ row.id = i /\ NextRevision(job, TRUE)
    BY DEF RestartPolling
  <2>3. "exhausted" \notin row.error
    BY <2>2 DEF SearchInv, RangeInv
  <2>4. i # 0
    BY <2>1
  <2>. QED  BY <2>1, <2>2, <2>3, <2>4
<1>2. /\ job \in Job /\ job.status = "searching" /\ job.error = row.error /\ job.id = i
      /\ job.stage = row.stage /\ job.attempt = row.attempt
      /\ job.request = row.request /\ job.reserved = row.reserved
  BY <1>1 DEF Job
<1>. HIDE DEF job
<1>3. ~Owed
  BY <1>1 DEF Owed
<1>4. \A s \in Revisions : ~Posting(s)
  BY <1>3 DEF SearchInv, PostInv
<1>5. \A j \in DOMAIN batch : Live(j) => job.id = j
  BY <1>1, <1>2, <1>3 DEF SearchInv, LiveInv
<1>6. ~Unknown(job) /\ row.status \notin Terminal
  BY <1>1, <1>2 DEF Unknown, Terminal
<1>. QED  BY <1>1, <1>2, <1>4, <1>5, <1>6, RevisionKeeps

\* A request that was refused, or that no tick can still send, is not to be posted.
LEMMA DeclareKeeps == ASSUME SearchInv, DeclareNotSubmitted PROVE SearchInv'
<1>. DEFINE job == [row EXCEPT !.oneSubmissionAllowed = TRUE, !.retryRequested = FALSE,
                               !.notSubmittedAt = row.revision + 1]
<1>1. /\ row \in Job /\ row.status = "paused" /\ row.id = 0
      /\ "unknown" \in row.error /\ "exhausted" \notin row.error
      /\ NextRevision(job, FALSE)
      /\ row.request \in refused \/ WindowElapsed(row.request)
      /\ \A i \in DOMAIN batch : ~Live(i)
  BY DEF DeclareNotSubmitted, UnknownSubmission, Drained, SearchInv, TypeOK, RangeInv
<1>2. row.revision + 1 \in Nat
  BY <1>1, BoundAssumption DEF Job, Revisions
<1>3. /\ job \in Job /\ job.status = "paused" /\ job.error = row.error /\ job.id = 0
      /\ job.stage = row.stage /\ job.attempt = row.attempt
      /\ job.request = row.request /\ job.reserved = row.reserved
  BY <1>1, <1>2 DEF Job
<1>. HIDE DEF job
<1>4. \A s \in Revisions : ~Posting(s)
  <2>1. CASE row.request \in refused
    BY <2>1 DEF SearchInv, PostInv, Requests
  <2>2. CASE WindowElapsed(row.request)
    BY <2>2 DEF WindowElapsed, SearchInv, TickInv, Posting
  <2>. QED  BY <1>1, <2>1, <2>2
<1>5. ~Unknown(job) /\ row.status \notin Terminal
  BY <1>1, <1>3 DEF Unknown, Terminal
<1>. QED  BY <1>1, <1>3, <1>4, <1>5, RevisionKeeps

\* A resumed job goes on with its Batch job, in a save of its own.
LEMMA ReadPollingKeeps == ASSUME SearchInv, NEW r \in Revisions, ReadPolling(r) PROVE SearchInv'
<1>. DEFINE job == [row EXCEPT !.status = "searching"]
            t == [At("poll") EXCEPT !.job = job]
            old == IF job = row THEN tick ELSE OthersStale
<1>. USE DEF SearchInv
<1>1. /\ row \in Job /\ tick[r].pc = "wait" /\ row.status \in {"queued", "searching"}
      /\ row.id # 0 /\ row.id \in DOMAIN batch
  BY DEF ReadPolling, Reads, TypeOK, RowInv
<1>2. /\ row' = job /\ tick' = [old EXCEPT ![r] = t]
      /\ UNCHANGED <<starts, lost, started, batch, refused>>
  BY DEF ReadPolling
<1>3. /\ job \in Job /\ job.status = "searching" /\ job.error = row.error /\ job.id = row.id
      /\ job.stage = row.stage /\ job.attempt = row.attempt /\ job.revision = row.revision
      /\ job.request = row.request /\ job.reserved = row.reserved
  BY <1>1 DEF Job, Statuses
<1>4. t \in Tick /\ t.pc = "poll" /\ t.job = job
  BY <1>3, AtFacts, TickUpdates DEF At
<1>5. /\ ~Owed /\ \A s \in Revisions : ~Posting(s)
  BY <1>1 DEF Owed, PostInv
<1>6. \A s \in Revisions : tick[s].pc \notin {"post", "sent"}
  BY <1>5 DEF TickInv, Posting
<1>7. \A s \in Revisions :
        /\ tick[s] \in Tick /\ Staled(tick[s]) \in Tick
        /\ Staled(tick[s]).pc \notin {"fill", "poll", "sent", "post"}
        /\ Staled(tick[s]).pc = "drain" => tick[s].pc = "drain" /\ Staled(tick[s]).id = tick[s].id
        /\ Staled(tick[s]).pc # "closed" => tick[s].pc # "closed"
  BY <1>6, StaledFacts, AtFacts DEF TypeOK, Staled
<1>8. old \in [Revisions -> Tick] /\ \A s \in Revisions : old[s] = tick[s] \/ (job # row /\ old[s] = Staled(tick[s]))
  BY OthersFacts DEF TypeOK
<1>9. job = row => \A s \in Revisions : old[s] = tick[s]
  OBVIOUS
<1>10. job # row => \A s \in Revisions : old[s] = Staled(tick[s])
  BY OthersFacts
<1>. HIDE DEF old, t, job
<1>11. tick' \in [Revisions -> Tick] /\ tick'[r] = t /\ \A s \in Revisions : s # r => tick'[s] = old[s]
  BY <1>2, <1>4, <1>8
<1>12. TypeOK'
  BY <1>2, <1>3, <1>11 DEF TypeOK
<1>13. RowInv' /\ RangeInv'
  BY <1>1, <1>2, <1>3 DEF RowInv, RangeInv, Terminal
<1>14. \A s \in Revisions : ~Posting(s)'
  BY <1>4, <1>6, <1>7, <1>8, <1>11 DEF Posting
<1>15. TickInv'
  <2>. SUFFICES ASSUME NEW s \in Revisions
       PROVE  /\ tick'[s].pc = "poll" => tick'[s].job = row' /\ row'.status = "searching" /\ row'.id # 0
              /\ tick'[s].pc \notin {"fill", "sent"}
              /\ tick'[s].pc = "drain" => tick'[s].id \in DOMAIN batch'
    BY <1>14 DEF TickInv
  <2>1. CASE s = r
    BY <1>1, <1>2, <1>3, <1>4, <1>11, <2>1
  <2>2. CASE s # r /\ job = row
    <3>1. tick'[s] = tick[s] /\ row' = row
      BY <1>2, <1>9, <1>11, <2>2
    <3>2. row.status = "searching"
      BY <1>3, <2>2
    <3>. QED  BY <1>1, <1>2, <1>6, <3>1, <3>2 DEF TickInv
  <2>3. CASE s # r /\ job # row
    BY <1>2, <1>7, <1>10, <1>11, <2>3 DEF TickInv
  <2>. QED  BY <2>1, <2>2, <2>3
<1>16. PostInv'
  BY <1>14 DEF PostInv
<1>17. LiveInv'
  BY <1>2, <1>3, <1>5 DEF LiveInv, Live
<1>18. ChargeInv'
  BY <1>2, <1>3, <1>14 DEF ChargeInv, Requests
<1>19. StartedInv'
  <2>1. ~Unknown(row')
    BY <1>1, <1>2, <1>3 DEF Unknown
  <2>2. \A s \in Revisions : tick'[s].pc # "closed" => s \in started
    BY <1>1, <1>4, <1>7, <1>8, <1>11 DEF StartedInv
  <2>. QED  BY <1>2, <2>1, <2>2 DEF StartedInv
<1>. QED  BY <1>12, <1>13, <1>15, <1>16, <1>17, <1>18, <1>19

\* The reservation: the next request is new, and this tick is the one that may send it.
LEMMA ReserveKeeps == ASSUME SearchInv, NEW r \in Revisions, Reserve(r) PROVE SearchInv'
<1>. DEFINE t == [At("post") EXCEPT !.job = Reserved(row)]
<1>1. tick[r].pc = "fill" /\ ~Exceeds(tick[r].job)
  BY DEF Reserve
<1>2. /\ tick[r].job = row /\ row \in Job /\ row.status = "queued" /\ row.id = 0
      /\ row.revision = r /\ row.stage \in SearchStages /\ "exhausted" \notin row.error
      /\ HasRange(row.stage, row.attempt)
      /\ \A i \in DOMAIN batch : ~Live(i)
      /\ \A s \in Revisions : ~Posting(s)
  BY <1>1, FillFacts
<1>3. /\ row' = Reserved(row) /\ tick' = [OthersStale EXCEPT ![r] = t]
      /\ UNCHANGED <<starts, lost, started, batch, refused>>
  BY <1>2 DEF Reserve, Save
<1>4. /\ row' \in Job /\ row'.status = "searching" /\ row'.id = 0 /\ row'.stage = row.stage
      /\ row'.attempt = row.attempt /\ row'.error = row.error /\ row'.revision = r
      /\ row'.request = row.reserved + 1 /\ row'.reserved = row.reserved + 1
      /\ ~row'.oneSubmissionAllowed
  BY <1>1, <1>2, <1>3, ReservedFacts
<1>5. t \in Tick /\ t.pc = "post" /\ t.job = row'
  BY <1>3, <1>4, AtFacts, TickUpdates DEF At
<1>. HIDE DEF t
<1>6. /\ tick' \in [Revisions -> Tick] /\ tick'[r] = t
      /\ \A s \in Revisions : s # r => tick'[s] = Staled(tick[s])
  BY <1>3, <1>5, AllMove DEF SearchInv
<1>7. \A s \in Revisions : s # r =>
        /\ tick'[s].pc \notin {"fill", "poll", "sent", "post"}
        /\ tick'[s].pc = "drain" => tick[s].pc = "drain" /\ tick'[s].id = tick[s].id
        /\ tick'[s].pc # "closed" => tick[s].pc # "closed"
  BY <1>2, <1>6, StaledFacts, AtFacts DEF SearchInv, TypeOK, Staled, Posting
<1>8. Owed'
  BY <1>4 DEF Owed
<1>9. row.reserved \in Nat /\ Len(batch) \in Nat /\ Cardinality(refused) \in Nat
  BY <1>2, FS_CardinalityType DEF SearchInv, TypeOK, Job, ChargeInv
<1>10. Requests' = Requests /\ row'.request \notin Requests /\ Requests \subseteq Nat
  <2>1. Requests' = Requests
    BY <1>3 DEF Requests
  <2>2. row'.request \notin Requests
    BY <1>4, <1>9 DEF SearchInv, ChargeInv
  <2>3. \A i \in DOMAIN batch : batch[i].request \in Nat
    <3>1. batch \in Seq(BatchJob)
      BY DEF SearchInv, TypeOK
    <3>2. \A i \in DOMAIN batch : batch[i] \in BatchJob
      BY <3>1
    <3>. QED  BY <3>2 DEF BatchJob
  <2>. QED  BY <2>1, <2>2, <2>3 DEF SearchInv, TypeOK, Requests
<1>. USE DEF SearchInv
<1>11. TypeOK'
  BY <1>3, <1>4, <1>6 DEF TypeOK
<1>12. RowInv' /\ RangeInv'
  BY <1>2, <1>3, <1>4 DEF RowInv, RangeInv, Terminal
<1>13. TickInv'
  <2>. SUFFICES ASSUME NEW s \in Revisions
       PROVE  /\ tick'[s].pc \notin {"fill", "poll", "sent"}
              /\ tick'[s].pc = "drain" => tick'[s].id \in DOMAIN batch'
              /\ tick'[s].pc = "post" => /\ tick'[s].job = row' /\ tick'[s].job.stage \in SearchStages
                                         /\ tick'[s].job.request = row'.request
    BY DEF TickInv, Posting
  <2>1. CASE s = r
    BY <1>2, <1>4, <1>5, <1>6, <2>1
  <2>2. CASE s # r
    BY <1>3, <1>7, <2>2 DEF TickInv
  <2>. QED  BY <2>1, <2>2
<1>14. \A s \in Revisions : Posting(s)' <=> s = r
  BY <1>5, <1>6, <1>7 DEF Posting
<1>15. PostInv'
  BY <1>8, <1>10, <1>14 DEF PostInv
<1>16. LiveInv'
  BY <1>2, <1>3 DEF LiveInv, Live
<1>17. ChargeInv'
  <2>1. ASSUME NEW q \in Requests PROVE q <= row.reserved + 1
    <3>1. q \in Nat /\ q <= row.reserved
      BY <1>10 DEF ChargeInv
    <3>. QED  BY <1>9, <3>1
  <2>2. row'.request <= row'.reserved /\ \A q \in Requests' : q <= row'.reserved
    <3>1. row'.reserved = row.reserved + 1 /\ row'.request = row.reserved + 1
      BY <1>4
    <3>2. Requests' = Requests
      BY <1>3 DEF Requests
    <3>. QED  BY <1>9, <2>1, <3>1, <3>2
  <2>3. Len(batch) + Cardinality(refused) <= row.reserved
    BY DEF ChargeInv
  <2>4. Len(batch) + Cardinality(refused) < row'.reserved
    BY <1>4, <1>9, <2>3
  <2>5. /\ batch' = batch /\ refused' = refused /\ IsFiniteSet(refused)
        /\ \A i, j \in DOMAIN batch : batch[i].request = batch[j].request => i = j
    BY <1>3 DEF ChargeInv
  <2>6. /\ Len(batch') + Cardinality(refused') < row'.reserved
        /\ Len(batch') + Cardinality(refused') <= row'.reserved
    BY <1>4, <1>9, <2>4, <2>5
  <2>. QED  BY <2>2, <2>5, <2>6 DEF ChargeInv
<1>18. StartedInv'
  BY <1>1, <1>3, <1>4, <1>5, <1>6, <1>7 DEF StartedInv
<1>. QED  BY <1>11, <1>12, <1>13, <1>15, <1>16, <1>17, <1>18

\* What a tick that may send its request knows.
LEMMA PostFacts ==
    ASSUME SearchInv, NEW r \in Revisions, tick[r].pc = "post"
    PROVE  /\ tick[r] \in Tick /\ tick[r].job \in Job /\ row \in Job /\ r \in started
           /\ Owed /\ row.request \notin Requests /\ row.request <= row.reserved
           /\ tick[r].job.request = row.request /\ tick[r].job.stage \in SearchStages
           /\ ~tick[r].stale => tick[r].job = row
           /\ \A s \in Revisions : s # r => tick[s].pc \notin {"post", "sent"}
           /\ \A i \in DOMAIN batch : ~Live(i)
           /\ Len(batch) + Cardinality(refused) < row.reserved
           /\ Len(batch) \in Nat /\ Cardinality(refused) \in Nat
<1>. USE DEF SearchInv
<1>1. tick[r] \in Tick /\ tick[r].job \in Job /\ row \in Job /\ r \in started
  BY DEF TypeOK, Tick, StartedInv
<1>2. /\ Owed /\ row.request \notin Requests /\ row.request <= row.reserved
      /\ tick[r].job.request = row.request /\ tick[r].job.stage \in SearchStages
      /\ ~tick[r].stale => tick[r].job = row
  BY DEF PostInv, ChargeInv, TickInv, Posting
<1>3. \A s \in Revisions : s # r => tick[s].pc \notin {"post", "sent"}
  BY <1>2 DEF PostInv, TickInv, Posting, Requests
<1>4. \A i \in DOMAIN batch : ~Live(i)
  BY <1>2 DEF LiveInv, Owed, TypeOK, Requests
<1>5. /\ Len(batch) + Cardinality(refused) < row.reserved
      /\ Len(batch) \in Nat /\ Cardinality(refused) \in Nat
  BY FS_CardinalityType DEF ChargeInv, Posting, TypeOK
<1>. QED  BY <1>1, <1>2, <1>3, <1>4, <1>5

\* AWS Batch takes the request, and the answer arrives or does not.
LEMMA PostTakenKeeps ==
    ASSUME SearchInv, NEW r \in Revisions, PostAccepted(r) \/ PostLost(r) PROVE SearchInv'
<1>. DEFINE n == Len(batch) + 1
            new == Submission(tick[r].job)
<1>1. tick[r].pc = "post" /\ UNCHANGED <<row, starts, lost, started, refused>>
  BY DEF PostAccepted, PostLost, Keep
<1>2. batch' = Append(batch, new)
  BY DEF PostAccepted, PostLost
<1>3. /\ tick[r] \in Tick /\ tick[r].job \in Job /\ row \in Job /\ r \in started
      /\ Owed /\ row.request \notin Requests /\ row.request <= row.reserved
      /\ tick[r].job.request = row.request /\ tick[r].job.stage \in SearchStages
      /\ ~tick[r].stale => tick[r].job = row
      /\ \A s \in Revisions : s # r => tick[s].pc \notin {"post", "sent"}
      /\ \A i \in DOMAIN batch : ~Live(i)
      /\ Len(batch) + Cardinality(refused) < row.reserved
      /\ Len(batch) \in Nat /\ Cardinality(refused) \in Nat
  BY <1>1, PostFacts
<1>4. new \in BatchJob /\ new.request = row.request /\ new.state = "live"
  <2>1. row.request \in Nat /\ tick[r].job.attempt \in Nat
    BY <1>3 DEF Job
  <2>2. /\ new.request = row.request /\ new.state = "live" /\ new.cancelled = FALSE
        /\ new.stage = tick[r].job.stage /\ new.attempt = tick[r].job.attempt
        /\ new = [request |-> new.request, stage |-> new.stage, attempt |-> new.attempt,
                  state |-> new.state, cancelled |-> new.cancelled]
    BY <1>3 DEF Submission
  <2>. HIDE DEF new
  <2>. QED  BY <1>3, <2>1, <2>2 DEF BatchJob, BatchState
<1>5. PICK t \in Tick : /\ tick' = [tick EXCEPT ![r] = t]
                        /\ \/ t.pc = "failed"
                           \/ t.pc = "sent" /\ t.id = n /\ t.job = row
  <2>1. CASE PostLost(r) \/ tick[r].stale
    <3>1. tick' = [tick EXCEPT ![r] = At("failed")]
      BY <2>1 DEF PostAccepted, PostLost, Continue
    <3>2. At("failed") \in Tick /\ At("failed").pc = "failed"
      BY AtFacts
    <3>. QED  BY <3>1, <3>2
  <2>2. CASE PostAccepted(r) /\ ~tick[r].stale
    <3>. DEFINE t == [tick[r] EXCEPT !.pc = "sent", !.id = n]
    <3>1. tick' = [tick EXCEPT ![r] = t]
      BY <2>2 DEF PostAccepted, Continue
    <3>2. n \in Nat
      BY <1>3
    <3>3. t \in Tick /\ t.pc = "sent" /\ t.id = n /\ t.job = row
      BY <1>3, <2>2, <3>2, TickUpdates DEF Tick
    <3>. HIDE DEF t
    <3>. QED  BY <3>1, <3>3
  <2>. QED  BY <2>1, <2>2
<1>. USE DEF SearchInv
<1>. HIDE DEF new
<1>6. /\ batch \in Seq(BatchJob) /\ batch' \in Seq(BatchJob) /\ Len(batch') = n
      /\ n \in Nat /\ n \notin DOMAIN batch
      /\ DOMAIN batch' = DOMAIN batch \cup {n}
      /\ batch'[n] = new /\ \A i \in DOMAIN batch : batch'[i] = batch[i]
  BY <1>2, <1>3, <1>4 DEF TypeOK
<1>7. /\ tick' \in [Revisions -> Tick] /\ tick'[r] = t
      /\ \A s \in Revisions : s # r => tick'[s] = tick[s]
  BY <1>5, OneMoves
<1>. HIDE DEF n
<1>8. TypeOK'
  BY <1>1, <1>6, <1>7 DEF TypeOK
<1>9. RowInv' /\ RangeInv'
  BY <1>1, <1>6 DEF RowInv, RangeInv
<1>10. Owed'
  BY <1>1, <1>3 DEF Owed
<1>11. \A s \in Revisions : ~Posting(s)'
  BY <1>3, <1>5, <1>7 DEF Posting
<1>12. TickInv'
  <2>. SUFFICES ASSUME NEW s \in Revisions
       PROVE  /\ tick'[s].pc \in {"fill", "poll", "sent"} => tick'[s].job = row'
              /\ tick'[s].pc = "fill" => row'.status = "queued" /\ row'.id = 0 /\ row'.revision = s
              /\ tick'[s].pc = "poll" => row'.status = "searching" /\ row'.id # 0
              /\ tick'[s].pc = "sent" =>
                   Owed' /\ tick'[s].id \in DOMAIN batch' /\ batch'[tick'[s].id].request = row'.request
              /\ tick'[s].pc = "drain" => tick'[s].id \in DOMAIN batch'
    BY <1>11 DEF TickInv
  <2>1. CASE s = r
    BY <1>1, <1>4, <1>5, <1>6, <1>7, <1>10, <2>1
  <2>2. CASE s # r
    <3>1. tick'[s] = tick[s] /\ tick[s].pc # "sent" /\ row' = row
      BY <1>1, <1>3, <1>7, <2>2
    <3>. QED  BY <1>6, <3>1 DEF TickInv
  <2>. QED  BY <2>1, <2>2
<1>13. PostInv'
  BY <1>11 DEF PostInv
<1>14. \A i \in DOMAIN batch : ~Live(i)'
  BY <1>3, <1>6 DEF Live
<1>15. LiveInv'
  BY <1>1, <1>4, <1>6, <1>10, <1>14 DEF LiveInv
<1>16. Requests' = Requests \cup {row.request}
  BY <1>1, <1>4, <1>6 DEF Requests
<1>17. ChargeInv'
  <2>1. \A i, j \in DOMAIN batch' : batch'[i].request = batch'[j].request => i = j
    BY <1>3, <1>4, <1>6 DEF ChargeInv, Requests
  <2>2. Len(batch') + Cardinality(refused') <= row'.reserved
    BY <1>1, <1>3, <1>6 DEF n, Job
  <2>. QED  BY <1>1, <1>3, <1>11, <1>16, <2>1, <2>2 DEF ChargeInv
<1>18. StartedInv'
  BY <1>1, <1>3, <1>5, <1>7 DEF StartedInv
<1>. QED  BY <1>8, <1>9, <1>12, <1>13, <1>15, <1>17, <1>18

LEMMA PostRefusedKeeps == ASSUME SearchInv, NEW r \in Revisions, PostRefused(r) PROVE SearchInv'
<1>1. /\ tick[r].pc = "post" /\ UNCHANGED <<row, starts, lost, started, batch>>
      /\ tick' = [tick EXCEPT ![r] = At("failed")]
  BY DEF PostRefused, Keep, Continue
<1>2. /\ row \in Job /\ r \in started
      /\ Owed /\ row.request \notin Requests /\ row.request <= row.reserved
      /\ tick[r].job.request = row.request
      /\ \A s \in Revisions : s # r => tick[s].pc \notin {"post", "sent"}
      /\ Len(batch) + Cardinality(refused) < row.reserved
      /\ Len(batch) \in Nat /\ Cardinality(refused) \in Nat
  BY <1>1, PostFacts
<1>. USE DEF SearchInv
<1>3. refused' = refused \cup {row.request} /\ row.request \in Nat /\ row.request \notin refused
  BY <1>2 DEF PostRefused, Job, Requests
<1>4. IsFiniteSet(refused') /\ Cardinality(refused') = Cardinality(refused) + 1
  BY <1>3, FS_AddElement DEF ChargeInv
<1>5. /\ tick' \in [Revisions -> Tick] /\ tick'[r].pc = "failed"
      /\ \A s \in Revisions : s # r => tick'[s] = tick[s]
  <2>1. At("failed") \in Tick /\ At("failed").pc = "failed"
    BY AtFacts
  <2>. QED  BY <1>1, <2>1, OneMoves
<1>6. TypeOK'
  BY <1>1, <1>3, <1>5 DEF TypeOK
<1>7. RowInv' /\ RangeInv'
  BY <1>1 DEF RowInv, RangeInv
<1>8. Owed' <=> Owed
  BY <1>1 DEF Owed
<1>9. \A s \in Revisions : ~Posting(s)'
  BY <1>2, <1>5 DEF Posting
<1>10. TickInv'
  <2>. SUFFICES ASSUME NEW s \in Revisions
       PROVE  /\ tick'[s].pc \in {"fill", "poll", "sent"} => tick'[s].job = row'
              /\ tick'[s].pc = "fill" => row'.status = "queued" /\ row'.id = 0 /\ row'.revision = s
              /\ tick'[s].pc = "poll" => row'.status = "searching" /\ row'.id # 0
              /\ tick'[s].pc # "sent"
              /\ tick'[s].pc = "drain" => tick'[s].id \in DOMAIN batch'
    BY <1>9 DEF TickInv
  <2>1. CASE s = r
    BY <1>5, <2>1
  <2>2. CASE s # r
    BY <1>1, <1>2, <1>5, <2>2 DEF TickInv
  <2>. QED  BY <2>1, <2>2
<1>11. PostInv'
  BY <1>9 DEF PostInv
<1>12. LiveInv'
  BY <1>1, <1>8 DEF LiveInv, Live
<1>13. Requests' = Requests \cup {row.request}
  BY <1>1, <1>3 DEF Requests
<1>14. ChargeInv'
  BY <1>1, <1>2, <1>4, <1>9, <1>13 DEF ChargeInv, Job
<1>15. StartedInv'
  BY <1>1, <1>2, <1>5 DEF StartedInv
<1>. QED  BY <1>6, <1>7, <1>10, <1>11, <1>12, <1>14, <1>15

\* A Batch job is cancelled or ends.
LEMMA DrainKeeps == ASSUME SearchInv, NEW r \in Revisions, Drain(r) PROVE SearchInv'
<1>. DEFINE i == tick[r].id
<1>1. /\ tick[r].pc = "drain" /\ i \in DOMAIN batch /\ r \in started
      /\ UNCHANGED <<row, starts, lost, started, refused>>
  BY DEF Drain, Keep, SearchInv, TickInv, StartedInv
<1>2. PICK pc \in {"wait", "closed"} : tick' = [tick EXCEPT ![r] = At(pc)]
  BY DEF Drain, Continue
<1>3. batch' = batch \/ batch' = [batch EXCEPT ![i].cancelled = TRUE]
  BY DEF Drain
<1>4. batch \in Seq(BatchJob) /\ batch[i] \in BatchJob
  BY <1>1 DEF SearchInv, TypeOK
<1>5. /\ batch' \in Seq(BatchJob) /\ Len(batch') = Len(batch)
      /\ \A j \in DOMAIN batch : batch'[j].request = batch[j].request /\ batch'[j].state = batch[j].state
  <2>1. [batch[i] EXCEPT !.cancelled = TRUE] \in BatchJob
    BY <1>4 DEF BatchJob
  <2>2. CASE batch' = batch
    BY <1>4, <2>2
  <2>3. CASE batch' = [batch EXCEPT ![i].cancelled = TRUE]
    <3>1. /\ batch' \in Seq(BatchJob) /\ Len(batch') = Len(batch)
          /\ batch'[i] = [batch[i] EXCEPT !.cancelled = TRUE]
          /\ \A j \in DOMAIN batch : j # i => batch'[j] = batch[j]
      BY <1>1, <1>4, <2>1, <2>3
    <3>. QED  BY <1>4, <3>1 DEF BatchJob
  <2>. QED  BY <1>3, <2>2, <2>3
<1>6. \A j \in DOMAIN batch : batch'[j].request = batch[j].request /\ (Live(j)' => Live(j))
  BY <1>5 DEF Live
<1>7. At(pc) \in Tick /\ At(pc).pc = pc
  BY AtFacts
<1>8. /\ tick' \in [Revisions -> Tick] /\ tick'[r].pc \in {"wait", "closed"}
      /\ \A s \in Revisions : s # r => tick'[s] = tick[s]
  BY <1>2, <1>7, OneMoves DEF SearchInv
<1>9. /\ starts' \subseteq Revisions /\ lost' \in Nat
      /\ started' \subseteq Revisions /\ started \subseteq started'
  BY <1>1 DEF SearchInv, TypeOK
<1>10. \A s \in Revisions :
         \/ tick'[s] = tick[s]
         \/ /\ tick[s].pc \notin {"post", "sent", "failed"}
            /\ s \in started' /\ tick'[s].pc \in {"wait", "closed"}
  BY <1>1, <1>8
<1>. QED  BY <1>1, <1>5, <1>6, <1>8, <1>9, <1>10, TicksMove

LEMMA BatchEndsKeeps == ASSUME SearchInv, NEW i \in DOMAIN batch, BatchEnds(i) PROVE SearchInv'
<1>1. /\ Live(i) /\ UNCHANGED <<row, starts, lost, started, tick, refused>>
      /\ batch \in Seq(BatchJob) /\ batch[i] \in BatchJob
  BY DEF BatchEnds, SearchInv, TypeOK
<1>2. PICK outcome \in Outcomes \cup {"failed"} : batch' = [batch EXCEPT ![i].state = outcome]
  BY DEF BatchEnds
<1>3. outcome \in AllOutcomes
  BY BoundAssumption DEF AllOutcomes
<1>4. [batch[i] EXCEPT !.state = outcome] \in BatchJob
  BY <1>1, <1>3 DEF BatchJob, BatchState
<1>5. /\ batch' \in Seq(BatchJob) /\ Len(batch') = Len(batch)
      /\ \A j \in DOMAIN batch : batch'[j].request = batch[j].request
                                 /\ (j # i => batch'[j].state = batch[j].state)
  BY <1>1, <1>2, <1>4 DEF BatchJob
<1>6. \A j \in DOMAIN batch : batch'[j].request = batch[j].request /\ (Live(j)' => Live(j))
  BY <1>1, <1>5 DEF Live
<1>7. /\ starts' \subseteq Revisions /\ lost' \in Nat /\ tick' \in [Revisions -> Tick]
      /\ started' \subseteq Revisions /\ started \subseteq started'
  BY <1>1 DEF SearchInv, TypeOK
<1>8. \A s \in Revisions : tick'[s] = tick[s]
  BY <1>1
<1>. QED  BY <1>1, <1>5, <1>6, <1>7, <1>8, TicksMove

(***************************************************************************)
(* The theorems.                                                           *)
(***************************************************************************)
LEMMA InitSearchInv == Init => SearchInv
<1>. SUFFICES ASSUME Init PROVE SearchInv
  OBVIOUS
<1>1. /\ row = NoJob /\ starts = {} /\ lost = 0 /\ started = {}
      /\ tick = [r \in Revisions |-> At("closed")] /\ batch = <<>> /\ refused = {}
  BY DEF Init
<1>2. At("closed") \in Tick /\ At("closed").pc = "closed"
  BY AtFacts
<1>3. TypeOK
  BY <1>1, <1>2, NewJobFacts DEF TypeOK
<1>4. RowInv /\ RangeInv
  <2>1. row.status = "absent" /\ row.error = {} /\ row.id = 0
    BY <1>1, NewJobFacts
  <2>2. row.stage \in SearchStages /\ row.attempt = 0
    BY <1>1, NewJobFacts DEF SearchStages, Stages, NoJob
  <2>3. HasRange(row.stage, row.attempt)
    BY <2>2, FirstUnit
  <2>. QED  BY <1>1, <2>1, <2>2, <2>3 DEF RowInv, RangeInv
<1>5. \A r \in Revisions : tick[r].pc = "closed"
  BY <1>1, <1>2
<1>6. TickInv /\ PostInv
  BY <1>5 DEF TickInv, PostInv, Posting
<1>7. DOMAIN batch = {} /\ Len(batch) = 0
  BY <1>1
<1>8. LiveInv
  BY <1>7 DEF LiveInv
<1>9. ChargeInv
  <2>1. Requests = {} /\ IsFiniteSet(refused) /\ Cardinality(refused) = 0
    BY <1>1, <1>7, FS_EmptySet DEF Requests
  <2>. QED  BY <1>1, <1>5, <1>7, <2>1, NewJobFacts DEF ChargeInv, Posting
<1>10. StartedInv
  BY <1>1, <1>5, NewJobFacts DEF StartedInv, Unknown
<1>. QED  BY <1>3, <1>4, <1>6, <1>8, <1>9, <1>10 DEF SearchInv

LEMMA StepSearchInv == SearchInv /\ [Next]_vars => SearchInv'
<1>. SUFFICES ASSUME SearchInv, [Next]_vars PROVE SearchInv'
  OBVIOUS
<1>1. CASE CreateJob
  BY <1>1, CreateJobKeeps
<1>2. CASE ReplayCreation
  <2>1. 0 \in Revisions
    BY BoundAssumption DEF Revisions
  <2>. QED  BY <1>2, <2>1, StartsKeep
<1>3. ASSUME NEW r \in Revisions, StartExecution(r) \/ StartLost(r) PROVE SearchInv'
  BY <1>3, StartsKeep
<1>4. ASSUME NEW r \in Revisions, Work(r) PROVE SearchInv'
  BY <1>4, ReadsKeep, DrainKeeps, ReadOffKeeps, ReadPollingKeeps, FillsKeep, ReserveKeeps,
     PostTakenKeeps, RecordIdKeeps, PollsKeep DEF Work
<1>5. ASSUME NEW r \in Revisions, PostLost(r) \/ PostRefused(r) \/ Crash(r) PROVE SearchInv'
  BY <1>5, PostTakenKeeps, PostRefusedKeeps, ReadsKeep
<1>6. CASE PauseJob \/ ResumeJob \/ DeclareNotSubmitted
  BY <1>6, PauseJobKeeps, ResumeJobKeeps, DeclareKeeps
<1>7. ASSUME NEW i \in DOMAIN batch, AttachId(i) \/ RestartPolling(i) \/ BatchEnds(i)
      PROVE  SearchInv'
  BY <1>7, AttachIdKeeps, RestartPollingKeeps, BatchEndsKeeps
<1>8. CASE UNCHANGED vars
  BY <1>8 DEF vars, SearchInv, TypeOK, RowInv, RangeInv, TickInv, PostInv, LiveInv, ChargeInv,
     StartedInv, Posting, Owed, Requests, Live, Unknown
<1>. QED  BY <1>1, <1>2, <1>3, <1>4, <1>5, <1>6, <1>7, <1>8 DEF Next

LEMMA AlwaysSearchInv == Spec => []SearchInv
  BY InitSearchInv, StepSearchInv, PTL DEF Spec

\* The row, the executions and the queue of AWS Batch keep their types.
THEOREM SearchTypeCorrect == Spec => []TypeOK
<1>1. SearchInv => TypeOK
  BY DEF SearchInv
<1>. QED  BY <1>1, AlwaysSearchInv, PTL

\* A later request is made only when every earlier Batch job was seen to end, and a job
\* that runs is the one the row names, or the one whose ID it waits for (coordinator.ts:199).
THEOREM OneJobAtATime == Spec => []RunsOnRecord
<1>1. SearchInv => RunsOnRecord
  <2>. SUFFICES ASSUME SearchInv PROVE RunsOnRecord
    OBVIOUS
  <2>1. batch \in Seq(BatchJob)
    BY DEF SearchInv, TypeOK
  <2>2. Settled
    BY <2>1 DEF Settled, SearchInv, LiveInv
  <2>3. \A i \in DOMAIN batch :
          Live(i) => row.id = i \/ (row.id = 0 /\ row.request = batch[i].request)
    BY DEF SearchInv, LiveInv, Owed
  <2>. QED  BY <2>2, <2>3 DEF RunsOnRecord
<1>. QED  BY <1>1, AlwaysSearchInv, PTL

\* The two branches of a tick that the model leaves out are never taken: no tick reads a
\* request without an ID (coordinator.ts:199), and a queued stage has a unit left (:234).
NoBranchMissing ==
    /\ \A r \in Revisions : ~(Reads(r) /\ Unknown(row))
    /\ row.status = "queued" => HasRange(row.stage, row.attempt)

THEOREM BranchesUnreached == Spec => []NoBranchMissing
<1>1. SearchInv => NoBranchMissing
  <2>. SUFFICES ASSUME SearchInv PROVE NoBranchMissing
    OBVIOUS
  <2>1. \A r \in Revisions : ~(Reads(r) /\ Unknown(row))
    BY DEF SearchInv, StartedInv, Reads
  <2>2. row.status = "queued" => HasRange(row.stage, row.attempt)
    BY DEF SearchInv, RangeInv, Terminal
  <2>. QED  BY <2>1, <2>2 DEF NoBranchMissing
<1>. QED  BY <1>1, AlwaysSearchInv, PTL


(***************************************************************************)
(* The search implements PaidSearch: Reserve charges, a POST is accepted   *)
(* or refused, and a Batch job ends; every other step is a stutter of it.  *)
(***************************************************************************)
Running == {i \in DOMAIN batch : Live(i)}

LEMMA BudgetView ==
    /\ Budget!vars = <<row.reserved, Len(batch) + Cardinality(refused), Cardinality(Running)>>
    /\ Budget!vars' = <<row'.reserved, Len(batch') + Cardinality(refused'), Cardinality(Running')>>
  BY DEF Budget!vars, Running

\* A step that charges nothing, sends nothing, and ends no Batch job.
LEMMA QuietForBudget ==
    ASSUME row'.reserved = row.reserved, UNCHANGED refused, Len(batch') = Len(batch),
           Running' = Running
    PROVE  UNCHANGED Budget!vars
  BY BudgetView

LEMMA QuietQueue ==
    ASSUME row'.reserved = row.reserved, UNCHANGED <<batch, refused>>
    PROVE  UNCHANGED Budget!vars
<1>1. Running' = Running
  BY DEF Running, Live
<1>. QED  BY <1>1, QuietForBudget

LEMMA NoneRuns == ASSUME \A i \in DOMAIN batch : ~Live(i) PROVE Cardinality(Running) = 0
<1>1. Running = {}
  BY DEF Running
<1>. QED  BY <1>1, FS_EmptySet

\* The executions' ticks that save what they were told, and none of the charges.
LEMMA TicksKeepCharges ==
    ASSUME SearchInv, NEW r \in Revisions, Work(r) \/ Crash(r)
    PROVE  Reserve(r) \/ PostAccepted(r) \/ row'.reserved = row.reserved
<1>1. CASE ReadDone(r) \/ ReadPaused(r) \/ Drain(r) \/ ReadFill(r) \/ PollUnreadable(r) \/ Crash(r)
  BY <1>1 DEF ReadDone, ReadPaused, Drain, ReadFill, PollUnreadable, Crash, Keep
<1>2. CASE ReadOff(r)
  <2>1. row \in Job /\ row' = Disabled(row)
    BY <1>2 DEF ReadOff, Save, SearchInv, TypeOK
  <2>. QED  BY <2>1, DisabledFacts
<1>3. CASE ReadPolling(r)
  BY <1>3 DEF ReadPolling, SearchInv, TypeOK, Job
<1>4. CASE FillRefused(r) \/ PrepareFails(r)
  <2>1. row \in Job /\ row' = Pause(row, {"other"}) /\ {"other"} \in SUBSET Reasons
    BY <1>4, FillFacts DEF FillRefused, PrepareFails, Save, Reasons
  <2>. QED  BY <2>1, PauseFacts
<1>5. CASE RecordId(r)
  <2>1. row \in Job /\ row' = [row EXCEPT !.id = tick[r].id]
    BY <1>5 DEF RecordId, Save, SearchInv, TypeOK, TickInv
  <2>. QED  BY <2>1 DEF Job
<1>6. CASE \/ PollRunning(r) \/ PollStopped(r) \/ PollOverflow(r) \/ PollHit(r)
           \/ PollInvalid(r) \/ PollNone(r)
  <2>1. tick[r].pc = "poll"
    BY <1>6 DEF PollRunning, PollStopped, PollOverflow, PollHit, PollInvalid, PollNone
  <2>2. /\ tick[r].job = row /\ row \in Job /\ row.stage \in SearchStages
        /\ "exhausted" \notin row.error /\ {"review"} \in SUBSET Reasons
    BY <2>1, PollFacts DEF Reasons
  <2>3. \/ row' = row \/ row' = Stopped(row)
        \/ row' = [row EXCEPT !.status = "failed", !.retryRequested = FALSE]
        \/ row' = VerifiedHit(row) \/ row' = Pause(row, {"review"}) \/ row' = NextUnit(row)
    BY <1>6, <2>2 DEF PollRunning, PollStopped, PollOverflow, PollHit, PollInvalid, PollNone,
       PollSaves, Save
  <2>4. [row EXCEPT !.status = "failed", !.retryRequested = FALSE].reserved = row.reserved
    BY <2>2 DEF Job
  <2>5. /\ Stopped(row).reserved = row.reserved /\ VerifiedHit(row).reserved = row.reserved
        /\ NextUnit(row).reserved = row.reserved
        /\ Pause(row, {"review"}).reserved = row.reserved
    <3>1. Stopped(row).reserved = row.reserved
      BY <2>2, StoppedFacts
    <3>2. VerifiedHit(row).reserved = row.reserved
      BY <2>2, HitFacts
    <3>3. NextUnit(row).reserved = row.reserved
      BY <2>2, NextUnitFacts
    <3>. QED  BY <2>2, <3>1, <3>2, <3>3, PauseFacts
  <2>. QED  BY <2>3, <2>4, <2>5
<1>. QED  BY <1>1, <1>2, <1>3, <1>4, <1>5, <1>6 DEF Work

\* The owner's and the operator's operations charge nothing.
LEMMA OthersKeepCharges ==
    ASSUME SearchInv,
           \/ CreateJob \/ PauseJob \/ ResumeJob \/ DeclareNotSubmitted
           \/ \E i \in DOMAIN batch : AttachId(i) \/ RestartPolling(i)
    PROVE  row'.reserved = row.reserved /\ UNCHANGED <<batch, refused>>
<1>. row \in Job /\ row.reserved = row.reserved
  BY DEF SearchInv, TypeOK
<1>1. CASE CreateJob
  <2>1. row = NoJob /\ row' = NewJob
    BY <1>1 DEF CreateJob, SearchInv, RowInv
  <2>. QED  BY <1>1, <2>1, NewJobFacts DEF CreateJob
<1>2. CASE PauseJob
  <2>1. PauseError(row) \in SUBSET Reasons
    BY DEF PauseError, Job, Reasons
  <2>. QED  BY <1>2, <2>1, PauseFacts DEF PauseJob
<1>3. CASE ResumeJob \/ DeclareNotSubmitted \/ \E i \in DOMAIN batch : AttachId(i) \/ RestartPolling(i)
  BY <1>3 DEF ResumeJob, DeclareNotSubmitted, AttachId, RestartPolling, NextRevision, Job
<1>. QED  BY <1>1, <1>2, <1>3

LEMMA ReserveCharges == ASSUME SearchInv, NEW r \in Revisions, Reserve(r) PROVE Budget!Charge
<1>1. /\ tick[r].pc = "fill" /\ ~Exceeds(row) /\ row \in Job /\ row' = Reserved(row)
      /\ UNCHANGED <<batch, refused>>
  BY FillFacts DEF Reserve, Save
<1>2. row'.reserved = row.reserved + 1
  BY <1>1, ReservedFacts
<1>3. row.reserved < MaxExecutions
  BY <1>1, BoundAssumption DEF Exceeds, Job
<1>4. Running' = Running
  BY <1>1 DEF Running, Live
<1>. QED  BY <1>1, <1>2, <1>3, <1>4 DEF Budget!Charge, Running

LEMMA PostAccepts ==
    ASSUME SearchInv, NEW r \in Revisions, PostAccepted(r) \/ PostLost(r) PROVE Budget!Accept
<1>1. /\ tick[r].pc = "post" /\ batch' = Append(batch, Submission(tick[r].job))
      /\ UNCHANGED <<row, refused>>
  BY DEF PostAccepted, PostLost, Keep
<1>2. /\ Cardinality(Running) = 0 /\ \A i \in DOMAIN batch : ~Live(i)
      /\ Len(batch) + Cardinality(refused) < row.reserved
      /\ Len(batch) \in Nat /\ Cardinality(refused) \in Nat /\ batch \in Seq(BatchJob)
  BY <1>1, PostFacts, NoneRuns DEF SearchInv, TypeOK
<1>3. /\ Len(batch') = Len(batch) + 1 /\ DOMAIN batch' = 1..(Len(batch) + 1)
      /\ batch'[Len(batch) + 1] = Submission(tick[r].job)
      /\ \A i \in DOMAIN batch : batch'[i] = batch[i]
      /\ DOMAIN batch = 1..Len(batch)
  BY <1>1, <1>2
<1>4. Running' = {Len(batch) + 1}
  BY <1>2, <1>3 DEF Running, Live, Submission
<1>5. Cardinality(Running') = 1
  BY <1>4, FS_Singleton
<1>. QED  BY <1>1, <1>2, <1>3, <1>5 DEF Budget!Accept, Running

LEMMA PostRefuses ==
    ASSUME SearchInv, NEW r \in Revisions, PostRefused(r) PROVE Budget!Refuse
<1>1. /\ tick[r].pc = "post" /\ refused' = refused \cup {tick[r].job.request}
      /\ UNCHANGED <<row, batch>>
  BY DEF PostRefused, Keep
<1>2. /\ Len(batch) + Cardinality(refused) < row.reserved
      /\ Len(batch) \in Nat /\ Cardinality(refused) \in Nat
      /\ tick[r].job.request \notin refused /\ IsFiniteSet(refused)
  BY <1>1, PostFacts DEF SearchInv, ChargeInv, Requests
<1>3. Cardinality(refused') = Cardinality(refused) + 1
  BY <1>1, <1>2, FS_AddElement
<1>4. Running' = Running
  BY <1>1 DEF Running, Live
<1>5. /\ Len(batch') + Cardinality(refused') = (Len(batch) + Cardinality(refused)) + 1
      /\ row'.reserved = row.reserved
  BY <1>1, <1>2, <1>3
<1>. QED  BY <1>2, <1>4, <1>5 DEF Budget!Refuse, Running

LEMMA BatchEnding == ASSUME SearchInv, NEW i \in DOMAIN batch, BatchEnds(i) PROVE Budget!End
<1>1. /\ Live(i) /\ UNCHANGED <<row, refused>> /\ batch \in Seq(BatchJob) /\ batch[i] \in BatchJob
  BY DEF BatchEnds, SearchInv, TypeOK
<1>2. PICK outcome \in Outcomes \cup {"failed"} : batch' = [batch EXCEPT ![i].state = outcome]
  BY DEF BatchEnds
<1>3. outcome # "live"
  BY BoundAssumption DEF AllOutcomes
<1>4. \A j \in DOMAIN batch : Live(j) => j = i
  BY <1>1 DEF SearchInv, LiveInv
<1>5. Running = {i}
  BY <1>1, <1>4 DEF Running
<1>6. /\ DOMAIN batch' = DOMAIN batch /\ Len(batch') = Len(batch) /\ batch'[i].state = outcome
      /\ \A j \in DOMAIN batch : j # i => batch'[j] = batch[j]
  BY <1>1, <1>2 DEF BatchJob
<1>7. Running' = {}
  BY <1>3, <1>4, <1>6 DEF Running, Live
<1>8. Cardinality(Running) = 1 /\ Cardinality(Running') = 0
  BY <1>5, <1>7, FS_Singleton, FS_EmptySet
<1>. QED  BY <1>1, <1>6, <1>8 DEF Budget!End, Running

LEMMA DrainQuiet == ASSUME SearchInv, NEW r \in Revisions, Drain(r) PROVE UNCHANGED Budget!vars
<1>. DEFINE i == tick[r].id
<1>1. /\ i \in DOMAIN batch /\ batch \in Seq(BatchJob) /\ batch[i] \in BatchJob
      /\ UNCHANGED <<row, refused>>
      /\ batch' = batch \/ batch' = [batch EXCEPT ![i].cancelled = TRUE]
  BY DEF Drain, Keep, SearchInv, TickInv, TypeOK
<1>2. /\ DOMAIN batch' = DOMAIN batch /\ Len(batch') = Len(batch)
      /\ \A j \in DOMAIN batch : batch'[j].state = batch[j].state
  <2>1. CASE batch' = batch
    BY <2>1
  <2>2. CASE batch' = [batch EXCEPT ![i].cancelled = TRUE]
    <3>1. /\ DOMAIN batch' = DOMAIN batch /\ Len(batch') = Len(batch)
          /\ batch'[i] = [batch[i] EXCEPT !.cancelled = TRUE]
          /\ \A j \in DOMAIN batch : j # i => batch'[j] = batch[j]
      BY <1>1, <2>2
    <3>. QED  BY <1>1, <3>1 DEF BatchJob
  <2>. QED  BY <1>1, <2>1, <2>2
<1>3. Running' = Running
  BY <1>2 DEF Running, Live
<1>. QED  BY <1>1, <1>2, <1>3, QuietForBudget

LEMMA StepInBudget == SearchInv /\ [Next]_vars => [Budget!Next]_(Budget!vars)
<1>. SUFFICES ASSUME SearchInv, [Next]_vars PROVE [Budget!Next]_(Budget!vars)
  OBVIOUS
<1>1. ASSUME NEW r \in Revisions, Work(r) \/ Crash(r) PROVE [Budget!Next]_(Budget!vars)
  <2>1. CASE Reserve(r)
    BY <2>1, ReserveCharges DEF Budget!Next
  <2>2. CASE PostAccepted(r)
    BY <2>2, PostAccepts DEF Budget!Next
  <2>3. CASE Drain(r)
    BY <2>3, DrainQuiet
  <2>4. CASE ~(Reserve(r) \/ PostAccepted(r) \/ Drain(r))
    <3>1. row'.reserved = row.reserved
      BY <1>1, <2>4, TicksKeepCharges
    <3>2. UNCHANGED <<batch, refused>>
      BY <1>1, <2>4 DEF Work, Crash, ReadDone, ReadOff, ReadPaused, ReadPolling, ReadFill,
         FillRefused, PrepareFails, RecordId, PollRunning, PollStopped, PollUnreadable,
         PollOverflow, PollHit, PollInvalid, PollNone, PollSaves
    <3>. QED  BY <3>1, <3>2, QuietQueue
  <2>. QED  BY <2>1, <2>2, <2>3, <2>4
<1>2. ASSUME NEW r \in Revisions, PostLost(r) \/ PostRefused(r) PROVE [Budget!Next]_(Budget!vars)
  BY <1>2, PostAccepts, PostRefuses DEF Budget!Next
<1>3. ASSUME NEW i \in DOMAIN batch, BatchEnds(i) PROVE [Budget!Next]_(Budget!vars)
  BY <1>3, BatchEnding DEF Budget!Next
<1>4. CASE \/ CreateJob \/ PauseJob \/ ResumeJob \/ DeclareNotSubmitted
           \/ \E i \in DOMAIN batch : AttachId(i) \/ RestartPolling(i)
  BY <1>4, OthersKeepCharges, QuietQueue
<1>5. CASE \/ ReplayCreation \/ UNCHANGED vars
           \/ \E r \in Revisions : StartExecution(r) \/ StartLost(r)
  <2>1. UNCHANGED <<row, batch, refused>>
    BY <1>5 DEF ReplayCreation, StartExecution, StartLost, vars
  <2>. QED  BY <2>1, QuietQueue
<1>. QED  BY <1>1, <1>2, <1>3, <1>4, <1>5 DEF Next

\* GPU time is charged before it is used, never beyond the withdrawal's cap nor given back,
\* each charge pays for one request at most, and one Batch job runs at once (coordinator.ts).
THEOREM ImplementsPaidSearch == Spec => KeepsBudget
<1>1. Init => Budget!Init
  <2>. SUFFICES ASSUME Init PROVE Budget!Init
    OBVIOUS
  <2>1. row.reserved = 0 /\ batch = <<>> /\ refused = {}
    BY NewJobFacts DEF Init
  <2>2. Len(batch) = 0 /\ Cardinality(refused) = 0 /\ Cardinality(Running) = 0
    BY <2>1, FS_EmptySet, NoneRuns
  <2>. QED  BY <2>1, <2>2 DEF Budget!Init, Running
<1>2. SearchInv /\ [Next]_vars => [Budget!Next]_(Budget!vars)
  BY StepInBudget
<1>. QED  BY <1>1, <1>2, AlwaysSearchInv, PTL DEF Spec, KeepsBudget, Budget!Spec

(***************************************************************************)
(* No candidate is skipped.                                                *)
(*                                                                         *)
(* The cursor moves over a unit because of the Batch job that the row      *)
(* names, which some tick submitted and some tick, or an operator, put on  *)
(* the row.  UnitInv says all along that it is a job for the row's unit.   *)
(***************************************************************************)
OfUnit(i) == batch[i].stage = row.stage /\ batch[i].attempt = row.attempt
UnitSearched(stage, attempt) ==
    \E i \in DOMAIN batch : /\ batch[i].stage = stage /\ batch[i].attempt = attempt
                            /\ batch[i].state = "none"
StageHit(stage) == \E i \in DOMAIN batch : batch[i].stage = stage /\ batch[i].state = "hit"

\* The row's last request has no ID yet, and one may still be found for it.
Pending(job) == job.id = 0 /\ (job.status = "searching" \/ "unknown" \in job.error)

UnitInv ==
    /\ "unknown" \in row.error => row.status = "paused"
    /\ row.id # 0 => OfUnit(row.id)
    /\ Pending(row) => \A i \in DOMAIN batch : batch[i].request = row.request => OfUnit(i)
    /\ \A r \in Revisions : Posting(r) => /\ tick[r].job.stage = row.stage
                                          /\ tick[r].job.attempt = row.attempt
    /\ \A a \in Nat : a < row.attempt => UnitSearched(row.stage, a)
    /\ "exhausted" \in row.error => ~HasRange(row.stage, row.attempt)
    /\ \A g \in Passed(row.stage) : StageHit(g)

\* What was submitted stays what it was, and what ended stays as it ended.
BatchKept ==
    /\ DOMAIN batch \subseteq DOMAIN batch'
    /\ \A i \in DOMAIN batch :
         /\ batch'[i].request = batch[i].request
         /\ batch'[i].stage = batch[i].stage /\ batch'[i].attempt = batch[i].attempt
         /\ batch'[i].state = batch[i].state \/ Live(i)

\* A request that may still be sent was one before.
PostsKept ==
    \A r \in Revisions : Posting(r)' => Posting(r) /\ tick'[r].job = tick[r].job

LEMMA SearchedStays ==
    ASSUME BatchKept
    PROVE  /\ \A g, a : UnitSearched(g, a) => UnitSearched(g, a)'
           /\ \A g : StageHit(g) => StageHit(g)'
BY DEF BatchKept, UnitSearched, StageHit, Live

\* The row keeps its unit.
LEMMA SameUnit ==
    ASSUME SearchInv, UnitInv, BatchKept, PostsKept,
           row'.stage = row.stage, row'.attempt = row.attempt,
           "unknown" \in row'.error => row'.status = "paused",
           "exhausted" \in row'.error => "exhausted" \in row.error,
           row'.id \in {0, row.id} \/ (row'.id \in DOMAIN batch /\ OfUnit(row'.id)),
           Pending(row') =>
             /\ row'.request = row.request /\ Pending(row)
             /\ \A i \in DOMAIN batch' \ DOMAIN batch : OfUnit(i)'
    PROVE  UnitInv'
<1>1. \A i \in DOMAIN batch : OfUnit(i) => OfUnit(i)'
  BY DEF BatchKept, OfUnit
<1>2. row'.id # 0 => OfUnit(row.id)'
  BY <1>1 DEF UnitInv, SearchInv, RowInv
<1>3. Pending(row') => \A i \in DOMAIN batch' : batch'[i].request = row'.request => OfUnit(i)'
  BY <1>1 DEF UnitInv, BatchKept
<1>4. \A r \in Revisions : Posting(r)' => /\ tick'[r].job.stage = row'.stage
                                          /\ tick'[r].job.attempt = row'.attempt
  BY DEF UnitInv, PostsKept
<1>5. \A a \in Nat : a < row'.attempt => UnitSearched(row.stage, a)'
  BY SearchedStays DEF UnitInv
<1>6. (\A g \in Passed(row.stage) : StageHit(g))'
  BY SearchedStays DEF UnitInv
<1>7. "exhausted" \in row'.error => ~HasRange(row'.stage, row'.attempt)
  BY DEF UnitInv
<1>. QED  BY <1>2, <1>3, <1>4, <1>5, <1>6, <1>7 DEF UnitInv

LEMMA SameBatch == batch' = batch => BatchKept
  BY DEF BatchKept

\* The posts of the ticks, when one of them moves and when the row is saved.
LEMMA OnePosts ==
    ASSUME TypeOK, NEW r \in Revisions, NEW t, t.pc # "post", tick' = [tick EXCEPT ![r] = t]
    PROVE  PostsKept
BY DEF TypeOK, PostsKept, Posting

LEMMA OthersPost ==
    ASSUME TypeOK, \/ tick' = OthersStale
                   \/ \E r \in Revisions : \E t :
                         t.pc # "post" /\ tick' = [OthersStale EXCEPT ![r] = t]
    PROVE  PostsKept
<1>1. /\ OthersStale \in [Revisions -> Tick]
      /\ \A s \in Revisions : OthersStale[s] = Staled(tick[s]) /\ tick[s] \in Tick
  BY OthersFacts DEF TypeOK
<1>2. \A s \in Revisions : \/ tick'[s] = Staled(tick[s])
                           \/ tick'[s].pc # "post"
  BY <1>1
<1>. QED  BY <1>1, <1>2, StaledFacts DEF PostsKept, Posting

\* The steps that do not save the row.
LEMMA QuietUnits ==
    ASSUME SearchInv, UnitInv, row' = row, batch' = batch, PostsKept
    PROVE  UnitInv'
<1>1. BatchKept
  BY SameBatch
<1>2. \A i \in DOMAIN batch' \ DOMAIN batch : OfUnit(i)'
  OBVIOUS
<1>. QED  BY <1>1, <1>2, SameUnit DEF UnitInv

LEMMA TicksUnits ==
    ASSUME SearchInv, UnitInv, NEW r \in Revisions,
           \/ ReplayCreation \/ StartExecution(r) \/ StartLost(r)
           \/ ReadDone(r) \/ ReadPaused(r) \/ ReadFill(r) \/ PollUnreadable(r) \/ Crash(r)
           \/ PostRefused(r)
    PROVE  UnitInv'
<1>1. row' = row /\ batch' = batch
  BY DEF ReplayCreation, StartExecution, StartLost, ReadDone, ReadPaused, ReadFill,
    PollUnreadable, Crash, PostRefused, Keep
<1>2. tick' = tick \/ \E t : t.pc # "post" /\ tick' = [tick EXCEPT ![r] = t]
  <2>1. \A pc \in {"closed", "failed", "wait", "drain", "fill"} :
          /\ At(pc).pc = pc
          /\ \A n : [At(pc) EXCEPT !.id = n].pc = pc
          /\ \A job : [At(pc) EXCEPT !.job = job].pc = pc
    BY DEF At
  <2>2. CASE ReadPaused(r)
    <3>. DEFINE t == IF row.id = 0 THEN At("closed") ELSE [At("drain") EXCEPT !.id = row.id]
    <3>1. tick' = [tick EXCEPT ![r] = t]
      BY <2>2 DEF ReadPaused, Continue
    <3>2. t.pc # "post"
      BY <2>1
    <3>. QED  BY <3>1, <3>2
  <2>3. CASE ReplayCreation \/ StartExecution(r) \/ StartLost(r)
    BY <2>1, <2>3 DEF ReplayCreation, StartExecution, StartLost
  <2>4. CASE ReadDone(r) \/ PollUnreadable(r) \/ Crash(r) \/ PostRefused(r)
    BY <2>1, <2>4 DEF ReadDone, PollUnreadable, Crash, PostRefused, Continue
  <2>5. CASE ReadFill(r)
    BY <2>1, <2>5 DEF ReadFill, Continue
  <2>. QED  BY <2>2, <2>3, <2>4, <2>5
<1>3. PostsKept
  BY <1>2, OnePosts DEF SearchInv, PostsKept, Posting
<1>. QED  BY <1>1, <1>3, QuietUnits

\* The steps that save the row and keep its unit.
LEMMA SavedUnits ==
    ASSUME SearchInv, UnitInv, batch' = batch, PostsKept,
           row'.stage = row.stage, row'.attempt = row.attempt,
           "unknown" \in row'.error => row'.status = "paused",
           "exhausted" \in row'.error => "exhausted" \in row.error,
           row'.id \in {0, row.id} \/ (row'.id \in DOMAIN batch /\ OfUnit(row'.id)),
           Pending(row') => row'.request = row.request /\ Pending(row)
    PROVE  UnitInv'
<1>1. BatchKept
  BY SameBatch
<1>2. DOMAIN batch' \ DOMAIN batch = {}
  OBVIOUS
<1>. QED  BY <1>1, <1>2, SameUnit

LEMMA CreateUnits == ASSUME SearchInv, UnitInv, CreateJob PROVE UnitInv'
<1>1. row = NoJob /\ row' = NewJob /\ batch' = batch /\ tick' = tick
  BY DEF CreateJob, SearchInv, RowInv
<1>2. PostsKept
  BY <1>1 DEF PostsKept, Posting
<1>. QED  BY <1>1, <1>2, NewJobFacts, SavedUnits DEF Pending

LEMMA ReadOffUnits == ASSUME SearchInv, UnitInv, NEW r \in Revisions, ReadOff(r) PROVE UnitInv'
<1>1. /\ row' = Disabled(row) /\ tick' = [OthersStale EXCEPT ![r] = At("closed")]
      /\ batch' = batch /\ row \in Job /\ TypeOK
  BY DEF ReadOff, Save, SearchInv, TypeOK
<1>2. PostsKept
  BY <1>1, AtFacts, OthersPost
<1>3. /\ row'.status = "paused" /\ row'.id = row.id
      /\ row'.stage = row.stage /\ row'.attempt = row.attempt /\ row'.request = row.request
      /\ "exhausted" \in row'.error <=> "exhausted" \in row.error
      /\ "unknown" \in row'.error <=> "unknown" \in row.error \/ Unknown(row)
  BY <1>1, DisabledFacts
<1>4. Pending(row') => Pending(row)
  BY <1>3 DEF Pending, Unknown
<1>. QED  BY <1>1, <1>2, <1>3, <1>4, SavedUnits

LEMMA FillUnits ==
    ASSUME SearchInv, UnitInv, NEW r \in Revisions, FillRefused(r) \/ PrepareFails(r)
    PROVE  UnitInv'
<1>1. /\ tick[r].pc = "fill" /\ batch' = batch /\ TypeOK
      /\ row' = Pause(tick[r].job, {"other"}) /\ tick' = [OthersStale EXCEPT ![r] = At("closed")]
  BY DEF FillRefused, PrepareFails, Save, SearchInv
<1>2. PostsKept
  BY <1>1, AtFacts, OthersPost
<1>3. row' = Pause(row, {"other"}) /\ row \in Job
  BY <1>1, FillFacts
<1>4. {"other"} \in SUBSET Reasons
  BY DEF Reasons
<1>. QED  BY <1>1, <1>2, <1>3, <1>4, PauseFacts, SavedUnits DEF Pending

LEMMA RecordUnits == ASSUME SearchInv, UnitInv, NEW r \in Revisions, RecordId(r) PROVE UnitInv'
<1>1. /\ tick[r].pc = "sent" /\ batch' = batch /\ TypeOK
      /\ row' = [tick[r].job EXCEPT !.id = tick[r].id]
      /\ tick' = [OthersStale EXCEPT ![r] = At("wait")]
  BY DEF RecordId, Save, SearchInv
<1>2. PostsKept
  BY <1>1, AtFacts, OthersPost
<1>3. /\ tick[r].job = row /\ row \in Job /\ Owed /\ tick[r].id \in DOMAIN batch
      /\ batch[tick[r].id].request = row.request /\ tick[r].id # 0
  BY <1>1 DEF SearchInv, TickInv, TypeOK
<1>4. /\ row'.id = tick[r].id /\ row'.stage = row.stage /\ row'.attempt = row.attempt
      /\ row'.status = row.status /\ row'.error = row.error
  BY <1>1, <1>3 DEF Job
<1>5. Pending(row)
  BY <1>3 DEF Owed, Pending
<1>6. OfUnit(row'.id)
  BY <1>3, <1>4, <1>5 DEF UnitInv
<1>7. "unknown" \in row'.error => row'.status = "paused"
  BY <1>4 DEF UnitInv
<1>. QED  BY <1>1, <1>2, <1>3, <1>4, <1>6, <1>7, SavedUnits DEF Pending

\* The answers of a poll that leave the unit to search where it was.
LEMMA PollUnits ==
    ASSUME SearchInv, UnitInv, NEW r \in Revisions,
           PollRunning(r) \/ PollStopped(r) \/ PollOverflow(r) \/ PollInvalid(r)
    PROVE  UnitInv'
<1>0. tick[r].pc = "poll"
  BY DEF PollRunning, PollStopped, PollOverflow, PollInvalid
<1>1. /\ tick[r].job = row /\ row \in Job /\ row.status = "searching" /\ row.id # 0
      /\ "exhausted" \notin row.error /\ "unknown" \notin row.error
  BY <1>0, PollFacts DEF UnitInv
<1>2. \E job : PollSaves(r, job) /\ job \in {row, Stopped(row), Pause(row, {"review"}),
                            [row EXCEPT !.status = "failed", !.retryRequested = FALSE]}
  BY <1>1 DEF PollRunning, PollStopped, PollOverflow, PollInvalid
<1>3. PICK job : PollSaves(r, job) /\ job \in {row, Stopped(row), Pause(row, {"review"}),
                            [row EXCEPT !.status = "failed", !.retryRequested = FALSE]}
  BY <1>2
<1>4. /\ job \in Job /\ job.stage = row.stage /\ job.attempt = row.attempt
      /\ job.id \in {0, row.id} /\ "exhausted" \notin job.error /\ "unknown" \notin job.error
      /\ job.status = "searching" => job.id # 0
  <2>1. CASE job = row
    BY <1>1, <2>1
  <2>2. CASE job = Stopped(row)
    BY <1>1, <2>2, StoppedFacts
  <2>3. CASE job = Pause(row, {"review"})
    <3>1. {"review"} \in SUBSET Reasons
      BY DEF Reasons
    <3>. QED  BY <1>1, <2>3, <3>1, PauseFacts
  <2>4. CASE job = [row EXCEPT !.status = "failed", !.retryRequested = FALSE]
    BY <1>1, <2>4 DEF Job, Statuses
  <2>. QED  BY <1>3, <2>1, <2>2, <2>3, <2>4
<1>5. /\ row' = job /\ tick' = [OthersStale EXCEPT ![r] = After(job)] /\ batch' = batch
      /\ TypeOK
  BY <1>3 DEF PollSaves, Save, SearchInv
<1>6. PostsKept
  BY <1>4, <1>5, AfterFacts, OthersPost
<1>. QED  BY <1>4, <1>5, <1>6, SavedUnits DEF Pending

\* The owner and the operator.
LEMMA OthersUnits ==
    ASSUME SearchInv, UnitInv,
           \/ PauseJob \/ ResumeJob \/ DeclareNotSubmitted
           \/ \E i \in DOMAIN batch : AttachId(i) \/ RestartPolling(i)
    PROVE  UnitInv'
<1>0. row \in Job /\ TypeOK
  BY DEF SearchInv, TypeOK
<1>1. tick' = OthersStale /\ batch' = batch
  BY DEF PauseJob, ResumeJob, DeclareNotSubmitted, AttachId, RestartPolling, NextRevision
<1>2. PostsKept
  BY <1>0, <1>1, OthersPost
<1>3. CASE PauseJob
  <2>1. /\ row' = Pause(row, PauseError(row)) /\ row.status \in {"searching", "queued"}
        /\ "unknown" \notin row.error
    BY <1>3 DEF PauseJob, UnitInv
  <2>2. PauseError(row) \in SUBSET Reasons
    BY <1>0 DEF PauseError, Reasons, Job
  <2>3. /\ row'.status = "paused" /\ row'.error = PauseError(row) /\ row'.id = row.id
        /\ row'.stage = row.stage /\ row'.attempt = row.attempt /\ row'.request = row.request
    BY <1>0, <2>1, <2>2, PauseFacts
  <2>4. /\ "unknown" \in row'.error => Unknown(row)
        /\ "exhausted" \in row'.error => "exhausted" \in row.error
    BY <2>1, <2>3 DEF PauseError
  <2>. QED  BY <1>1, <1>2, <2>3, <2>4, SavedUnits DEF Pending, Unknown
<1>4. CASE ResumeJob
  <2>1. row' = [[row EXCEPT !.status = "queued", !.retryRequested = TRUE, !.error = {},
                            !.oneSubmissionAllowed = FALSE] EXCEPT !.revision = row.revision + 1]
    BY <1>4 DEF ResumeJob, NextRevision
  <2>2. /\ row'.status = "queued" /\ row'.error = {} /\ row'.id = row.id
        /\ row'.stage = row.stage /\ row'.attempt = row.attempt
    BY <1>0, <2>1 DEF Job
  <2>. QED  BY <1>1, <1>2, <2>2, SavedUnits DEF Pending
<1>5. CASE DeclareNotSubmitted
  <2>1. row' = [[row EXCEPT !.oneSubmissionAllowed = TRUE, !.retryRequested = FALSE,
                            !.notSubmittedAt = row.revision + 1]
                EXCEPT !.revision = row.revision + 1]
    BY <1>5 DEF DeclareNotSubmitted, NextRevision
  <2>2. /\ row'.status = row.status /\ row'.error = row.error /\ row'.id = row.id
        /\ row'.stage = row.stage /\ row'.attempt = row.attempt /\ row'.request = row.request
    BY <1>0, <2>1 DEF Job
  <2>. QED  BY <1>1, <1>2, <2>2, SavedUnits DEF Pending, UnitInv
<1>6. ASSUME NEW i \in DOMAIN batch, AttachId(i)  PROVE UnitInv'
  <2>1. /\ row' = [[row EXCEPT !.id = i, !.status = "searching", !.error = {},
                               !.retryRequested = FALSE, !.notSubmittedAt = 0]
                   EXCEPT !.revision = row.revision + 1]
        /\ Pending(row) /\ batch[i].request = row.request
    BY <1>6 DEF AttachId, NextRevision, UnknownSubmission, Pending
  <2>2. /\ row'.status = "searching" /\ row'.error = {} /\ row'.id = i
        /\ row'.stage = row.stage /\ row'.attempt = row.attempt
    BY <1>0, <2>1 DEF Job
  <2>3. OfUnit(i) /\ i # 0
    BY <1>0, <2>1 DEF UnitInv, TypeOK
  <2>. QED  BY <1>1, <1>2, <2>2, <2>3, SavedUnits DEF Pending
<1>7. ASSUME NEW i \in DOMAIN batch, RestartPolling(i)  PROVE UnitInv'
  <2>1. row' = [[row EXCEPT !.notSubmittedAt = 0] EXCEPT !.revision = row.revision + 1]
    BY <1>7 DEF RestartPolling, NextRevision
  <2>2. /\ row'.status = row.status /\ row'.error = row.error /\ row'.id = row.id
        /\ row'.stage = row.stage /\ row'.attempt = row.attempt /\ row'.request = row.request
    BY <1>0, <2>1 DEF Job
  <2>. QED  BY <1>1, <1>2, <2>2, SavedUnits DEF Pending, UnitInv
<1>. QED  BY <1>3, <1>4, <1>5, <1>6, <1>7

LEMMA ReadPollingUnits ==
    ASSUME SearchInv, UnitInv, NEW r \in Revisions, ReadPolling(r)
    PROVE  UnitInv'
<1>. DEFINE job == [row EXCEPT !.status = "searching"]
            t == [At("poll") EXCEPT !.job = job]
<1>1. /\ row \in Job /\ row.status \in {"queued", "searching"} /\ row.id # 0 /\ TypeOK
      /\ row' = job /\ batch' = batch
  BY DEF ReadPolling, Reads, SearchInv, TypeOK
<1>2. /\ job.status = "searching" /\ job.error = row.error /\ job.id = row.id
      /\ job.stage = row.stage /\ job.attempt = row.attempt
  BY <1>1 DEF Job
<1>3. t.pc # "post"
  BY DEF At
<1>4. tick' = [tick EXCEPT ![r] = t] \/ tick' = [OthersStale EXCEPT ![r] = t]
  BY DEF ReadPolling
<1>. HIDE DEF t, job
<1>5. PostsKept
  BY <1>1, <1>3, <1>4, OnePosts, OthersPost
<1>. QED  BY <1>1, <1>2, <1>5, SavedUnits DEF Pending, UnitInv

\* The reservation: nothing was submitted for the new request yet.
LEMMA ReserveUnits == ASSUME SearchInv, UnitInv, NEW r \in Revisions, Reserve(r) PROVE UnitInv'
<1>. DEFINE t == [At("post") EXCEPT !.job = Reserved(row)]
<1>1. /\ tick[r].pc = "fill" /\ ~Exceeds(tick[r].job) /\ TypeOK
      /\ batch \in Seq(BatchJob)
  BY DEF Reserve, SearchInv, TypeOK
<1>2. /\ tick[r].job = row /\ row \in Job /\ row.status = "queued" /\ row.id = 0
      /\ "exhausted" \notin row.error /\ \A s \in Revisions : ~Posting(s)
  BY <1>1, FillFacts
<1>3. /\ row' = Reserved(row) /\ batch' = batch
      /\ tick' = [OthersStale EXCEPT ![r] = t]
  BY <1>2 DEF Reserve, Save
<1>4. /\ row'.status = "searching" /\ row'.id = 0 /\ row'.stage = row.stage
      /\ row'.attempt = row.attempt /\ row'.error = row.error
      /\ row'.request = row.reserved + 1
  BY <1>1, <1>2, <1>3, ReservedFacts
<1>5. t.job = Reserved(row)
  BY DEF At
<1>. HIDE DEF t
<1>6. \A s \in Revisions : s # r => ~Posting(s)'
  <2>1. /\ OthersStale \in [Revisions -> Tick]
        /\ \A s \in Revisions : OthersStale[s] = Staled(tick[s]) /\ tick[s] \in Tick
    BY <1>1, OthersFacts DEF TypeOK
  <2>2. \A s \in Revisions : s # r => tick'[s] = Staled(tick[s])
    BY <1>3, <2>1
  <2>. QED  BY <1>2, <2>1, <2>2, StaledFacts DEF Posting
<1>7. tick'[r].job = row'
  BY <1>1, <1>3, <1>5, OthersFacts
<1>8. \A i \in DOMAIN batch : batch[i].request # row'.request
  <2>1. \A i \in DOMAIN batch : batch[i].request <= row.reserved /\ batch[i].request \in Nat
    <3>1. \A i \in DOMAIN batch : batch[i] \in BatchJob /\ batch[i].request \in Requests
      BY <1>1 DEF Requests
    <3>2. \A q \in Requests : q <= row.reserved
      BY DEF SearchInv, ChargeInv
    <3>. QED  BY <3>1, <3>2 DEF BatchJob
  <2>2. row.reserved \in Nat
    BY <1>2, BoundAssumption DEF Job
  <2>. QED  BY <1>4, <2>1, <2>2
<1>9. BatchKept
  BY <1>3, SameBatch
<1>10. /\ \A a \in Nat : a < row'.attempt => UnitSearched(row.stage, a)'
       /\ (\A g \in Passed(row.stage) : StageHit(g))'
  BY <1>4, <1>9, SearchedStays DEF UnitInv
<1>. QED  BY <1>2, <1>3, <1>4, <1>6, <1>7, <1>8, <1>10 DEF UnitInv

\* What AWS Batch takes is the row's unit.
LEMMA PostUnits ==
    ASSUME SearchInv, UnitInv, NEW r \in Revisions, PostAccepted(r) \/ PostLost(r)
    PROVE  UnitInv'
<1>. DEFINE new == Submission(tick[r].job)
<1>1. tick[r].pc = "post" /\ row' = row /\ batch' = Append(batch, new)
  BY DEF PostAccepted, PostLost, Keep
<1>2. /\ new.stage = row.stage /\ new.attempt = row.attempt
  BY <1>1 DEF UnitInv, Posting, Submission
<1>3. batch \in Seq(BatchJob) /\ TypeOK /\ Owed
  BY <1>1, PostFacts DEF SearchInv, TypeOK
<1>. HIDE DEF new
<1>4. /\ DOMAIN batch = 1..Len(batch) /\ Len(batch) \in Nat
      /\ DOMAIN batch' = 1..(Len(batch) + 1)
      /\ \A i \in DOMAIN batch : batch'[i] = batch[i]
      /\ batch'[Len(batch) + 1] = new
  BY <1>1, <1>3
<1>5. BatchKept
  BY <1>4 DEF BatchKept
<1>6. \A i \in DOMAIN batch' \ DOMAIN batch : OfUnit(i)'
  <2>. SUFFICES ASSUME NEW i \in DOMAIN batch' \ DOMAIN batch  PROVE OfUnit(i)'
    OBVIOUS
  <2>1. i = Len(batch) + 1
    BY <1>4
  <2>. QED  BY <1>1, <1>2, <1>4, <2>1 DEF OfUnit
<1>7. \E t : t.pc # "post" /\ tick' = [tick EXCEPT ![r] = t]
  <2>1. At("failed").pc = "failed" /\ tick[r] \in Tick
    BY <1>3, AtFacts DEF TypeOK
  <2>2. [tick[r] EXCEPT !.pc = "sent", !.id = Len(batch) + 1].pc = "sent"
    BY <2>1 DEF Tick
  <2>3. CASE PostLost(r) \/ tick[r].stale
    <3>1. tick' = [tick EXCEPT ![r] = At("failed")]
      BY <2>3 DEF PostAccepted, PostLost, Continue
    <3>. QED  BY <2>1, <3>1
  <2>4. CASE PostAccepted(r) /\ ~tick[r].stale
    <3>1. tick' = [tick EXCEPT ![r] = [tick[r] EXCEPT !.pc = "sent", !.id = Len(batch) + 1]]
      BY <2>4 DEF PostAccepted, Continue
    <3>. QED  BY <2>2, <3>1
  <2>. QED  BY <2>3, <2>4
<1>8. PostsKept
  BY <1>3, <1>7, OnePosts
<1>. QED  BY <1>1, <1>5, <1>6, <1>8, SameUnit DEF UnitInv

LEMMA BatchUnits ==
    ASSUME SearchInv, UnitInv, BatchKept, PostsKept, row' = row, DOMAIN batch' = DOMAIN batch
    PROVE  UnitInv'
<1>1. DOMAIN batch' \ DOMAIN batch = {}
  OBVIOUS
<1>. QED  BY <1>1, SameUnit DEF UnitInv

LEMMA DrainUnits == ASSUME SearchInv, UnitInv, NEW r \in Revisions, Drain(r) PROVE UnitInv'
<1>. DEFINE i == tick[r].id
<1>1. /\ row' = row /\ batch \in Seq(BatchJob) /\ TypeOK /\ i \in DOMAIN batch
  BY DEF Drain, Keep, SearchInv, TypeOK, TickInv
<1>2. PICK pc \in {"wait", "closed"} : tick' = [tick EXCEPT ![r] = At(pc)]
  BY DEF Drain, Continue
<1>3. PostsKept
  BY <1>1, <1>2, AtFacts, OnePosts
<1>4. BatchKept /\ DOMAIN batch' = DOMAIN batch
  <2>1. CASE batch' = batch
    BY <2>1, SameBatch
  <2>2. CASE batch' = [batch EXCEPT ![i].cancelled = TRUE]
    <3>1. /\ DOMAIN batch' = DOMAIN batch /\ batch'[i] = [batch[i] EXCEPT !.cancelled = TRUE]
          /\ \A j \in DOMAIN batch : j # i => batch'[j] = batch[j]
      BY <1>1, <2>2
    <3>2. batch[i] \in BatchJob
      BY <1>1
    <3>. QED  BY <3>1, <3>2 DEF BatchKept, BatchJob
  <2>. QED  BY <2>1, <2>2 DEF Drain
<1>. QED  BY <1>1, <1>3, <1>4, BatchUnits

LEMMA BatchEndsUnits ==
    ASSUME SearchInv, UnitInv, NEW i \in DOMAIN batch, BatchEnds(i)
    PROVE  UnitInv'
<1>1. /\ row' = row /\ tick' = tick /\ Live(i) /\ batch \in Seq(BatchJob)
      /\ batch[i] \in BatchJob
  BY DEF BatchEnds, SearchInv, TypeOK
<1>2. PICK outcome : batch' = [batch EXCEPT ![i].state = outcome]
  BY DEF BatchEnds
<1>3. /\ DOMAIN batch' = DOMAIN batch /\ batch'[i] = [batch[i] EXCEPT !.state = outcome]
      /\ \A j \in DOMAIN batch : j # i => batch'[j] = batch[j]
  BY <1>1, <1>2
<1>4. BatchKept
  BY <1>1, <1>3 DEF BatchKept, BatchJob
<1>5. PostsKept
  BY <1>1 DEF PostsKept, Posting
<1>. QED  BY <1>1, <1>3, <1>4, <1>5, BatchUnits

\* A hit leaves the stage, and a unit without one is searched: the cursor moves on.
LEMMA HitUnits == ASSUME SearchInv, UnitInv, NEW r \in Revisions, PollHit(r) PROVE UnitInv'
<1>1. /\ tick[r].pc = "poll" /\ Polled(r) = "hit" /\ batch' = batch
      /\ row' = VerifiedHit(tick[r].job)
  BY DEF PollHit, PollSaves, Save
<1>2. /\ tick[r].job = row /\ row \in Job /\ row.status = "searching" /\ row.id # 0
      /\ row.id \in DOMAIN batch /\ row.stage \in SearchStages /\ "exhausted" \notin row.error
      /\ "unknown" \notin row.error
  BY <1>1, PollFacts DEF UnitInv
<1>3. /\ row'.attempt = 0 /\ row'.id = 0 /\ row'.error = row.error
      /\ row'.status \in {"queued", "awaiting_authorization"}
      /\ row'.stage = NextStage[row.stage]
  <2>1. row' = VerifiedHit(row)
    BY <1>1, <1>2
  <2>2. VerifiedHit(row).stage = NextStage[row.stage]
    BY <1>2 DEF VerifiedHit, Job
  <2>. QED  BY <1>2, <2>1, <2>2, HitFacts
<1>4. StageHit(row.stage)
  BY <1>1, <1>2 DEF UnitInv, OfUnit, StageHit, Polled
<1>5. Passed(row'.stage) = Passed(row.stage) \cup {row.stage}
  <2>1. row.stage \in {"pinning", "round1", "round2"}
    BY <1>2 DEF SearchStages, Stages
  <2>. QED  BY <1>3, <2>1 DEF Passed, NextStage, SearchStages, Stages
<1>6. (\A g \in Passed(row.stage) : StageHit(g))'
  BY <1>1, <1>4, <1>5 DEF UnitInv, StageHit
<1>7. \A s \in Revisions : ~Posting(s)'
  <2>1. \A s \in Revisions : ~Posting(s)
    BY <1>2 DEF SearchInv, PostInv, Owed
  <2>2. PostsKept
    <3>1. tick' = [OthersStale EXCEPT ![r] = After(row')] /\ TypeOK
      BY <1>1 DEF PollHit, PollSaves, Save, SearchInv
    <3>2. row' \in Job
      BY <1>1, <1>2, HitFacts
    <3>. QED  BY <3>1, <3>2, AfterFacts, OthersPost
  <2>. QED  BY <2>1, <2>2 DEF PostsKept
<1>8. \A a \in Nat : ~(a < row'.attempt)
  BY <1>3
<1>. QED  BY <1>2, <1>3, <1>6, <1>7, <1>8 DEF UnitInv, Pending

LEMMA NoneUnits == ASSUME SearchInv, UnitInv, NEW r \in Revisions, PollNone(r) PROVE UnitInv'
<1>1. /\ tick[r].pc = "poll" /\ Polled(r) = "none" /\ batch' = batch
      /\ row' = NextUnit(tick[r].job)
  BY DEF PollNone, PollSaves, Save
<1>2. /\ tick[r].job = row /\ row \in Job /\ row.status = "searching" /\ row.id # 0
      /\ row.id \in DOMAIN batch /\ row.stage \in SearchStages /\ "exhausted" \notin row.error
      /\ "unknown" \notin row.error
  BY <1>1, PollFacts DEF UnitInv
<1>. DEFINE next == [row EXCEPT !.attempt = row.attempt + 1, !.id = 0, !.retryRequested = FALSE]
<1>3. /\ next \in Job /\ next.attempt = row.attempt + 1 /\ next.stage = row.stage
      /\ next.id = 0 /\ next.error = row.error
  <2>1. row.attempt + 1 \in Nat
    BY <1>2 DEF Job
  <2>. QED  BY <1>2, <2>1 DEF Job
<1>4. row' = IF HasRange(next.stage, next.attempt)
               THEN [next EXCEPT !.status = "queued"] ELSE Pause(next, {"exhausted"})
  BY <1>1, <1>2 DEF NextUnit
<1>. HIDE DEF next
<1>5. /\ row'.stage = row.stage /\ row'.attempt = row.attempt + 1 /\ row'.id = 0
      /\ "unknown" \notin row'.error /\ row'.status # "searching" /\ row' \in Job
      /\ "exhausted" \in row'.error => ~HasRange(row'.stage, row'.attempt)
  <2>1. CASE HasRange(next.stage, next.attempt)
    BY <1>2, <1>3, <1>4, <2>1 DEF Job, Statuses
  <2>2. CASE ~HasRange(next.stage, next.attempt)
    <3>1. {"exhausted"} \in SUBSET Reasons
      BY DEF Reasons
    <3>. QED  BY <1>3, <1>4, <2>2, <3>1, PauseFacts
  <2>. QED  BY <2>1, <2>2
<1>6. \A a \in Nat : a < row'.attempt => UnitSearched(row.stage, a)'
  <2>. SUFFICES ASSUME NEW a \in Nat, a < row.attempt + 1  PROVE UnitSearched(row.stage, a)
    BY <1>1, <1>5 DEF UnitSearched
  <2>1. row.attempt \in Nat
    BY <1>2 DEF Job
  <2>2. CASE a < row.attempt
    BY <2>2 DEF UnitInv
  <2>3. CASE a = row.attempt
    BY <1>1, <1>2, <2>3 DEF UnitInv, OfUnit, UnitSearched, Polled
  <2>. QED  BY <2>1, <2>2, <2>3
<1>7. \A s \in Revisions : ~Posting(s)'
  <2>1. \A s \in Revisions : ~Posting(s)
    BY <1>2 DEF SearchInv, PostInv, Owed
  <2>2. PostsKept
    <3>1. tick' = [OthersStale EXCEPT ![r] = After(row')] /\ TypeOK
      BY <1>1 DEF PollNone, PollSaves, Save, SearchInv
    <3>. QED  BY <1>5, <3>1, AfterFacts, OthersPost
  <2>. QED  BY <2>1, <2>2 DEF PostsKept
<1>8. (\A g \in Passed(row.stage) : StageHit(g))'
  BY <1>1, <1>5 DEF UnitInv, StageHit
<1>. QED  BY <1>5, <1>6, <1>7, <1>8 DEF UnitInv, Pending

LEMMA StepUnitInv == SearchInv /\ UnitInv /\ [Next]_vars => UnitInv'
<1>. SUFFICES ASSUME SearchInv, UnitInv, [Next]_vars PROVE UnitInv'
  OBVIOUS
<1>1. CASE CreateJob
  BY <1>1, CreateUnits
<1>2. CASE ReplayCreation
  <2>1. 0 \in Revisions
    BY BoundAssumption DEF Revisions
  <2>. QED  BY <1>2, <2>1, TicksUnits
<1>3. ASSUME NEW r \in Revisions, StartExecution(r) \/ StartLost(r) PROVE UnitInv'
  BY <1>3, TicksUnits
<1>4. ASSUME NEW r \in Revisions, Work(r) PROVE UnitInv'
  BY <1>4, TicksUnits, DrainUnits, ReadOffUnits, ReadPollingUnits, FillUnits, ReserveUnits,
     PostUnits, RecordUnits, PollUnits, HitUnits, NoneUnits DEF Work
<1>5. ASSUME NEW r \in Revisions, PostLost(r) \/ PostRefused(r) \/ Crash(r) PROVE UnitInv'
  BY <1>5, PostUnits, TicksUnits
<1>6. CASE PauseJob \/ ResumeJob \/ DeclareNotSubmitted
  BY <1>6, OthersUnits
<1>7. ASSUME NEW i \in DOMAIN batch, AttachId(i) \/ RestartPolling(i) \/ BatchEnds(i)
      PROVE  UnitInv'
  BY <1>7, OthersUnits, BatchEndsUnits
<1>8. CASE UNCHANGED vars
  BY <1>8, QuietUnits DEF vars, PostsKept, Posting
<1>. QED  BY <1>1, <1>2, <1>3, <1>4, <1>5, <1>6, <1>7, <1>8 DEF Next

LEMMA InitUnitInv == Init => UnitInv
<1>. SUFFICES ASSUME Init PROVE UnitInv
  OBVIOUS
<1>1. /\ row = NoJob /\ tick = [r \in Revisions |-> At("closed")] /\ batch = <<>>
  BY DEF Init
<1>2. \A r \in Revisions : ~Posting(r)
  BY <1>1, AtFacts DEF Posting
<1>. QED  BY <1>1, <1>2, NewJobFacts DEF UnitInv, Pending, Passed

\* Every candidate of a stage is in one unit, and the units below it start below it.
LEMMA UnitOf ==
    ASSUME NEW stage \in SearchStages, NEW c \in 0..(Total(stage) - 1)
    PROVE  \E a \in Nat : c \in WorkRange(stage, a) /\ Start(stage, a) <= c
<1>. DEFINE k == Chunk(stage)
            n == Total(stage)
            a == c \div k
<1>1. k \in Nat \ {0} /\ n \in Nat \ {0} /\ c \in Nat /\ c < n
  BY RangeAssumption DEF Chunk, Total
<1>. HIDE DEF k, n
<1>2. a \in Nat /\ a * k <= c /\ c < a * k + k
  BY <1>1
<1>. HIDE DEF a
<1>3. Start(stage, a) = a * k
  BY DEF Start, k
<1>4. c < Start(stage, a) + Count(stage, a)
  <2>1. a * k \in Nat
    BY <1>1, <1>2
  <2>. QED  BY <1>1, <1>2, <1>3, <2>1 DEF Count, n, k
<1>. QED  BY <1>1, <1>2, <1>3, <1>4 DEF WorkRange

LEMMA Below ==
    ASSUME NEW stage \in SearchStages, NEW a \in Nat, NEW m \in Nat,
           Start(stage, a) < Start(stage, m)
    PROVE  a < m
<1>. DEFINE k == Chunk(stage)
<1>1. k \in Nat \ {0} /\ a * k < m * k
  BY RangeAssumption DEF Chunk, Start
<1>. HIDE DEF k
<1>. QED  BY <1>1

\* No candidate is skipped, for any ranges and any chunks, however requests are lost,
\* executions die, and the owner and the operator stop and restart the search.
THEOREM NoneSkipped == Spec => []NoCandidateSkipped
<1>1. SearchInv /\ UnitInv => NoCandidateSkipped
  <2>. SUFFICES ASSUME SearchInv, UnitInv PROVE NoCandidateSkipped
    OBVIOUS
  <2>1. ASSUME row.stage # "verification", NEW c \in 0..(Total(row.stage) - 1),
               c < Start(row.stage, row.attempt) \/ "exhausted" \in row.error
        PROVE  Searched(row.stage, c)
    <3>1. row.stage \in SearchStages /\ row.attempt \in Nat
      BY <2>1 DEF SearchInv, TypeOK, Job, SearchStages
    <3>2. PICK a \in Nat : c \in WorkRange(row.stage, a) /\ Start(row.stage, a) <= c
      BY <3>1, UnitOf
    <3>3. /\ Start(row.stage, a) \in Nat /\ Start(row.stage, row.attempt) \in Nat
          /\ Total(row.stage) \in Nat
      BY <3>1, RangeAssumption DEF Start, Chunk, Total
    <3>4. c < Start(row.stage, row.attempt)
      BY <2>1, <3>3 DEF UnitInv, HasRange
    <3>5. a < row.attempt
      BY <3>1, <3>2, <3>3, <3>4, Below
    <3>. QED  BY <3>2, <3>5 DEF UnitInv, UnitSearched, Searched
  <2>2. \A g \in Passed(row.stage) :
          \E i \in DOMAIN batch : batch[i].stage = g /\ batch[i].state = "hit"
    BY DEF UnitInv, StageHit
  <2>. QED  BY <2>1, <2>2 DEF NoCandidateSkipped
<1>. QED  BY <1>1, InitUnitInv, StepUnitInv, InitSearchInv, StepSearchInv, PTL DEF Spec
=============================================================================
