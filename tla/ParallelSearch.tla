--------------------------- MODULE ParallelSearch ---------------------------
(***************************************************************************)
(* The paid GPU search of one withdrawal (server/parallel-search.ts), with *)
(* everything that can change the withdrawal's row or its AWS Batch jobs:  *)
(* the coordinator ticks of every workflow execution, the owner's pause    *)
(* and resume (server/app.ts) and the operator's reconciliation            *)
(* (server/reconcile-submission.ts).                                       *)
(*                                                                         *)
(* A tick is split at every point where something else can run between two *)
(* of its effects.  Its saves are conditional on the version it last read  *)
(* or wrote; versions only grow, so whether the row still has the tick's   *)
(* version is a flag, tick[r].stale, set when somebody else writes it.     *)
(* Slots, requests and Batch job IDs are numbers; a job's error text is    *)
(* the set of the reasons it carries that some guard looks for.            *)
(***************************************************************************)
EXTENDS Integers, FiniteSets, Sequences

CONSTANTS
    StageCount,     \* search stages before "verification" (the code has 3)
    RangeSize,      \* work units of one stage: workRange throws past the last
    WorkersMax,     \* gpuSpendLimits.workersMax
    Timeout,        \* executionTimeoutMs, in seconds: what one POST reserves
    MaxGpuSeconds,  \* gpuSpendLimits.maxJobGpuSeconds
    MaxRevision,    \* bound on the job's revision
    Outcomes,       \* how a Batch job may end, as a tick sees it
    Crashes,        \* may executions die and responses be lost?
    Outages,        \* may the deployment be off, or a chunk be held back by a
                    \*   slow tick, its preparation or the owner's budget?
    OwnerPauses     \* may the owner pause?

AllOutcomes == {"hit", "none", "partial", "invalid", "overflow", "unreadable", "failed"}

ASSUME SizesAssumption ==
    /\ StageCount \in Nat \ {0}
    /\ RangeSize \in Nat \ {0}
    /\ WorkersMax \in Nat \ {0}
    /\ Timeout \in Nat \ {0}
    /\ MaxGpuSeconds \in Nat
    /\ MaxRevision \in Nat
ASSUME FlagsAssumption ==
    /\ Outcomes \subseteq AllOutcomes
    /\ Crashes \in BOOLEAN
    /\ Outages \in BOOLEAN
    /\ OwnerPauses \in BOOLEAN

Revisions == 0..MaxRevision
Verification == StageCount + 1
SearchStages == 1..StageCount
Stages == 1..Verification
Attempts == 0..(RangeSize - 1)
Reasons == {"unknown", "review", "exhausted", "other"}
Statuses == {"queued", "searching", "paused", "failed", "awaiting_authorization"}
Terminal == {"failed", "awaiting_authorization"}

(***************************************************************************)
(* A slot is one paid submission: req is its request identity, id the      *)
(* Batch job it is known by, 0 while the outcome of its POST is unknown.   *)
(***************************************************************************)
Slot == [req : Nat, stage : SearchStages, attempt : Attempts, id : Nat,
         retry : BOOLEAN, metered : BOOLEAN]

Job == [status : Statuses, error : SUBSET Reasons, revision : Revisions,
        stage : Stages, attempt : 0..RangeSize, completed : SUBSET Attempts,
        slots : SUBSET Slot, retryRequested : BOOLEAN,
        oneSubmissionAllowed : BOOLEAN, notSubmittedAt : Nat,
        reserved : Nat, submissions : Nat, usage : Nat]

BatchState == AllOutcomes \cup {"live"}
BatchJob == [req : Nat, stage : SearchStages, attempt : Attempts, revision : Revisions,
             state : BatchState, cancelled : BOOLEAN]

VARIABLES
    row,        \* the JOB# row's job
    tick,       \* revision -> the workflow execution started for it
    batch,      \* AWS Batch: every job ever accepted, in order
    refused     \* requests AWS refused with a 4xx, as the logs show

vars == <<row, tick, batch, refused>>

(***************************************************************************)
(* One workflow execution per revision.  pc is "closed" when there is none *)
(* or it ended, "wait" when its next tick is due, and otherwise where its  *)
(* current tick is.                                                        *)
(***************************************************************************)
Tick == [pc : {"closed", "wait", "drain", "poll", "fill", "post", "sent", "finish"},
         stale : BOOLEAN, job : Job, todo : SUBSET Nat, req : Nat, id : Nat,
         stop : SUBSET Stages, review : SUBSET Stages, running : BOOLEAN,
         changed : BOOLEAN]

NewJob == [status |-> "queued", error |-> {}, revision |-> 0, stage |-> 1,
           attempt |-> 0, completed |-> {}, slots |-> {},
           retryRequested |-> FALSE, oneSubmissionAllowed |-> FALSE,
           notSubmittedAt |-> 0, reserved |-> 0, submissions |-> 0,
           usage |-> 0]

At(pc) == [pc |-> pc, stale |-> FALSE, job |-> NewJob, todo |-> {}, req |-> 0,
           id |-> 0, stop |-> {}, review |-> {}, running |-> FALSE,
           changed |-> FALSE]

Init ==
    /\ row = NewJob
    /\ tick = [r \in Revisions |-> At(IF r = 0 THEN "wait" ELSE "closed")]
    /\ batch = <<>>
    /\ refused = {}

TypeOK ==
    /\ row \in Job
    /\ tick \in [Revisions -> Tick]
    /\ batch \in Seq(BatchJob)
    /\ refused \subseteq Nat

(***************************************************************************)
(* Saving the row.                                                         *)
(***************************************************************************)
Live(i) == batch[i].state = "live"

\* The row was written behind a tick's back.  One whose next effect is a save
\* can only fail; the others still poll, cancel or POST first.
Staled(t) ==
    IF t.pc \in {"fill", "sent", "finish"} THEN At("closed")
    ELSE IF t.pc \in {"drain", "poll", "post"} THEN [t EXCEPT !.stale = TRUE]
    ELSE t

\* Somebody other than a tick wrote the row.
OthersStale == [r \in Revisions |-> Staled(tick[r])]

\* Execution r goes on as t without having written anything.
Continue(r, t) == tick' = [tick EXCEPT ![r] = t]

\* store.put conditional on the version the tick holds, which then goes on as
\* t.  A stale tick's save is refused, and the tick fails (Conflict).
Save(r, job, t) ==
    /\ ~tick[r].stale
    /\ row' = job
    /\ tick' = [OthersStale EXCEPT ![r] = t]

Unknown(job) == \E s \in job.slots : s.id = 0
SlotOf(job, q) == CHOOSE s \in job.slots : s.req = q
Drop(job, s) == [job EXCEPT !.slots = @ \ {s}]
Replace(job, s, t) == [job EXCEPT !.slots = (@ \ {s}) \cup {t}]
Pause(job, reason) == [job EXCEPT !.status = "paused", !.error = {reason}]

(***************************************************************************)
(* The start of a tick: the row is read, and everything up to the first    *)
(* provider call is one conditional save of what was read.                 *)
(***************************************************************************)
\* Another revision took over, or nothing is left to drain.
ReadDone(r) ==
    /\ tick[r].pc = "wait"
    /\ row.revision # r \/ (row.status \in Terminal /\ row.slots = {})
    /\ Continue(r, At("closed"))
    /\ UNCHANGED <<row, batch, refused>>

\* The deployment is disabled, excludes this owner, or has no compute
\* configuration.  Running chunks are left alone.
ReadOff(r) ==
    /\ Outages
    /\ tick[r].pc = "wait" /\ row.revision = r
    /\ \/ /\ row.status \in Terminal /\ row.slots # {}
          /\ Continue(r, At("closed"))
          /\ UNCHANGED row
       \/ /\ row.status \notin Terminal
          /\ LET lost == row.status = "searching" /\ Unknown(row)
             IN  row' = [row EXCEPT
                    !.status = "paused",
                    !.error = @ \cup {"other"} \cup (IF lost THEN {"unknown"} ELSE {}),
                    !.oneSubmissionAllowed = @ /\ ~lost]
          /\ tick' = [OthersStale EXCEPT ![r] = At("closed")]
    /\ UNCHANGED <<batch, refused>>

\* Paused or finished: stop the chunks that still run.
ReadDrain(r) ==
    /\ tick[r].pc = "wait" /\ row.revision = r
    /\ row.status = "paused" \/ (row.status \in Terminal /\ row.slots # {})
    /\ Continue(r, [At("drain") EXCEPT
          !.job = row, !.todo = {s.req : s \in {x \in row.slots : x.id # 0}}])
    /\ UNCHANGED <<row, batch, refused>>

\* A resumed job that owns paid submissions is searching again.
Polling(job) ==
    IF job.status = "queued" /\ \E s \in job.slots : s.id # 0
    THEN [job EXCEPT !.status = "searching"] ELSE job

\* A slot saved before a POST that never recorded its ID: never replay it.
ReadUnknown(r) ==
    /\ tick[r].pc = "wait" /\ row.revision = r
    /\ Polling(row).status = "searching" /\ Unknown(row)
    /\ row' = [Pause(row, "unknown") EXCEPT !.oneSubmissionAllowed = FALSE]
    /\ tick' = [OthersStale EXCEPT ![r] = At("closed")]
    /\ UNCHANGED <<batch, refused>>

\* Resume lets every chunk it found in flight be repeated if it stopped.
RetryAll(job) ==
    IF job.retryRequested
    THEN [job EXCEPT !.retryRequested = FALSE,
                     !.slots = {[s EXCEPT !.retry = TRUE] : s \in @}]
    ELSE job

ReadPoll(r) ==
    /\ tick[r].pc = "wait" /\ row.revision = r
    /\ row.status \in {"queued", "searching"}
    /\ ~(Polling(row).status = "searching" /\ Unknown(row))
    /\ row' = Polling(row)
    /\ tick' = [(IF row' = row THEN tick ELSE OthersStale) EXCEPT
                  ![r] = [At("poll") EXCEPT
                            !.job = RetryAll(Polling(row)),
                            !.todo = {s.req : s \in row.slots}]]
    /\ UNCHANGED <<batch, refused>>

(***************************************************************************)
(* Observing a slot asks AWS Batch for its status.  A chunk newly seen     *)
(* finished is metered on the tick's copy of the job and, in a save of its *)
(* own, on the job as last saved.  A save that succeeds finds the row at   *)
(* the tick's version, so the job as last saved is the row.                *)
(***************************************************************************)
MeteredUnmarked(job, q) == [job EXCEPT !.usage = @ + 1]
Metered(job, q) ==
    [job EXCEPT !.usage = @ + 1,
       !.slots = {IF s.req = q THEN [s EXCEPT !.metered = TRUE] ELSE s : s \in @}]

NeedsMeter(s) == ~Live(s.id) /\ ~s.metered
Seen(r, s) == IF NeedsMeter(s) THEN Metered(tick[r].job, s.req) ELSE tick[r].job

\* t is how the tick goes on once the slot has been observed.
ObserveSavingSlots(r, s, t) ==
    IF NeedsMeter(s)
    THEN Save(r, [Metered(row, s.req) EXCEPT !.slots = Metered(tick[r].job, s.req).slots], t)
    ELSE Continue(r, t) /\ UNCHANGED row
Observe(r, s, t) ==
    IF NeedsMeter(s) THEN Save(r, Metered(row, s.req), t)
    ELSE Continue(r, t) /\ UNCHANGED row

\* A slot whose output cannot be read or does not match stops the tick; its
\* metering is saved if it still can be.
Unreadable(r, s) ==
    /\ batch[s.id].state = "unreadable"
    /\ \/ Observe(r, s, At("closed"))
       \/ tick[r].stale /\ Continue(r, At("closed")) /\ UNCHANGED row
    /\ UNCHANGED <<batch, refused>>

Cancel(i) == batch' = [batch EXCEPT ![i].cancelled = TRUE]
Todo(r) == {s \in tick[r].job.slots : s.req \in tick[r].todo}
Done(r, s) == [tick[r] EXCEPT !.todo = @ \ {s.req}]

DrainRunning(r, s) ==
    /\ Live(s.id)
    /\ Cancel(s.id)
    /\ Continue(r, [Done(r, s) EXCEPT !.running = TRUE])
    /\ UNCHANGED <<row, refused>>

DrainEnded(r, s) ==
    /\ ~Live(s.id) /\ batch[s.id].state # "unreadable"
    /\ LET job == Seen(r, s)
           drop == job.status \in Terminal
       IN  Observe(r, s, [Done(r, s) EXCEPT
              !.job = IF drop THEN Drop(job, SlotOf(job, s.req)) ELSE job,
              !.changed = @ \/ drop])
    /\ UNCHANGED <<batch, refused>>

Drain(r) ==
    /\ tick[r].pc = "drain"
    /\ \E s \in Todo(r) : DrainRunning(r, s) \/ DrainEnded(r, s) \/ Unreadable(r, s)

DrainFinish(r) ==
    /\ tick[r].pc = "drain" /\ tick[r].todo = {}
    /\ LET t == At(IF tick[r].running THEN "wait" ELSE "closed")
       IN  IF tick[r].changed THEN Save(r, tick[r].job, t)
           ELSE Continue(r, t) /\ UNCHANGED row
    /\ UNCHANGED <<batch, refused>>

(***************************************************************************)
(* Polling: results are credited on the tick's copy of the job only.       *)
(***************************************************************************)
Current(job, s) == s.stage = job.stage /\ job.status # "failed"

\* A superseded chunk is cancelled; a running one is left for the next tick.
PollRunning(r, s) ==
    /\ Live(s.id)
    /\ IF Current(tick[r].job, s) THEN UNCHANGED batch ELSE Cancel(s.id)
    /\ Continue(r, Done(r, s))
    /\ UNCHANGED <<row, refused>>

\* A superseded chunk that ended is dropped, never credited.
PollSuperseded(r, s) ==
    /\ ~Live(s.id) /\ batch[s.id].state # "unreadable"
    /\ ~Current(tick[r].job, s)
    /\ LET job == Seen(r, s)
       IN  Observe(r, s, [Done(r, s) EXCEPT !.job = Drop(job, SlotOf(job, s.req))])
    /\ UNCHANGED <<batch, refused>>

\* An interrupted chunk, or one that did not complete its range, is dropped and
\* stops the search, unless an explicit resume allowed to repeat it.
PollStopped(r, s) ==
    /\ batch[s.id].state \in {"failed", "partial"}
    /\ Current(tick[r].job, s)
    /\ LET job == Seen(r, s)
       IN  Observe(r, s, [Done(r, s) EXCEPT
              !.job = Drop(job, SlotOf(job, s.req)),
              !.stop = IF @ = {} /\ ~s.retry THEN {s.stage} ELSE @])
    /\ UNCHANGED <<batch, refused>>

\* The worker truncates its output at the host's capacity.
PollOverflow(r, s) ==
    /\ batch[s.id].state = "overflow"
    /\ Current(tick[r].job, s)
    /\ LET job == Seen(r, s)
       IN  Observe(r, s, [Done(r, s) EXCEPT
              !.job = [Drop(job, SlotOf(job, s.req)) EXCEPT
                         !.status = "failed", !.error = {"other"}]])
    /\ UNCHANGED <<batch, refused>>

\* A hit the CPU verifies moves the whole job to its next stage.
VerifiedHit(job) ==
    [job EXCEPT !.stage = @ + 1, !.attempt = 0, !.completed = {},
                !.status = IF job.stage + 1 = Verification
                           THEN "awaiting_authorization" ELSE "queued"]

PollHit(r, s) ==
    /\ batch[s.id].state = "hit"
    /\ Current(tick[r].job, s)
    /\ LET job == Seen(r, s)
       IN  Observe(r, s, [Done(r, s) EXCEPT
              !.job = VerifiedHit(Drop(job, SlotOf(job, s.req)))])
    /\ UNCHANGED <<batch, refused>>

\* Candidates the CPU rejects: the chunk is kept for operator review.
PollInvalid(r, s) ==
    /\ batch[s.id].state = "invalid"
    /\ Current(tick[r].job, s)
    /\ Observe(r, s, [Done(r, s) EXCEPT
          !.job = Seen(r, s),
          !.review = IF @ = {} THEN {s.stage} ELSE @])
    /\ UNCHANGED <<batch, refused>>

Least(S) == CHOOSE a \in S : \A b \in S : a <= b

\* Chunks finish out of order: attempt only moves past contiguous ones.
CreditPastGaps(job, a) ==
    [job EXCEPT !.attempt = IF a >= job.attempt THEN a + 1 ELSE @]
Credit(job, a) ==
    LET completed == job.completed \cup {a}
        attempt == Least({b \in job.attempt..RangeSize : b \notin completed})
    IN  [job EXCEPT !.attempt = attempt,
                    !.completed = {b \in completed : b < job.attempt \/ b > attempt}]

PollNone(r, s) ==
    /\ batch[s.id].state = "none"
    /\ Current(tick[r].job, s)
    /\ LET job == Seen(r, s)
       IN  Observe(r, s, [Done(r, s) EXCEPT
              !.job = Credit(Drop(job, SlotOf(job, s.req)), s.attempt)])
    /\ UNCHANGED <<batch, refused>>

Poll(r) ==
    /\ tick[r].pc = "poll"
    /\ \E s \in Todo(r) :
         \/ PollRunning(r, s) \/ PollSuperseded(r, s) \/ PollStopped(r, s)
         \/ PollOverflow(r, s) \/ PollHit(r, s) \/ PollInvalid(r, s)
         \/ PollNone(r, s) \/ Unreadable(r, s)

\* A failed CPU check outranks an interruption; neither matters in a stage that
\* a verified hit has finished.
PollFinish(r) ==
    /\ tick[r].pc = "poll" /\ tick[r].todo = {}
    /\ LET job == tick[r].job
           paused == IF job.status \notin {"queued", "searching"} THEN job
                     ELSE IF job.stage \in tick[r].review THEN Pause(job, "review")
                     ELSE IF job.stage \in tick[r].stop THEN Pause(job, "other")
                     ELSE job
           pc == IF paused.status \in {"queued", "searching"} THEN "fill" ELSE "finish"
       IN  Continue(r, IF tick[r].stale THEN At("closed")
                       ELSE [At(pc) EXCEPT !.job = paused])
    /\ UNCHANGED <<row, batch, refused>>

(***************************************************************************)
(* Filling free GPUs.                                                      *)
(***************************************************************************)
Assigned(job) == {s.attempt : s \in {x \in job.slots : x.stage = job.stage}}

\* The lowest chunk not done or running; RangeSize is past the range.
NextAttempt(job) ==
    Least({a \in job.attempt..RangeSize : a \notin Assigned(job) \cup job.completed})

\* nextGpuReservation: computeSeconds never exceeds what was reserved, because
\* each chunk runs at most the Timeout its POST reserved.
ReservationInFlight(job) == Timeout * (Cardinality(job.slots) + 1)
NextReservation(job) == job.reserved + Timeout

HasRoom(job) == Cardinality(job.slots) < WorkersMax
InRange(job) == NextAttempt(job) < RangeSize
WithinBudget(job) == NextReservation(job) <= MaxGpuSeconds

\* The fill loop ends and the tick goes on to its final save of job.
Leave(r, job) ==
    /\ Continue(r, [At("finish") EXCEPT !.job = job])
    /\ UNCHANGED <<row, batch, refused>>

\* All GPUs are taken, or the tick has run for too long to start a POST.
FillStop(r) ==
    /\ tick[r].pc = "fill"
    /\ ~HasRoom(tick[r].job) \/ Outages
    /\ Leave(r, tick[r].job)

FillExhausted(r) ==
    LET job == tick[r].job IN
    /\ tick[r].pc = "fill"
    /\ HasRoom(job) /\ ~InRange(job)
    /\ Leave(r, IF Assigned(job) = {} THEN Pause(job, "exhausted") ELSE job)

\* The job's cap, or the owner's budget that its other jobs share: running
\* chunks may finish; the job pauses once nothing is in flight.
FillRefused(r) ==
    LET job == tick[r].job IN
    /\ tick[r].pc = "fill"
    /\ HasRoom(job) /\ InRange(job)
    /\ ~WithinBudget(job) \/ Outages
    /\ Leave(r, IF job.slots = {} THEN Pause(job, "other") ELSE job)

\* The solver contract, compute environment or upload is unconfirmed.
FillUnprepared(r) ==
    LET job == tick[r].job IN
    /\ Outages
    /\ tick[r].pc = "fill"
    /\ HasRoom(job) /\ InRange(job) /\ WithinBudget(job)
    /\ Leave(r, Pause(job, "other"))

\* prepareRun names every request anew.
RequestPerSlot(job) == Cardinality(job.slots) + 1
Request(job) == job.submissions + 1

\* The slot, its reservation and the never-resubmit marker share one save.
Reserve(r) ==
    LET job == tick[r].job
        slot == [req |-> Request(job), stage |-> job.stage,
                 attempt |-> NextAttempt(job), id |-> 0,
                 retry |-> FALSE, metered |-> FALSE]
        next == [job EXCEPT !.status = "searching",
                            !.reserved = NextReservation(job),
                            !.submissions = @ + 1,
                            !.slots = @ \cup {slot},
                            !.oneSubmissionAllowed = FALSE]
    IN
    /\ tick[r].pc = "fill"
    /\ HasRoom(job) /\ InRange(job) /\ WithinBudget(job)
    /\ Save(r, next, [At("post") EXCEPT !.job = next, !.req = slot.req])
    /\ UNCHANGED <<batch, refused>>

(***************************************************************************)
(* The paid POST.  It happens whether or not the row changed meanwhile.    *)
(***************************************************************************)
Accepted(r) ==
    LET s == SlotOf(tick[r].job, tick[r].req)
    IN  Append(batch, [req |-> s.req, stage |-> s.stage, attempt |-> s.attempt,
                       revision |-> r, state |-> "live", cancelled |-> FALSE])

PostAccepted(r) ==
    /\ tick[r].pc = "post"
    /\ batch' = Accepted(r)
    /\ Continue(r, IF tick[r].stale THEN At("closed")
                   ELSE [tick[r] EXCEPT !.pc = "sent", !.id = Len(batch) + 1])
    /\ UNCHANGED <<row, refused>>

\* Accepted, but the response never arrives.
PostLost(r) ==
    /\ Crashes
    /\ tick[r].pc = "post"
    /\ batch' = Accepted(r)
    /\ Continue(r, At("closed"))
    /\ UNCHANGED <<row, refused>>

PostRefused(r) ==
    /\ Crashes
    /\ tick[r].pc = "post"
    /\ refused' = refused \cup {tick[r].req}
    /\ Continue(r, At("closed"))
    /\ UNCHANGED <<row, batch>>

RecordId(r) ==
    LET job == tick[r].job
        s == SlotOf(job, tick[r].req)
        next == Replace(job, s, [s EXCEPT !.id = tick[r].id])
    IN
    /\ tick[r].pc = "sent"
    /\ Save(r, next, [At("fill") EXCEPT !.job = next])
    /\ UNCHANGED <<batch, refused>>

\* A finished search goes on until its chunks are drained.
TickDoneUnlessQueued(job) == job.status # "queued"
TickDoneUndrained(job) == job.status \in {"paused"} \cup Terminal
TickDone(job) == job.status = "paused" \/ (job.status \in Terminal /\ job.slots = {})

\* The last save of a tick decides whether the execution goes on.
Finish(r) ==
    /\ tick[r].pc = "finish"
    /\ Save(r, tick[r].job, At(IF TickDone(tick[r].job) THEN "closed" ELSE "wait"))
    /\ UNCHANGED <<batch, refused>>

(***************************************************************************)
(* An execution fails for good when a save finds another version, or when  *)
(* it dies: before its first tick, between two, or inside one.             *)
(***************************************************************************)
Fail(r) == Continue(r, At("closed")) /\ UNCHANGED <<row, batch, refused>>

Conflict(r) ==
    /\ tick[r].stale
    /\ \/ tick[r].pc \in {"poll", "drain"} /\ \E s \in Todo(r) : NeedsMeter(s)
       \/ tick[r].pc = "drain" /\ tick[r].todo = {} /\ tick[r].changed
    /\ Fail(r)

Crash(r) ==
    /\ Crashes
    /\ tick[r].pc # "closed"
    /\ Fail(r)

(***************************************************************************)
(* The owner's routes.  Each reads the row and saves it on condition that  *)
(* it did not change, so one that succeeds is a single step.  The new      *)
(* revision's execution is started after the save.                         *)
(***************************************************************************)
PauseErrorKept(job) == job.error
PauseError(job) ==
    IF job.status = "searching" /\ Unknown(job) THEN {"unknown"} ELSE job.error

PauseJob ==
    /\ OwnerPauses
    /\ row.status \in {"searching", "queued"}
    /\ row' = [row EXCEPT !.status = "paused", !.error = PauseError(row)]
    /\ tick' = OthersStale
    /\ UNCHANGED <<batch, refused>>

\* Write job as the next revision; its execution is started when start holds.
NextRevision(job, start) ==
    /\ row.revision < MaxRevision
    /\ row' = [job EXCEPT !.revision = row.revision + 1]
    /\ tick' = IF start THEN [OthersStale EXCEPT ![row.revision + 1] = At("wait")]
               ELSE OthersStale
    /\ UNCHANGED <<batch, refused>>

\* The one way to resume past an unknown submission: an operator's decision,
\* made at this revision, that it never happened.
Reconciled(job) == job.oneSubmissionAllowed /\ job.notSubmittedAt = job.revision

Resumable(job) ==
    /\ job.status = "paused"
    /\ "unknown" \in job.error => Reconciled(job)
    /\ job.error \cap {"exhausted", "review"} = {}

ResumeJob ==
    /\ Resumable(row)
    /\ NextRevision([row EXCEPT !.status = "queued", !.retryRequested = TRUE,
                                !.error = {}, !.oneSubmissionAllowed = FALSE],
                    TRUE)

(***************************************************************************)
(* The operator's reconciliation.                                          *)
(***************************************************************************)
UnknownSlots == {s \in row.slots : s.id = 0}
Target == CHOOSE s \in UnknownSlots : TRUE

UnknownSubmission ==
    /\ row.status = "paused" /\ "unknown" \in row.error
    /\ Cardinality(UnknownSlots) = 1
    /\ ~row.oneSubmissionAllowed

\* The unknown slot's request is found as Batch job i.
AttachId(i) ==
    /\ UnknownSubmission
    /\ batch[i].req = Target.req
    /\ batch[i].state # "unreadable"
    /\ NextRevision([Replace(row, Target, [Target EXCEPT !.id = i]) EXCEPT
                        !.status = "searching", !.error = {},
                        !.retryRequested = FALSE, !.notSubmittedAt = 0],
                    TRUE)

\* The ID is recorded already: only polling is started anew.
RestartPolling(i) ==
    /\ row.status = "searching" /\ Cardinality(UnknownSlots) <= 1
    /\ ~row.oneSubmissionAllowed
    /\ \E s \in row.slots : s.id = i
    /\ batch[i].state # "unreadable"
    /\ NextRevision([row EXCEPT !.notSubmittedAt = 0], TRUE)

\* No tick lives for 35 minutes after it saved the request, and discovery by
\* the request's exact name finds nothing.
NothingFound(q) == \A i \in DOMAIN batch : batch[i].req # q
WindowOver(q) ==
    \A r \in Revisions : ~(tick[r].pc \in {"post", "sent"} /\ tick[r].req = q)
WindowElapsed(q) ==
    /\ \A r \in Revisions : ~(tick[r].pc \in {"post", "sent"} /\ tick[r].req = q)
    /\ \A i \in DOMAIN batch : batch[i].req # q

Drained == \A i \in DOMAIN batch : ~Live(i)

DeclareNotSubmitted ==
    /\ UnknownSubmission
    /\ Target.req \in refused \/ WindowElapsed(Target.req)
    /\ Drained
    /\ NextRevision([Drop(row, Target) EXCEPT
                        !.oneSubmissionAllowed = TRUE, !.retryRequested = FALSE,
                        !.notSubmittedAt = row.revision + 1],
                    FALSE)

(***************************************************************************)
(* AWS Batch ends a job within its watchdog; a cancelled one fails.        *)
(***************************************************************************)
Ends(i, outcome) ==
    /\ Live(i)
    /\ outcome \in Outcomes \/ (outcome = "failed" /\ batch[i].cancelled)
    /\ batch' = [batch EXCEPT ![i].state = outcome]
    /\ UNCHANGED <<row, tick, refused>>

BatchEnds(i) == \E outcome \in AllOutcomes : Ends(i, outcome)

Work(r) ==
    \/ ReadDone(r) \/ ReadOff(r) \/ ReadDrain(r) \/ ReadUnknown(r) \/ ReadPoll(r)
    \/ Drain(r) \/ DrainFinish(r)
    \/ Poll(r) \/ PollFinish(r)
    \/ FillStop(r) \/ FillExhausted(r) \/ FillRefused(r) \/ FillUnprepared(r)
    \/ Reserve(r) \/ PostAccepted(r) \/ RecordId(r) \/ Finish(r)
    \/ Conflict(r)

Next ==
    \/ \E r \in Revisions : Work(r) \/ PostLost(r) \/ PostRefused(r) \/ Crash(r)
    \/ PauseJob \/ ResumeJob \/ DeclareNotSubmitted
    \/ \E i \in DOMAIN batch : AttachId(i) \/ RestartPolling(i) \/ BatchEnds(i)

Spec == Init /\ [][Next]_vars

\* Step Functions runs an execution to its end, and AWS Batch's watchdog ends
\* every job.  Owners, operators and crashes are never owed a step.
Fairness ==
    /\ \A r \in Revisions : WF_vars(Work(r))
    /\ \A i \in 1..(MaxGpuSeconds \div Timeout) : WF_vars(i \in DOMAIN batch /\ BatchEnds(i))

FairSpec == Spec /\ Fairness

(***************************************************************************)
(* What must hold.                                                         *)
(***************************************************************************)
Tracked(i) ==
    \E s \in row.slots : s.id = i \/ (s.id = 0 /\ s.req = batch[i].req)

SameRange(x, y) == x.stage = y.stage /\ x.attempt = y.attempt

\* Paid work is never orphaned: whatever dies or races, a Batch job that runs is
\* on the saved job, by its ID or by the request an operator can discover it
\* by; so is a POST that a tick may still send.
NoOrphanedWork ==
    /\ \A i \in DOMAIN batch : Live(i) => Tracked(i)
    /\ \A r \in Revisions : tick[r].pc = "post" =>
         \E s \in row.slots : s.req = tick[r].req /\ s.id = 0

\* A request saved before its POST is posted at most once, whatever is resumed
\* or reconciled afterwards.
PostedOnce ==
    /\ \A i, j \in DOMAIN batch : batch[i].req = batch[j].req => i = j
    /\ \A r \in Revisions : tick[r].pc = "post" =>
         /\ \A i \in DOMAIN batch : batch[i].req # tick[r].req
         /\ \A x \in Revisions :
              tick[x].pc = "post" /\ tick[x].req = tick[r].req => x = r

\* A range is paid for again only after the earlier Batch job for it ended
\* without its result, and only by an execution of a later revision: nothing is
\* resubmitted automatically.
RepostOnlyAfterStop ==
    \A i, j \in DOMAIN batch :
        i < j /\ SameRange(batch[i], batch[j]) =>
            /\ batch[i].state \in {"failed", "partial"}
            /\ batch[i].revision < batch[j].revision

\* GPU time is charged before it can be spent: the saved reservation covers
\* every POST ever sent or about to be, and never exceeds the job's cap.
ReservedBeforePost ==
    /\ row.reserved <= MaxGpuSeconds
    /\ Timeout * (Len(batch) + Cardinality(refused)
                   + Cardinality({r \in Revisions : tick[r].pc = "post"}))
          <= row.reserved

\* A charge is never refunded, and no stale tick ever takes one back.
NeverRefunded ==
    [][row'.reserved >= row.reserved /\ row'.submissions >= row.submissions]_row

\* The search on several GPUs keeps what PaidSearch promises of GPU time, though
\* crashed, stale and reconciled ticks post beside each other.
Budget == INSTANCE PaidSearch WITH
    Cap <- MaxGpuSeconds \div Timeout, Gpus <- WorkersMax,
    charged <- row.reserved \div Timeout,
    requests <- Len(batch) + Cardinality(refused),
    running <- Cardinality({i \in DOMAIN batch : Live(i)})
KeepsBudget == Budget!Spec

\* No range is skipped: attempts below the cursor, and those kept as completed
\* above it, were each searched to their end, and every stage passed had a hit.
NoRangeSkipped ==
    /\ \A a \in 0..RangeSize : a < row.attempt \/ a \in row.completed =>
         \E i \in DOMAIN batch : SameRange(batch[i], [stage |-> row.stage, attempt |-> a])
                                 /\ batch[i].state = "none"
    /\ \A g \in 1..(row.stage - 1) :
         \E i \in DOMAIN batch : batch[i].stage = g /\ batch[i].state = "hit"

\* A result that was paid for is not lost: a finished chunk of the current stage
\* is credited, or still on the job for the next tick to read.
NoResultLost ==
    \A i \in DOMAIN batch :
        /\ batch[i].state \in {"hit", "none", "invalid", "unreadable"}
        /\ batch[i].stage = row.stage
        /\ row.status # "failed"
        => \/ Tracked(i)
           \/ /\ batch[i].state = "none"
              /\ batch[i].attempt < row.attempt \/ batch[i].attempt \in row.completed

\* Each finished chunk is metered exactly once, unless the job still holds it
\* for a tick to observe.
MeteredOnce ==
    row.usage = Cardinality({i \in DOMAIN batch :
        /\ ~Live(i)
        /\ \A s \in row.slots : s.id = i => s.metered
        /\ \A s \in row.slots : s.id = 0 => s.req # batch[i].req})

\* An unknown outcome never becomes a dead end, nor two at once: the one slot it
\* is about can be reconciled, or an operator's decision lets it be resumed.
UnknownHasRecourse ==
    /\ Cardinality(UnknownSlots) <= 1
    /\ "unknown" \in row.error =>
         row.status = "paused" /\ (Cardinality(UnknownSlots) = 1 \/ Reconciled(row))
    /\ Unknown(row) => row.status = "searching" \/ "unknown" \in row.error

\* docs/OPERATIONAL-RUNBOOK.md:98 "A user pause cancels them": once no execution
\* is left to cancel them, no chunk of a job its owner paused runs uncancelled.
UserPauseCancels ==
    row.status = "paused" /\ row.error = {} /\ tick[row.revision].pc = "closed" =>
        \A i \in DOMAIN batch : Live(i) => batch[i].cancelled

\* A search is never left running on its own: it ends, pauses or fails.
SearchSettles == row.status \in {"queued", "searching"}
                    ~> row.status \in {"paused"} \cup Terminal

\* A finished search stops every chunk it still runs and drops its slot.
TerminalDrains == row.status \in Terminal
                    ~> row.slots = {} /\ \A i \in DOMAIN batch : ~Live(i)
=============================================================================
