---------------------------- MODULE SingleSearch ----------------------------
(***************************************************************************)
(* The life of one withdrawal's search on a single GPU: its creation and   *)
(* the replay of its creation, the workflow executions started for it, the *)
(* coordinator's ticks (server/coordinator.ts) over the candidate ranges   *)
(* of server/search-ranges.ts, the owner's pause and resume (server/app.ts)*)
(* and the operator's reconciliation (server/reconcile-submission.ts).     *)
(*                                                                         *)
(* A tick reads the row, does one thing and saves it on condition that     *)
(* nobody wrote it since: tick[r].stale is raised by every other write.    *)
(* GPU time is counted in whole executions, each of which every POST       *)
(* reserves; an error text is the set of the reasons some guard looks for. *)
(***************************************************************************)
EXTENDS Integers, FiniteSets, Sequences

CONSTANTS
    SequenceTotal,  \* sequences of the pinning stage (2^31 in the code)
    SequenceChunk,  \* sequences of one pinning work unit (16)
    SubsetTotal,    \* subsets of a HORS round (C(150, 9))
    SubsetChunk,    \* subsets of one work unit of a round (2^34)
    MaxExecutions,  \* executions that maxJobGpuSeconds pays for
    MaxRevision,    \* bound on the job's revision
    MaxLostStarts,  \* bound on StartExecution calls that are lost
    Outcomes,       \* how a Batch job may end, as a tick sees it
    Crashes,        \* may executions die and responses be lost?
    Outages         \* may the deployment be off or its preparation fail?

AllOutcomes == {"hit", "none", "partial", "invalid", "overflow", "unreadable", "failed"}

ASSUME RangeAssumption ==
    /\ SequenceTotal \in Nat \ {0} /\ SequenceChunk \in Nat \ {0}
    /\ SubsetTotal \in Nat \ {0} /\ SubsetChunk \in Nat \ {0}
    /\ SequenceTotal % SequenceChunk = 0
ASSUME BoundAssumption ==
    /\ MaxExecutions \in Nat /\ MaxRevision \in Nat /\ MaxLostStarts \in Nat
    /\ Outcomes \subseteq AllOutcomes
    /\ Crashes \in BOOLEAN /\ Outages \in BOOLEAN

Revisions == 0..MaxRevision
Stages == {"pinning", "round1", "round2", "verification"}
SearchStages == Stages \ {"verification"}
NextStage == [pinning |-> "round1", round1 |-> "round2", round2 |-> "verification"]
Passed(stage) ==
    CASE stage = "pinning" -> {}
      [] stage = "round1" -> {"pinning"}
      [] stage = "round2" -> {"pinning", "round1"}
      [] stage = "verification" -> SearchStages

(***************************************************************************)
(* Work ranges.  A stage is cut into units of one size; the last unit of a *)
(* round is what is left, and asking for the one after it throws.          *)
(***************************************************************************)
Total(stage) == IF stage = "pinning" THEN SequenceTotal ELSE SubsetTotal
Chunk(stage) == IF stage = "pinning" THEN SequenceChunk ELSE SubsetChunk
Start(stage, attempt) == attempt * Chunk(stage)
HasWholeRange(stage, attempt) == Start(stage, attempt) + Chunk(stage) <= Total(stage)
HasRange(stage, attempt) == Start(stage, attempt) < Total(stage)
Count(stage, attempt) ==
    IF Total(stage) - Start(stage, attempt) < Chunk(stage)
    THEN Total(stage) - Start(stage, attempt) ELSE Chunk(stage)
WorkRange(stage, attempt) ==
    {c \in 0..(Total(stage) - 1) :
        /\ c >= Start(stage, attempt)
        /\ c < Start(stage, attempt) + Count(stage, attempt)}

Reasons == {"unknown", "review", "exhausted", "other"}
Statuses == {"queued", "searching", "paused", "failed", "awaiting_authorization"}
Terminal == {"failed", "awaiting_authorization"}

\* id is the Batch job the search waits for, 0 when it has none; request names
\* the last submission that was saved.
Job == [status : Statuses \cup {"absent"}, error : SUBSET Reasons,
        revision : Revisions, stage : Stages, attempt : Nat,
        id : Nat, request : 0..MaxExecutions, reserved : 0..MaxExecutions, retryRequested : BOOLEAN,
        oneSubmissionAllowed : BOOLEAN, notSubmittedAt : Nat]

BatchState == AllOutcomes \cup {"live"}
BatchJob == [request : Nat, stage : SearchStages, attempt : Nat,
             state : BatchState, cancelled : BOOLEAN]

VARIABLES
    row,        \* the JOB# row's job; status "absent" before its creation
    starts,     \* revisions whose StartExecution call is under way
    lost,       \* how many of those calls were lost
    started,    \* revisions whose execution name was used
    tick,       \* revision -> its execution
    batch,      \* every job AWS Batch accepted, in order
    refused     \* requests AWS Batch turned down

vars == <<row, starts, lost, started, tick, batch, refused>>

\* An execution waits for its next tick, is inside one, has finished ("closed"),
\* or has ended as NeedsOperatorAttention ("failed").
Tick == [pc : {"closed", "failed", "wait", "drain", "poll", "fill", "post", "sent"},
         stale : BOOLEAN, job : Job, id : Nat]

NewJob == [status |-> "queued", error |-> {}, revision |-> 0,
           stage |-> "pinning", attempt |-> 0, id |-> 0, request |-> 0,
           reserved |-> 0, retryRequested |-> FALSE,
           oneSubmissionAllowed |-> FALSE, notSubmittedAt |-> 0]
NoJob == [NewJob EXCEPT !.status = "absent"]

At(pc) == [pc |-> pc, stale |-> FALSE, job |-> NoJob, id |-> 0]

Init ==
    /\ row = NoJob
    /\ starts = {} /\ lost = 0 /\ started = {}
    /\ tick = [r \in Revisions |-> At("closed")]
    /\ batch = <<>> /\ refused = {}

TypeOK ==
    /\ row \in Job
    /\ starts \subseteq Revisions /\ lost \in Nat /\ started \subseteq Revisions
    /\ tick \in [Revisions -> Tick]
    /\ batch \in Seq(BatchJob) /\ refused \subseteq Nat

Live(i) == batch[i].state = "live"

(***************************************************************************)
(* Creation, its replay, and the start of an execution.  An execution is   *)
(* named after its job and revision, so a second start of it is ignored.   *)
(***************************************************************************)
CreateJob ==
    /\ row.status = "absent"
    /\ row' = NewJob
    /\ starts' = {0}
    /\ UNCHANGED <<lost, started, tick, batch, refused>>

\* The same manifest again: the job is answered as it is, and a queued one is
\* started once more under the revision that was read.
RestartableNever(job) == FALSE
Restartable(job) == job.status = "queued"
ReplayCreation ==
    /\ Restartable(row)
    /\ row.revision \notin starts
    /\ starts' = starts \cup {row.revision}
    /\ UNCHANGED <<row, lost, started, tick, batch, refused>>

StartExecution(r) ==
    /\ r \in starts
    /\ starts' = starts \ {r} /\ started' = started \cup {r}
    /\ tick' = IF r \in started THEN tick ELSE [tick EXCEPT ![r] = At("wait")]
    /\ UNCHANGED <<row, lost, batch, refused>>

\* The request dies before the call, or the call fails.
StartLost(r) ==
    /\ r \in starts /\ lost < MaxLostStarts
    /\ starts' = starts \ {r} /\ lost' = lost + 1
    /\ UNCHANGED <<row, started, tick, batch, refused>>

(***************************************************************************)
(* Saving the row.                                                         *)
(***************************************************************************)
\* A tick whose next effect is a save can only fail once the row changed.
Staled(t) ==
    IF t.pc \in {"poll", "fill", "sent"} THEN At("failed")
    ELSE IF t.pc = "post" THEN [t EXCEPT !.stale = TRUE]
    ELSE t
OthersStale == [r \in Revisions |-> Staled(tick[r])]

Continue(r, t) == tick' = [tick EXCEPT ![r] = t]
Save(r, job, t) ==
    /\ ~tick[r].stale
    /\ row' = job
    /\ tick' = [OthersStale EXCEPT ![r] = t]
    /\ UNCHANGED <<starts, lost, started>>
Keep == UNCHANGED <<row, starts, lost, started>>

Unknown(job) == job.status = "searching" /\ job.id = 0
Pause(job, reasons) == [job EXCEPT !.status = "paused", !.error = reasons]

\* A job that has more to do keeps its execution; any other ends it.
After(job) == At(IF job.status \in {"paused"} \cup Terminal THEN "closed" ELSE "wait")

(***************************************************************************)
(* The start of a tick.  Two of the code's branches are not here, since no *)
(* tick gets to them: one that reads a POST without an ID (coordinator.ts, *)
(* line 198) would be of the execution that died in that POST, and one     *)
(* that finds no range left (line 234) would follow a unit that NextUnit   *)
(* did not allow.                                                          *)
(***************************************************************************)
\* Another revision took over, or the search is over.
ReadDone(r) ==
    /\ tick[r].pc = "wait"
    /\ row.revision # r \/ row.status \in Terminal
    /\ Continue(r, At("closed"))
    /\ Keep /\ UNCHANGED <<batch, refused>>

Reads(r) == tick[r].pc = "wait" /\ row.revision = r /\ row.status \notin Terminal

\* Disabled, not allowed, or not configured: pause, but first keep an uncertain
\* POST from looking like work that was never submitted.
Disabled(job) ==
    [job EXCEPT !.status = "paused",
                !.error = @ \cup {"other"} \cup (IF Unknown(job) THEN {"unknown"} ELSE {}),
                !.oneSubmissionAllowed = @ /\ ~Unknown(job)]
ReadOff(r) ==
    /\ Outages /\ Reads(r)
    /\ Save(r, Disabled(row), At("closed"))
    /\ UNCHANGED <<batch, refused>>

\* Paused: stop the Batch job if there is one.
ReadPaused(r) ==
    /\ Reads(r) /\ row.status = "paused"
    /\ Continue(r, IF row.id = 0 THEN At("closed") ELSE [At("drain") EXCEPT !.id = row.id])
    /\ Keep /\ UNCHANGED <<batch, refused>>

Drain(r) ==
    LET i == tick[r].id IN
    /\ tick[r].pc = "drain"
    /\ IF Live(i)
       THEN /\ batch' = [batch EXCEPT ![i].cancelled = TRUE]
            /\ Continue(r, At("wait"))
       ELSE /\ Continue(r, At("closed"))
            /\ UNCHANGED batch
    /\ Keep /\ UNCHANGED refused

\* A resumed job that still owns a Batch job polls it, in a save of its own.
ReadPolling(r) ==
    LET job == [row EXCEPT !.status = "searching"] IN
    /\ Reads(r) /\ row.status \in {"queued", "searching"} /\ row.id # 0
    /\ row' = job
    /\ tick' = [(IF job = row THEN tick ELSE OthersStale) EXCEPT
                  ![r] = [At("poll") EXCEPT !.job = job]]
    /\ UNCHANGED <<starts, lost, started, batch, refused>>

ReadFill(r) ==
    /\ Reads(r) /\ row.status = "queued" /\ row.id = 0
    /\ Continue(r, [At("fill") EXCEPT !.job = row])
    /\ Keep /\ UNCHANGED <<batch, refused>>

(***************************************************************************)
(* A new submission.                                                       *)
(***************************************************************************)
Exceeds(job) == job.reserved + 1 > MaxExecutions

\* The withdrawal's cap, or the owner's budget that its other jobs share.
FillRefused(r) ==
    LET job == tick[r].job IN
    /\ tick[r].pc = "fill"
    /\ Exceeds(job) \/ Outages
    /\ Save(r, Pause(job, {"other"}), At("closed"))
    /\ UNCHANGED <<batch, refused>>

\* The solver, the Batch environment or the upload of the input is unconfirmed.
PrepareFails(r) ==
    LET job == tick[r].job IN
    /\ Outages
    /\ tick[r].pc = "fill" /\ ~Exceeds(job)
    /\ HasRange(job.stage, job.attempt)
    /\ Save(r, Pause(job, {"other"}), At("closed"))
    /\ UNCHANGED <<batch, refused>>

\* The charge and the never-resubmit marker share one write, before the POST.
ReservedAfter(job) ==
    [job EXCEPT !.status = "searching",
                !.request = job.reserved + 1, !.retryRequested = FALSE,
                !.oneSubmissionAllowed = FALSE]
Reserved(job) ==
    [job EXCEPT !.status = "searching", !.reserved = @ + 1,
                !.request = job.reserved + 1, !.retryRequested = FALSE,
                !.oneSubmissionAllowed = FALSE]
Reserve(r) ==
    LET job == tick[r].job IN
    /\ tick[r].pc = "fill" /\ ~Exceeds(job)
    /\ HasRange(job.stage, job.attempt)
    /\ Save(r, Reserved(job), [At("post") EXCEPT !.job = Reserved(job)])
    /\ UNCHANGED <<batch, refused>>

Submission(job) ==
    [request |-> job.request, stage |-> job.stage, attempt |-> job.attempt,
     state |-> "live", cancelled |-> FALSE]

PostAccepted(r) ==
    /\ tick[r].pc = "post"
    /\ batch' = Append(batch, Submission(tick[r].job))
    /\ Continue(r, IF tick[r].stale THEN At("failed")
                   ELSE [tick[r] EXCEPT !.pc = "sent", !.id = Len(batch) + 1])
    /\ Keep /\ UNCHANGED refused

\* Accepted, but the answer is lost.
PostLost(r) ==
    /\ Crashes
    /\ tick[r].pc = "post"
    /\ batch' = Append(batch, Submission(tick[r].job))
    /\ Continue(r, At("failed"))
    /\ Keep /\ UNCHANGED refused

PostRefused(r) ==
    /\ Crashes
    /\ tick[r].pc = "post"
    /\ refused' = refused \cup {tick[r].job.request}
    /\ Continue(r, At("failed"))
    /\ Keep /\ UNCHANGED batch

RecordId(r) ==
    /\ tick[r].pc = "sent"
    /\ Save(r, [tick[r].job EXCEPT !.id = tick[r].id], At("wait"))
    /\ UNCHANGED <<batch, refused>>

(***************************************************************************)
(* Polling a submission.  Every answer ends in a save of the job.          *)
(***************************************************************************)
Polled(r) == batch[tick[r].job.id].state
PollSaves(r, job) ==
    /\ Save(r, job, After(job))
    /\ UNCHANGED <<batch, refused>>

PollRunning(r) ==
    /\ tick[r].pc = "poll" /\ Polled(r) = "live"
    /\ PollSaves(r, tick[r].job)

\* A resume allowed one repetition of a unit that stopped; without it the job
\* waits for one.
Requeued(job) == [job EXCEPT !.status = "queued", !.id = 0, !.retryRequested = FALSE]
Stopped(job) == IF job.retryRequested THEN Requeued(job) ELSE Pause(job, {"other"})
PollStopped(r) ==
    /\ tick[r].pc = "poll" /\ Polled(r) \in {"failed", "partial"}
    /\ PollSaves(r, Stopped(tick[r].job))

\* The output is not there, malformed, or of another unit; or the verified
\* candidate lies outside the unit.  The tick throws.
PollUnreadable(r) ==
    /\ tick[r].pc = "poll" /\ Polled(r) = "unreadable"
    /\ Continue(r, At("failed"))
    /\ Keep /\ UNCHANGED <<batch, refused>>

PollOverflow(r) ==
    /\ tick[r].pc = "poll" /\ Polled(r) = "overflow"
    /\ PollSaves(r, [tick[r].job EXCEPT !.status = "failed", !.retryRequested = FALSE])

VerifiedHit(job) ==
    [job EXCEPT !.stage = NextStage[job.stage], !.attempt = 0, !.id = 0,
                !.retryRequested = FALSE,
                !.status = IF job.stage = "round2" THEN "awaiting_authorization" ELSE "queued"]
PollHit(r) ==
    /\ tick[r].pc = "poll" /\ Polled(r) = "hit"
    /\ PollSaves(r, VerifiedHit(tick[r].job))

PollInvalid(r) ==
    /\ tick[r].pc = "poll" /\ Polled(r) = "invalid"
    /\ PollSaves(r, Pause(tick[r].job, {"review"}))

\* A completed unit without a hit: go on to the next one, if there is one.
NextUnit(job) ==
    LET next == [job EXCEPT !.attempt = @ + 1, !.id = 0, !.retryRequested = FALSE]
    IN  IF HasRange(next.stage, next.attempt)
        THEN [next EXCEPT !.status = "queued"] ELSE Pause(next, {"exhausted"})
PollNone(r) ==
    /\ tick[r].pc = "poll" /\ Polled(r) = "none"
    /\ PollSaves(r, NextUnit(tick[r].job))

\* The execution dies, or an external read of its tick throws.
Crash(r) ==
    /\ Crashes
    /\ tick[r].pc \notin {"closed", "failed"}
    /\ Continue(r, At("failed"))
    /\ Keep /\ UNCHANGED <<batch, refused>>

(***************************************************************************)
(* The owner and the operator.                                             *)
(***************************************************************************)
PauseError(job) == IF Unknown(job) THEN {"unknown"} ELSE job.error
PauseJob ==
    /\ row.status \in {"searching", "queued"}
    /\ row' = Pause(row, PauseError(row))
    /\ tick' = OthersStale
    /\ UNCHANGED <<starts, lost, started, batch, refused>>

\* Save job as the next revision, and start its execution when start holds.
NextRevision(job, start) ==
    /\ row.revision < MaxRevision
    /\ row' = [job EXCEPT !.revision = row.revision + 1]
    /\ starts' = IF start THEN starts \cup {row.revision + 1} ELSE starts
    /\ tick' = OthersStale
    /\ UNCHANGED <<lost, started, batch, refused>>

Reconciled(job) == job.oneSubmissionAllowed /\ job.notSubmittedAt = job.revision
Resumable(job) ==
    /\ job.status = "paused"
    /\ "unknown" \in job.error => Reconciled(job)
    /\ job.error \cap {"exhausted", "review"} = {}
ResumeJob ==
    /\ Resumable(row)
    /\ NextRevision([row EXCEPT !.status = "queued", !.retryRequested = TRUE,
                                !.error = {}, !.oneSubmissionAllowed = FALSE],
                    TRUE)

UnknownSubmission ==
    /\ row.status = "paused" /\ row.id = 0 /\ "unknown" \in row.error
    /\ ~row.oneSubmissionAllowed

\* The saved request is found as Batch job i.
AttachId(i) ==
    /\ UnknownSubmission
    /\ batch[i].request = row.request /\ batch[i].state # "unreadable"
    /\ NextRevision([row EXCEPT !.id = i, !.status = "searching", !.error = {},
                                !.retryRequested = FALSE, !.notSubmittedAt = 0],
                    TRUE)

\* The ID is recorded already: its polling is started anew.
RestartPolling(i) ==
    /\ row.status = "searching" /\ row.id = i /\ ~row.oneSubmissionAllowed
    /\ batch[i].state # "unreadable"
    /\ NextRevision([row EXCEPT !.notSubmittedAt = 0], TRUE)

NothingFound(q) == \A i \in DOMAIN batch : batch[i].request # q

\* Thirty-five minutes after the request was saved no tick is left that could
\* still send it, and discovery by its exact name finds nothing.
WindowElapsed(q) ==
    /\ \A r \in Revisions : ~(tick[r].pc \in {"post", "sent"} /\ tick[r].job.request = q)
    /\ \A i \in DOMAIN batch : batch[i].request # q

Drained == \A i \in DOMAIN batch : ~Live(i)

DeclareNotSubmitted ==
    /\ UnknownSubmission
    /\ row.request \in refused \/ WindowElapsed(row.request)
    /\ Drained
    /\ NextRevision([row EXCEPT !.oneSubmissionAllowed = TRUE, !.retryRequested = FALSE,
                                !.notSubmittedAt = row.revision + 1],
                    FALSE)

\* AWS Batch ends every job; a cancelled one fails.
BatchEnds(i) ==
    /\ Live(i)
    /\ \E outcome \in Outcomes \cup {"failed"} :
        /\ outcome \in Outcomes \/ batch[i].cancelled
        /\ batch' = [batch EXCEPT ![i].state = outcome]
    /\ UNCHANGED <<row, starts, lost, started, tick, refused>>

Work(r) ==
    \/ ReadDone(r) \/ ReadOff(r) \/ ReadPaused(r) \/ Drain(r) \/ ReadPolling(r)
    \/ ReadFill(r) \/ FillRefused(r) \/ PrepareFails(r) \/ Reserve(r)
    \/ PostAccepted(r) \/ RecordId(r)
    \/ PollRunning(r) \/ PollStopped(r) \/ PollUnreadable(r) \/ PollOverflow(r)
    \/ PollHit(r) \/ PollInvalid(r) \/ PollNone(r)

Next ==
    \/ CreateJob \/ ReplayCreation
    \/ \E r \in Revisions :
         StartExecution(r) \/ StartLost(r) \/ Work(r) \/ PostLost(r) \/ PostRefused(r)
         \/ Crash(r)
    \/ PauseJob \/ ResumeJob \/ DeclareNotSubmitted
    \/ \E i \in DOMAIN batch : AttachId(i) \/ RestartPolling(i) \/ BatchEnds(i)

Spec == Init /\ [][Next]_vars

\* Step Functions runs a started execution on, AWS Batch ends its jobs, and the
\* client repeats its request until its queued withdrawal has an execution.
Fairness ==
    /\ WF_vars(ReplayCreation)
    /\ \A r \in Revisions : WF_vars(StartExecution(r)) /\ WF_vars(Work(r))
    /\ \A i \in 1..MaxExecutions : WF_vars(i \in DOMAIN batch /\ BatchEnds(i))

FairSpec == Spec /\ Fairness

(***************************************************************************)
(* What must hold.                                                         *)
(***************************************************************************)
\* No candidate is skipped (server/search-ranges.ts, coordinator.ts): each one
\* below the cursor was in a unit that was searched to its end without a hit,
\* however short the last unit is; a stage said to be exhausted was searched
\* whole, and a stage left behind was left with a hit.
Searched(stage, c) ==
    \E i \in DOMAIN batch :
        /\ batch[i].stage = stage /\ batch[i].state = "none"
        /\ c \in WorkRange(stage, batch[i].attempt)
NoCandidateSkipped ==
    /\ row.stage # "verification" =>
         \A c \in 0..(Total(row.stage) - 1) :
            c < Start(row.stage, row.attempt) \/ "exhausted" \in row.error =>
                Searched(row.stage, c)
    /\ \A g \in Passed(row.stage) :
         \E i \in DOMAIN batch : batch[i].stage = g /\ batch[i].state = "hit"

\* A request whose outcome was never learned is neither sent again nor followed
\* by another while it may run (coordinator.ts:199): a later request is made
\* only when every earlier Batch job was seen to end.
Settled == \A i, j \in DOMAIN batch : i < j => ~Live(i)
RunsOnRecord ==
    /\ Settled
    /\ \A i \in DOMAIN batch : Live(i) => row.id = i \/ (row.id = 0 /\ row.request = batch[i].request)

\* The search on one GPU keeps what PaidSearch promises.
Budget == INSTANCE PaidSearch WITH
    Cap <- MaxExecutions, Gpus <- 1, charged <- row.reserved,
    requests <- Len(batch) + Cardinality(refused),
    running <- Cardinality({i \in DOMAIN batch : Live(i)})
KeepsBudget == Budget!Spec

\* A withdrawal never stalls in silence, though the start of its execution may
\* be lost (app.ts:1100): it pauses or ends, or its execution ends as
\* NeedsOperatorAttention, or an operator was told that polling did not start.
Told == row.status = "searching" /\ row.revision \notin started \cup starts
NeverStallsSilently ==
    row.status \in {"queued", "searching"} ~>
        \/ row.status \in {"paused"} \cup Terminal
        \/ tick[row.revision].pc = "failed"
        \/ Told
=============================================================================
