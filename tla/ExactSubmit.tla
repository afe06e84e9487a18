---------------------------- MODULE ExactSubmit -----------------------------
(***************************************************************************)
(* Submitting a solved, signed withdrawal (server/submit-exact.ts) and     *)
(* observing what became of it: the transaction and job status routes      *)
(* (server/app.ts) and the operator's reconciliation                       *)
(* (server/withdrawal-reconciliation.ts), for one withdrawal.              *)
(*                                                                         *)
(* Every save is conditional on the version of the row it read; versions   *)
(* only grow, so whether a row still has it is a flag that whoever writes  *)
(* the row raises.  A request that finds an intent, or fails a check, has  *)
(* no effect: it is a submission that never begins, or is refused.         *)
(***************************************************************************)
EXTENDS Integers, Sequences

CONSTANTS
    Calls,          \* concurrent submission requests
    Polls,          \* concurrent observers
    Raws,           \* signed transactions that match the stored job's spend
    Txids,
    TxidOf,         \* witnesses do not count: several raws may share one txid
    None,
    MaxMerge,       \* conditional saves of the POST's outcome (the code tries 5)
    Crashes         \* may requests die half-way?

ASSUME SubmitAssumption ==
    /\ TxidOf \in [Raws -> Txids]
    /\ None \notin Raws \cup Txids
    /\ MaxMerge \in Nat \ {0}
    /\ Crashes \in BOOLEAN

Job == [status : {"awaiting_authorization", "submitted", "confirmed"},
        txid : Txids \cup {None}]

\* A TX# row: the exact bytes, what was last learnt of them, and whether the
\* miner's acknowledgement was recorded.
NoIntent == [raw |-> None, status |-> "none", ack |-> FALSE]
Intent == [raw : Raws, status : {"uncertain", "submitted", "conflict", "confirmed"},
           ack : BOOLEAN]

\* What the chain provider tells of the vault's outpoint: who spends it, nobody, the
\* withdrawal (unconfirmed or mined) or a transaction that contradicts it, or
\* nothing.  The owner holds the signed bytes, the miner may, and blocks are
\* reorganized: any answer may follow any other.
Views == {"nobody", "pending", "mined", "foreign", "unavailable"}

VARIABLES
    job,        \* the JOB# row
    tx,         \* txid -> its TX# row
    vault,      \* the VAULT# row's status
    posts,      \* what was POSTed to the miner, in order
    call,       \* the submission requests
    poll        \* the observers

vars == <<job, tx, vault, posts, call, poll>>

Call == [pc : {"idle", "check", "intend", "post", "merge", "save"},
         raw : Raws \cup {None}, stale : BOOLEAN, ack : BOOLEAN, tries : 0..MaxMerge]
Poll == [pc : {"idle", "intent", "observe", "save", "downgrade"},
         by : {"transaction", "job", "operator"},
         was : {"submitted", "confirmed"},
         intent : Intent \cup {NoIntent}, jobStale : BOOLEAN, txStale : BOOLEAN, view : Views]

IdleCall == [pc |-> "idle", raw |-> None, stale |-> FALSE, ack |-> FALSE, tries |-> 0]
IdlePoll == [pc |-> "idle", by |-> "job", was |-> "submitted", intent |-> NoIntent,
             jobStale |-> FALSE, txStale |-> FALSE, view |-> "nobody"]

TypeOK ==
    /\ job \in Job
    /\ tx \in [Txids -> Intent \cup {NoIntent}]
    /\ vault \in {"confirmed", "spent"}
    /\ posts \in Seq(Raws)
    /\ call \in [Calls -> Call]
    /\ poll \in [Polls -> Poll]

\* The search has verified its last hit; the vault's deposit is unspent.
Init ==
    /\ job = [status |-> "awaiting_authorization", txid |-> None]
    /\ tx = [t \in Txids |-> NoIntent]
    /\ vault = "confirmed"
    /\ posts = <<>>
    /\ call = [c \in Calls |-> IdleCall]
    /\ poll = [p \in Polls |-> IdlePoll]

(***************************************************************************)
(* Conditional saves.  Writing the job row fails the submissions and polls *)
(* that have read it and will save it; writing a TX# row, the merges and   *)
(* polls that have read that.                                              *)
(***************************************************************************)
SavesTx(k) == k.by # "job" \/ k.view # "mined"
SavesJob(k) ==
    \/ k.by = "job" /\ k.view = "mined"
    \/ k.by = "operator" /\ k.view # "unavailable"

NeverOvertaken(k) == k
\* A submission that has read the job can now only be refused.
Overtaken(k) == IF k.pc \in {"check", "intend"} THEN IdleCall ELSE k
\* One that merges can read the TX# row again.
MergeStale(k) == IF k.pc = "save" THEN [k EXCEPT !.stale = TRUE] ELSE k

\* A poll fails once its save can only be refused.  Saving a job's confirmation
\* needs the job row alone, the other saves of the job's route the TX# row.
JobStale(k) ==
    IF k.by = "transaction" \/ k.pc = "idle" THEN k
    ELSE IF k.pc = "downgrade" \/ (k.pc = "save" /\ SavesJob(k)) THEN IdlePoll
    ELSE [k EXCEPT !.jobStale = TRUE]

TxStale(k) ==
    IF k.pc = "save" /\ SavesTx(k) THEN IdlePoll
    ELSE IF k.pc = "observe" THEN [k EXCEPT !.txStale = TRUE, !.intent = NoIntent]
    ELSE k

OvertakenCalls == [c \in Calls |-> Overtaken(call[c])]
MergeStaleCalls == [c \in Calls |-> MergeStale(call[c])]
JobStalePolls == [p \in Polls |-> JobStale(poll[p])]
TxStalePolls == [p \in Polls |-> TxStale(poll[p])]

Known(t) == tx[t].status # "none"
Idle(c) == [call EXCEPT ![c] = IdleCall]

(***************************************************************************)
(* submitExact.                                                            *)
(***************************************************************************)
\* The job is read and carries no intent yet.
Begin(c, raw) ==
    /\ call[c].pc = "idle"
    /\ job.txid = None
    /\ call' = [call EXCEPT ![c] = [IdleCall EXCEPT !.pc = "check", !.raw = raw]]
    /\ UNCHANGED <<job, tx, vault, posts, poll>>

\* No intent has these bytes' txid; both inputs are unspent; Core accepts the
\* transaction; the miner's credential was read.
Check(c) ==
    /\ call[c].pc = "check"
    /\ ~Known(TxidOf[call[c].raw])
    /\ call' = [call EXCEPT ![c].pc = "intend"]
    /\ UNCHANGED <<job, tx, vault, posts, poll>>

\* A check failed: the caller gets an error.
Refuse(c) ==
    /\ call[c].pc = "check"
    /\ call' = Idle(c)
    /\ UNCHANGED <<job, tx, vault, posts, poll>>

\* One transaction: the intent, "uncertain" until somebody learns more, and the
\* job's move to "submitted", conditional on the job and vault as read.
Intend(c) ==
    /\ call[c].pc = "intend"
    /\ ~Known(TxidOf[call[c].raw])
    /\ tx' = [tx EXCEPT ![TxidOf[call[c].raw]] =
                [raw |-> call[c].raw, status |-> "uncertain", ack |-> FALSE]]
    /\ job' = [status |-> "submitted", txid |-> TxidOf[call[c].raw]]
    /\ call' = [OvertakenCalls EXCEPT ![c] = [call[c] EXCEPT !.pc = "post"]]
    /\ poll' = JobStalePolls
    /\ UNCHANGED <<vault, posts>>

\* The one POST.  Whatever it answers, it is not sent again.
Post(c) ==
    /\ call[c].pc = "post"
    /\ posts' = Append(posts, call[c].raw)
    /\ \E ack \in BOOLEAN : call' = [call EXCEPT ![c].pc = "merge", ![c].ack = ack]
    /\ UNCHANGED <<job, tx, vault, poll>>

\* A switch was turned off, or the request failed before anything was sent.
PostNothing(c) ==
    /\ call[c].pc = "post"
    /\ call' = [call EXCEPT ![c].pc = "merge"]
    /\ UNCHANGED <<job, tx, vault, posts, poll>>

MergeRead(c) ==
    /\ call[c].pc = "merge"
    /\ call' = [call EXCEPT ![c].pc = "save", ![c].stale = FALSE]
    /\ UNCHANGED <<job, tx, vault, posts, poll>>

\* The acknowledgement is merged into whatever the row has become.
MergedOverVerdict(current, ack) ==
    [current EXCEPT !.status = IF ack THEN "submitted" ELSE @, !.ack = @ \/ ack]
Merged(current, ack) ==
    [current EXCEPT !.status = IF ack /\ @ \notin {"confirmed", "conflict"}
                               THEN "submitted" ELSE @,
                    !.ack = @ \/ ack]

MergeSave(c) ==
    /\ call[c].pc = "save" /\ ~call[c].stale
    /\ tx' = [tx EXCEPT ![TxidOf[call[c].raw]] = Merged(@, call[c].ack)]
    /\ call' = [MergeStaleCalls EXCEPT ![c] = IdleCall]
    /\ poll' = TxStalePolls
    /\ UNCHANGED <<job, vault, posts>>

\* Somebody saved the row first: read it again, a bounded number of times.  The
\* intent stays as it is when every attempt lost.
AfterConflictForever(k) == [k EXCEPT !.pc = "merge"]
AfterConflictPosting(k) == [k EXCEPT !.pc = "post"]
AfterConflict(k) ==
    IF k.tries + 1 < MaxMerge THEN [k EXCEPT !.pc = "merge", !.tries = @ + 1] ELSE IdleCall

MergeConflict(c) ==
    /\ call[c].pc = "save" /\ call[c].stale
    /\ call' = [call EXCEPT ![c] = AfterConflict(@)]
    /\ UNCHANGED <<job, tx, vault, posts, poll>>

\* The Lambda times out or dies; its caller may ask again.
Die(c) ==
    /\ Crashes
    /\ call[c].pc # "idle"
    /\ call' = Idle(c)
    /\ UNCHANGED <<job, tx, vault, posts, poll>>

(***************************************************************************)
(* Observing the withdrawal.  The chain is asked between reading the rows  *)
(* and saving them.                                                        *)
(***************************************************************************)
PollJob(p, by) ==
    /\ poll[p].pc = "idle"
    /\ by \in {"job", "operator"}
    /\ job.txid # None
    /\ poll' = [poll EXCEPT ![p] =
                  [IdlePoll EXCEPT !.pc = "intent", !.by = by,
                                   !.was = IF by = "job" THEN job.status ELSE @]]
    /\ UNCHANGED <<job, tx, vault, posts, call>>

\* The TX# row is read: by its txid, or as the job's.
PollIntent(p) ==
    /\ \/ poll[p].pc = "intent"
          /\ poll' = [poll EXCEPT ![p].pc = "observe", ![p].intent = tx[job.txid]]
       \/ poll[p].pc = "idle"
          /\ job.txid # None
          /\ poll' = [poll EXCEPT ![p] =
                [IdlePoll EXCEPT !.pc = "observe", !.by = "transaction",
                                 !.intent = tx[job.txid]]]
    /\ UNCHANGED <<job, tx, vault, posts, call>>

\* withdrawalInclusion follows the funding outpoint, not the txid.
Answered(k, view) == [k EXCEPT !.pc = "save", !.view = view]

PollChain(p) ==
    /\ poll[p].pc = "observe"
    /\ \E view \in Views :
         LET k == Answered(poll[p], view)
         IN  poll' = [poll EXCEPT ![p] =
                IF (k.txStale /\ SavesTx(k)) \/ (k.jobStale /\ SavesJob(k)) THEN IdlePoll
                ELSE IF SavesTx(k) THEN k
                ELSE [k EXCEPT !.txStale = FALSE, !.intent = NoIntent]]
    /\ UNCHANGED <<job, tx, vault, posts, call>>

\* observeWithdrawal: what an answer of the chain says about an intent.
ObservedUnacked(k) ==
    CASE k.view = "foreign" -> "conflict"
      [] k.view = "mined" -> "confirmed"
      [] k.view = "pending" -> "submitted"
      [] k.view = "nobody" -> "uncertain"
Observed(k) ==
    CASE k.view = "foreign" -> "conflict"
      [] k.view = "mined" -> "confirmed"
      [] k.view = "pending" -> "submitted"
      [] k.view = "nobody" -> IF k.intent.ack THEN "submitted" ELSE "uncertain"

\* Only the version moves when the chain is unavailable; otherwise the row is
\* saved as it was read, with what was observed.
SaveTx(p) ==
    tx' = IF poll[p].view = "unavailable" THEN tx
          ELSE [tx EXCEPT ![job.txid] = [poll[p].intent EXCEPT !.status = Observed(poll[p])]]

\* GET /api/transactions/:id/status
SaveTransaction(p) ==
    /\ poll[p].pc = "save" /\ poll[p].by = "transaction"
    /\ SaveTx(p)
    /\ call' = MergeStaleCalls
    /\ poll' = [TxStalePolls EXCEPT ![p] = IdlePoll]
    /\ UNCHANGED <<job, vault, posts>>

\* GET /api/jobs/:id/status, not confirmed: the TX# row first, then, in a save of
\* its own, a job that was confirmed.
SaveUnconfirmed(p) ==
    /\ poll[p].pc = "save" /\ poll[p].by = "job" /\ poll[p].view # "mined"
    /\ SaveTx(p)
    /\ call' = MergeStaleCalls
    /\ poll' = [TxStalePolls EXCEPT ![p] =
                  IF /\ poll[p].was = "confirmed" /\ poll[p].view # "unavailable"
                     /\ ~poll[p].jobStale
                  THEN [IdlePoll EXCEPT !.pc = "downgrade"] ELSE IdlePoll]
    /\ UNCHANGED <<job, vault, posts>>

SaveDowngrade(p) ==
    /\ poll[p].pc = "downgrade"
    /\ job' = [job EXCEPT !.status = "submitted"]
    /\ call' = OvertakenCalls
    /\ poll' = [JobStalePolls EXCEPT ![p] = IdlePoll]
    /\ UNCHANGED <<tx, vault, posts>>

\* The same route, confirmed: the job and its vault, not the TX# row.
SaveConfirmed(p) ==
    /\ poll[p].pc = "save" /\ poll[p].by = "job" /\ poll[p].view = "mined"
    /\ job' = [job EXCEPT !.status = "confirmed"]
    /\ vault' = "spent"
    /\ call' = OvertakenCalls
    /\ poll' = [JobStalePolls EXCEPT ![p] = IdlePoll]
    /\ UNCHANGED <<tx, posts>>

\* The operator's command, when the chain is unavailable.
SaveChecked(p) ==
    /\ poll[p].pc = "save" /\ poll[p].by = "operator" /\ poll[p].view = "unavailable"
    /\ SaveTx(p)
    /\ call' = MergeStaleCalls
    /\ poll' = [TxStalePolls EXCEPT ![p] = IdlePoll]
    /\ UNCHANGED <<job, vault, posts>>

\* The operator's receipt: both rows in one transaction, never the vault.
SaveReceipt(p) ==
    /\ poll[p].pc = "save" /\ poll[p].by = "operator" /\ poll[p].view # "unavailable"
    /\ SaveTx(p)
    /\ job' = [job EXCEPT !.status = IF poll[p].view = "mined" THEN "confirmed" ELSE "submitted"]
    /\ call' = [c \in Calls |-> Overtaken(MergeStale(call[c]))]
    /\ poll' = [q \in Polls |-> IF q = p THEN IdlePoll ELSE JobStale(TxStale(poll[q]))]
    /\ UNCHANGED <<vault, posts>>

\* The request dies.
PollDies(p) ==
    /\ Crashes
    /\ poll[p].pc # "idle"
    /\ poll' = [poll EXCEPT ![p] = IdlePoll]
    /\ UNCHANGED <<job, tx, vault, posts, call>>

(***************************************************************************)
(* Everything else.                                                        *)
(***************************************************************************)
\* The coordinator drains the finished search's chunks, or the owner looks at
\* the deposit: the job or vault row gets a new version.
Touched ==
    /\ call' = OvertakenCalls
    /\ poll' = JobStalePolls
    /\ UNCHANGED <<job, tx, vault, posts>>

Submission(c) ==
    \/ Check(c) \/ Refuse(c) \/ Intend(c) \/ Post(c) \/ PostNothing(c)
    \/ MergeRead(c) \/ MergeSave(c) \/ MergeConflict(c)

Observation(p) ==
    \/ PollIntent(p) \/ PollChain(p)
    \/ SaveTransaction(p) \/ SaveUnconfirmed(p) \/ SaveDowngrade(p)
    \/ SaveConfirmed(p) \/ SaveChecked(p) \/ SaveReceipt(p) \/ PollDies(p)

Next ==
    \/ \E c \in Calls : Submission(c) \/ Die(c) \/ \E raw \in Raws : Begin(c, raw)
    \/ \E p \in Polls : Observation(p) \/ \E by \in {"job", "operator"} : PollJob(p, by)
    \/ Touched

Spec == Init /\ [][Next]_vars

\* A request that was started runs to its end.  Nobody owes another one.
Fairness == \A c \in Calls : WF_vars(Submission(c))

FairSpec == Spec /\ Fairness

(***************************************************************************)
(* What must hold.                                                         *)
(***************************************************************************)
\* There is one intent, the job's own; whatever was POSTed are that intent's
\* exact bytes, once, after it was saved.
OneIntentOnePost ==
    /\ \A t \in Txids : Known(t) <=> t = job.txid
    /\ job.status = "awaiting_authorization" <=> job.txid = None
    /\ posts # <<>> => job.txid # None /\ posts = <<tx[job.txid].raw>>

\* A withdrawal the miner acknowledged is never again reported as one that may
\* not have reached it, whichever merge and poll race.
AckedNotUncertain ==
    \A t \in Txids : tx[t].ack => posts # <<>> /\ tx[t].status # "uncertain"

\* A recorded confirmation or conflict is replaced only by a newer answer of the
\* chain, one that a poll was given after it had read that very verdict: by no
\* merge, no outage, and no poll that was overtaken.
VerdictsAreFresh ==
    [][\A t \in Txids :
         tx[t].status \in {"confirmed", "conflict"} /\ tx'[t].status # tx[t].status =>
            \E p \in Polls : /\ poll[p].pc = "save" /\ poll'[p].pc # "save"
                             /\ poll[p].view # "unavailable"
                             /\ poll[p].intent.status = tx[t].status]_vars

\* The promise: decided once, sent at most once, acknowledged for good.
Promise == INSTANCE OneSubmission WITH
    intent <- IF job.txid = None THEN None ELSE tx[job.txid].raw,
    sent <- Len(posts),
    acked <- job.txid # None /\ tx[job.txid].ack,
    outcome <- IF job.txid = None THEN "none" ELSE tx[job.txid].status

KeepsPromise == Promise!Spec

\* A submission returns, however often polls save its row first.
SubmissionReturns == \A c \in Calls : call[c].pc \in {"merge", "save"} ~> call[c].pc = "idle"

\* docs/EXACT-SUBMIT.md:27 "Chain-provider failures keep the last recorded
\* conflict or confirmation": an outage answers with the TX# row's status, so a
\* confirmation recorded on the job must be there too.
OutageKeepsConfirmation == job.status = "confirmed" => tx[job.txid].status = "confirmed"
=============================================================================
