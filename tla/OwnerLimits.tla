----------------------------- MODULE OwnerLimits ----------------------------
(***************************************************************************)
(* One owner's limits (server/owner-limits.ts): the withdrawal slot that a *)
(* creation, a resume or an operator's reconciliation claims, and the GPU  *)
(* time that the ticks of the owner's withdrawals charge.                  *)
(*                                                                         *)
(* A claim reads the fence row, counts the job rows with a Query, and      *)
(* writes the fence and the job in one transaction.  A Query does not wait *)
(* for a transaction: the two writes of one that has committed become      *)
(* visible one after the other ("flight"), and no other write of the two   *)
(* rows succeeds meanwhile.  A transaction of job and ledger is one step:  *)
(* the job is active before and after it, and the ledger is read by Gets.  *)
(***************************************************************************)
EXTENDS Integers, FiniteSets, FiniteSetsExt

CONSTANTS
    JobCount,       \* withdrawals; the Query lists them in this order
    Claims,         \* concurrent creations, resumes and reconciliations
    MaxActive,      \* QSB_OWNER_MAX_ACTIVE_JOBS
    Timeout,        \* GPU seconds of one paid submission
    MaxSeconds,     \* QSB_OWNER_MAX_GPU_SECONDS
    MaxVersion      \* bound on the writes of one job's row

ASSUME LimitsAssumption ==
    /\ JobCount \in Nat \ {0}
    /\ MaxActive \in Nat \ {0}
    /\ Timeout \in Nat \ {0}
    /\ MaxSeconds \in Nat \ {0}
    /\ MaxVersion \in Nat \ {0}

Jobs == 1..JobCount
Versions == -1..MaxVersion      \* -1: there is no row

VARIABLES
    rows,       \* the JOB# rows, as a Query or a Get sees them
    fence,      \* the LIMIT#ACTIVE_JOBS row: its last claimant, at which version
    ledger,     \* the LIMIT#GPU_SECONDS row
    flight,     \* a claim's transaction: the rows that do not show it yet
    claim,      \* the claims
    tick        \* each withdrawal's tick: the version of its job, and the ledger, as read

vars == <<rows, fence, ledger, flight, claim, tick>>

\* A withdrawal, the GPU seconds it has reserved, and those charged to its owner.
Row == [version : Versions, status : {"none", "active", "paused", "final"},
        reserved : Nat, charged : Nat]
Fence == [version : Int, job : 0..JobCount, since : Int]
Ledger == [version : Int, total : 0..MaxSeconds]
Flight == [job : 0..JobCount, version : Int, left : SUBSET {"row", "fence"}]
Claim == [pc : {"idle", "count", "commit"}, job : 0..JobCount,
          version : Versions, fence : Fence, next : 1..JobCount + 1,
          held : SUBSET Jobs, shown : BOOLEAN, ledger : Int]
Tick == [on : BOOLEAN, version : Versions, ledger : Ledger]

NoRow == [version |-> -1, status |-> "none", reserved |-> 0, charged |-> 0]
NoFence == [version |-> -1, job |-> 0, since |-> -1]
NoLedger == [version |-> -1, total |-> 0]
NoFlight == [job |-> 0, version |-> -1, left |-> {}]
Idle == [pc |-> "idle", job |-> 0, version |-> -1, fence |-> NoFence, next |-> 1,
         held |-> {}, shown |-> FALSE, ledger |-> -1]
NoTick == [on |-> FALSE, version |-> -1, ledger |-> NoLedger]

TypeOK ==
    /\ rows \in [Jobs -> Row]
    /\ fence \in Fence
    /\ ledger \in Ledger
    /\ flight \in Flight
    /\ claim \in [Claims -> Claim]
    /\ tick \in [Jobs -> Tick]

\* The limits may be set while the owner has a withdrawal that has reserved GPU time.
Earlier == [version |-> 1, status |-> "active", reserved |-> Timeout, charged |-> 0]

Init ==
    /\ rows \in [Jobs -> {NoRow, Earlier}]
    /\ fence = NoFence /\ ledger = NoLedger /\ flight = NoFlight
    /\ claim = [c \in Claims |-> Idle]
    /\ tick = [j \in Jobs |-> NoTick]

InFlight(j) == flight.job = j /\ "row" \in flight.left

(***************************************************************************)
(* claimWithdrawalSlot, by POST /api/jobs, POST /api/jobs/:id/resume and   *)
(* reconcileUnknownSubmission.                                             *)
(***************************************************************************)
\* A new withdrawal, or a paused one that is to go on: its row is read, then the fence,
\* and the jobs are counted only then.  (A row that moves in between fails the commit.)
Asking(j) == [Idle EXCEPT !.pc = "count", !.job = j, !.version = rows[j].version,
                          !.fence = fence]
Begin(c, j) ==
    /\ claim[c].pc = "idle"
    /\ rows[j].status \in {"none", "paused"} /\ rows[j].version < MaxVersion
    /\ claim' = [claim EXCEPT ![c] = Asking(j)]
    /\ UNCHANGED <<rows, fence, ledger, flight, tick>>

\* SLOT_RELEASED, and a job that is not there, hold no slot.
Held(row) == row.status = "active"
Shows(row, since) == row.version >= since \/ Held(row)

\* The Query comes to the next job.
Listed(k) ==
    LET row == rows[k.next]
    IN  [k EXCEPT !.next = k.next + 1,
                  !.held = IF Held(row) THEN k.held \cup {k.next} ELSE k.held,
                  !.shown = \/ k.shown
                            \/ /\ k.next = k.fence.job /\ row.status # "none"
                               /\ Shows(row, k.fence.since)]
CountJob(c) ==
    /\ claim[c].pc = "count" /\ claim[c].next \in Jobs
    /\ claim' = [claim EXCEPT ![c] = Listed(claim[c])]
    /\ UNCHANGED <<rows, fence, ledger, flight, tick>>

ActiveAsListed(k) == Cardinality(k.held)
\* The fence's claimant counts too unless the Query shows what its claim wrote.
Active(k) == Cardinality(k.held) + (IF k.fence.job # 0 /\ ~k.shown THEN 1 ELSE 0)

\* A resume takes a free slot: it may only poll paid work.  A creation reads the ledger
\* next, which its first paid submission must fit.
Creates(k) == k.version = -1
Granted(k) == [Idle EXCEPT !.pc = "commit", !.job = k.job, !.version = k.version,
                           !.fence = k.fence,
                           !.ledger = IF Creates(k) THEN ledger.version ELSE -1]
TakeSlot(c) ==
    LET k == claim[c]
    IN  /\ k.pc = "count" /\ k.next = JobCount + 1
        /\ Active(k) < MaxActive
        /\ Creates(k) => ledger.total + Timeout <= MaxSeconds
        /\ claim' = [claim EXCEPT ![c] = Granted(k)]
        /\ UNCHANGED <<rows, fence, ledger, flight, tick>>

\* 409, 429 or ReconciliationError, or the request dies: nothing was written.
GiveUp(c) ==
    /\ claim[c].pc # "idle"
    /\ claim' = [claim EXCEPT ![c] = Idle]
    /\ UNCHANGED <<rows, fence, ledger, flight, tick>>

\* creationFence: a check of the ledger's row, or its first one.
LedgerUnmoved(k) == k.ledger = ledger.version
CreationFence(k) ==
    /\ LedgerUnmoved(k)
    /\ ledger' = [ledger EXCEPT !.version = IF @ = -1 THEN 0 ELSE @]

\* jobVersion is the version that the transaction gives the job.
ClaimedVersion(k) == k.version + 1

FenceOnceRead(k) == k.fence.version <= fence.version
FenceUnmoved(k) == fence.version = k.fence.version

\* The transaction of the fence, the job and, for a creation, the ledger's check.
Commit(c) ==
    LET k == claim[c]
    IN  /\ k.pc = "commit"
        /\ flight.left = {}
        /\ rows[k.job].version = k.version
        /\ FenceUnmoved(k)
        /\ IF Creates(k) THEN CreationFence(k) ELSE UNCHANGED ledger
        /\ flight' = [job |-> k.job, version |-> ClaimedVersion(k), left |-> {"row", "fence"}]
        /\ claim' = [claim EXCEPT ![c] = Idle]
        /\ UNCHANGED <<rows, fence, tick>>

Shown(what) == IF flight.left = {what} THEN NoFlight
                                       ELSE [flight EXCEPT !.left = @ \ {what}]
Written(row) == [row EXCEPT !.version = row.version + 1, !.status = "active"]

ShowRow ==
    /\ "row" \in flight.left
    /\ rows' = [rows EXCEPT ![flight.job] = Written(rows[flight.job])]
    /\ flight' = Shown("row")
    /\ UNCHANGED <<fence, ledger, claim, tick>>

ShowFence ==
    /\ "fence" \in flight.left
    /\ fence' = [version |-> fence.version + 1, job |-> flight.job, since |-> flight.version]
    /\ flight' = Shown("fence")
    /\ UNCHANGED <<rows, ledger, claim, tick>>

(***************************************************************************)
(* The withdrawals: their status, and OwnerGpuBudget in their ticks.       *)
(***************************************************************************)
\* A save of the job: its status may change, and a slot is released by it.
Saved(row, status) == [row EXCEPT !.version = row.version + 1, !.status = status]
SaveJob(j, status) ==
    /\ \/ rows[j].status = "active"
       \/ rows[j].status = "paused" /\ status = "paused"
    /\ ~InFlight(j) /\ rows[j].version < MaxVersion
    /\ rows' = [rows EXCEPT ![j] = Saved(rows[j], status)]
    /\ UNCHANGED <<fence, ledger, flight, claim, tick>>

TotalOfLast(j, budget) == budget.total + Timeout
\* total: what the job reserves beyond its charge is added to the owner's.
Reservation(j) == rows[j].reserved + Timeout
Total(j, budget) == budget.total + Reservation(j) - rows[j].charged
Within(total) == total <= MaxSeconds

\* A tick reads its job, opens the budget before it fills the free GPUs, and checks it.
OpenBudget(j) ==
    /\ ~tick[j].on
    /\ rows[j].status = "active"
    /\ Within(Total(j, ledger))
    /\ tick' = [tick EXCEPT ![j] = [on |-> TRUE, version |-> rows[j].version,
                                    ledger |-> ledger]]
    /\ UNCHANGED <<rows, fence, ledger, flight, claim>>

\* Both saves of the transaction must find their rows unmoved: the job that the tick
\* holds is then the stored one.
Unmoved(j) == tick[j].on /\ tick[j].version = rows[j].version
Charge(j) == [rows[j] EXCEPT !.version = rows[j].version + 1,
                             !.reserved = Reservation(j), !.charged = Reservation(j)]
Reserve(j) ==
    LET budget == [version |-> tick[j].ledger.version + 1,
                   total |-> Total(j, tick[j].ledger)]
    IN  /\ Unmoved(j) /\ ~InFlight(j) /\ rows[j].version < MaxVersion
        /\ Within(budget.total)
        /\ ledger.version = tick[j].ledger.version
        /\ rows' = [rows EXCEPT ![j] = Charge(j)]
        /\ ledger' = budget
        /\ tick' = [tick EXCEPT ![j] = [on |-> TRUE, version |-> rows[j].version + 1,
                                        ledger |-> budget]]
        /\ UNCHANGED <<fence, flight, claim>>

\* The transaction failed and the job has not moved: the ledger is read again.
Retry(j) ==
    /\ Unmoved(j)
    /\ Within(Total(j, tick[j].ledger))
    /\ tick' = [tick EXCEPT ![j] = [on |-> TRUE, version |-> rows[j].version,
                                    ledger |-> ledger]]
    /\ UNCHANGED <<rows, fence, ledger, flight, claim>>

\* The job has moved, the budget is used up, five attempts failed, no GPU is free,
\* or the tick dies.
CloseBudget(j) ==
    /\ tick[j].on
    /\ tick' = [tick EXCEPT ![j] = NoTick]
    /\ UNCHANGED <<rows, fence, ledger, flight, claim>>

Next ==
    \/ \E c \in Claims :
          \/ \E j \in Jobs : Begin(c, j)
          \/ CountJob(c) \/ TakeSlot(c) \/ Commit(c) \/ GiveUp(c)
    \/ ShowRow \/ ShowFence
    \/ \E j \in Jobs :
          \/ \E status \in {"active", "paused", "final"} : SaveJob(j, status)
          \/ OpenBudget(j) \/ Reserve(j) \/ Retry(j) \/ CloseBudget(j)

Spec == Init /\ [][Next]_vars

(***************************************************************************)
(* Properties.                                                             *)
(***************************************************************************)
\* What has committed, whether a Query shows it already or not.
Committed == [j \in Jobs |-> IF InFlight(j) THEN Written(rows[j]) ELSE rows[j]]

\* "The owner row always equals the sum of its jobs' ownerGpuChargedSeconds", whatever
\* ticks of the owner's withdrawals retry, fail or die between their reads and saves.
LedgerIsSum ==
    ledger.total = MapThenSumSet(LAMBDA j : rows[j].charged, Jobs)

\* A withdrawal is created, resumed or reconciled only while fewer than MaxActive are
\* queued or searching, though their Query is not isolated and claims race.
Working == {j \in Jobs : Held(Committed[j])}
SlotLimit ==
    [][ \A j \in Working' \ Working : Cardinality(Working) < MaxActive ]_vars

\* OwnerLimits implements OwnerQuota: whichever way claims, ticks and pauses meet, no
\* claim takes a slot beyond the limit, no withdrawal is created that the owner's GPU
\* time does not cover, and no charge exceeds it or is lost.
Quota == INSTANCE OwnerQuota WITH
    created <- {j \in Jobs : Committed[j].status # "none"},
    active <- Working,
    charged <- [j \in Jobs |-> Committed[j].charged]
KeepsQuota == Quota!Spec
=============================================================================
