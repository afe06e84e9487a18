------------------------------ MODULE Webhooks ------------------------------
(***************************************************************************)
(* One owner's webhook row (server/webhooks.ts) and the rounds that send   *)
(* from it: at the end of a request, at the end of a tick, and in the      *)
(* scheduled dispatcher (server/webhook-dispatcher.ts).                    *)
(*                                                                         *)
(* Every change of the row is a version-checked read and write that is     *)
(* repeated on a conflict, hence one step.  A round writes the row twice:  *)
(* it claims deliveries, sends them, and applies what it was answered.     *)
(* Time is what it decides: a lease ends, a back-off passes.               *)
(***************************************************************************)
EXTENDS Integers, FiniteSets, Sequences, SequencesExt

CONSTANTS
    Hooks,          \* webhooks the owner may register, each once
    EventCount,     \* owner events, each queued once
    Rounds,         \* deliverDue calls that may run at once
    NoRound,           \* no round
    HookLimit,      \* WEBHOOK_LIMIT (5)
    PendingLimit,   \* PENDING_LIMIT (100)
    RoundLimit,     \* ROUND_LIMIT (10)
    MaxAttempts,    \* MAX_ATTEMPTS (8)
    FailingAfter,   \* FAILING_AFTER (8)
    MaxTroubles     \* bound on rounds that die, outlive their lease or run out of time

ASSUME WebhookAssumption ==
    /\ NoRound \notin Rounds
    /\ HookLimit \in Nat /\ PendingLimit \in Nat \ {0} /\ RoundLimit \in Nat \ {0}
    /\ EventCount \in Nat
    /\ MaxAttempts \in Nat \ {0} /\ FailingAfter \in Nat \ {0} /\ MaxTroubles \in Nat

\* Events are numbered in the order in which they are queued.
Events == 1..EventCount
Items == Hooks \X Events

\* due: its nextAt has passed.  claim: the token of the round that took it last.
Pending == [hook : Hooks, event : Events, attempts : 0..MaxAttempts,
            due : BOOLEAN, claim : Rounds \cup {NoRound}]
Hook == [status : {"none", "active", "failing", "deleted"},
         failures : 0..FailingAfter, backoff : BOOLEAN]
Round == [pc : {"idle", "send", "apply"}, items : SUBSET Items,
          ok : SUBSET Items, failed : SUBSET Items, expired : BOOLEAN]

VARIABLES
    hooks,      \* the row's webhooks
    pending,    \* the row's queue, oldest first
    round,      \* the rounds under way
    queued,     \* how many events were queued
    accepted,   \* items a receiver answered with a 2xx
    misses,     \* item -> requests for it that failed
    troubles    \* what was counted against MaxTroubles

webhookVars == <<hooks, pending, round, queued, accepted, misses, troubles>>

IdleRound == [pc |-> "idle", items |-> {}, ok |-> {}, failed |-> {}, expired |-> FALSE]

WebhooksInit ==
    /\ hooks = [h \in Hooks |-> [status |-> "none", failures |-> 0, backoff |-> FALSE]]
    /\ pending = <<>>
    /\ round = [r \in Rounds |-> IdleRound]
    /\ queued = 0 /\ accepted = {}
    /\ misses = [i \in Items |-> 0]
    /\ troubles = 0

WebhooksTypeOK ==
    /\ hooks \in [Hooks -> Hook] /\ pending \in Seq(Pending)
    /\ round \in [Rounds -> Round]
    /\ queued \in 0..EventCount /\ accepted \subseteq Items
    /\ misses \in [Items -> Nat] /\ troubles \in 0..MaxTroubles

Item(d) == <<d.hook, d.event>>
Queue(q) == {Item(q[i]) : i \in DOMAIN q}
Registered == {h \in Hooks : hooks[h].status \in {"active", "failing"}}

\* What q holds at the indexes I, in its order.
Keeping(q, I) ==
    [k \in 1..Cardinality(I) |-> q[CHOOSE i \in I : Cardinality({j \in I : j <= i}) = k]]

(***************************************************************************)
(* The owner's webhooks, and the queue.                                    *)
(***************************************************************************)
Register(h) ==
    /\ hooks[h].status = "none"
    /\ Cardinality(Registered) < HookLimit
    /\ hooks' = [hooks EXCEPT ![h].status = "active"]
    /\ UNCHANGED <<pending, round, queued, accepted, misses, troubles>>

Delete(h) ==
    /\ h \in Registered
    /\ hooks' = [hooks EXCEPT ![h].status = "deleted"]
    /\ pending' = Keeping(pending, {i \in DOMAIN pending : pending[i].hook # h})
    /\ UNCHANGED <<round, queued, accepted, misses, troubles>>

\* The oldest deliveries make room.
Trimmed(q) ==
    IF Len(q) <= PendingLimit THEN q ELSE SubSeq(q, Len(q) - PendingLimit + 1, Len(q))

Enqueue ==
    LET e == queued + 1
        active == {h \in Hooks : hooks[h].status = "active" /\ <<h, e>> \notin Queue(pending)}
        added == [i \in 1..Cardinality(active) |->
                    [hook |-> SetToSeq(active)[i], event |-> e, attempts |-> 0,
                     due |-> TRUE, claim |-> NoRound]]
    IN  /\ queued < EventCount
        /\ queued' = e
        /\ pending' = Trimmed(pending \o added)
        /\ UNCHANGED <<hooks, round, accepted, misses, troubles>>

(***************************************************************************)
(* A round of deliveries.                                                  *)
(***************************************************************************)
ReadyUnfailed(h) == hooks[h].status = "active" /\ hooks[h].failures = 0
Ready(h) == hooks[h].status = "active" /\ ~hooks[h].backoff

Claimable(i) == Ready(pending[i].hook) /\ pending[i].due

\* The first RoundLimit of the deliveries that are due.
Claimed == {i \in DOMAIN pending :
    Claimable(i) /\ Cardinality({j \in 1..i : Claimable(j)}) <= RoundLimit}

Claim(r) ==
    /\ round[r].pc = "idle"
    /\ Claimed # {}
    /\ pending' = [i \in DOMAIN pending |->
                     IF i \in Claimed THEN [pending[i] EXCEPT !.due = FALSE, !.claim = r]
                     ELSE pending[i]]
    /\ round' = [round EXCEPT ![r] = [IdleRound EXCEPT
                    !.pc = "send", !.items = {Item(pending[i]) : i \in Claimed}]]
    /\ UNCHANGED <<hooks, queued, accepted, misses, troubles>>

\* Each webhook's host is resolved once, and its requests are sent in parallel.
\* What the round has no time for is skipped.
Send(r) ==
    /\ round[r].pc = "send"
    /\ \E ok, failed \in SUBSET round[r].items :
        /\ ok \cap failed = {}
        /\ ok \cup failed # round[r].items =>
             troubles < MaxTroubles
        /\ troubles' = troubles + (IF ok \cup failed = round[r].items THEN 0 ELSE 1)
        /\ round' = [round EXCEPT ![r].pc = "apply", ![r].ok = ok, ![r].failed = failed]
        /\ accepted' = accepted \cup ok
        /\ misses' = [i \in Items |-> IF i \in failed THEN misses[i] + 1 ELSE misses[i]]
    /\ UNCHANGED <<hooks, pending, queued>>

\* A result counts for the deliveries the round still holds.
HeldQueued(r, d) == Item(d) \in round[r].items
Held(r, d) == Item(d) \in round[r].items /\ d.claim = r

HeldItems(r) == {Item(pending[i]) : i \in {j \in DOMAIN pending : Held(r, pending[j])}}
Of(h, items) == {i \in items : i[1] = h}

\* A webhook that answered is well; one that only failed backs off, and is given
\* up after FailingAfter rounds, unless the round outlived its lease.
HookAfter(r, h) ==
    LET ok == Of(h, round[r].ok \cap HeldItems(r))
        failed == Of(h, round[r].failed \cap HeldItems(r))
        failures == hooks[h].failures + 1
    IN  IF h \notin Registered THEN hooks[h]
        ELSE IF ok # {} THEN [hooks[h] EXCEPT !.failures = 0, !.backoff = FALSE]
        ELSE IF failed # {} /\ ~round[r].expired
        THEN [hooks[h] EXCEPT !.failures = failures, !.backoff = TRUE,
                              !.status = IF failures >= FailingAfter THEN "failing" ELSE @]
        ELSE hooks[h]

Attempted(r, d) ==
    IF Item(d) \in round[r].failed /\ ~round[r].expired THEN d.attempts + 1 ELSE d.attempts

DoneUnlessFailed(r, d) == Item(d) \notin round[r].failed \/ Attempted(r, d) >= MaxAttempts
Done(r, d) == Item(d) \in round[r].ok \/ Attempted(r, d) >= MaxAttempts

Kept(r) == {i \in DOMAIN pending :
    /\ HookAfter(r, pending[i].hook).status = "active"
    /\ Held(r, pending[i]) => ~Done(r, pending[i])}

Released(r, d) ==
    IF Held(r, d)
    THEN [d EXCEPT !.attempts = Attempted(r, d), !.due = TRUE, !.claim = NoRound]
    ELSE d

Apply(r) ==
    /\ round[r].pc = "apply"
    /\ IF HeldItems(r) = {} THEN UNCHANGED <<hooks, pending>>
       ELSE /\ hooks' = [h \in Hooks |-> HookAfter(r, h)]
            /\ LET kept == Keeping(pending, Kept(r))
               IN  pending' = [k \in DOMAIN kept |-> Released(r, kept[k])]
    /\ round' = [round EXCEPT ![r] = IdleRound]
    /\ UNCHANGED <<queued, accepted, misses, troubles>>

(***************************************************************************)
(* Time, and rounds that do not end well.                                  *)
(***************************************************************************)
Claims(r, d) == d.claim = r

\* The process was frozen until its lease ended.
OutliveLease(r) ==
    /\ round[r].pc # "idle" /\ ~round[r].expired
    /\ troubles < MaxTroubles
    /\ troubles' = troubles + 1
    /\ round' = [round EXCEPT ![r].expired = TRUE]
    /\ pending' = [i \in DOMAIN pending |->
                     IF Claims(r, pending[i]) THEN [pending[i] EXCEPT !.due = TRUE]
                     ELSE pending[i]]
    /\ UNCHANGED <<hooks, queued, accepted, misses>>

\* The process dies, or its write loses to four others: nobody holds its token.
RoundDies(r) ==
    /\ round[r].pc # "idle"
    /\ troubles < MaxTroubles
    /\ troubles' = troubles + 1
    /\ round' = [round EXCEPT ![r] = IdleRound]
    /\ pending' = [i \in DOMAIN pending |->
                     IF Claims(r, pending[i]) THEN [pending[i] EXCEPT !.claim = NoRound]
                     ELSE pending[i]]
    /\ UNCHANGED <<hooks, queued, accepted, misses>>

\* The lease of a claim that nobody holds ends.
LeaseEnds ==
    /\ \E i \in DOMAIN pending : pending[i].claim = NoRound /\ ~pending[i].due
    /\ pending' = [i \in DOMAIN pending |->
                     IF pending[i].claim = NoRound THEN [pending[i] EXCEPT !.due = TRUE]
                     ELSE pending[i]]
    /\ UNCHANGED <<hooks, round, queued, accepted, misses, troubles>>

BackoffEnds(h) ==
    /\ hooks[h].backoff
    /\ hooks' = [hooks EXCEPT ![h].backoff = FALSE]
    /\ UNCHANGED <<pending, round, queued, accepted, misses, troubles>>

WebhooksNext ==
    \/ \E h \in Hooks : Register(h) \/ Delete(h) \/ BackoffEnds(h)
    \/ Enqueue
    \/ \E r \in Rounds : Claim(r) \/ Send(r) \/ Apply(r) \/ OutliveLease(r) \/ RoundDies(r)
    \/ LeaseEnds

WebhooksSpec == WebhooksInit /\ [][WebhooksNext]_webhookVars

\* The dispatcher runs on a schedule, whatever the owner does; a round that was
\* started ends; leases and back-offs pass.
WebhooksFairness ==
    /\ \A r \in Rounds : WF_webhookVars(Claim(r)) /\ WF_webhookVars(Send(r)) /\ WF_webhookVars(Apply(r))
    /\ WF_webhookVars(LeaseEnds)
    /\ \A h \in Hooks : WF_webhookVars(BackoffEnds(h))

(***************************************************************************)
(* What must hold.                                                         *)
(***************************************************************************)
\* A queued delivery is never dropped in silence (webhooks.ts:467, :347): it
\* leaves the queue once its receiver accepted it, after MaxAttempts requests
\* that failed, with its webhook, or because newer deliveries filled the queue.
LeavesForAReason ==
    [][\A i \in Queue(pending) \ Queue(pending') :
         \/ i \in accepted
         \/ misses[i] >= MaxAttempts
         \/ hooks'[i[1]].status \in {"failing", "deleted"}
         \/ Len(pending') = PendingLimit /\ queued' # queued]_webhookVars

\* Two rounds never send the same delivery at once, unless the lease of one of
\* them ended (webhooks.ts:445), whatever results arrive late.
HeldByOne ==
    \A r, s \in Rounds :
        r # s /\ ~round[r].expired /\ ~round[s].expired =>
            round[r].items \cap round[s].items = {}

\* No delivery waits for ever (webhook-dispatcher.ts:104): it is accepted, given
\* up or dropped with its webhook, though rounds die, freeze and fail.
DeliveriesSettle ==
    \A i \in Items : i \in Queue(pending) ~> i \notin Queue(pending)
=============================================================================
