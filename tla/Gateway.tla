------------------------------ MODULE Gateway -------------------------------
(***************************************************************************)
(* What stands between a caller and the routes of server/app.ts: sign-in   *)
(* by a signed challenge, scoped API keys (server/scoped-keys.ts), the     *)
(* check of a credential, and the Idempotency-Key of a POST                *)
(* (server/idempotency.ts), for one owner.                                 *)
(*                                                                         *)
(* Each call is a request in its own Lambda: it reads, decides on what it  *)
(* read, writes on condition that nobody wrote since, and may die at any   *)
(* point.  A version is bumped by every write of its row.                  *)
(***************************************************************************)
EXTENDS Integers, FiniteSets

CONSTANTS
    Calls,          \* requests that may be under way at once
    Keys,           \* API keys the owner may be issued, each once
    Bodies,         \* bodies sent under one Idempotency-Key
    None,
    MaxActiveKeys,  \* maxActiveApiKeys (10)
    MaxVersion      \* bound on the version of the IDEMPOTENCY# row

ASSUME GatewayAssumption ==
    /\ None \notin Keys \cup Bodies \cup Calls
    /\ IsFiniteSet(Keys)
    /\ MaxActiveKeys \in Nat /\ MaxVersion \in Nat

Credentials == Keys \cup {"session"}

\* row and fence: the versions a request read, -1 for no row; listed: it read the
\* active keys; settled: the outcome of its handler; lapsed: the row it claimed
\* has expired since.
Call == [pc : {"idle", "verify", "open", "issue", "revoke", "claim", "run", "record"},
         key : Keys \cup {None}, body : Bodies \cup {None}, row : Int, fence : Int,
         listed : BOOLEAN, settled : BOOLEAN, lapsed : BOOLEAN]

KeyRow == [state : {"none", "live", "hidden", "gone"}, version : Int, revoked : BOOLEAN]
IdemRow == [version : Int, body : Bodies \cup {None},
            state : {"none", "leased", "released", "answered", "expired"}]

VARIABLES
    challenge,  \* the sign-in challenge: hidden once expired, gone once deleted
    sessions,   \* sessions opened with it
    key,        \* key -> its AUTH and listing rows, written together
    fence,      \* version of the APIKEYS row, -1 before the first issuance
    idem,       \* the IDEMPOTENCY# row
    call,
    refused     \* a revocation answered an error on a key that was revoked

gatewayVars == <<challenge, sessions, key, fence, idem, call, refused>>

IdleCall == [pc |-> "idle", key |-> None, body |-> None, row |-> -1, fence |-> -1,
         listed |-> FALSE, settled |-> FALSE, lapsed |-> FALSE]
NoRow == [version |-> -1, body |-> None, state |-> "none"]

GatewayInit ==
    /\ challenge = "open" /\ sessions = 0
    /\ key = [k \in Keys |-> [state |-> "none", version |-> -1, revoked |-> FALSE]]
    /\ fence = -1
    /\ idem = NoRow
    /\ call = [c \in Calls |-> IdleCall]
    /\ refused = FALSE

\* Each row of the store and each request is of its kind.
GatewayTypeOK ==
    /\ challenge \in {"open", "hidden", "gone"} /\ sessions \in Nat
    /\ key \in [Keys -> KeyRow]
    /\ fence \in Int
    /\ idem \in IdemRow
    /\ call \in [Calls -> Call]
    /\ refused \in BOOLEAN

Continue(c, k) == call' = [call EXCEPT ![c] = k]
Finish(c) == Continue(c, IdleCall)

(***************************************************************************)
(* Sign-in.                                                                *)
(***************************************************************************)
\* The challenge is read and its signature checked.
ReadChallenge(c) ==
    /\ call[c].pc = "idle" /\ challenge = "open"
    /\ Continue(c, [IdleCall EXCEPT !.pc = "verify"])
    /\ UNCHANGED <<challenge, sessions, key, fence, idem, refused>>

\* A delete on the version that was read: any other request ends in a conflict.
StillThereUnchecked == TRUE
StillThere == challenge # "gone"
DeleteChallenge(c) ==
    /\ call[c].pc = "verify" /\ StillThere
    /\ challenge' = "gone"
    /\ Continue(c, [IdleCall EXCEPT !.pc = "open"])
    /\ UNCHANGED <<sessions, key, fence, idem, refused>>

OpenSession(c) ==
    /\ call[c].pc = "open"
    /\ sessions' = sessions + 1
    /\ Finish(c)
    /\ UNCHANGED <<challenge, key, fence, idem, refused>>

\* A row past its time is hidden by the store, and deleted by the table later.
ChallengeExpires ==
    /\ challenge \in {"open", "hidden"}
    /\ challenge' = IF challenge = "open" THEN "hidden" ELSE "gone"
    /\ UNCHANGED <<sessions, key, fence, idem, call, refused>>

(***************************************************************************)
(* API keys, which a wallet session manages.                               *)
(***************************************************************************)
Active(k) == key[k].state = "live" /\ ~key[k].revoked
ActiveKeys == {k \in Keys : Active(k)}

\* The fence is read before the keys are listed.
ReadFence(c) ==
    /\ call[c].pc = "idle" /\ sessions > 0
    /\ Continue(c, [IdleCall EXCEPT !.pc = "issue", !.fence = fence])
    /\ UNCHANGED <<challenge, sessions, key, fence, idem, refused>>

AtCap == Cardinality(ActiveKeys) >= MaxActiveKeys
ListKeys(c) ==
    /\ call[c].pc = "issue" /\ ~call[c].listed
    /\ Continue(c, IF AtCap THEN IdleCall ELSE [call[c] EXCEPT !.listed = TRUE])
    /\ UNCHANGED <<challenge, sessions, key, fence, idem, refused>>

FenceUnchecked(c) == TRUE
FenceUnmoved(c) == call[c].fence = fence

\* The key's two rows and the fence are one transaction.
Issue(c, k) ==
    /\ call[c].pc = "issue" /\ call[c].listed
    /\ FenceUnmoved(c)
    /\ key[k].state = "none"
    /\ key' = [key EXCEPT ![k] = [state |-> "live", version |-> 0, revoked |-> FALSE]]
    /\ fence' = fence + 1
    /\ Finish(c)
    /\ UNCHANGED <<challenge, sessions, idem, refused>>

\* An unknown or expired key is answered 404, and a revoked one as it is.
ReadKey(c, k) ==
    /\ call[c].pc = "idle" /\ sessions > 0
    /\ Active(k)
    /\ Continue(c, [IdleCall EXCEPT !.pc = "revoke", !.key = k, !.row = key[k].version])
    /\ UNCHANGED <<challenge, sessions, key, fence, idem, refused>>

RowsUnmoved(c) ==
    LET k == call[c].key IN key[k].version = call[c].row /\ key[k].state # "gone"

Revoke(c) ==
    /\ call[c].pc = "revoke" /\ RowsUnmoved(c)
    /\ key' = [key EXCEPT ![call[c].key].revoked = TRUE, ![call[c].key].version = @ + 1]
    /\ Finish(c)
    /\ UNCHANGED <<challenge, sessions, fence, idem, refused>>

\* Its transaction is refused: a revocation that won is this one's answer too.
AnsweredNever(k) == FALSE
Answered(k) == key[k].state = "live" /\ key[k].revoked
RevokeConflict(c) ==
    LET k == call[c].key IN
    /\ call[c].pc = "revoke" /\ ~RowsUnmoved(c)
    /\ refused' = (refused \/ (key[k].state = "live" /\ ~Answered(k)))
    /\ Finish(c)
    /\ UNCHANGED <<challenge, sessions, key, fence, idem>>

KeyExpires(k) ==
    /\ key[k].state \in {"live", "hidden"}
    /\ key' = [key EXCEPT ![k].state = IF @ = "live" THEN "hidden" ELSE "gone"]
    /\ UNCHANGED <<challenge, sessions, fence, idem, call, refused>>

(***************************************************************************)
(* A guarded POST.                                                         *)
(***************************************************************************)
\* A session, or a live key that has the scope of the route, names the owner.
Admitted(credential) ==
    IF credential = "session" THEN sessions > 0 ELSE Active(credential)

\* The row under the Idempotency-Key is read.  An answer is replayed; another
\* body, and a request in progress, are refused.
Post(c, credential, body) ==
    /\ call[c].pc = "idle" /\ Admitted(credential)
    /\ idem.state \in {"none", "expired"} \/ (idem.state = "released" /\ idem.body = body)
    /\ Continue(c, [IdleCall EXCEPT !.pc = "claim", !.body = body, !.row = idem.version])
    /\ UNCHANGED <<challenge, sessions, key, fence, idem, refused>>

\* The claim is a put on the version that was read; who loses reads once more.
RowUnchecked(c) == TRUE
RowUnmoved(c) == idem.version = call[c].row

\* A claim of a row that lives keeps its time, so it may expire under the claim.
ClaimRow(c) ==
    /\ call[c].pc = "claim" /\ RowUnmoved(c) /\ idem.version < MaxVersion
    /\ idem' = [version |-> idem.version + 1, body |-> call[c].body,
                state |-> IF call[c].lapsed THEN "expired" ELSE "leased"]
    /\ Continue(c, [call[c] EXCEPT !.pc = "run", !.row = idem.version + 1])
    /\ UNCHANGED <<challenge, sessions, key, fence, refused>>

\* The handler runs, and settles its outcome or not.
Run(c) ==
    /\ call[c].pc = "run"
    /\ \E settled \in BOOLEAN : Continue(c, [call[c] EXCEPT !.pc = "record", !.settled = settled])
    /\ UNCHANGED <<challenge, sessions, key, fence, idem, refused>>

\* A settled answer is kept for replay, any other gives the lease back.
Outcome(c) ==
    IF call[c].lapsed THEN "expired" ELSE IF call[c].settled THEN "answered" ELSE "released"
Record(c) ==
    /\ call[c].pc = "record" /\ RowUnmoved(c)
    /\ idem' = [idem EXCEPT !.version = @ + 1, !.state = Outcome(c)]
    /\ Finish(c)
    /\ UNCHANGED <<challenge, sessions, key, fence, refused>>

\* Its write is refused: the next read, or the failed record, ends the call.
Lose(c) ==
    /\ \/ call[c].pc = "verify" /\ ~StillThere
       \/ call[c].pc = "issue" /\ call[c].listed /\ ~FenceUnmoved(c)
       \/ call[c].pc \in {"claim", "record"} /\ ~RowUnmoved(c)
    /\ Finish(c)
    /\ UNCHANGED <<challenge, sessions, key, fence, idem, refused>>

\* The Lambda dies or times out.
CallDies(c) ==
    /\ call[c].pc # "idle"
    /\ Finish(c)
    /\ UNCHANGED <<challenge, sessions, key, fence, idem, refused>>

\* The lease (150 s) is longer than a Lambda may run (120 s).
Holding(c) == call[c].pc \in {"run", "record"} /\ RowUnmoved(c)
LeaseEndedEarly == TRUE
LeaseEnded == \A c \in Calls : ~Holding(c)
LeaseLapses ==
    /\ idem.state = "leased" /\ LeaseEnded
    /\ idem' = [idem EXCEPT !.state = "released"]
    /\ UNCHANGED <<challenge, sessions, key, fence, call, refused>>

\* The row expires 24 hours after it was made, a claim of it that is under way or not.
RowExpires ==
    /\ idem.state \in {"leased", "released", "answered"}
    /\ idem' = [idem EXCEPT !.state = "expired"]
    /\ call' = [c \in Calls |->
                   IF call[c].pc \in {"claim", "run", "record"} /\ RowUnmoved(c)
                   THEN [call[c] EXCEPT !.lapsed = TRUE] ELSE call[c]]
    /\ UNCHANGED <<challenge, sessions, key, fence, refused>>

\* The table deletes it much later than any request that saw it ends.
RowDeleted ==
    /\ idem.state = "expired"
    /\ \A c \in Calls : call[c].pc \notin {"claim", "run", "record"}
    /\ idem' = NoRow
    /\ UNCHANGED <<challenge, sessions, key, fence, call, refused>>

GatewayNext ==
    \/ \E c \in Calls :
         \/ ReadChallenge(c) \/ DeleteChallenge(c) \/ OpenSession(c)
         \/ ReadFence(c) \/ ListKeys(c) \/ Revoke(c) \/ RevokeConflict(c)
         \/ ClaimRow(c) \/ Run(c) \/ Record(c) \/ Lose(c) \/ CallDies(c)
         \/ \E k \in Keys : Issue(c, k) \/ ReadKey(c, k)
         \/ \E credential \in Credentials, body \in Bodies : Post(c, credential, body)
    \/ \E k \in Keys : KeyExpires(k)
    \/ ChallengeExpires \/ LeaseLapses \/ RowExpires \/ RowDeleted

GatewaySpec == GatewayInit /\ [][GatewayNext]_gatewayVars

(***************************************************************************)
(* Properties.                                                             *)
(***************************************************************************)
\* A signed challenge opens one session however many requests bring it: the
\* delete between its reading and the session lets one of them through.
OneSession == sessions <= 1

\* Issuances that run together never pass the cap, though each of them counts the
\* active keys before it writes.
KeyCap == Cardinality(ActiveKeys) <= MaxActiveKeys

\* A revocation that loses the race to another one answers as the winner did.
RevokeAnswers == ~refused

\* Two requests under one key are never in the handler together, unless the row
\* that one of them claimed has expired since.
OneRunAtATime ==
    \A c, d \in Calls :
        (c # d /\ call[c].pc = "run" /\ call[d].pc = "run") => call[c].lapsed \/ call[d].lapsed

\* A settled answer is replayed until it expires: no request that read the row
\* before takes it back.
AnswerIsKept == [][idem.state = "answered" => idem'.state \in {"answered", "expired"}]_gatewayVars
=============================================================================
