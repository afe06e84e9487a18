--------------------------- MODULE FundingSubmit ----------------------------
(***************************************************************************)
(* Depositing into one vault (server/submit-funding.ts): recording a       *)
(* signed deposit and submitting it to the miner, resending it, exporting  *)
(* its bytes for a submission by hand, recording a deposit that a wallet   *)
(* broadcast, and following it on chain (server/app.ts), while another     *)
(* vault may claim the same script.                                        *)
(*                                                                         *)
(* As in ExactSubmit, a conditional save's version check is a flag that    *)
(* every write of the row raises for those who read it.  A write that      *)
(* carries the script's fence reads the reservation with the row it        *)
(* rewrites.  A request that is refused before it writes or sends anything *)
(* just ends.                                                              *)
(***************************************************************************)
EXTENDS Integers

CONSTANTS
    Calls,          \* concurrent submissions
    Others,         \* concurrent exports, status requests and recordings
    Raws,           \* signed deposits to this vault
    Txids,          \* their txids, and those of deposits broadcast by a wallet
    TxidOf,         \* witnesses do not count: several raws may share one txid
    None,
    MaxTries,       \* conditional saves that lost their race (the code tries 5)
    Crashes         \* may requests die half-way?

ASSUME FundingAssumption ==
    /\ TxidOf \in [Raws -> Txids]
    /\ None \notin Raws \cup Txids
    /\ MaxTries \in Nat \ {0}
    /\ Crashes \in BOOLEAN

\* A VAULT# row: the deposit's txid, its stored bytes (a wallet's deposit has none),
\* the vault's status, and what is known of the submission.
NoDeposit == [txid |-> None, raw |-> None, status |-> "unfunded", sub |-> "none"]
Vault == [txid : Txids \cup {None}, raw : Raws \cup {None},
          status : {"unfunded", "submitted", "confirmed"},
          sub : {"none", "uncertain", "submitted"}]

VARIABLES
    vault,      \* the VAULT# row
    reserved,   \* whose the SCRIPT# reservation is
    known,      \* txids that the miner accepted
    late,       \* txids of POSTs without an answer: the miner may yet accept them
    exported,   \* raws that were handed out
    call,       \* the submissions
    other       \* the other requests

vars == <<vault, reserved, known, late, exported, call, other>>

Call == [pc : {"idle", "intend", "seen", "touch", "resend", "post", "refused", "clear",
               "record", "save"},
         raw : Raws \cup {None}, fresh : BOOLEAN, stale : BOOLEAN,
         learnt : {"uncertain", "submitted"}, tries : 0..MaxTries]
Other == [pc : {"idle", "status", "bound", "export", "fund"},
          raw : Raws \cup {None}, txid : Txids \cup {None},
          status : {"unfunded", "submitted", "confirmed"}, stale : BOOLEAN, tries : 0..MaxTries]

IdleCall == [pc |-> "idle", raw |-> None, fresh |-> FALSE, stale |-> FALSE,
             learnt |-> "uncertain", tries |-> 0]
IdleOther == [pc |-> "idle", raw |-> None, txid |-> None, status |-> "unfunded",
              stale |-> FALSE, tries |-> 0]

TypeOK ==
    /\ vault \in Vault
    /\ reserved \in {"nobody", "this", "another"}
    /\ known \subseteq Txids /\ late \subseteq Txids
    /\ exported \subseteq Raws
    /\ call \in [Calls -> Call]
    /\ other \in [Others -> Other]

Recorded(raw) == [txid |-> TxidOf[raw], raw |-> raw, status |-> "submitted",
                  sub |-> "uncertain"]

\* A registered vault, or one from before reservations: it has none, and may have a
\* deposit whose submission was not answered.
Init ==
    /\ \/ reserved \in {"nobody", "this"} /\ vault = NoDeposit /\ late = {}
       \/ /\ reserved \in {"nobody", "this", "another"}
          /\ \E raw \in Raws : vault = Recorded(raw)
          /\ late = {vault.txid}
    /\ known = {} /\ exported = {}
    /\ call = [c \in Calls |-> IdleCall]
    /\ other = [p \in Others |-> IdleOther]

(***************************************************************************)
(* Conditional saves and the script's fence.                               *)
(***************************************************************************)
StaleCall(k) == IF k.pc = "idle" THEN k ELSE [k EXCEPT !.stale = TRUE]
StaleCalls == [c \in Calls |-> StaleCall(call[c])]
StaleOther(k) == IF k.pc = "idle" THEN k ELSE [k EXCEPT !.stale = TRUE]
StaleOthers == [p \in Others |-> StaleOther(other[p])]

\* Every write of the row moves its version; call c, or request p, goes on as k.
WriteBy(c, k) ==
    /\ call' = [StaleCalls EXCEPT ![c] = k]
    /\ other' = StaleOthers
WriteByOther(p, k) ==
    /\ call' = StaleCalls
    /\ other' = [StaleOthers EXCEPT ![p] = k]

\* The vault's own reservation is checked, or claimed if there is none.
Unfenced == UNCHANGED reserved
ScriptFence ==
    /\ reserved # "another"
    /\ reserved' = "this"

(***************************************************************************)
(* submitFunding.                                                          *)
(***************************************************************************)
\* The row is read: a new deposit, or exactly the recorded one once more.
Begin(c, raw) ==
    /\ call[c].pc = "idle"
    /\ \/ vault.status = "unfunded"
          /\ call' = [call EXCEPT ![c] = [IdleCall EXCEPT !.pc = "intend", !.raw = raw,
                                                          !.fresh = TRUE]]
       \/ vault.status = "submitted" /\ vault.raw = raw
          /\ call' = [call EXCEPT ![c] = [IdleCall EXCEPT !.pc = "seen", !.raw = raw]]
    /\ UNCHANGED <<vault, reserved, known, late, exported, other>>

\* The intent is recorded before anything is sent.
Intend(c) ==
    /\ call[c].pc = "intend" /\ ~call[c].stale
    /\ ScriptFence
    /\ vault' = Recorded(call[c].raw)
    /\ WriteBy(c, [call[c] EXCEPT !.pc = "post"])
    /\ UNCHANGED <<known, late, exported>>

\* The credential, the miner's answer or the fence failed, the race was lost, or
\* the request died: it ends, and whatever it wrote or sent stays.
End(c) == call' = [call EXCEPT ![c] = IdleCall]
Refuse(c) ==
    /\ call[c].pc \in {"intend", "seen", "touch", "resend"}
    /\ End(c)
    /\ UNCHANGED <<vault, reserved, known, late, exported, other>>
Die(c) ==
    /\ Crashes
    /\ call[c].pc \notin {"idle", "intend", "seen", "touch", "resend"}
    /\ End(c)
    /\ UNCHANGED <<vault, reserved, known, late, exported, other>>

\* A retry asks the miner first.
Seen(c) ==
    /\ call[c].pc = "seen"
    /\ call' = [call EXCEPT ![c] =
                  IF TxidOf[call[c].raw] \in known
                  THEN [@ EXCEPT !.pc = "record", !.learnt = "submitted"]
                  ELSE [@ EXCEPT !.pc = "touch"]]
    /\ UNCHANGED <<vault, reserved, known, late, exported, other>>

\* touch: the row is read again, and is still of the same transaction...
TouchRead(c) ==
    /\ call[c].pc = "touch"
    /\ vault.txid = TxidOf[call[c].raw]
    /\ call' = [call EXCEPT ![c].pc = "resend", ![c].stale = FALSE]
    /\ UNCHANGED <<vault, reserved, known, late, exported, other>>

\* ...and its version moves before the POST, so that no older request clears it.
TouchesNothing(c, k) == call' = [call EXCEPT ![c] = k] /\ UNCHANGED other
Touches(c, k) == WriteBy(c, k)
TouchSave(c) ==
    /\ call[c].pc = "resend" /\ ~call[c].stale
    /\ ScriptFence
    /\ Touches(c, [call[c] EXCEPT !.pc = "post"])
    /\ UNCHANGED <<vault, known, late, exported>>

Again(k, pc) ==
    IF k.tries + 1 < MaxTries THEN [k EXCEPT !.pc = pc, !.tries = @ + 1] ELSE IdleCall

TouchConflict(c) ==
    /\ call[c].pc = "resend" /\ call[c].stale
    /\ call' = [call EXCEPT ![c] = Again(@, "touch")]
    /\ UNCHANGED <<vault, reserved, known, late, exported, other>>

Learns(k, outcome) == [k EXCEPT !.pc = "record", !.learnt = outcome, !.tries = 0]

PostAccepted(c) ==
    /\ call[c].pc = "post"
    /\ known' = known \cup {TxidOf[call[c].raw]}
    /\ call' = [call EXCEPT ![c] = Learns(@, "submitted")]
    /\ UNCHANGED <<vault, reserved, late, exported, other>>

\* A timeout or an answer that says nothing: the bytes may still arrive.
PostUnanswered(c) ==
    /\ call[c].pc = "post"
    /\ late' = late \cup {TxidOf[call[c].raw]}
    /\ call' = [call EXCEPT ![c] = Learns(@, "uncertain")]
    /\ UNCHANGED <<vault, reserved, known, exported, other>>

\* A refusal of a retry, or one that may be of a duplicate, decides nothing.
RefusedTaken(k) == Learns(k, IF k.fresh THEN "submitted" ELSE "uncertain")
Refused(k) == IF k.fresh THEN [k EXCEPT !.pc = "refused"] ELSE Learns(k, "uncertain")
PostRefused(c) ==
    /\ call[c].pc = "post"
    /\ call' = [call EXCEPT ![c] = Refused(@)]
    /\ UNCHANGED <<vault, reserved, known, late, exported, other>>

\* The miner is asked whether it has the transaction nevertheless.
AskMiner(c) ==
    /\ call[c].pc = "refused"
    /\ \/ TxidOf[call[c].raw] \in known
          /\ call' = [call EXCEPT ![c] = Learns(@, "submitted")]
       \/ TxidOf[call[c].raw] \notin known
          /\ call' = [call EXCEPT ![c].pc = "clear"]
       \/ call' = [call EXCEPT ![c] = Learns(@, "uncertain")]
    /\ UNCHANGED <<vault, reserved, known, late, exported, other>>

\* clear: only if nobody has written the row since this request recorded its intent.
Clear(c) ==
    /\ call[c].pc = "clear" /\ ~call[c].stale
    /\ vault' = NoDeposit
    /\ WriteBy(c, IdleCall)
    /\ UNCHANGED <<reserved, known, late, exported>>

ClearConflict(c) ==
    /\ call[c].pc = "clear" /\ call[c].stale
    /\ call' = [call EXCEPT ![c] = Learns(@, "uncertain")]
    /\ UNCHANGED <<vault, reserved, known, late, exported, other>>

\* record: what was learnt is merged into the row as it is now, if it is still of
\* the same transaction.
RecordRead(c) ==
    /\ call[c].pc = "record"
    /\ call' = [call EXCEPT ![c] =
                  IF vault.txid = TxidOf[@.raw]
                  THEN [@ EXCEPT !.pc = "save", !.stale = FALSE] ELSE IdleCall]
    /\ UNCHANGED <<vault, reserved, known, late, exported, other>>

LatestOutcome(current, learnt) == learnt
Outcome(current, learnt) ==
    IF current = "submitted" \/ learnt = "submitted" THEN "submitted" ELSE "uncertain"

RecordSave(c) ==
    /\ call[c].pc = "save" /\ ~call[c].stale
    /\ vault' = [vault EXCEPT !.sub = Outcome(@, call[c].learnt)]
    /\ WriteBy(c, IdleCall)
    /\ UNCHANGED <<reserved, known, late, exported>>

RecordConflict(c) ==
    /\ call[c].pc = "save" /\ call[c].stale
    /\ call' = [call EXCEPT ![c] = Again(@, "record")]
    /\ UNCHANGED <<vault, reserved, known, late, exported, other>>

(***************************************************************************)
(* Exports, status requests and recorded deposits.                         *)
(***************************************************************************)
\* exportFunding, for a caller that expects some bytes, or whatever is stored.
ExportRead(p) ==
    /\ \/ other[p].pc = "idle"
       \/ other[p].pc = "bound" /\ other[p].raw = vault.raw
    /\ vault.raw # None
    /\ other' = [other EXCEPT ![p] = [@ EXCEPT !.pc = "export", !.raw = vault.raw,
                                              !.stale = FALSE]]
    /\ UNCHANGED <<vault, reserved, known, late, exported, call>>

\* The version moves before the bytes are handed out.
ExportsOnly(p) == other' = [other EXCEPT ![p] = IdleOther] /\ UNCHANGED call
Exports(p) == WriteByOther(p, IdleOther)
ExportSave(p) ==
    /\ other[p].pc = "export" /\ ~other[p].stale
    /\ ScriptFence
    /\ exported' = exported \cup {other[p].raw}
    /\ Exports(p)
    /\ UNCHANGED <<vault, known, late>>

Rebound(k) ==
    IF k.tries + 1 < MaxTries THEN [k EXCEPT !.pc = "bound", !.tries = @ + 1] ELSE IdleOther

ExportConflict(p) ==
    /\ other[p].pc = "export" /\ other[p].stale
    /\ other' = [other EXCEPT ![p] = Rebound(@)]
    /\ UNCHANGED <<vault, reserved, known, late, exported, call>>

\* GET /api/vaults/:id/funding
StatusRead(p) ==
    /\ other[p].pc = "idle"
    /\ vault.txid # None
    /\ other' = [other EXCEPT ![p] =
                   [IdleOther EXCEPT !.pc = "status", !.txid = vault.txid, !.status = vault.status,
                                     !.raw = IF reserved # "another" THEN vault.raw ELSE None]]
    /\ UNCHANGED <<vault, reserved, known, late, exported, call>>

\* Only the miner mines a deposit it accepted; a wallet's is relayed publicly.
Broadcast(txid) == \A raw \in Raws : TxidOf[raw] # txid
Minable(txid) == txid \in known \/ Broadcast(txid)

\* The chain's answer is a new status.  Its next answer, the transaction's bytes,
\* may still be that it has none: then those stored are.
StatusSave(p) ==
    /\ other[p].pc = "status" /\ ~other[p].stale
    /\ \E status \in {"submitted", "confirmed"} \ {other[p].status} :
         /\ Minable(other[p].txid)
         /\ vault' = [vault EXCEPT !.status = status]
    /\ \/ WriteByOther(p, IdleOther)
       \/ other[p].raw # None /\ WriteByOther(p, [other[p] EXCEPT !.pc = "bound"])
    /\ UNCHANGED <<reserved, known, late, exported>>

\* A deposit that the public chain does not show: its stored bytes are the answer.
StatusUnseen(p) ==
    /\ other[p].pc = "status"
    /\ other[p].raw # None
    /\ other' = [other EXCEPT ![p].pc = "bound"]
    /\ UNCHANGED <<vault, reserved, known, late, exported, call>>

\* POST /api/vaults/:id/fund: a deposit that a wallet broadcast.
FundRead(p, txid) ==
    /\ other[p].pc = "idle"
    /\ vault.status = "unfunded"
    /\ Minable(txid)
    /\ \E status \in {"submitted", "confirmed"} :
         other' = [other EXCEPT ![p] =
                     [IdleOther EXCEPT !.pc = "fund", !.txid = txid, !.status = status]]
    /\ UNCHANGED <<vault, reserved, known, late, exported, call>>

FundSave(p) ==
    /\ other[p].pc = "fund" /\ ~other[p].stale
    /\ ScriptFence
    /\ vault' = [NoDeposit EXCEPT !.txid = other[p].txid, !.status = other[p].status]
    /\ WriteByOther(p, IdleOther)
    /\ UNCHANGED <<known, late, exported>>

\* A failed lookup or fence, a lost race, a status that needs no save, a crash.
OtherEnds(p) ==
    /\ other[p].pc # "idle"
    /\ other' = [other EXCEPT ![p] = IdleOther]
    /\ UNCHANGED <<vault, reserved, known, late, exported, call>>

(***************************************************************************)
(* Everything else.                                                        *)
(***************************************************************************)
\* Stray payments are flagged on the row.
Flagged ==
    /\ call' = StaleCalls /\ other' = StaleOthers
    /\ UNCHANGED <<vault, reserved, known, late, exported>>

\* A registration or the operator's backfill reserves the script; a fence that read
\* the reservation before fails its write.
Reserve(whose) ==
    /\ reserved = "nobody"
    /\ reserved' = whose
    /\ call' = [c \in Calls |-> IF call[c].pc = "resend" THEN StaleCall(call[c]) ELSE call[c]]
    /\ other' = [p \in Others |-> IF other[p].pc = "export"
                                  THEN StaleOther(other[p]) ELSE other[p]]
    /\ UNCHANGED <<vault, known, late, exported>>

\* A POST without an answer arrives, or the owner submits exported bytes by hand.
Arrives(txid) ==
    /\ txid \in late \/ \E raw \in exported : TxidOf[raw] = txid
    /\ known' = known \cup {txid}
    /\ late' = late \ {txid}
    /\ UNCHANGED <<vault, reserved, exported, call, other>>

Submission(c) ==
    \/ Intend(c) \/ Refuse(c) \/ Seen(c) \/ TouchRead(c) \/ TouchSave(c) \/ TouchConflict(c)
    \/ PostAccepted(c) \/ PostUnanswered(c) \/ PostRefused(c) \/ AskMiner(c)
    \/ Clear(c) \/ ClearConflict(c) \/ RecordRead(c) \/ RecordSave(c) \/ RecordConflict(c)

OtherRequest(p) ==
    \/ ExportRead(p) \/ ExportSave(p) \/ ExportConflict(p)
    \/ StatusRead(p) \/ StatusSave(p) \/ StatusUnseen(p) \/ FundSave(p) \/ OtherEnds(p)

Next ==
    \/ \E c \in Calls : Submission(c) \/ Die(c) \/ \E raw \in Raws : Begin(c, raw)
    \/ \E p \in Others : OtherRequest(p) \/ \E txid \in Txids : FundRead(p, txid)
    \/ \E txid \in Txids : Arrives(txid)
    \/ \E whose \in {"this", "another"} : Reserve(whose)
    \/ Flagged

Spec == Init /\ [][Next]_vars

(***************************************************************************)
(* What must hold.                                                         *)
(***************************************************************************)
\* A deposit that the miner took, or may still take, is the vault's recorded one: no
\* refusal, crash or race of the requests makes the vault forget it, so it is never
\* given a second deposit.
DepositNeverForgotten == known \cup late \subseteq {vault.txid}

\* A deposit whose bytes were handed out for a submission by hand stays recorded: a
\* refusal in flight can no longer clear it.
ExportedBytesKept == exported \subseteq {vault.raw}

\* A deposit reported as submitted is one that the miner accepted, and its stored
\* outcome never goes back to unknown.
SubmittedIsAccepted == vault.sub = "submitted" => vault.txid \in known

\* Nothing is sent or handed out for a vault whose script is another vault's,
\* whenever that one claims it.
DepositHoldsScript ==
    (\E c \in Calls : call[c].pc = "post") \/ exported # {} => reserved = "this"

Promise == INSTANCE OneDeposit WITH
    intent <- vault.txid, held <- known, outcome <- vault.sub

\* The promise: one deposit at a time, forgotten only if the miner never took it,
\* its submission learnt once.
KeepsPromise == Promise!Spec

\* submit-funding.ts:79 "Record a signed deposit as the vault's funding intent, then
\* submit exactly those bytes": what is about to be POSTed is what is stored.
SubmitsStoredBytes == \A c \in Calls : call[c].pc = "post" => call[c].raw = vault.raw
=============================================================================
