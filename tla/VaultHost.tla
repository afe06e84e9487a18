----------------------------- MODULE VaultHost ------------------------------
(***************************************************************************)
(* What the devices of one owner share about one vault: the owner's backup *)
(* files, and the rows and routes of server/app.ts that a device calls.    *)
(* SdkClient and WalletTab are the devices; VaultOwner puts them together. *)
(*                                                                         *)
(* A device is a process of the SDK or a tab of the web application.  Each *)
(* remembers, on disk or in the browser, the deposit it may have to send   *)
(* again and the withdrawal it authorised.  A request that a device gave   *)
(* up on may still arrive.  The routes are given by their effect, with     *)
(* their own steps in other modules: a deposit's in FundingSubmit, a       *)
(* submission's in ExactSubmit, a search's in SingleSearch.                *)
(***************************************************************************)
EXTENDS Integers

CONSTANTS
    Sdk,            \* the SDK process
    Tabs,           \* tabs of the web application, in one browser with Web Locks
    MaxDeposits,    \* deposits that are signed
    MaxIntents,     \* withdrawal intents that are made
    Nil

ASSUME OwnerAssumption ==
    /\ MaxDeposits \in Nat /\ MaxIntents \in Nat
    /\ Sdk \notin Tabs
    /\ Nil \notin Tabs \cup {Sdk} /\ Nil \notin 1..MaxDeposits /\ Nil \notin 1..MaxIntents

Devices == Tabs \cup {Sdk}
Deposits == 1..MaxDeposits      \* signed deposits to the vault's script
Intents == 1..MaxIntents        \* withdrawals, each with its own idempotency key

\* A file: the vault whose keys it holds, named by the device that made it, the intent
\* it binds, and whether it also binds the assembled transaction.
Backup == [vault : Devices, intent : Intents \cup {Nil}, sealed : BOOLEAN]
Fresh(vault) == [vault |-> vault, intent |-> Nil, sealed |-> FALSE]
Bind(b, i) == [b EXCEPT !.intent = i]
Seal(b) == [b EXCEPT !.sealed = TRUE]
\* A backup that binds an intent never binds another.
MayBind(b, i) == b.intent \in {Nil, i}

Stores == {"disk", "browser"}
StoreOf(c) == IF c = Sdk THEN "disk" ELSE "browser"

\* What a device is doing, with which deposit or intent, and what the server answered.
Requests == {"deposit", "job", "submit"}
Op == [pc : Requests \cup {"idle", "made", "signed", "keep", "encrypt", "claim",
                           "assemble", "sign", "review"},
       item : Deposits \cup Intents \cup {Nil},
       answer : {"none", "submitted", "uncertain", "rejected", "error"}]
Idle == [pc |-> "idle", item |-> Nil, answer |-> "none"]

VARIABLES
    saved,      \* backup files the owner has
    lost,       \* intents whose download never reached the owner
    kept,       \* store -> the signed deposit and the intent that it remembers
    registered, \* the vault that holds the script, if any
    vaultRow,   \* the deposit the server has recorded for it
    refusedOnce,\* the miner has refused a deposit to it
    search,     \* its withdrawal: its intent, the store it came through, how far it is
    authorized, \* intents whose transaction the wallet has signed
    stray,      \* requests whose device gave up on them
    op          \* device -> what it is doing

hostVars == <<saved, lost, kept, registered, vaultRow, refusedOnce, search, authorized, stray, op>>
serverVars == <<registered, vaultRow, refusedOnce, search>>

Unfunded == [status |-> "unfunded", deposit |-> Nil]
NoSearch == [intent |-> Nil, by |-> Nil, status |-> "none"]

HostTypeOK ==
    /\ saved \subseteq Backup /\ lost \subseteq Intents
    /\ kept \in [Stores -> [deposit : Deposits \cup {Nil}, intent : Intents \cup {Nil}]]
    /\ registered \in Devices \cup {Nil}
    /\ vaultRow \in [status : {"unfunded", "submitted", "confirmed"},
                     deposit : Deposits \cup {Nil}]
    /\ refusedOnce \in BOOLEAN
    /\ search \in [intent : Intents \cup {Nil}, by : Stores \cup {Nil},
                   status : {"none", "searching", "solved", "submitted"}]
    /\ authorized \subseteq Intents
    /\ stray \subseteq [kind : Requests, item : Deposits \cup Intents, by : Stores]
    /\ op \in [Devices -> Op]

HostInit ==
    /\ saved = {} /\ lost = {}
    /\ kept = [s \in Stores |-> [deposit |-> Nil, intent |-> Nil]]
    /\ registered = Nil
    /\ vaultRow = Unfunded /\ refusedOnce = FALSE
    /\ search = NoSearch /\ authorized = {}
    /\ stray = {}
    /\ op = [c \in Devices |-> Idle]

Goes(c, pc, item) == op' = [op EXCEPT ![c] = [pc |-> pc, item |-> item, answer |-> "none"]]
Stops(c) == op' = [op EXCEPT ![c] = Idle]
Told(c, answer) == op' = [op EXCEPT ![c].answer = answer]
Waits(c, kind) == op[c].pc = kind /\ op[c].answer = "none"

\* A file is written whole or not at all, and never over another one.
Saves(b) == saved' = saved \cup {b}

Kept(c) == kept[StoreOf(c)]
KeepDeposit(c, d) == kept' = [kept EXCEPT ![StoreOf(c)].deposit = d]
KeepIntent(c, i) == kept' = [kept EXCEPT ![StoreOf(c)].intent = i]

\* The least deposit, or intent, that nobody has made yet.
Least(made, all) == {x \in all \ made : \A y \in all \ made : x <= y}
Under(pcs) == {op[c].item : c \in {d \in Devices : op[d].pc \in pcs}}
InStray(kind) == {s.item : s \in {r \in stray : r.kind = kind}}
NewDeposit == Least({kept[s].deposit : s \in Stores} \cup {vaultRow.deposit} \cup InStray("deposit")
                    \cup Under({"signed", "keep", "deposit"}), Deposits)
NewIntent == Least({kept[s].intent : s \in Stores} \cup {search.intent} \cup InStray("job")
                   \cup {b.intent : b \in saved} \cup lost
                   \cup Under({"encrypt", "claim", "job"}), Intents)

\* Backups of the vault that holds the script, and those that the search's result fits.
Backups == {b \in saved : b.vault = registered}
Solves(b) == search.status = "solved" /\ b.intent = search.intent

(***************************************************************************)
(* The routes.                                                             *)
(***************************************************************************)
\* POST /api/vaults: one vault per script.  The answer may be lost.
RegisterRoute(vault) ==
    /\ registered' = IF registered = Nil THEN vault ELSE registered
    /\ UNCHANGED <<vaultRow, refusedOnce, search>>

\* POST /api/vaults/:id/fund/submit: the deposit is recorded before it is sent, a
\* recorded one is sent again, and only a first sending that the miner refuses clears it.
DepositRoute(d, answer) ==
    /\ \/ /\ answer \in {"submitted", "uncertain"}
          /\ vaultRow.status # "confirmed" /\ vaultRow.deposit \in {Nil, d}
          /\ vaultRow' = [status |-> "submitted", deposit |-> d]
          /\ UNCHANGED refusedOnce
       \/ /\ answer = "rejected" /\ vaultRow = Unfunded
          /\ refusedOnce' = TRUE
          /\ UNCHANGED vaultRow
       \/ answer = "error" /\ UNCHANGED <<vaultRow, refusedOnce>>
    /\ UNCHANGED <<registered, search>>

\* POST /api/jobs: one withdrawal per deposit, and the same request finds it again.
JobRoute(i, by) ==
    /\ search' = IF vaultRow.status = "confirmed" /\ search = NoSearch
                     THEN [intent |-> i, by |-> by, status |-> "searching"] ELSE search
    /\ UNCHANGED <<registered, vaultRow, refusedOnce>>

\* POST /api/jobs/:id/submit: the solved withdrawal, signed.
SubmitRoute(i) ==
    /\ search' = IF search.status = "solved" /\ search.intent = i
                     THEN [search EXCEPT !.status = "submitted"] ELSE search
    /\ UNCHANGED <<registered, vaultRow, refusedOnce>>

DepositArrives(c) ==
    /\ Waits(c, "deposit")
    /\ \E answer \in {"submitted", "uncertain", "rejected", "error"} :
           DepositRoute(op[c].item, answer) /\ Told(c, answer)
    /\ UNCHANGED <<saved, lost, kept, authorized, stray>>

JobArrives(c) ==
    /\ Waits(c, "job")
    /\ JobRoute(op[c].item, StoreOf(c)) /\ Stops(c)
    /\ UNCHANGED <<saved, lost, kept, authorized, stray>>

SubmitArrives(c) ==
    /\ Waits(c, "submit")
    /\ SubmitRoute(op[c].item) \/ UNCHANGED serverVars
    /\ Stops(c)
    /\ UNCHANGED <<saved, lost, kept, authorized, stray>>

StrayArrives(s) ==
    /\ s \in stray
    /\ \/ s.kind = "deposit" /\ \E answer \in {"submitted", "rejected"} : DepositRoute(s.item, answer)
       \/ s.kind = "job" /\ JobRoute(s.item, s.by)
       \/ s.kind = "submit" /\ SubmitRoute(s.item)
    /\ stray' = stray \ {s}
    /\ UNCHANGED <<saved, lost, kept, authorized, op>>

\* GET /api/vaults/:id/funding finds the deposit mined.
DepositConfirms ==
    /\ vaultRow.status = "submitted"
    /\ vaultRow' = [vaultRow EXCEPT !.status = "confirmed"]
    /\ UNCHANGED <<saved, lost, kept, registered, refusedOnce, search, authorized, stray, op>>

SearchEnds ==
    /\ search.status = "searching"
    /\ search' = [search EXCEPT !.status = "solved"]
    /\ UNCHANGED <<saved, lost, kept, registered, vaultRow, refusedOnce, authorized, stray, op>>

HostNext ==
    \/ \E c \in Devices : DepositArrives(c) \/ JobArrives(c) \/ SubmitArrives(c)
    \/ \E s \in stray : StrayArrives(s)
    \/ DepositConfirms \/ SearchEnds

\* What is left of a device's request when it gives up, or dies, before the answer.
Abandoned(c) ==
    stray' = stray \cup {[kind |-> k, item |-> op[c].item, by |-> StoreOf(c)] :
                         k \in {p \in Requests : Waits(c, p)}}
=============================================================================
