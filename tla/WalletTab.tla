----------------------------- MODULE WalletTab ------------------------------
(***************************************************************************)
(* The tabs of the web application in one browser: the pages of App.tsx    *)
(* and the transaction dialog (TransactionDialog.tsx).  The tabs share     *)
(* localStorage, which remembers a signed deposit and an intent, and a Web *)
(* Lock, the chain turn, that a dialog or a chain check holds.  A file is  *)
(* saved by a download that may never reach the owner; only a file the     *)
(* owner selects again is known to be saved.                               *)
(*                                                                         *)
(* Any opening that waits may get the free turn.  A dialog that closes     *)
(* ends what it was doing at the next check of its generation, which is    *)
(* before it keeps, sends or signs anything; a request under way goes on.  *)
(***************************************************************************)
EXTENDS VaultHost

CONSTANT Opens      \* openings of a dialog that one tab may have under way

ASSUME OpensAssumption ==
    /\ Nil \notin Opens /\ "check" \notin Opens /\ Nil # "check"
    /\ Nil \notin Tabs \X (Opens \cup {"check"})

\* The dialog, the opening whose turn it would release, the openings whose 10 seconds
\* run, and the backup unlocked in the dialog.
Tab == [dialog : {"closed", "vault", "job"}, held : Opens \cup {Nil}, timers : SUBSET Opens,
        memory : Backup \cup {Nil}, verified : BOOLEAN]
ClosedTab == [dialog |-> "closed", held |-> Nil, timers |-> {}, memory |-> Nil,
              verified |-> FALSE]

VARIABLES
    tab,
    turn,   \* the opening or check that holds the chain turn: <<tab, opening or "check">>
    queue   \* openings that wait for it

tabVars == <<tab, turn, queue>>
filesVars == <<saved, lost>>

TabTypeOK ==
    /\ tab \in [Tabs -> Tab]
    /\ turn \in {Nil} \cup (Tabs \X (Opens \cup {"check"}))
    /\ queue \subseteq Tabs \X Opens

TabInit ==
    /\ tab = [t \in Tabs |-> ClosedTab]
    /\ turn = Nil /\ queue = {}

(***************************************************************************)
(* The chain turn (App.tsx).                                               *)
(***************************************************************************)
Mine(t) == <<t, tab[t].held>>
FreeTurn(t) == IF turn = Mine(t) THEN Nil ELSE turn

\* openTransaction releases what this tab holds or waits for, then asks.
Open(t, o) ==
    /\ tab[t].dialog = "closed" /\ o \notin tab[t].timers
    /\ turn' = FreeTurn(t)
    /\ queue' = (queue \ {Mine(t)}) \cup {<<t, o>>}
    /\ tab' = [tab EXCEPT ![t].held = o, ![t].timers = @ \cup {o}]
    /\ UNCHANGED hostVars

\* The dialog shows once the turn is granted: the vault's, or that of a solved search.
Shows(t, o, kind) ==
    tab' = [tab EXCEPT ![t].dialog = kind, ![t].timers = @ \ {o}]
TurnIgnored == TRUE
TurnFree == turn = Nil
Grant(t, o) ==
    /\ TurnFree /\ <<t, o>> \in queue
    /\ turn' = <<t, o>> /\ queue' = queue \ {<<t, o>>}
    /\ \/ Shows(t, o, "vault")
       \/ search.status = "solved" /\ Shows(t, o, "job")
    /\ UNCHANGED hostVars

\* The 10 seconds of an opening end before its turn came.
GivesUp(t, o) ==
    /\ o \in tab[t].timers
    /\ turn' = FreeTurn(t) /\ queue' = queue \ {Mine(t)}
    /\ tab' = [tab EXCEPT ![t].held = Nil, ![t].timers = @ \ {o}]
    /\ UNCHANGED hostVars

Closes(t) ==
    /\ tab[t].dialog # "closed"
    /\ turn' = FreeTurn(t) /\ queue' = queue \ {Mine(t)}
    /\ tab' = [tab EXCEPT ![t] = [ClosedTab EXCEPT !.timers = tab[t].timers]]
    /\ IF op[t].pc \in Requests THEN UNCHANGED op ELSE Stops(t)
    /\ UNCHANGED <<serverVars, filesVars, kept, authorized, stray>>

\* A chain check takes the turn only if nobody has it or waits for it.
Checks(t) ==
    /\ tab[t].dialog = "closed" /\ turn = Nil /\ queue = {}
    /\ turn' = <<t, "check">>
    /\ UNCHANGED <<tab, queue, hostVars>>
EndsCheck(t) ==
    /\ turn = <<t, "check">>
    /\ turn' = Nil
    /\ UNCHANGED <<tab, queue, hostVars>>

\* The tab is closed or reloaded: its locks go with it, its requests do not.
TabDies(t) ==
    /\ tab[t] # ClosedTab \/ op[t] # Idle
    /\ turn' = IF turn # Nil /\ turn[1] = t THEN Nil ELSE turn
    /\ queue' = {w \in queue : w[1] # t}
    /\ tab' = [tab EXCEPT ![t] = ClosedTab]
    /\ Abandoned(t) /\ Stops(t)
    /\ UNCHANGED <<serverVars, filesVars, kept, authorized>>

(***************************************************************************)
(* Making a vault (App.tsx).                                               *)
(***************************************************************************)
\* The keys are made, and the backup downloaded and selected again.
TabMakesVault(t) ==
    /\ op[t] = Idle /\ tab[t].dialog = "closed" /\ \A b \in saved : b.vault # t
    /\ Saves(Fresh(t))
    /\ Goes(t, "made", Nil)
    /\ UNCHANGED <<serverVars, lost, kept, authorized, stray, tabVars>>

\* The answer may be lost: the owner sends the vault again.
TabRegisters(t) ==
    /\ op[t].pc = "made"
    /\ RegisterRoute(t)
    /\ Stops(t) \/ UNCHANGED op
    /\ UNCHANGED <<filesVars, kept, authorized, stray, tabVars>>

(***************************************************************************)
(* The dialog: its backup and its deposit.                                 *)
(***************************************************************************)
Unlocked(t) == op[t] = Idle /\ tab[t].memory # Nil
Memorizes(t, b, verified) == tab' = [tab EXCEPT ![t].memory = b, ![t].verified = verified]

Restores(t, b) ==
    /\ op[t] = Idle /\ tab[t].memory = Nil
    /\ \/ tab[t].dialog = "vault"
       \/ tab[t].dialog = "job" /\ b.intent # Nil
    /\ Memorizes(t, b, b.sealed)
    /\ UNCHANGED <<turn, queue, hostVars>>

\* No deposit is remembered here or listed there: the wallet is asked to sign one.
AsksWallet(t) ==
    /\ Unlocked(t) /\ tab[t].dialog = "vault"
    /\ Kept(t).deposit = Nil /\ vaultRow = Unfunded
    /\ \E d \in NewDeposit : Goes(t, "signed", d)
    /\ UNCHANGED <<serverVars, filesVars, kept, authorized, stray, tabVars>>

\* The signed bytes are kept before they leave the browser.
TabSends(t) ==
    /\ op[t].pc = "signed"
    /\ KeepDeposit(t, op[t].item) /\ Goes(t, "deposit", op[t].item)
    /\ UNCHANGED <<serverVars, filesVars, authorized, stray, tabVars>>

TabResends(t) ==
    /\ Unlocked(t) /\ tab[t].dialog = "vault" /\ Kept(t).deposit # Nil
    /\ Goes(t, "deposit", Kept(t).deposit)
    /\ UNCHANGED <<serverVars, filesVars, kept, authorized, stray, tabVars>>

\* The answer counts even if the dialog has closed since.
TabHears(t) ==
    /\ op[t].pc = "deposit" /\ op[t].answer # "none"
    /\ IF op[t].answer \in {"submitted", "rejected"} THEN KeepDeposit(t, Nil)
                                                     ELSE UNCHANGED kept
    /\ Stops(t)
    /\ UNCHANGED <<serverVars, filesVars, authorized, stray, tabVars>>

(***************************************************************************)
(* The dialog: beginWithdrawal.                                            *)
(***************************************************************************)
\* The remembered intent is read before the backup is encrypted.
Begins(t) ==
    /\ Unlocked(t) /\ tab[t].dialog = "vault" /\ vaultRow.status = "confirmed"
    /\ \E i \in NewIntent \cup ({tab[t].memory.intent} \ {Nil}) :
           /\ MayBind(tab[t].memory, i) /\ Kept(t).intent \in {Nil, i}
           /\ Goes(t, "encrypt", i)
    /\ UNCHANGED <<serverVars, filesVars, kept, authorized, stray, tabVars>>

Downloads(b) ==
    \/ Saves(b) /\ UNCHANGED lost
    \/ lost' = lost \cup {b.intent} /\ UNCHANGED saved

\* It is remembered, its backup downloaded, and the search asked for.
TabSavesIntent(t) ==
    LET bound == Bind(tab[t].memory, op[t].item) IN
    /\ op[t].pc = "encrypt"
    /\ KeepIntent(t, op[t].item) /\ Memorizes(t, bound, tab[t].verified)
    /\ Downloads(bound) /\ Goes(t, "job", op[t].item)
    /\ UNCHANGED <<serverVars, authorized, stray, turn, queue>>

(***************************************************************************)
(* The dialog: authorize, verifyAssemblyBackup and approveSigned.          *)
(***************************************************************************)
\* The transaction is assembled, and sealed in a download unless a backup has it.
SealedInMemory(t) == tab[t].memory.sealed
Sealed(t) == tab[t].verified
TabAssembles(t) ==
    LET intent == tab[t].memory.intent
        bound == Seal(tab[t].memory) IN
    /\ Unlocked(t) /\ tab[t].dialog = "job" /\ Solves(tab[t].memory)
    /\ Kept(t).intent \in {Nil, intent} /\ KeepIntent(t, intent)
    /\ \/ Sealed(t) /\ Goes(t, "sign", intent) /\ UNCHANGED <<saved, tab>>
       \/ /\ ~Sealed(t) /\ Memorizes(t, bound, FALSE) /\ UNCHANGED op
          /\ Saves(bound) \/ UNCHANGED saved
    /\ UNCHANGED <<serverVars, lost, authorized, stray, turn, queue>>

\* The owner selects the file that was downloaded.
Verifies(t) ==
    /\ Unlocked(t) /\ tab[t].memory.sealed /\ ~tab[t].verified /\ tab[t].memory \in saved
    /\ Memorizes(t, tab[t].memory, TRUE)
    /\ UNCHANGED <<turn, queue, hostVars>>

TabSigns(t) ==
    /\ op[t].pc = "sign"
    /\ authorized' = authorized \cup {op[t].item}
    /\ Goes(t, "review", op[t].item)
    /\ UNCHANGED <<serverVars, filesVars, kept, stray, tabVars>>

\* The owner approves the transaction in the dialog that signed it, once.
TabSubmits(t) ==
    /\ op[t].pc = "review"
    /\ Goes(t, "submit", op[t].item)
    /\ UNCHANGED <<serverVars, filesVars, kept, authorized, stray, tabVars>>

TabNext(t) ==
    \/ \E o \in Opens : Open(t, o) \/ Grant(t, o) \/ GivesUp(t, o)
    \/ Closes(t) \/ Checks(t) \/ EndsCheck(t) \/ TabDies(t)
    \/ TabMakesVault(t) \/ TabRegisters(t)
    \/ \E b \in Backups : Restores(t, b)
    \/ AsksWallet(t) \/ TabSends(t) \/ TabResends(t) \/ TabHears(t)
    \/ Begins(t) \/ TabSavesIntent(t) \/ TabAssembles(t) \/ Verifies(t) \/ TabSigns(t)
    \/ TabSubmits(t)
=============================================================================
