----------------------------- MODULE SdkClient ------------------------------
(***************************************************************************)
(* One process of the SDK (sdk/client.ts) at work on the vault: it makes   *)
(* and registers the vault, deposits into it, and withdraws.  It saves a   *)
(* backup before the step that would make it needed, keeps a signed        *)
(* deposit on disk before it sends it, and claims an intent, once per      *)
(* vault, before it asks for a search.  It may stop at any step: a crash,  *)
(* an error and a lost answer leave the same files behind.                 *)
(*                                                                         *)
(* Unlocking a backup is having one that is saved: decryption and the      *)
(* checks of its contents are not modelled.  The assembled transaction     *)
(* follows from the search, so its claim on disk never refuses.            *)
(***************************************************************************)
EXTENDS VaultHost

MayClaim(c, i) == Kept(c).intent \in {Nil, i}

(***************************************************************************)
(* createVault.                                                            *)
(***************************************************************************)
SdkSavesVault ==
    /\ op[Sdk] = Idle /\ \A b \in saved : b.vault # Sdk
    /\ Saves(Fresh(Sdk))
    /\ Goes(Sdk, "made", Nil)
    /\ UNCHANGED <<serverVars, lost, kept, authorized, stray>>

\* Another vault may have claimed the script meanwhile: then this one is never used.
SdkRegisters ==
    /\ op[Sdk].pc = "made"
    /\ RegisterRoute(Sdk) /\ Stops(Sdk)
    /\ UNCHANGED <<saved, lost, kept, authorized, stray>>

(***************************************************************************)
(* prepareDeposit, submitDeposit, sendDeposit, resubmitDeposit and         *)
(* depositStatus.                                                          *)
(***************************************************************************)
\* No deposit is known here or there: one is prepared, and the owner signs it.
SdkSignsDeposit ==
    /\ op[Sdk] = Idle /\ Backups # {}
    /\ Kept(Sdk).deposit = Nil /\ vaultRow = Unfunded
    /\ \E d \in NewDeposit : Goes(Sdk, "signed", d)
    /\ UNCHANGED <<serverVars, saved, lost, kept, authorized, stray>>

\* The vault is read again when the signed deposit is handed in.
SdkReadsVault ==
    /\ op[Sdk].pc = "signed"
    /\ IF vaultRow = Unfunded THEN Goes(Sdk, "keep", op[Sdk].item) ELSE Stops(Sdk)
    /\ UNCHANGED <<serverVars, saved, lost, kept, authorized, stray>>

SdkSendsUnkept ==
    /\ op[Sdk].pc = "keep"
    /\ Goes(Sdk, "deposit", op[Sdk].item)
    /\ UNCHANGED <<serverVars, saved, lost, kept, authorized, stray>>

\* The signed bytes are on disk before they leave.
SdkSends ==
    /\ op[Sdk].pc = "keep"
    /\ KeepDeposit(Sdk, op[Sdk].item) /\ Goes(Sdk, "deposit", op[Sdk].item)
    /\ UNCHANGED <<serverVars, saved, lost, authorized, stray>>

SdkResends ==
    /\ op[Sdk] = Idle /\ Kept(Sdk).deposit # Nil
    /\ Goes(Sdk, "deposit", Kept(Sdk).deposit)
    /\ UNCHANGED <<serverVars, saved, lost, kept, authorized, stray>>

\* Only an answer that settles these bytes ends them.
Settling(answer) == answer \in {"submitted", "rejected"}
SdkHears ==
    /\ op[Sdk].pc = "deposit" /\ op[Sdk].answer # "none"
    /\ IF Settling(op[Sdk].answer) THEN KeepDeposit(Sdk, Nil) ELSE UNCHANGED kept
    /\ Stops(Sdk)
    /\ UNCHANGED <<serverVars, saved, lost, authorized, stray>>

SdkSeesDeposit ==
    /\ op[Sdk] = Idle /\ Kept(Sdk).deposit # Nil
    /\ vaultRow = [status |-> "confirmed", deposit |-> Kept(Sdk).deposit]
    /\ KeepDeposit(Sdk, Nil)
    /\ UNCHANGED <<serverVars, saved, lost, authorized, stray, op>>

(***************************************************************************)
(* createWithdrawal.                                                       *)
(***************************************************************************)
\* The vault has no withdrawal but the backup's own.
SdkResumesIntent(b) ==
    /\ op[Sdk] = Idle /\ b.intent # Nil /\ vaultRow.status = "confirmed"
    /\ search.intent \in {Nil, b.intent}
    /\ Goes(Sdk, "claim", b.intent)
    /\ UNCHANGED <<serverVars, saved, lost, kept, authorized, stray>>

SdkMakesIntent(b) ==
    /\ op[Sdk] = Idle /\ b.intent = Nil /\ vaultRow.status = "confirmed"
    /\ search = NoSearch /\ Kept(Sdk).intent = Nil
    /\ \E i \in NewIntent : Goes(Sdk, "encrypt", i)
    /\ UNCHANGED <<serverVars, saved, lost, kept, authorized, stray>>

SdkSavesIntent ==
    /\ op[Sdk].pc = "encrypt"
    /\ Saves(Bind(Fresh(registered), op[Sdk].item))
    /\ Goes(Sdk, "claim", op[Sdk].item)
    /\ UNCHANGED <<serverVars, lost, kept, authorized, stray>>

\* The intent is remembered, unless another is, and the search asked for.
SdkClaims ==
    /\ op[Sdk].pc = "claim"
    /\ IF MayClaim(Sdk, op[Sdk].item)
         THEN KeepIntent(Sdk, op[Sdk].item) /\ Goes(Sdk, "job", op[Sdk].item)
         ELSE UNCHANGED kept /\ Stops(Sdk)
    /\ UNCHANGED <<serverVars, saved, lost, authorized, stray>>

(***************************************************************************)
(* assembleWithdrawal and submitWithdrawal.                                *)
(***************************************************************************)
SdkAssembles(b) ==
    /\ op[Sdk] = Idle /\ Solves(b) /\ MayClaim(Sdk, b.intent)
    /\ KeepIntent(Sdk, b.intent)
    /\ Goes(Sdk, IF b.sealed THEN "sign" ELSE "assemble", b.intent)
    /\ UNCHANGED <<serverVars, saved, lost, authorized, stray>>

\* The exact transaction is sealed in a backup before the wallet signs it.
SdkSeals ==
    /\ op[Sdk].pc = "assemble"
    /\ Saves(Seal(Bind(Fresh(registered), op[Sdk].item)))
    /\ Goes(Sdk, "sign", op[Sdk].item)
    /\ UNCHANGED <<serverVars, lost, kept, authorized, stray>>

SdkSigns ==
    /\ op[Sdk].pc = "sign"
    /\ authorized' = authorized \cup {op[Sdk].item}
    /\ Stops(Sdk)
    /\ UNCHANGED <<serverVars, saved, lost, kept, stray>>

\* The owner approves the transaction that was signed, here or in a tab: once the
\* server has one, it is not sent again.
SdkSubmits ==
    /\ op[Sdk] = Idle /\ search.status = "solved" /\ search.intent \in authorized
    /\ Goes(Sdk, "submit", search.intent)
    /\ UNCHANGED <<serverVars, saved, lost, kept, authorized, stray>>

\* The process stops, fails, or gives up on a request.
SdkStops ==
    /\ op[Sdk] # Idle
    /\ Abandoned(Sdk) /\ Stops(Sdk)
    /\ UNCHANGED <<serverVars, saved, lost, kept, authorized>>

SdkNext ==
    \/ SdkSavesVault \/ SdkRegisters
    \/ SdkSignsDeposit \/ SdkReadsVault \/ SdkSends \/ SdkResends \/ SdkHears \/ SdkSeesDeposit
    \/ \E b \in Backups : SdkResumesIntent(b) \/ SdkMakesIntent(b) \/ SdkAssembles(b)
    \/ SdkSavesIntent \/ SdkClaims \/ SdkSeals \/ SdkSigns \/ SdkSubmits \/ SdkStops
=============================================================================
