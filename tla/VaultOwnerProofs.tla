-------------------------- MODULE VaultOwnerProofs --------------------------
(***************************************************************************)
(* For any number of tabs, deposits and intents: the types of VaultOwner,  *)
(* that what the owner needs is in a file (Recoverable), that an open      *)
(* dialog holds the chain turn, and what a device remembers of a deposit   *)
(* and of a withdrawal (DepositKept, DeviceFollowsSearch).                 *)
(*                                                                         *)
(* Recoverable is not inductive: it speaks of the vault that is registered *)
(* and the withdrawal that was asked for, which come from a device that    *)
(* was about to register or to ask.  OwnerInv follows them back through    *)
(* the steps of a device, and through the backup in a dialog's memory, to  *)
(* the file that was saved first.                                          *)
(*                                                                         *)
(* The other three need one dialog at a time (OneDialog), which TurnInv    *)
(* gives where a tab has one opening under way.  Tabs share one memory:    *)
(* were two dialogs open, each could find it empty and then overwrite what *)
(* the other had kept.                                                     *)
(***************************************************************************)
EXTENDS VaultOwner, TLAPS

\* The items of the operations and of the requests given up are what they should be.
DepositSteps == {"signed", "keep", "deposit"}
IntentSteps == {"encrypt", "claim", "job", "assemble", "sign", "review", "submit"}
Items ==
    /\ \A c \in Devices : /\ op[c].pc \in DepositSteps => op[c].item \in Deposits
                          /\ op[c].pc \in IntentSteps => op[c].item \in Intents
    /\ \A s \in stray : /\ s.kind = "deposit" => s.item \in Deposits
                        /\ s.kind \in {"job", "submit"} => s.item \in Intents
    /\ search # NoSearch => search.intent \in Intents

\* The keys of a vault are in a file before it is registered.
HasKeys(v) == \E b \in saved : b.vault = v
KeysFirst ==
    /\ registered # Nil => HasKeys(registered)
    /\ \A c \in Devices : op[c].pc = "made" => HasKeys(c)

\* An intent is in a backup of the vault, or in one that was lost, before it is asked for.
Known(i) == i \in lost \/ \E b \in Backups : b.intent = i
IntentFirst ==
    /\ search.intent # Nil => Known(search.intent)
    /\ \A c \in Devices : op[c].pc \in {"claim", "job"} => Known(op[c].item)
    /\ \A s \in stray : s.kind = "job" => Known(s.item)

\* A transaction is sealed in a backup of the vault before it is signed.
HasSealed(i) == \E b \in Backups : b.intent = i /\ b.sealed
SealFirst ==
    /\ \A b \in saved : b.sealed => b.intent # Nil
    /\ \A i \in authorized : HasSealed(i)
    /\ \A c \in Devices : op[c].pc = "sign" => HasSealed(op[c].item)

\* What a device works on belongs to the registered vault; what a dialog holds is a
\* backup of it, which is in a file once it is verified.
Registered ==
    /\ op[Sdk].pc \in {"encrypt", "claim", "assemble", "sign"} => registered # Nil
    /\ \A t \in Tabs : op[t].pc = "encrypt" => tab[t].memory # Nil
                                               /\ MayBind(tab[t].memory, op[t].item)
    /\ \A t \in Tabs : tab[t].memory # Nil =>
           /\ tab[t].memory.vault = registered
           /\ tab[t].memory.sealed => tab[t].memory.intent # Nil
    /\ \A t \in Tabs : tab[t].verified =>
           tab[t].memory # Nil /\ tab[t].memory \in saved /\ tab[t].memory.sealed

OwnerInv == OwnerTypeOK /\ Items /\ KeysFirst /\ IntentFirst /\ SealFirst /\ Registered

(***************************************************************************)
(* What the operators on files and items give.                             *)
(***************************************************************************)
LEMMA FileFacts ==
    /\ \A v \in Devices : /\ Fresh(v) \in Backup
                          /\ Fresh(v).vault = v /\ Fresh(v).intent = Nil /\ ~Fresh(v).sealed
    /\ \A b \in Backup, i \in Intents :
           /\ Bind(b, i) \in Backup
           /\ Bind(b, i).vault = b.vault /\ Bind(b, i).intent = i /\ Bind(b, i).sealed = b.sealed
           /\ b.intent = i => Bind(b, i) = b
    /\ \A b \in Backup : /\ Seal(b) \in Backup
                         /\ Seal(b).vault = b.vault /\ Seal(b).intent = b.intent /\ Seal(b).sealed
  BY DEF Backup, Fresh, Bind, Seal

LEMMA NewFacts == NewDeposit \subseteq Deposits /\ NewIntent \subseteq Intents
  BY DEF NewDeposit, NewIntent, Least

LEMMA DepositArrivesKeeps ==
    ASSUME OwnerInv, NEW c \in Devices, DepositArrives(c), UNCHANGED tabVars
    PROVE  OwnerInv'
<1>1. OwnerTypeOK'
  <2>1. op[c].item \in Deposits
    BY DEF OwnerInv, Items, Devices, DepositSteps, Waits, DepositArrives
  <2>2. vaultRow' \in [status : {"unfunded", "submitted", "confirmed"},
                     deposit : Deposits \cup {Nil}]
    BY <2>1 DEF OwnerInv, OwnerTypeOK, HostTypeOK, DepositArrives, DepositRoute
  <2>3. \E answer \in {"submitted", "uncertain", "rejected", "error"} :
          op' = [op EXCEPT ![c] = [op[c] EXCEPT !.answer = answer]]
    BY DEF DepositArrives, Told
  <2>4. op[c] \in Op
    BY DEF OwnerInv, OwnerTypeOK, HostTypeOK
  <2>5. op' \in [Devices -> Op]
    BY <2>3, <2>4 DEF OwnerInv, OwnerTypeOK, HostTypeOK, Op
  <2>6. HostTypeOK'
    BY OwnerAssumption, <2>1, <2>2, <2>5 DEF OwnerInv, tabVars, OwnerTypeOK, HostTypeOK,
        Backup, Devices, Intents, Stores, Deposits, Requests, Op, TabTypeOK, Tab, Items,
        DepositSteps, IntentSteps, NoSearch, Registered, MayBind, DepositArrives, Waits,
        DepositRoute, Unfunded, Told
  <2>7. TabTypeOK'
    BY OwnerAssumption DEF OwnerInv, tabVars, OwnerTypeOK, HostTypeOK, Backup, Devices,
        Intents, Stores, Deposits, Requests, Op, TabTypeOK, Tab, Items, DepositSteps,
        IntentSteps, NoSearch, Registered, MayBind, DepositArrives, Waits, DepositRoute,
        Unfunded, Told
  <2>. QED  BY <2>6, <2>7 DEF OwnerTypeOK
<1>2. Items'
  BY OwnerAssumption, SMTT(60) DEF OwnerInv, tabVars, OwnerTypeOK, HostTypeOK, Backup,
      Devices, Intents, Stores, Deposits, Requests, Op, TabTypeOK, Tab, Items, DepositSteps,
      IntentSteps, NoSearch, Registered, MayBind, DepositArrives, Waits, DepositRoute,
      Unfunded, Told
<1>3. KeysFirst'
  BY OwnerAssumption, SMTT(60) DEF OwnerInv, tabVars, OwnerTypeOK, HostTypeOK, Backup,
      Devices, Intents, Stores, Deposits, Requests, Op, TabTypeOK, Tab, KeysFirst, HasKeys,
      DepositArrives, Waits, DepositRoute, Unfunded, Told
<1>4. IntentFirst'
  BY OwnerAssumption, SMTT(60) DEF OwnerInv, tabVars, OwnerTypeOK, HostTypeOK, Backup,
      Devices, Intents, Stores, Deposits, Requests, Op, TabTypeOK, Tab, Items, DepositSteps,
      IntentSteps, NoSearch, IntentFirst, Known, Backups, Registered, MayBind,
      DepositArrives, Waits, DepositRoute, Unfunded, Told
<1>5. SealFirst'
  BY OwnerAssumption, SMTT(60) DEF OwnerInv, tabVars, OwnerTypeOK, HostTypeOK, Backup,
      Devices, Intents, Stores, Deposits, Requests, Op, TabTypeOK, Tab, Items, DepositSteps,
      IntentSteps, NoSearch, SealFirst, HasSealed, Backups, Registered, MayBind,
      DepositArrives, Waits, DepositRoute, Unfunded, Told
<1>6. Registered'
  BY OwnerAssumption, SMTT(60) DEF OwnerInv, tabVars, OwnerTypeOK, HostTypeOK, Backup,
      Devices, Intents, Stores, Deposits, Requests, Op, TabTypeOK, Tab, Items, DepositSteps,
      IntentSteps, NoSearch, Registered, MayBind, SealFirst, HasSealed, Backups,
      DepositArrives, Waits, DepositRoute, Unfunded, Told
<1>. QED  BY <1>1, <1>2, <1>3, <1>4, <1>5, <1>6 DEF OwnerInv

LEMMA JobArrivesKeeps ==
    ASSUME OwnerInv, NEW c \in Devices, JobArrives(c), UNCHANGED tabVars
    PROVE  OwnerInv'
  BY OwnerAssumption DEF OwnerInv, OwnerTypeOK, HostTypeOK, Backup, Devices, Intents,
      Stores, Deposits, Requests, Op, TabTypeOK, Tab, Items, DepositSteps, IntentSteps,
      NoSearch, KeysFirst, HasKeys, IntentFirst, Known, Backups, SealFirst, HasSealed,
      Registered, MayBind, tabVars, JobArrives, Waits, JobRoute, StoreOf, Stops, Idle

LEMMA SubmitArrivesKeeps ==
    ASSUME OwnerInv, NEW c \in Devices, SubmitArrives(c), UNCHANGED tabVars
    PROVE  OwnerInv'
  BY OwnerAssumption DEF OwnerInv, OwnerTypeOK, HostTypeOK, Backup, Devices, Intents,
      Stores, Deposits, Requests, Op, TabTypeOK, Tab, Items, DepositSteps, IntentSteps,
      NoSearch, KeysFirst, HasKeys, IntentFirst, Known, Backups, SealFirst, HasSealed,
      Registered, MayBind, tabVars, SubmitArrives, Waits, SubmitRoute, serverVars, Stops,
      Idle

LEMMA StrayArrivesKeeps ==
    ASSUME OwnerInv, NEW s \in stray, StrayArrives(s), UNCHANGED tabVars
    PROVE  OwnerInv'
<1>1. OwnerTypeOK'
  <2>1. vaultRow' \in [status : {"unfunded", "submitted", "confirmed"},
                     deposit : Deposits \cup {Nil}]
    BY DEF OwnerInv, OwnerTypeOK, HostTypeOK, Items, StrayArrives, DepositRoute, JobRoute, SubmitRoute
  <2>2. search' \in [intent : Intents \cup {Nil}, by : Stores \cup {Nil},
                   status : {"none", "searching", "solved", "submitted"}]
    BY DEF OwnerInv, OwnerTypeOK, HostTypeOK, Items, StrayArrives, DepositRoute, JobRoute, SubmitRoute
  <2>3. HostTypeOK'
    BY OwnerAssumption, <2>1, <2>2 DEF OwnerInv, tabVars, OwnerTypeOK, HostTypeOK, Backup,
        Devices, Intents, Stores, Deposits, Requests, Op, TabTypeOK, Tab, Items,
        DepositSteps, IntentSteps, NoSearch, Registered, MayBind, StrayArrives,
        DepositRoute, Unfunded, JobRoute, SubmitRoute
  <2>4. TabTypeOK'
    BY OwnerAssumption DEF OwnerInv, tabVars, OwnerTypeOK, HostTypeOK, Backup, Devices,
        Intents, Stores, Deposits, Requests, Op, TabTypeOK, Tab, Items, DepositSteps,
        IntentSteps, NoSearch, Registered, MayBind, StrayArrives, DepositRoute, Unfunded,
        JobRoute, SubmitRoute
  <2>. QED  BY <2>3, <2>4 DEF OwnerTypeOK
<1>2. Items'
  BY OwnerAssumption, SMTT(60) DEF OwnerInv, tabVars, OwnerTypeOK, HostTypeOK, Backup,
      Devices, Intents, Stores, Deposits, Requests, Op, TabTypeOK, Tab, Items, DepositSteps,
      IntentSteps, NoSearch, Registered, MayBind, StrayArrives, DepositRoute, Unfunded,
      JobRoute, SubmitRoute
<1>3. KeysFirst'
  BY OwnerAssumption, SMTT(60) DEF OwnerInv, tabVars, OwnerTypeOK, HostTypeOK, Backup,
      Devices, Intents, Stores, Deposits, Requests, Op, TabTypeOK, Tab, KeysFirst, HasKeys,
      StrayArrives, DepositRoute, Unfunded, JobRoute, NoSearch, SubmitRoute
<1>4. IntentFirst'
  BY OwnerAssumption, SMTT(60) DEF OwnerInv, tabVars, OwnerTypeOK, HostTypeOK, Backup,
      Devices, Intents, Stores, Deposits, Requests, Op, TabTypeOK, Tab, Items, DepositSteps,
      IntentSteps, NoSearch, IntentFirst, Known, Backups, Registered, MayBind, StrayArrives,
      DepositRoute, Unfunded, JobRoute, SubmitRoute
<1>5. SealFirst'
  BY OwnerAssumption, SMTT(60) DEF OwnerInv, tabVars, OwnerTypeOK, HostTypeOK, Backup,
      Devices, Intents, Stores, Deposits, Requests, Op, TabTypeOK, Tab, Items, DepositSteps,
      IntentSteps, NoSearch, SealFirst, HasSealed, Backups, Registered, MayBind,
      StrayArrives, DepositRoute, Unfunded, JobRoute, SubmitRoute
<1>6. Registered'
  BY OwnerAssumption, SMTT(60) DEF OwnerInv, tabVars, OwnerTypeOK, HostTypeOK, Backup,
      Devices, Intents, Stores, Deposits, Requests, Op, TabTypeOK, Tab, Items, DepositSteps,
      IntentSteps, NoSearch, Registered, MayBind, SealFirst, HasSealed, Backups,
      StrayArrives, DepositRoute, Unfunded, JobRoute, SubmitRoute
<1>. QED  BY <1>1, <1>2, <1>3, <1>4, <1>5, <1>6 DEF OwnerInv

LEMMA DepositConfirmsKeeps ==
    ASSUME OwnerInv, DepositConfirms, UNCHANGED tabVars
    PROVE  OwnerInv'
  BY OwnerAssumption DEF OwnerInv, OwnerTypeOK, HostTypeOK, Backup, Devices, Intents,
      Stores, Deposits, Requests, Op, TabTypeOK, Tab, Items, DepositSteps, IntentSteps,
      NoSearch, KeysFirst, HasKeys, IntentFirst, Known, Backups, SealFirst, HasSealed,
      Registered, MayBind, tabVars, DepositConfirms

LEMMA SearchEndsKeeps ==
    ASSUME OwnerInv, SearchEnds, UNCHANGED tabVars
    PROVE  OwnerInv'
  BY OwnerAssumption DEF OwnerInv, OwnerTypeOK, HostTypeOK, Backup, Devices, Intents,
      Stores, Deposits, Requests, Op, TabTypeOK, Tab, Items, DepositSteps, IntentSteps,
      NoSearch, KeysFirst, HasKeys, IntentFirst, Known, Backups, SealFirst, HasSealed,
      Registered, MayBind, tabVars, SearchEnds

LEMMA SdkSavesVaultKeeps ==
    ASSUME OwnerInv, SdkSavesVault, UNCHANGED tabVars
    PROVE  OwnerInv'
<1>1. OwnerTypeOK'
  BY OwnerAssumption, FileFacts DEF OwnerInv, tabVars, OwnerTypeOK, HostTypeOK, Backup,
      Devices, Intents, Stores, Deposits, Requests, Op, TabTypeOK, Tab, Items, DepositSteps,
      IntentSteps, NoSearch, Registered, MayBind, SdkSavesVault, Idle, Saves, Goes,
      serverVars
<1>2. Items'
  BY OwnerAssumption, FileFacts, SMTT(60) DEF OwnerInv, tabVars, OwnerTypeOK, HostTypeOK,
      Backup, Devices, Intents, Stores, Deposits, Requests, Op, TabTypeOK, Tab, Items,
      DepositSteps, IntentSteps, NoSearch, Registered, MayBind, SdkSavesVault, Idle, Saves,
      Goes, serverVars
<1>3. KeysFirst'
  BY OwnerAssumption, FileFacts, SMTT(60) DEF OwnerInv, tabVars, OwnerTypeOK, HostTypeOK,
      Backup, Devices, Intents, Stores, Deposits, Requests, Op, TabTypeOK, Tab, KeysFirst,
      HasKeys, SdkSavesVault, Idle, Saves, Goes, serverVars
<1>4. IntentFirst'
  BY OwnerAssumption, FileFacts, SMTT(60) DEF OwnerInv, tabVars, OwnerTypeOK, HostTypeOK,
      Backup, Devices, Intents, Stores, Deposits, Requests, Op, TabTypeOK, Tab, Items,
      DepositSteps, IntentSteps, NoSearch, IntentFirst, Known, Backups, Registered, MayBind,
      SdkSavesVault, Idle, Saves, Goes, serverVars
<1>5. SealFirst'
  BY OwnerAssumption, FileFacts, SMTT(60) DEF OwnerInv, tabVars, OwnerTypeOK, HostTypeOK,
      Backup, Devices, Intents, Stores, Deposits, Requests, Op, TabTypeOK, Tab, Items,
      DepositSteps, IntentSteps, NoSearch, SealFirst, HasSealed, Backups, Registered,
      MayBind, SdkSavesVault, Idle, Saves, Goes, serverVars
<1>6. Registered'
  BY OwnerAssumption, FileFacts, SMTT(60) DEF OwnerInv, tabVars, OwnerTypeOK, HostTypeOK,
      Backup, Devices, Intents, Stores, Deposits, Requests, Op, TabTypeOK, Tab, Items,
      DepositSteps, IntentSteps, NoSearch, Registered, MayBind, SealFirst, HasSealed,
      Backups, SdkSavesVault, Idle, Saves, Goes, serverVars
<1>. QED  BY <1>1, <1>2, <1>3, <1>4, <1>5, <1>6 DEF OwnerInv

LEMMA SdkRegistersKeeps ==
    ASSUME OwnerInv, SdkRegisters, UNCHANGED tabVars
    PROVE  OwnerInv'
  BY OwnerAssumption DEF OwnerInv, OwnerTypeOK, HostTypeOK, Backup, Devices, Intents,
      Stores, Deposits, Requests, Op, TabTypeOK, Tab, Items, DepositSteps, IntentSteps,
      NoSearch, KeysFirst, HasKeys, IntentFirst, Known, Backups, SealFirst, HasSealed,
      Registered, MayBind, tabVars, SdkRegisters, RegisterRoute, Stops, Idle

LEMMA SdkSignsDepositKeeps ==
    ASSUME OwnerInv, SdkSignsDeposit, UNCHANGED tabVars
    PROVE  OwnerInv'
  BY OwnerAssumption, NewFacts DEF OwnerInv, OwnerTypeOK, HostTypeOK, Backup, Devices,
      Intents, Stores, Deposits, Requests, Op, TabTypeOK, Tab, Items, DepositSteps,
      IntentSteps, NoSearch, KeysFirst, HasKeys, IntentFirst, Known, Backups, SealFirst,
      HasSealed, Registered, MayBind, tabVars, SdkSignsDeposit, Idle, Kept, StoreOf,
      Unfunded, Goes, serverVars

LEMMA SdkReadsVaultKeeps ==
    ASSUME OwnerInv, SdkReadsVault, UNCHANGED tabVars
    PROVE  OwnerInv'
  BY OwnerAssumption DEF OwnerInv, OwnerTypeOK, HostTypeOK, Backup, Devices, Intents,
      Stores, Deposits, Requests, Op, TabTypeOK, Tab, Items, DepositSteps, IntentSteps,
      NoSearch, KeysFirst, HasKeys, IntentFirst, Known, Backups, SealFirst, HasSealed,
      Registered, MayBind, tabVars, SdkReadsVault, Unfunded, Goes, Stops, Idle, serverVars

LEMMA SdkSendsKeeps ==
    ASSUME OwnerInv, SdkSends, UNCHANGED tabVars
    PROVE  OwnerInv'
  BY OwnerAssumption DEF OwnerInv, OwnerTypeOK, HostTypeOK, Backup, Devices, Intents,
      Stores, Deposits, Requests, Op, TabTypeOK, Tab, Items, DepositSteps, IntentSteps,
      NoSearch, KeysFirst, HasKeys, IntentFirst, Known, Backups, SealFirst, HasSealed,
      Registered, MayBind, tabVars, SdkSends, KeepDeposit, StoreOf, Goes, serverVars

LEMMA SdkResendsKeeps ==
    ASSUME OwnerInv, SdkResends, UNCHANGED tabVars
    PROVE  OwnerInv'
  BY OwnerAssumption DEF OwnerInv, OwnerTypeOK, HostTypeOK, Backup, Devices, Intents,
      Stores, Deposits, Requests, Op, TabTypeOK, Tab, Items, DepositSteps, IntentSteps,
      NoSearch, KeysFirst, HasKeys, IntentFirst, Known, Backups, SealFirst, HasSealed,
      Registered, MayBind, tabVars, SdkResends, Idle, Kept, StoreOf, Goes, serverVars

LEMMA SdkHearsKeeps ==
    ASSUME OwnerInv, SdkHears, UNCHANGED tabVars
    PROVE  OwnerInv'
  BY OwnerAssumption DEF OwnerInv, OwnerTypeOK, HostTypeOK, Backup, Devices, Intents,
      Stores, Deposits, Requests, Op, TabTypeOK, Tab, Items, DepositSteps, IntentSteps,
      NoSearch, KeysFirst, HasKeys, IntentFirst, Known, Backups, SealFirst, HasSealed,
      Registered, MayBind, tabVars, SdkHears, Settling, KeepDeposit, StoreOf, Stops, Idle,
      serverVars

LEMMA SdkSeesDepositKeeps ==
    ASSUME OwnerInv, SdkSeesDeposit, UNCHANGED tabVars
    PROVE  OwnerInv'
  BY OwnerAssumption DEF OwnerInv, OwnerTypeOK, HostTypeOK, Backup, Devices, Intents,
      Stores, Deposits, Requests, Op, TabTypeOK, Tab, Items, DepositSteps, IntentSteps,
      NoSearch, KeysFirst, HasKeys, IntentFirst, Known, Backups, SealFirst, HasSealed,
      Registered, MayBind, tabVars, SdkSeesDeposit, Idle, Kept, StoreOf, KeepDeposit,
      serverVars

LEMMA SdkResumesIntentKeeps ==
    ASSUME OwnerInv, NEW b \in Backups, SdkResumesIntent(b), UNCHANGED tabVars
    PROVE  OwnerInv'
  BY OwnerAssumption DEF OwnerInv, OwnerTypeOK, HostTypeOK, Backup, Devices, Intents,
      Stores, Deposits, Requests, Op, TabTypeOK, Tab, Items, DepositSteps, IntentSteps,
      NoSearch, KeysFirst, HasKeys, IntentFirst, Known, Backups, SealFirst, HasSealed,
      Registered, MayBind, tabVars, SdkResumesIntent, Idle, Goes, serverVars

LEMMA SdkMakesIntentKeeps ==
    ASSUME OwnerInv, NEW b \in Backups, SdkMakesIntent(b), UNCHANGED tabVars
    PROVE  OwnerInv'
  BY OwnerAssumption, NewFacts DEF OwnerInv, OwnerTypeOK, HostTypeOK, Backup, Devices,
      Intents, Stores, Deposits, Requests, Op, TabTypeOK, Tab, Items, DepositSteps,
      IntentSteps, NoSearch, KeysFirst, HasKeys, IntentFirst, Known, Backups, SealFirst,
      HasSealed, Registered, MayBind, tabVars, SdkMakesIntent, Idle, Kept, StoreOf, Goes,
      serverVars

LEMMA SdkAssemblesKeeps ==
    ASSUME OwnerInv, NEW b \in Backups, SdkAssembles(b), UNCHANGED tabVars
    PROVE  OwnerInv'
  BY OwnerAssumption DEF OwnerInv, OwnerTypeOK, HostTypeOK, Backup, Devices, Intents,
      Stores, Deposits, Requests, Op, TabTypeOK, Tab, Items, DepositSteps, IntentSteps,
      NoSearch, KeysFirst, HasKeys, IntentFirst, Known, Backups, SealFirst, HasSealed,
      Registered, MayBind, tabVars, SdkAssembles, Idle, Solves, MayClaim, Kept, StoreOf,
      KeepIntent, Goes, serverVars

LEMMA SdkSavesIntentKeeps ==
    ASSUME OwnerInv, SdkSavesIntent, UNCHANGED tabVars
    PROVE  OwnerInv'
<1>1. OwnerTypeOK'
  BY OwnerAssumption, FileFacts, SMTT(60) DEF OwnerInv, tabVars, OwnerTypeOK, HostTypeOK,
      Backup, Devices, Intents, Stores, Deposits, Requests, Op, TabTypeOK, Tab, Items,
      DepositSteps, IntentSteps, NoSearch, Registered, MayBind, SdkSavesIntent, Saves, Goes,
      serverVars
<1>2. Items'
  BY OwnerAssumption, FileFacts, SMTT(60) DEF OwnerInv, tabVars, OwnerTypeOK, HostTypeOK,
      Backup, Devices, Intents, Stores, Deposits, Requests, Op, TabTypeOK, Tab, Items,
      DepositSteps, IntentSteps, NoSearch, Registered, MayBind, SdkSavesIntent, Saves, Goes,
      serverVars
<1>3. KeysFirst'
  BY OwnerAssumption, FileFacts, SMTT(60) DEF OwnerInv, tabVars, OwnerTypeOK, HostTypeOK,
      Backup, Devices, Intents, Stores, Deposits, Requests, Op, TabTypeOK, Tab, KeysFirst,
      HasKeys, SdkSavesIntent, Saves, Goes, serverVars
<1>4. IntentFirst'
  BY OwnerAssumption, FileFacts, SMTT(60) DEF OwnerInv, tabVars, OwnerTypeOK, HostTypeOK,
      Backup, Devices, Intents, Stores, Deposits, Requests, Op, TabTypeOK, Tab, Items,
      DepositSteps, IntentSteps, NoSearch, IntentFirst, Known, Backups, Registered, MayBind,
      SdkSavesIntent, Saves, Goes, serverVars
<1>5. SealFirst'
  BY OwnerAssumption, FileFacts, SMTT(60) DEF OwnerInv, tabVars, OwnerTypeOK, HostTypeOK,
      Backup, Devices, Intents, Stores, Deposits, Requests, Op, TabTypeOK, Tab, Items,
      DepositSteps, IntentSteps, NoSearch, SealFirst, HasSealed, Backups, Registered,
      MayBind, SdkSavesIntent, Saves, Goes, serverVars
<1>6. Registered'
  BY OwnerAssumption, FileFacts, SMTT(60) DEF OwnerInv, tabVars, OwnerTypeOK, HostTypeOK,
      Backup, Devices, Intents, Stores, Deposits, Requests, Op, TabTypeOK, Tab, Items,
      DepositSteps, IntentSteps, NoSearch, Registered, MayBind, SealFirst, HasSealed,
      Backups, SdkSavesIntent, Saves, Goes, serverVars
<1>. QED  BY <1>1, <1>2, <1>3, <1>4, <1>5, <1>6 DEF OwnerInv

LEMMA SdkClaimsKeeps ==
    ASSUME OwnerInv, SdkClaims, UNCHANGED tabVars
    PROVE  OwnerInv'
  BY OwnerAssumption DEF OwnerInv, OwnerTypeOK, HostTypeOK, Backup, Devices, Intents,
      Stores, Deposits, Requests, Op, TabTypeOK, Tab, Items, DepositSteps, IntentSteps,
      NoSearch, KeysFirst, HasKeys, IntentFirst, Known, Backups, SealFirst, HasSealed,
      Registered, MayBind, tabVars, SdkClaims, MayClaim, Kept, StoreOf, KeepIntent, Goes,
      Stops, Idle, serverVars

LEMMA SdkSealsKeeps ==
    ASSUME OwnerInv, SdkSeals, UNCHANGED tabVars
    PROVE  OwnerInv'
<1>1. OwnerTypeOK'
  BY OwnerAssumption, FileFacts DEF OwnerInv, tabVars, OwnerTypeOK, HostTypeOK, Backup,
      Devices, Intents, Stores, Deposits, Requests, Op, TabTypeOK, Tab, Items, DepositSteps,
      IntentSteps, NoSearch, Registered, MayBind, SdkSeals, Saves, Goes, serverVars
<1>2. Items'
  BY OwnerAssumption, FileFacts, SMTT(60) DEF OwnerInv, tabVars, OwnerTypeOK, HostTypeOK,
      Backup, Devices, Intents, Stores, Deposits, Requests, Op, TabTypeOK, Tab, Items,
      DepositSteps, IntentSteps, NoSearch, Registered, MayBind, SdkSeals, Saves, Goes,
      serverVars
<1>3. KeysFirst'
  BY OwnerAssumption, FileFacts, SMTT(60) DEF OwnerInv, tabVars, OwnerTypeOK, HostTypeOK,
      Backup, Devices, Intents, Stores, Deposits, Requests, Op, TabTypeOK, Tab, KeysFirst,
      HasKeys, SdkSeals, Saves, Goes, serverVars
<1>4. IntentFirst'
  BY OwnerAssumption, FileFacts, SMTT(60) DEF OwnerInv, tabVars, OwnerTypeOK, HostTypeOK,
      Backup, Devices, Intents, Stores, Deposits, Requests, Op, TabTypeOK, Tab, Items,
      DepositSteps, IntentSteps, NoSearch, IntentFirst, Known, Backups, Registered, MayBind,
      SdkSeals, Saves, Goes, serverVars
<1>5. SealFirst'
  BY OwnerAssumption, FileFacts, SMTT(60) DEF OwnerInv, tabVars, OwnerTypeOK, HostTypeOK,
      Backup, Devices, Intents, Stores, Deposits, Requests, Op, TabTypeOK, Tab, Items,
      DepositSteps, IntentSteps, NoSearch, SealFirst, HasSealed, Backups, Registered,
      MayBind, SdkSeals, Saves, Goes, serverVars
<1>6. Registered'
  BY OwnerAssumption, FileFacts, SMTT(60) DEF OwnerInv, tabVars, OwnerTypeOK, HostTypeOK,
      Backup, Devices, Intents, Stores, Deposits, Requests, Op, TabTypeOK, Tab, Items,
      DepositSteps, IntentSteps, NoSearch, Registered, MayBind, SealFirst, HasSealed,
      Backups, SdkSeals, Saves, Goes, serverVars
<1>. QED  BY <1>1, <1>2, <1>3, <1>4, <1>5, <1>6 DEF OwnerInv

LEMMA SdkSignsKeeps ==
    ASSUME OwnerInv, SdkSigns, UNCHANGED tabVars
    PROVE  OwnerInv'
<1>1. OwnerTypeOK'
  <2>1. op[Sdk].item \in Intents
    BY DEF OwnerInv, Items, Devices, IntentSteps, SdkSigns
  <2>2. HostTypeOK'
    BY OwnerAssumption, <2>1 DEF OwnerInv, tabVars, OwnerTypeOK, HostTypeOK, Backup,
        Devices, Intents, Stores, Deposits, Requests, Op, TabTypeOK, Tab, Items,
        DepositSteps, IntentSteps, NoSearch, Registered, MayBind, SdkSigns, Stops, Idle,
        serverVars
  <2>3. TabTypeOK'
    BY OwnerAssumption DEF OwnerInv, tabVars, OwnerTypeOK, HostTypeOK, Backup, Devices,
        Intents, Stores, Deposits, Requests, Op, TabTypeOK, Tab, Items, DepositSteps,
        IntentSteps, NoSearch, Registered, MayBind, SdkSigns, Stops, Idle, serverVars
  <2>. QED  BY <2>2, <2>3 DEF OwnerTypeOK
<1>2. Items'
  BY OwnerAssumption, SMTT(60) DEF OwnerInv, tabVars, OwnerTypeOK, HostTypeOK, Backup,
      Devices, Intents, Stores, Deposits, Requests, Op, TabTypeOK, Tab, Items, DepositSteps,
      IntentSteps, NoSearch, Registered, MayBind, SdkSigns, Stops, Idle, serverVars
<1>3. KeysFirst'
  BY OwnerAssumption, SMTT(60) DEF OwnerInv, tabVars, OwnerTypeOK, HostTypeOK, Backup,
      Devices, Intents, Stores, Deposits, Requests, Op, TabTypeOK, Tab, KeysFirst, HasKeys,
      SdkSigns, Stops, Idle, serverVars
<1>4. IntentFirst'
  BY OwnerAssumption, SMTT(60) DEF OwnerInv, tabVars, OwnerTypeOK, HostTypeOK, Backup,
      Devices, Intents, Stores, Deposits, Requests, Op, TabTypeOK, Tab, Items, DepositSteps,
      IntentSteps, NoSearch, IntentFirst, Known, Backups, Registered, MayBind, SdkSigns,
      Stops, Idle, serverVars
<1>5. SealFirst'
  BY OwnerAssumption, SMTT(60) DEF OwnerInv, tabVars, OwnerTypeOK, HostTypeOK, Backup,
      Devices, Intents, Stores, Deposits, Requests, Op, TabTypeOK, Tab, Items, DepositSteps,
      IntentSteps, NoSearch, SealFirst, HasSealed, Backups, Registered, MayBind, SdkSigns,
      Stops, Idle, serverVars
<1>6. Registered'
  BY OwnerAssumption, SMTT(60) DEF OwnerInv, tabVars, OwnerTypeOK, HostTypeOK, Backup,
      Devices, Intents, Stores, Deposits, Requests, Op, TabTypeOK, Tab, Items, DepositSteps,
      IntentSteps, NoSearch, Registered, MayBind, SealFirst, HasSealed, Backups, SdkSigns,
      Stops, Idle, serverVars
<1>. QED  BY <1>1, <1>2, <1>3, <1>4, <1>5, <1>6 DEF OwnerInv

LEMMA SdkSubmitsKeeps ==
    ASSUME OwnerInv, SdkSubmits, UNCHANGED tabVars
    PROVE  OwnerInv'
  BY OwnerAssumption DEF OwnerInv, OwnerTypeOK, HostTypeOK, Backup, Devices, Intents,
      Stores, Deposits, Requests, Op, TabTypeOK, Tab, Items, DepositSteps, IntentSteps,
      NoSearch, KeysFirst, HasKeys, IntentFirst, Known, Backups, SealFirst, HasSealed,
      Registered, MayBind, tabVars, SdkSubmits, Idle, Goes, serverVars

LEMMA SdkStopsKeeps ==
    ASSUME OwnerInv, SdkStops, UNCHANGED tabVars
    PROVE  OwnerInv'
  BY OwnerAssumption DEF OwnerInv, OwnerTypeOK, HostTypeOK, Backup, Devices, Intents,
      Stores, Deposits, Requests, Op, TabTypeOK, Tab, Items, DepositSteps, IntentSteps,
      NoSearch, KeysFirst, HasKeys, IntentFirst, Known, Backups, SealFirst, HasSealed,
      Registered, MayBind, tabVars, SdkStops, Idle, Abandoned, StoreOf, Waits, Stops,
      serverVars

LEMMA OpenKeeps ==
    ASSUME OwnerInv, NEW t \in Tabs, NEW o \in Opens, Open(t, o)
    PROVE  OwnerInv'
  BY OwnerAssumption DEF OwnerInv, OwnerTypeOK, HostTypeOK, Backup, Devices, Intents,
      Stores, Deposits, Requests, Op, TabTypeOK, Tab, Items, DepositSteps, IntentSteps,
      NoSearch, KeysFirst, HasKeys, IntentFirst, Known, Backups, SealFirst, HasSealed,
      Registered, MayBind, Open, FreeTurn, Mine, hostVars

LEMMA GrantKeeps ==
    ASSUME OwnerInv, NEW t \in Tabs, NEW o \in Opens, Grant(t, o)
    PROVE  OwnerInv'
<1>1. OwnerTypeOK'
  <2>1. HostTypeOK'
    BY OwnerAssumption DEF OwnerInv, OwnerTypeOK, HostTypeOK, Backup, Devices, Intents,
        Stores, Deposits, Requests, Op, TabTypeOK, Tab, Items, DepositSteps, IntentSteps,
        NoSearch, Registered, MayBind, Grant, TurnFree, Shows, hostVars
  <2>2. TabTypeOK'
    BY OwnerAssumption DEF OwnerInv, OwnerTypeOK, HostTypeOK, Backup, Devices, Intents,
        Stores, Deposits, Requests, Op, TabTypeOK, Tab, Items, DepositSteps, IntentSteps,
        NoSearch, Registered, MayBind, Grant, TurnFree, Shows, hostVars
  <2>. QED  BY <2>1, <2>2 DEF OwnerTypeOK
<1>2. Items'
  BY OwnerAssumption, SMTT(60) DEF OwnerInv, OwnerTypeOK, HostTypeOK, Backup, Devices,
      Intents, Stores, Deposits, Requests, Op, TabTypeOK, Tab, Items, DepositSteps,
      IntentSteps, NoSearch, Registered, MayBind, Grant, TurnFree, Shows, hostVars
<1>3. KeysFirst'
  BY OwnerAssumption, SMTT(60) DEF OwnerInv, OwnerTypeOK, HostTypeOK, Backup, Devices,
      Intents, Stores, Deposits, Requests, Op, TabTypeOK, Tab, KeysFirst, HasKeys, Grant,
      TurnFree, Shows, hostVars
<1>4. IntentFirst'
  BY OwnerAssumption, SMTT(60) DEF OwnerInv, OwnerTypeOK, HostTypeOK, Backup, Devices,
      Intents, Stores, Deposits, Requests, Op, TabTypeOK, Tab, Items, DepositSteps,
      IntentSteps, NoSearch, IntentFirst, Known, Backups, Registered, MayBind, Grant,
      TurnFree, Shows, hostVars
<1>5. SealFirst'
  BY OwnerAssumption, SMTT(60) DEF OwnerInv, OwnerTypeOK, HostTypeOK, Backup, Devices,
      Intents, Stores, Deposits, Requests, Op, TabTypeOK, Tab, Items, DepositSteps,
      IntentSteps, NoSearch, SealFirst, HasSealed, Backups, Registered, MayBind, Grant,
      TurnFree, Shows, hostVars
<1>6. Registered'
  BY OwnerAssumption, SMTT(60) DEF OwnerInv, OwnerTypeOK, HostTypeOK, Backup, Devices,
      Intents, Stores, Deposits, Requests, Op, TabTypeOK, Tab, Items, DepositSteps,
      IntentSteps, NoSearch, Registered, MayBind, SealFirst, HasSealed, Backups, Grant,
      TurnFree, Shows, hostVars
<1>. QED  BY <1>1, <1>2, <1>3, <1>4, <1>5, <1>6 DEF OwnerInv

LEMMA GivesUpKeeps ==
    ASSUME OwnerInv, NEW t \in Tabs, NEW o \in Opens, GivesUp(t, o)
    PROVE  OwnerInv'
  BY OwnerAssumption DEF OwnerInv, OwnerTypeOK, HostTypeOK, Backup, Devices, Intents,
      Stores, Deposits, Requests, Op, TabTypeOK, Tab, Items, DepositSteps, IntentSteps,
      NoSearch, KeysFirst, HasKeys, IntentFirst, Known, Backups, SealFirst, HasSealed,
      Registered, MayBind, GivesUp, FreeTurn, Mine, hostVars

LEMMA ClosesKeeps ==
    ASSUME OwnerInv, NEW t \in Tabs, Closes(t)
    PROVE  OwnerInv'
<1>1. OwnerTypeOK'
  <2>1. op' \in [Devices -> Op]
    BY DEF OwnerInv, OwnerTypeOK, HostTypeOK, Closes, Stops, Idle, Op, Devices
  <2>2. HostTypeOK'
    BY OwnerAssumption, <2>1 DEF OwnerInv, OwnerTypeOK, HostTypeOK, Backup, Devices,
        Intents, Stores, Deposits, Requests, Op, TabTypeOK, Tab, Items, DepositSteps,
        IntentSteps, NoSearch, Registered, MayBind, Closes, FreeTurn, Mine, ClosedTab,
        Stops, Idle, serverVars, filesVars
  <2>3. TabTypeOK'
    BY OwnerAssumption DEF OwnerInv, OwnerTypeOK, HostTypeOK, Backup, Devices, Intents,
        Stores, Deposits, Requests, Op, TabTypeOK, Tab, Items, DepositSteps, IntentSteps,
        NoSearch, Registered, MayBind, Closes, FreeTurn, Mine, ClosedTab, Stops, Idle,
        serverVars, filesVars
  <2>. QED  BY <2>2, <2>3 DEF OwnerTypeOK
<1>2. Items'
  BY OwnerAssumption, SMTT(60) DEF OwnerInv, OwnerTypeOK, HostTypeOK, Backup, Devices,
      Intents, Stores, Deposits, Requests, Op, TabTypeOK, Tab, Items, DepositSteps,
      IntentSteps, NoSearch, Registered, MayBind, Closes, FreeTurn, Mine, ClosedTab, Stops,
      Idle, serverVars, filesVars
<1>3. KeysFirst'
  BY OwnerAssumption, SMTT(60) DEF OwnerInv, OwnerTypeOK, HostTypeOK, Backup, Devices,
      Intents, Stores, Deposits, Requests, Op, TabTypeOK, Tab, KeysFirst, HasKeys, Closes,
      FreeTurn, Mine, ClosedTab, Stops, Idle, serverVars, filesVars
<1>4. IntentFirst'
  BY OwnerAssumption, SMTT(60) DEF OwnerInv, OwnerTypeOK, HostTypeOK, Backup, Devices,
      Intents, Stores, Deposits, Requests, Op, TabTypeOK, Tab, Items, DepositSteps,
      IntentSteps, NoSearch, IntentFirst, Known, Backups, Registered, MayBind, Closes,
      FreeTurn, Mine, ClosedTab, Stops, Idle, serverVars, filesVars
<1>5. SealFirst'
  BY OwnerAssumption, SMTT(60) DEF OwnerInv, OwnerTypeOK, HostTypeOK, Backup, Devices,
      Intents, Stores, Deposits, Requests, Op, TabTypeOK, Tab, Items, DepositSteps,
      IntentSteps, NoSearch, SealFirst, HasSealed, Backups, Registered, MayBind, Closes,
      FreeTurn, Mine, ClosedTab, Stops, Idle, serverVars, filesVars
<1>6. Registered'
  BY OwnerAssumption, SMTT(60) DEF OwnerInv, OwnerTypeOK, HostTypeOK, Backup, Devices,
      Intents, Stores, Deposits, Requests, Op, TabTypeOK, Tab, Items, DepositSteps,
      IntentSteps, NoSearch, Registered, MayBind, SealFirst, HasSealed, Backups, Closes,
      FreeTurn, Mine, ClosedTab, Stops, Idle, serverVars, filesVars
<1>. QED  BY <1>1, <1>2, <1>3, <1>4, <1>5, <1>6 DEF OwnerInv

LEMMA ChecksKeeps ==
    ASSUME OwnerInv, NEW t \in Tabs, Checks(t)
    PROVE  OwnerInv'
  BY OwnerAssumption DEF OwnerInv, OwnerTypeOK, HostTypeOK, Backup, Devices, Intents,
      Stores, Deposits, Requests, Op, TabTypeOK, Tab, Items, DepositSteps, IntentSteps,
      NoSearch, KeysFirst, HasKeys, IntentFirst, Known, Backups, SealFirst, HasSealed,
      Registered, MayBind, Checks, hostVars

LEMMA EndsCheckKeeps ==
    ASSUME OwnerInv, NEW t \in Tabs, EndsCheck(t)
    PROVE  OwnerInv'
  BY OwnerAssumption DEF OwnerInv, OwnerTypeOK, HostTypeOK, Backup, Devices, Intents,
      Stores, Deposits, Requests, Op, TabTypeOK, Tab, Items, DepositSteps, IntentSteps,
      NoSearch, KeysFirst, HasKeys, IntentFirst, Known, Backups, SealFirst, HasSealed,
      Registered, MayBind, EndsCheck, hostVars

LEMMA TabDiesKeeps ==
    ASSUME OwnerInv, NEW t \in Tabs, TabDies(t)
    PROVE  OwnerInv'
  BY OwnerAssumption DEF OwnerInv, OwnerTypeOK, HostTypeOK, Backup, Devices, Intents,
      Stores, Deposits, Requests, Op, TabTypeOK, Tab, Items, DepositSteps, IntentSteps,
      NoSearch, KeysFirst, HasKeys, IntentFirst, Known, Backups, SealFirst, HasSealed,
      Registered, MayBind, TabDies, ClosedTab, Idle, Abandoned, StoreOf, Waits, Stops,
      serverVars, filesVars

LEMMA TabMakesVaultKeeps ==
    ASSUME OwnerInv, NEW t \in Tabs, TabMakesVault(t)
    PROVE  OwnerInv'
<1>1. OwnerTypeOK'
  BY OwnerAssumption, FileFacts, SMTT(60) DEF OwnerInv, OwnerTypeOK, HostTypeOK, Backup,
      Devices, Intents, Stores, Deposits, Requests, Op, TabTypeOK, Tab, Items, DepositSteps,
      IntentSteps, NoSearch, Registered, MayBind, TabMakesVault, Idle, Saves, Goes,
      serverVars, tabVars
<1>2. Items'
  BY OwnerAssumption, FileFacts, SMTT(60) DEF OwnerInv, OwnerTypeOK, HostTypeOK, Backup,
      Devices, Intents, Stores, Deposits, Requests, Op, TabTypeOK, Tab, Items, DepositSteps,
      IntentSteps, NoSearch, Registered, MayBind, TabMakesVault, Idle, Saves, Goes,
      serverVars, tabVars
<1>3. KeysFirst'
  BY OwnerAssumption, FileFacts, SMTT(60) DEF OwnerInv, OwnerTypeOK, HostTypeOK, Backup,
      Devices, Intents, Stores, Deposits, Requests, Op, TabTypeOK, Tab, KeysFirst, HasKeys,
      TabMakesVault, Idle, Saves, Goes, serverVars, tabVars
<1>4. IntentFirst'
  BY OwnerAssumption, FileFacts, SMTT(60) DEF OwnerInv, OwnerTypeOK, HostTypeOK, Backup,
      Devices, Intents, Stores, Deposits, Requests, Op, TabTypeOK, Tab, Items, DepositSteps,
      IntentSteps, NoSearch, IntentFirst, Known, Backups, Registered, MayBind,
      TabMakesVault, Idle, Saves, Goes, serverVars, tabVars
<1>5. SealFirst'
  BY OwnerAssumption, FileFacts, SMTT(60) DEF OwnerInv, OwnerTypeOK, HostTypeOK, Backup,
      Devices, Intents, Stores, Deposits, Requests, Op, TabTypeOK, Tab, Items, DepositSteps,
      IntentSteps, NoSearch, SealFirst, HasSealed, Backups, Registered, MayBind,
      TabMakesVault, Idle, Saves, Goes, serverVars, tabVars
<1>6. Registered'
  BY OwnerAssumption, FileFacts, SMTT(60) DEF OwnerInv, OwnerTypeOK, HostTypeOK, Backup,
      Devices, Intents, Stores, Deposits, Requests, Op, TabTypeOK, Tab, Items, DepositSteps,
      IntentSteps, NoSearch, Registered, MayBind, SealFirst, HasSealed, Backups,
      TabMakesVault, Idle, Saves, Goes, serverVars, tabVars
<1>. QED  BY <1>1, <1>2, <1>3, <1>4, <1>5, <1>6 DEF OwnerInv

LEMMA TabRegistersKeeps ==
    ASSUME OwnerInv, NEW t \in Tabs, TabRegisters(t)
    PROVE  OwnerInv'
<1>1. OwnerTypeOK'
  BY OwnerAssumption DEF OwnerInv, OwnerTypeOK, HostTypeOK, Backup, Devices, Intents,
      Stores, Deposits, Requests, Op, TabTypeOK, Tab, Items, DepositSteps, IntentSteps,
      NoSearch, Registered, MayBind, TabRegisters, RegisterRoute, Stops, Idle, filesVars,
      tabVars
<1>2. Items'
  BY OwnerAssumption, SMTT(60) DEF OwnerInv, OwnerTypeOK, HostTypeOK, Backup, Devices,
      Intents, Stores, Deposits, Requests, Op, TabTypeOK, Tab, Items, DepositSteps,
      IntentSteps, NoSearch, Registered, MayBind, TabRegisters, RegisterRoute, Stops, Idle,
      filesVars, tabVars
<1>3. KeysFirst'
  BY OwnerAssumption, SMTT(60) DEF OwnerInv, OwnerTypeOK, HostTypeOK, Backup, Devices,
      Intents, Stores, Deposits, Requests, Op, TabTypeOK, Tab, KeysFirst, HasKeys,
      TabRegisters, RegisterRoute, Stops, Idle, filesVars, tabVars
<1>4. IntentFirst'
  BY OwnerAssumption, SMTT(60) DEF OwnerInv, OwnerTypeOK, HostTypeOK, Backup, Devices,
      Intents, Stores, Deposits, Requests, Op, TabTypeOK, Tab, Items, DepositSteps,
      IntentSteps, NoSearch, IntentFirst, Known, Backups, Registered, MayBind, TabRegisters,
      RegisterRoute, Stops, Idle, filesVars, tabVars
<1>5. SealFirst'
  BY OwnerAssumption, SMTT(60) DEF OwnerInv, OwnerTypeOK, HostTypeOK, Backup, Devices,
      Intents, Stores, Deposits, Requests, Op, TabTypeOK, Tab, Items, DepositSteps,
      IntentSteps, NoSearch, SealFirst, HasSealed, Backups, Registered, MayBind,
      TabRegisters, RegisterRoute, Stops, Idle, filesVars, tabVars
<1>6. Registered'
  BY OwnerAssumption, SMTT(60) DEF OwnerInv, OwnerTypeOK, HostTypeOK, Backup, Devices,
      Intents, Stores, Deposits, Requests, Op, TabTypeOK, Tab, Items, DepositSteps,
      IntentSteps, NoSearch, Registered, MayBind, SealFirst, HasSealed, Backups,
      TabRegisters, RegisterRoute, Stops, Idle, filesVars, tabVars
<1>. QED  BY <1>1, <1>2, <1>3, <1>4, <1>5, <1>6 DEF OwnerInv

LEMMA RestoresKeeps ==
    ASSUME OwnerInv, NEW b \in Backups, NEW t \in Tabs, Restores(t, b)
    PROVE  OwnerInv'
<1>1. OwnerTypeOK'
  <2>1. b \in Backup /\ b.sealed \in BOOLEAN
    BY DEF OwnerInv, OwnerTypeOK, HostTypeOK, Backups, Backup
  <2>2. tab' = [tab EXCEPT ![t] = [tab[t] EXCEPT !.memory = b,
                                         !.verified = b.sealed]]
    BY DEF Restores, Memorizes
  <2>3. tab[t] \in Tab
    BY DEF OwnerInv, OwnerTypeOK, TabTypeOK
  <2>4. [tab[t] EXCEPT !.memory = b, !.verified = b.sealed] \in Tab
    BY <2>1, <2>3 DEF Tab
  <2>5. tab' \in [Tabs -> Tab]
    BY <2>2, <2>4 DEF OwnerInv, OwnerTypeOK, TabTypeOK
  <2>6. HostTypeOK'
    BY OwnerAssumption DEF OwnerInv, OwnerTypeOK, HostTypeOK, Backup, Devices, Intents,
        Stores, Deposits, Requests, Op, TabTypeOK, Tab, Items, DepositSteps, IntentSteps,
        NoSearch, Registered, MayBind, Restores, Idle, Memorizes, hostVars
  <2>7. TabTypeOK'
    BY OwnerAssumption, <2>5 DEF OwnerInv, OwnerTypeOK, HostTypeOK, Backup, Devices,
        Intents, Stores, Deposits, Requests, Op, TabTypeOK, Tab, Items, DepositSteps,
        IntentSteps, NoSearch, Registered, MayBind, Restores, Idle, Memorizes, hostVars
  <2>. QED  BY <2>6, <2>7 DEF OwnerTypeOK
<1>2. Items'
  BY OwnerAssumption, SMTT(60) DEF OwnerInv, OwnerTypeOK, HostTypeOK, Backup, Devices,
      Intents, Stores, Deposits, Requests, Op, TabTypeOK, Tab, Items, DepositSteps,
      IntentSteps, NoSearch, Registered, MayBind, Restores, Idle, Memorizes, hostVars
<1>3. KeysFirst'
  BY OwnerAssumption, SMTT(60) DEF OwnerInv, OwnerTypeOK, HostTypeOK, Backup, Devices,
      Intents, Stores, Deposits, Requests, Op, TabTypeOK, Tab, KeysFirst, HasKeys, Restores,
      Idle, Memorizes, hostVars
<1>4. IntentFirst'
  BY OwnerAssumption, SMTT(60) DEF OwnerInv, OwnerTypeOK, HostTypeOK, Backup, Devices,
      Intents, Stores, Deposits, Requests, Op, TabTypeOK, Tab, Items, DepositSteps,
      IntentSteps, NoSearch, IntentFirst, Known, Backups, Registered, MayBind, Restores,
      Idle, Memorizes, hostVars
<1>5. SealFirst'
  BY OwnerAssumption, SMTT(60) DEF OwnerInv, OwnerTypeOK, HostTypeOK, Backup, Devices,
      Intents, Stores, Deposits, Requests, Op, TabTypeOK, Tab, Items, DepositSteps,
      IntentSteps, NoSearch, SealFirst, HasSealed, Backups, Registered, MayBind, Restores,
      Idle, Memorizes, hostVars
<1>6. Registered'
  BY OwnerAssumption, SMTT(60) DEF OwnerInv, OwnerTypeOK, HostTypeOK, Backup, Devices,
      Intents, Stores, Deposits, Requests, Op, TabTypeOK, Tab, Items, DepositSteps,
      IntentSteps, NoSearch, Registered, MayBind, SealFirst, HasSealed, Backups, Restores,
      Idle, Memorizes, hostVars
<1>. QED  BY <1>1, <1>2, <1>3, <1>4, <1>5, <1>6 DEF OwnerInv

LEMMA AsksWalletKeeps ==
    ASSUME OwnerInv, NEW t \in Tabs, AsksWallet(t)
    PROVE  OwnerInv'
  BY OwnerAssumption, NewFacts DEF OwnerInv, OwnerTypeOK, HostTypeOK, Backup, Devices,
      Intents, Stores, Deposits, Requests, Op, TabTypeOK, Tab, Items, DepositSteps,
      IntentSteps, NoSearch, KeysFirst, HasKeys, IntentFirst, Known, Backups, SealFirst,
      HasSealed, Registered, MayBind, AsksWallet, Unlocked, Idle, Kept, StoreOf, Unfunded,
      Goes, serverVars, filesVars, tabVars

LEMMA TabSendsKeeps ==
    ASSUME OwnerInv, NEW t \in Tabs, TabSends(t)
    PROVE  OwnerInv'
  BY OwnerAssumption DEF OwnerInv, OwnerTypeOK, HostTypeOK, Backup, Devices, Intents,
      Stores, Deposits, Requests, Op, TabTypeOK, Tab, Items, DepositSteps, IntentSteps,
      NoSearch, KeysFirst, HasKeys, IntentFirst, Known, Backups, SealFirst, HasSealed,
      Registered, MayBind, TabSends, KeepDeposit, StoreOf, Goes, serverVars, filesVars,
      tabVars

LEMMA TabResendsKeeps ==
    ASSUME OwnerInv, NEW t \in Tabs, TabResends(t)
    PROVE  OwnerInv'
  BY OwnerAssumption DEF OwnerInv, OwnerTypeOK, HostTypeOK, Backup, Devices, Intents,
      Stores, Deposits, Requests, Op, TabTypeOK, Tab, Items, DepositSteps, IntentSteps,
      NoSearch, KeysFirst, HasKeys, IntentFirst, Known, Backups, SealFirst, HasSealed,
      Registered, MayBind, TabResends, Unlocked, Idle, Kept, StoreOf, Goes, serverVars,
      filesVars, tabVars

LEMMA TabHearsKeeps ==
    ASSUME OwnerInv, NEW t \in Tabs, TabHears(t)
    PROVE  OwnerInv'
  BY OwnerAssumption DEF OwnerInv, OwnerTypeOK, HostTypeOK, Backup, Devices, Intents,
      Stores, Deposits, Requests, Op, TabTypeOK, Tab, Items, DepositSteps, IntentSteps,
      NoSearch, KeysFirst, HasKeys, IntentFirst, Known, Backups, SealFirst, HasSealed,
      Registered, MayBind, TabHears, KeepDeposit, StoreOf, Stops, Idle, serverVars,
      filesVars, tabVars

LEMMA BeginsKeeps ==
    ASSUME OwnerInv, NEW t \in Tabs, Begins(t)
    PROVE  OwnerInv'
  BY OwnerAssumption, NewFacts DEF OwnerInv, OwnerTypeOK, HostTypeOK, Backup, Devices,
      Intents, Stores, Deposits, Requests, Op, TabTypeOK, Tab, Items, DepositSteps,
      IntentSteps, NoSearch, KeysFirst, HasKeys, IntentFirst, Known, Backups, SealFirst,
      HasSealed, Registered, MayBind, Begins, Unlocked, Idle, Kept, StoreOf, Goes,
      serverVars, filesVars, tabVars

LEMMA TabSavesIntentKeeps ==
    ASSUME OwnerInv, NEW t \in Tabs, TabSavesIntent(t)
    PROVE  OwnerInv'
<1>1. OwnerTypeOK'
  <2>1. Bind(tab[t].memory, op[t].item) \in Backup
    BY OwnerAssumption, FileFacts DEF OwnerInv, OwnerTypeOK, TabTypeOK, Tab, Items, Registered, IntentSteps, Devices, TabSavesIntent
  <2>2. tab' = [tab EXCEPT ![t] = [tab[t] EXCEPT !.memory = Bind(tab[t].memory, op[t].item),
                                         !.verified = tab[t].verified]]
    BY DEF TabSavesIntent, Memorizes
  <2>3. tab[t] \in Tab
    BY DEF OwnerInv, OwnerTypeOK, TabTypeOK
  <2>4. [tab[t] EXCEPT !.memory = Bind(tab[t].memory, op[t].item), !.verified = tab[t].verified] \in Tab
    BY <2>1, <2>3 DEF Tab
  <2>5. tab' \in [Tabs -> Tab]
    BY <2>2, <2>4 DEF OwnerInv, OwnerTypeOK, TabTypeOK
  <2>6. HostTypeOK'
    BY OwnerAssumption, FileFacts, <2>1 DEF OwnerInv, OwnerTypeOK, HostTypeOK, Backup,
        Devices, Intents, Stores, Deposits, Requests, Op, TabTypeOK, Tab, Items,
        DepositSteps, IntentSteps, NoSearch, Registered, MayBind, TabSavesIntent,
        KeepIntent, StoreOf, Memorizes, Downloads, Saves, Goes, serverVars
  <2>7. TabTypeOK'
    BY OwnerAssumption, FileFacts, <2>5 DEF OwnerInv, OwnerTypeOK, HostTypeOK, Backup,
        Devices, Intents, Stores, Deposits, Requests, Op, TabTypeOK, Tab, Items,
        DepositSteps, IntentSteps, NoSearch, Registered, MayBind, TabSavesIntent,
        KeepIntent, StoreOf, Memorizes, Downloads, Saves, Goes, serverVars
  <2>. QED  BY <2>6, <2>7 DEF OwnerTypeOK
<1>2. Items'
  BY OwnerAssumption, FileFacts, SMTT(60) DEF OwnerInv, OwnerTypeOK, HostTypeOK, Backup,
      Devices, Intents, Stores, Deposits, Requests, Op, TabTypeOK, Tab, Items, DepositSteps,
      IntentSteps, NoSearch, Registered, MayBind, TabSavesIntent, KeepIntent, StoreOf,
      Memorizes, Downloads, Saves, Goes, serverVars
<1>3. KeysFirst'
  BY OwnerAssumption, FileFacts, SMTT(60) DEF OwnerInv, OwnerTypeOK, HostTypeOK, Backup,
      Devices, Intents, Stores, Deposits, Requests, Op, TabTypeOK, Tab, KeysFirst, HasKeys,
      TabSavesIntent, KeepIntent, StoreOf, Memorizes, Downloads, Saves, Goes, serverVars
<1>4. IntentFirst'
  BY OwnerAssumption, FileFacts, SMTT(60) DEF OwnerInv, OwnerTypeOK, HostTypeOK, Backup,
      Devices, Intents, Stores, Deposits, Requests, Op, TabTypeOK, Tab, Items, DepositSteps,
      IntentSteps, NoSearch, IntentFirst, Known, Backups, Registered, MayBind,
      TabSavesIntent, KeepIntent, StoreOf, Memorizes, Downloads, Saves, Goes, serverVars
<1>5. SealFirst'
  BY OwnerAssumption, FileFacts, SMTT(60) DEF OwnerInv, OwnerTypeOK, HostTypeOK, Backup,
      Devices, Intents, Stores, Deposits, Requests, Op, TabTypeOK, Tab, Items, DepositSteps,
      IntentSteps, NoSearch, SealFirst, HasSealed, Backups, Registered, MayBind,
      TabSavesIntent, KeepIntent, StoreOf, Memorizes, Downloads, Saves, Goes, serverVars
<1>6. Registered'
  BY OwnerAssumption, FileFacts, SMTT(60) DEF OwnerInv, OwnerTypeOK, HostTypeOK, Backup,
      Devices, Intents, Stores, Deposits, Requests, Op, TabTypeOK, Tab, Items, DepositSteps,
      IntentSteps, NoSearch, Registered, MayBind, SealFirst, HasSealed, Backups,
      TabSavesIntent, KeepIntent, StoreOf, Memorizes, Downloads, Saves, Goes, serverVars
<1>. QED  BY <1>1, <1>2, <1>3, <1>4, <1>5, <1>6 DEF OwnerInv

LEMMA TabAssemblesKeeps ==
    ASSUME OwnerInv, NEW t \in Tabs, TabAssembles(t)
    PROVE  OwnerInv'
<1>1. OwnerTypeOK'
  BY OwnerAssumption, FileFacts, SMTT(60) DEF OwnerInv, OwnerTypeOK, HostTypeOK, Backup,
      Devices, Intents, Stores, Deposits, Requests, Op, TabTypeOK, Tab, Items, DepositSteps,
      IntentSteps, NoSearch, Registered, MayBind, TabAssembles, Unlocked, Idle, Solves,
      Kept, StoreOf, KeepIntent, Sealed, Goes, Memorizes, Saves, serverVars
<1>2. Items'
  BY OwnerAssumption, FileFacts, SMTT(60) DEF OwnerInv, OwnerTypeOK, HostTypeOK, Backup,
      Devices, Intents, Stores, Deposits, Requests, Op, TabTypeOK, Tab, Items, DepositSteps,
      IntentSteps, NoSearch, Registered, MayBind, TabAssembles, Unlocked, Idle, Solves,
      Kept, StoreOf, KeepIntent, Sealed, Goes, Memorizes, Saves, serverVars
<1>3. KeysFirst'
  BY OwnerAssumption, FileFacts, SMTT(60) DEF OwnerInv, OwnerTypeOK, HostTypeOK, Backup,
      Devices, Intents, Stores, Deposits, Requests, Op, TabTypeOK, Tab, KeysFirst, HasKeys,
      TabAssembles, Unlocked, Idle, Solves, Kept, StoreOf, KeepIntent, Sealed, Goes,
      Memorizes, Saves, serverVars
<1>4. IntentFirst'
  BY OwnerAssumption, FileFacts, SMTT(60) DEF OwnerInv, OwnerTypeOK, HostTypeOK, Backup,
      Devices, Intents, Stores, Deposits, Requests, Op, TabTypeOK, Tab, Items, DepositSteps,
      IntentSteps, NoSearch, IntentFirst, Known, Backups, Registered, MayBind, TabAssembles,
      Unlocked, Idle, Solves, Kept, StoreOf, KeepIntent, Sealed, Goes, Memorizes, Saves,
      serverVars
<1>5. SealFirst'
  BY OwnerAssumption, FileFacts, SMTT(60) DEF OwnerInv, OwnerTypeOK, HostTypeOK, Backup,
      Devices, Intents, Stores, Deposits, Requests, Op, TabTypeOK, Tab, Items, DepositSteps,
      IntentSteps, NoSearch, SealFirst, HasSealed, Backups, Registered, MayBind,
      TabAssembles, Unlocked, Idle, Solves, Kept, StoreOf, KeepIntent, Sealed, Goes,
      Memorizes, Saves, serverVars
<1>6. Registered'
  BY OwnerAssumption, FileFacts, SMTT(60) DEF OwnerInv, OwnerTypeOK, HostTypeOK, Backup,
      Devices, Intents, Stores, Deposits, Requests, Op, TabTypeOK, Tab, Items, DepositSteps,
      IntentSteps, NoSearch, Registered, MayBind, SealFirst, HasSealed, Backups,
      TabAssembles, Unlocked, Idle, Solves, Kept, StoreOf, KeepIntent, Sealed, Goes,
      Memorizes, Saves, serverVars
<1>. QED  BY <1>1, <1>2, <1>3, <1>4, <1>5, <1>6 DEF OwnerInv

LEMMA VerifiesKeeps ==
    ASSUME OwnerInv, NEW t \in Tabs, Verifies(t)
    PROVE  OwnerInv'
  BY OwnerAssumption DEF OwnerInv, OwnerTypeOK, HostTypeOK, Backup, Devices, Intents,
      Stores, Deposits, Requests, Op, TabTypeOK, Tab, Items, DepositSteps, IntentSteps,
      NoSearch, KeysFirst, HasKeys, IntentFirst, Known, Backups, SealFirst, HasSealed,
      Registered, MayBind, Verifies, Unlocked, Idle, Memorizes, hostVars

LEMMA TabSignsKeeps ==
    ASSUME OwnerInv, NEW t \in Tabs, TabSigns(t)
    PROVE  OwnerInv'
<1>1. OwnerTypeOK'
  <2>1. op[t].item \in Intents
    BY DEF OwnerInv, Items, Devices, IntentSteps, TabSigns
  <2>2. HostTypeOK'
    BY OwnerAssumption, <2>1 DEF OwnerInv, OwnerTypeOK, HostTypeOK, Backup, Devices,
        Intents, Stores, Deposits, Requests, Op, TabTypeOK, Tab, Items, DepositSteps,
        IntentSteps, NoSearch, Registered, MayBind, TabSigns, Goes, serverVars, filesVars,
        tabVars
  <2>3. TabTypeOK'
    BY OwnerAssumption DEF OwnerInv, OwnerTypeOK, HostTypeOK, Backup, Devices, Intents,
        Stores, Deposits, Requests, Op, TabTypeOK, Tab, Items, DepositSteps, IntentSteps,
        NoSearch, Registered, MayBind, TabSigns, Goes, serverVars, filesVars, tabVars
  <2>. QED  BY <2>2, <2>3 DEF OwnerTypeOK
<1>2. Items'
  BY OwnerAssumption, SMTT(60) DEF OwnerInv, OwnerTypeOK, HostTypeOK, Backup, Devices,
      Intents, Stores, Deposits, Requests, Op, TabTypeOK, Tab, Items, DepositSteps,
      IntentSteps, NoSearch, Registered, MayBind, TabSigns, Goes, serverVars, filesVars,
      tabVars
<1>3. KeysFirst'
  BY OwnerAssumption, SMTT(60) DEF OwnerInv, OwnerTypeOK, HostTypeOK, Backup, Devices,
      Intents, Stores, Deposits, Requests, Op, TabTypeOK, Tab, KeysFirst, HasKeys, TabSigns,
      Goes, serverVars, filesVars, tabVars
<1>4. IntentFirst'
  BY OwnerAssumption, SMTT(60) DEF OwnerInv, OwnerTypeOK, HostTypeOK, Backup, Devices,
      Intents, Stores, Deposits, Requests, Op, TabTypeOK, Tab, Items, DepositSteps,
      IntentSteps, NoSearch, IntentFirst, Known, Backups, Registered, MayBind, TabSigns,
      Goes, serverVars, filesVars, tabVars
<1>5. SealFirst'
  BY OwnerAssumption, SMTT(60) DEF OwnerInv, OwnerTypeOK, HostTypeOK, Backup, Devices,
      Intents, Stores, Deposits, Requests, Op, TabTypeOK, Tab, Items, DepositSteps,
      IntentSteps, NoSearch, SealFirst, HasSealed, Backups, Registered, MayBind, TabSigns,
      Goes, serverVars, filesVars, tabVars
<1>6. Registered'
  BY OwnerAssumption, SMTT(60) DEF OwnerInv, OwnerTypeOK, HostTypeOK, Backup, Devices,
      Intents, Stores, Deposits, Requests, Op, TabTypeOK, Tab, Items, DepositSteps,
      IntentSteps, NoSearch, Registered, MayBind, SealFirst, HasSealed, Backups, TabSigns,
      Goes, serverVars, filesVars, tabVars
<1>. QED  BY <1>1, <1>2, <1>3, <1>4, <1>5, <1>6 DEF OwnerInv

LEMMA TabSubmitsKeeps ==
    ASSUME OwnerInv, NEW t \in Tabs, TabSubmits(t)
    PROVE  OwnerInv'
  BY OwnerAssumption DEF OwnerInv, OwnerTypeOK, HostTypeOK, Backup, Devices, Intents,
      Stores, Deposits, Requests, Op, TabTypeOK, Tab, Items, DepositSteps, IntentSteps,
      NoSearch, KeysFirst, HasKeys, IntentFirst, Known, Backups, SealFirst, HasSealed,
      Registered, MayBind, TabSubmits, Goes, serverVars, filesVars, tabVars

(***************************************************************************)
(* The specification.                                                      *)
(***************************************************************************)
LEMMA InitKeeps == OwnerInit => OwnerInv
<1>. SUFFICES ASSUME OwnerInit PROVE OwnerInv
  OBVIOUS
<1>1. HostTypeOK
  BY OwnerAssumption DEF OwnerInit, HostInit, HostTypeOK, Backup, Stores, Unfunded, NoSearch,
    Op, Idle
<1>2. TabTypeOK
  BY DEF OwnerInit, TabInit, TabTypeOK, Tab, ClosedTab
<1>3. Items /\ KeysFirst /\ IntentFirst /\ SealFirst /\ Registered
  BY DEF OwnerInit, HostInit, TabInit, NoSearch, Idle, ClosedTab, Items, DepositSteps,
    IntentSteps, KeysFirst, IntentFirst, SealFirst, Registered, Devices
<1>. QED  BY <1>1, <1>2, <1>3 DEF OwnerInv, OwnerTypeOK

LEMMA NextKeeps == OwnerInv /\ [OwnerNext]_ownerVars => OwnerInv'
<1>. SUFFICES ASSUME OwnerInv, [OwnerNext]_ownerVars PROVE OwnerInv'
  OBVIOUS
<1>1. CASE HostNext /\ UNCHANGED tabVars
  BY <1>1, DepositArrivesKeeps, JobArrivesKeeps, SubmitArrivesKeeps, StrayArrivesKeeps,
    DepositConfirmsKeeps, SearchEndsKeeps DEF HostNext
<1>2. CASE SdkNext /\ UNCHANGED tabVars
  BY <1>2, SdkSavesVaultKeeps, SdkRegistersKeeps, SdkSignsDepositKeeps, SdkReadsVaultKeeps,
    SdkSendsKeeps, SdkResendsKeeps, SdkHearsKeeps, SdkSeesDepositKeeps,
    SdkResumesIntentKeeps, SdkMakesIntentKeeps, SdkAssemblesKeeps, SdkSavesIntentKeeps,
    SdkClaimsKeeps, SdkSealsKeeps, SdkSignsKeeps, SdkSubmitsKeeps, SdkStopsKeeps DEF SdkNext
<1>3. ASSUME NEW t \in Tabs, TabNext(t) PROVE OwnerInv'
  BY <1>3, OpenKeeps, GrantKeeps, GivesUpKeeps, ClosesKeeps, ChecksKeeps, EndsCheckKeeps,
    TabDiesKeeps, TabMakesVaultKeeps, TabRegistersKeeps, RestoresKeeps, AsksWalletKeeps,
    TabSendsKeeps, TabResendsKeeps, TabHearsKeeps, BeginsKeeps, TabSavesIntentKeeps,
    TabAssemblesKeeps, VerifiesKeeps, TabSignsKeeps, TabSubmitsKeeps DEF TabNext
<1>4. CASE UNCHANGED ownerVars
  BY <1>4 DEF OwnerInv, OwnerTypeOK, HostTypeOK, TabTypeOK, Items, KeysFirst, HasKeys,
    IntentFirst, Known, Backups, SealFirst, HasSealed, Registered, ownerVars, hostVars, tabVars
<1>. QED  BY <1>1, <1>2, <1>3, <1>4 DEF OwnerNext

\* The server's rows, the owner's files, every device's operation and every tab's dialog
\* keep their types.
THEOREM OwnerTypeCorrect == OwnerSpec => []OwnerTypeOK
<1>1. OwnerInv => OwnerTypeOK  BY DEF OwnerInv
<1>. QED  BY <1>1, InitKeeps, NextKeeps, PTL DEF OwnerSpec

\* The keys of the registered vault, the intent of its withdrawal and the transaction of
\* whatever was signed are in a file the owner has, or one the browser failed to deliver,
\* however devices interleave, crash, and lose answers and downloads.
THEOREM EverythingRecoverable == OwnerSpec => []Recoverable
<1>1. OwnerInv => Recoverable
  <2>. SUFFICES ASSUME OwnerInv PROVE Recoverable
    OBVIOUS
  <2>1. registered # Nil => \E b \in saved : b.vault = registered
    BY DEF OwnerInv, KeysFirst, HasKeys
  <2>2. search.intent # Nil => search.intent \in {b.intent : b \in Backups} \cup lost
    BY DEF OwnerInv, IntentFirst, Known
  <2>3. \A i \in authorized : \E b \in Backups : b.intent = i /\ b.sealed
    BY DEF OwnerInv, SealFirst, HasSealed
  <2>. QED  BY <2>1, <2>2, <2>3 DEF Recoverable
<1>. QED  BY <1>1, InitKeeps, NextKeeps, PTL DEF OwnerSpec

(***************************************************************************)
(* The chain turn.                                                         *)
(***************************************************************************)
\* Of one opening per tab: it waits, or its dialog is open and it holds the turn.
TurnInv(o) == \A t \in Tabs :
    /\ <<t, o>> \in queue => o \in tab[t].timers
    /\ o \in tab[t].timers => /\ tab[t].dialog = "closed" /\ tab[t].held = o
                              /\ turn # <<t, o>>
    /\ turn = <<t, o>> <=> tab[t].dialog # "closed"
    /\ tab[t].dialog # "closed" => tab[t].held = o

LEMMA TurnKept ==
    ASSUME NEW o, Opens = {o}, OwnerInv, TurnInv(o), [OwnerNext]_ownerVars
    PROVE  TurnInv(o)'
<1>1. CASE UNCHANGED tabVars
  BY <1>1 DEF TurnInv, tabVars
<1>2. ASSUME NEW t \in Tabs, TabNext(t), ~UNCHANGED tabVars PROVE TurnInv(o)'
  <2>. tab[t] \in Tab /\ tab \in [Tabs -> Tab]
    BY DEF OwnerInv, OwnerTypeOK, TabTypeOK
  <2>1. CASE Open(t, o)
    BY <2>1, OpensAssumption DEF Open, TurnInv, FreeTurn, Mine, Tab
  <2>2. CASE Grant(t, o)
    BY <2>2, OpensAssumption DEF Grant, TurnInv, TurnFree, Shows, Tab
  <2>3. CASE GivesUp(t, o)
    BY <2>3, OpensAssumption DEF GivesUp, TurnInv, FreeTurn, Mine, Tab
  <2>4. CASE Closes(t)
    BY <2>4, OpensAssumption DEF Closes, TurnInv, FreeTurn, Mine, Tab, ClosedTab
  <2>5. CASE Checks(t)
    BY <2>5, OpensAssumption DEF Checks, TurnInv
  <2>6. CASE EndsCheck(t)
    BY <2>6, OpensAssumption DEF EndsCheck, TurnInv
  <2>7. CASE TabDies(t)
    BY <2>7, OpensAssumption DEF TabDies, TurnInv, ClosedTab, Tab
  <2>8. ASSUME NEW b \in Backups, Restores(t, b) PROVE TurnInv(o)'
    BY <2>8 DEF Restores, Memorizes, TurnInv, Tab
  <2>9. CASE TabSavesIntent(t)
    BY <2>9 DEF TabSavesIntent, Memorizes, TurnInv, Tab
  <2>10. CASE TabAssembles(t)
    BY <2>10 DEF TabAssembles, Memorizes, TurnInv, Tab
  <2>11. CASE Verifies(t)
    BY <2>11 DEF Verifies, Memorizes, TurnInv, Tab
  <2>. QED
    BY <1>2, <2>1, <2>2, <2>3, <2>4, <2>5, <2>6, <2>7, <2>8, <2>9, <2>10, <2>11
    DEF TabNext, TabMakesVault, TabRegisters, AsksWallet, TabSends, TabResends, TabHears,
      Begins, TabSigns, TabSubmits
<1>. QED  BY <1>1, <1>2 DEF OwnerNext, ownerVars

\* A tab that has one opening of a dialog under way at a time, and never a second while
\* the first waits, holds the chain turn as long as its dialog is open.
THEOREM OneOpeningHoldsTurn ==
    ASSUME NEW o, Opens = {o}
    PROVE  OwnerSpec => []DialogHoldsTurn
<1>1. OwnerInit => TurnInv(o)
  BY OpensAssumption DEF OwnerInit, TabInit, ClosedTab, TurnInv
<1>2. TurnInv(o) /\ OwnerInv => DialogHoldsTurn
  BY OpensAssumption DEF TurnInv, DialogHoldsTurn, Mine
<1>3. OwnerInv /\ TurnInv(o) /\ [OwnerNext]_ownerVars => TurnInv(o)'
  BY TurnKept
<1>. QED  BY <1>1, <1>2, <1>3, InitKeeps, NextKeeps, PTL DEF OwnerSpec

(***************************************************************************)
(* What a device remembers.                                                *)
(***************************************************************************)
\* A tab signs a deposit, or makes an intent, in a dialog that is open: one tab at a time.
DialogInv == \A t \in Tabs :
    /\ op[t].pc \in {"signed", "encrypt"} => tab[t].dialog = "vault"
    /\ op[t].pc # "keep"

\* A deposit of store s is under way, or given up on; or one is being signed for it.
SentBy(s, d) ==
    \/ \E c \in Devices : StoreOf(c) = s /\ op[c].pc = "deposit" /\ op[c].item = d
    \/ \E x \in stray : x.kind = "deposit" /\ x.by = s /\ x.item = d
SigningIn(s) == \E c \in Devices : StoreOf(c) = s /\ op[c].pc \in {"signed", "keep"}

\* What a store has sent it remembers, until the server has recorded it; and it signs
\* another only once it has nothing left to send.
DepositInv ==
    /\ \A s \in Stores, d \in Deposits : SentBy(s, d) =>
         d = kept[s].deposit \/ (kept[s].deposit = Nil /\ d = vaultRow.deposit)
    /\ \A s \in Stores : SigningIn(s) =>
         kept[s].deposit = Nil /\ \A d \in Deposits : ~SentBy(s, d)
    /\ \A c \in Devices : op[c].pc = "deposit" =>
         /\ op[c].answer # "rejected"
         /\ op[c].answer = "submitted" => op[c].item = vaultRow.deposit

\* A store remembers the intent it asks a search for, and never another one.
IntentInv ==
    /\ \A c \in Devices : op[c].pc = "job" => kept[StoreOf(c)].intent = op[c].item
    /\ \A x \in stray : x.kind = "job" => kept[x.by].intent = x.item
    /\ search # NoSearch => search.by \in Stores /\ kept[search.by].intent = search.intent
    /\ \A t \in Tabs : op[t].pc = "encrypt" => kept["browser"].intent \in {Nil, op[t].item}

LEMMA OneDialog ==
    ASSUME NEW o, Opens = {o}, OwnerInv, TurnInv(o), NEW t \in Tabs, NEW u \in Tabs,
           tab[t].dialog # "closed", tab[u].dialog # "closed"
    PROVE  t = u
<1>1. turn = <<t, o>> /\ turn = <<u, o>>
  BY DEF TurnInv
<1>. QED  BY <1>1

LEMMA OpFacts ==
    ASSUME OwnerInv
    PROVE  /\ DOMAIN op = Devices /\ \A c \in Devices : op[c] \in Op
           /\ DOMAIN kept = Stores
           /\ \A c \in Devices : StoreOf(c) \in Stores
           /\ \A s \in Stores : kept[s] \in [deposit : Deposits \cup {Nil},
                                             intent : Intents \cup {Nil}]
           /\ Nil \notin Deposits /\ Nil \notin Intents
           /\ Sdk \in Devices /\ Tabs \subseteq Devices /\ Sdk \notin Tabs
           /\ StoreOf(Sdk) = "disk" /\ \A t \in Tabs : StoreOf(t) = "browser"
           /\ \A c \in Devices : c # Sdk => c \in Tabs
           /\ \A c \in Devices : /\ op[c].pc \in {"signed", "keep", "deposit"} =>
                                      op[c].item \in Deposits
                                 /\ op[c].pc = "job" => op[c].item \in Intents
           /\ \A x \in stray : x.by \in Stores
           /\ \A t \in Tabs : tab[t] \in Tab
           /\ DOMAIN tab = Tabs
BY OwnerAssumption DEF OwnerInv, OwnerTypeOK, HostTypeOK, TabTypeOK, StoreOf, Stores, Devices,
    Deposits, Intents, Items, DepositSteps, IntentSteps, Idle

\* The devices' operations after the steps they are made of.
LEMMA OpMoves ==
    ASSUME OwnerInv, NEW c \in Devices
    PROVE  /\ \A pc, item : Goes(c, pc, item) =>
                /\ op'[c] = [pc |-> pc, item |-> item, answer |-> "none"]
                /\ \A d \in Devices : d # c => op'[d] = op[d]
           /\ Stops(c) => /\ op'[c] = Idle
                          /\ \A d \in Devices : d # c => op'[d] = op[d]
BY OpFacts DEF Goes, Stops

\* The steps that sign and send nothing.
QuietDeposits ==
    /\ \A s \in Stores : kept'[s].deposit = kept[s].deposit
    /\ vaultRow'.deposit = vaultRow.deposit
    /\ \A c \in Devices : op'[c] = op[c] \/ op'[c].pc \notin {"signed", "keep", "deposit"}
    /\ \A x \in stray' : x.kind = "deposit" =>
         x \in stray \/ \E c \in Devices : /\ op[c].pc = "deposit" /\ x.item = op[c].item
                                           /\ x.by = StoreOf(c)

LEMMA QuietKeepsDeposits ==
    ASSUME DepositInv, QuietDeposits
    PROVE  DepositInv'
<1>1. \A s, d : SentBy(s, d)' => SentBy(s, d)
  BY DEF QuietDeposits, SentBy
<1>2. \A s : SigningIn(s)' => SigningIn(s)
  BY DEF QuietDeposits, SigningIn
<1>3. \A c \in Devices : op'[c].pc = "deposit" => op'[c] = op[c]
  BY DEF QuietDeposits
<1>. QED  BY <1>1, <1>2, <1>3 DEF DepositInv, QuietDeposits

\* A request that its device gives up on was under way.
LEMMA AbandonedFacts ==
    ASSUME NEW c \in Devices, Abandoned(c)
    PROVE  \A x \in stray' : x \in stray \/ /\ op[c].pc = x.kind /\ x.item = op[c].item
                                            /\ x.by = StoreOf(c)
BY DEF Abandoned, Waits

LEMMA KeepFacts ==
    ASSUME OwnerInv, NEW c \in Devices
    PROVE  /\ \A d : KeepDeposit(c, d) =>
                /\ kept'[StoreOf(c)].deposit = d
                /\ \A s \in Stores : /\ kept'[s].intent = kept[s].intent
                                     /\ s # StoreOf(c) => kept'[s] = kept[s]
           /\ \A i : KeepIntent(c, i) =>
                /\ kept'[StoreOf(c)].intent = i
                /\ \A s \in Stores : /\ kept'[s].deposit = kept[s].deposit
                                     /\ s # StoreOf(c) => kept'[s] = kept[s]
<1>. DEFINE r == StoreOf(c)
<1>1. /\ r \in Stores /\ DOMAIN kept = Stores
      /\ \A s \in Stores : DOMAIN kept[s] = {"deposit", "intent"}
  BY OpFacts
<1>2. ASSUME NEW d, KeepDeposit(c, d)
      PROVE  /\ kept'[r].deposit = d
             /\ \A s \in Stores : /\ kept'[s].intent = kept[s].intent
                                  /\ s # r => kept'[s] = kept[s]
  <2>1. kept' = [kept EXCEPT ![r].deposit = d]
    BY <1>2 DEF KeepDeposit
  <2>2. \A s \in Stores : s # r => kept'[s] = kept[s]
    BY <2>1, <1>1
  <2>3. kept'[r] = [kept[r] EXCEPT !.deposit = d]
    BY <2>1, <1>1
  <2>4. kept'[r].deposit = d /\ kept'[r].intent = kept[r].intent
    BY <2>3, <1>1
  <2>. QED  BY <2>2, <2>4
<1>3. ASSUME NEW i, KeepIntent(c, i)
      PROVE  /\ kept'[r].intent = i
             /\ \A s \in Stores : /\ kept'[s].deposit = kept[s].deposit
                                  /\ s # r => kept'[s] = kept[s]
  <2>1. kept' = [kept EXCEPT ![r].intent = i]
    BY <1>3 DEF KeepIntent
  <2>2. \A s \in Stores : s # r => kept'[s] = kept[s]
    BY <2>1, <1>1
  <2>3. kept'[r] = [kept[r] EXCEPT !.intent = i]
    BY <2>1, <1>1
  <2>4. kept'[r].intent = i /\ kept'[r].deposit = kept[r].deposit
    BY <2>3, <1>1
  <2>. QED  BY <2>2, <2>4
<1>. QED  BY <1>2, <1>3

\* A device moves on to a step of something else than a deposit, or ends.
QuietPc(pc) == pc \notin {"signed", "keep", "deposit"}
LEMMA QuietStep ==
    ASSUME OwnerInv, NEW c \in Devices, NEW pc, NEW item,
           QuietPc(pc), Goes(c, pc, item) \/ Stops(c) \/ UNCHANGED op,
           kept' = kept \/ \E i : KeepIntent(c, i), vaultRow' = vaultRow, stray' = stray
    PROVE  QuietDeposits
<1>1. \A d \in Devices : op'[d] = op[d] \/ QuietPc(op'[d].pc)
  <2>1. CASE Goes(c, pc, item)
    <3>1. op'[c] = [pc |-> pc, item |-> item, answer |-> "none"]
      BY <2>1, OpMoves, Zenon
    <3>2. \A d \in Devices : d # c => op'[d] = op[d]
      BY <2>1, OpMoves, Zenon
    <3>3. op'[c].pc = pc
      BY <3>1
    <3>. QED  BY <3>2, <3>3
  <2>2. CASE Stops(c)
    BY <2>2, OpMoves DEF QuietPc, Idle
  <2>. QED  BY <2>1, <2>2
<1>2. \A s \in Stores : kept'[s].deposit = kept[s].deposit
  BY KeepFacts
<1>. QED  BY <1>1, <1>2 DEF QuietPc, QuietDeposits

LEMMA QuietHost ==
    ASSUME OwnerInv,
           \/ DepositConfirms \/ SearchEnds
           \/ \E c \in Devices : JobArrives(c) \/ SubmitArrives(c)
           \/ \E x \in stray : StrayArrives(x) /\ x.kind # "deposit"
    PROVE  QuietDeposits
<1>1. CASE DepositConfirms
  BY <1>1 DEF DepositConfirms, QuietDeposits, OwnerInv, OwnerTypeOK, HostTypeOK
<1>2. CASE SearchEnds
  BY <1>2 DEF SearchEnds, QuietDeposits
<1>3. ASSUME NEW c \in Devices, JobArrives(c) \/ SubmitArrives(c)  PROVE QuietDeposits
  BY <1>3, OpMoves DEF JobArrives, JobRoute, SubmitArrives, SubmitRoute, serverVars,
    QuietDeposits, Idle
<1>4. ASSUME NEW x \in stray, StrayArrives(x), x.kind # "deposit"  PROVE QuietDeposits
  BY <1>4 DEF StrayArrives, JobRoute, SubmitRoute, QuietDeposits
<1>. QED  BY <1>1, <1>2, <1>3, <1>4

LEMMA QuietSdk ==
    ASSUME OwnerInv,
           \/ SdkSavesVault \/ SdkRegisters \/ SdkSavesIntent \/ SdkClaims \/ SdkSeals
           \/ SdkSigns \/ SdkSubmits \/ SdkStops
           \/ \E b \in Backups : SdkResumesIntent(b) \/ SdkMakesIntent(b) \/ SdkAssembles(b)
    PROVE  QuietDeposits
<1>0. Sdk \in Devices
  BY OpFacts
<1>. USE <1>0
<1>1. CASE SdkSavesVault \/ SdkRegisters
  BY <1>1, QuietStep DEF SdkSavesVault, SdkRegisters, RegisterRoute, serverVars, QuietPc
<1>2. CASE SdkSavesIntent \/ SdkSeals
  BY <1>2, QuietStep DEF SdkSavesIntent, SdkSeals, serverVars, QuietPc
<1>3. CASE SdkSigns \/ SdkSubmits
  BY <1>3, QuietStep DEF SdkSigns, SdkSubmits, serverVars, QuietPc
<1>4. CASE SdkClaims
  BY <1>4, QuietStep DEF SdkClaims, serverVars, QuietPc
<1>5. CASE SdkStops
  BY <1>5, OpMoves, OpFacts, AbandonedFacts DEF SdkStops, serverVars, QuietDeposits, Idle
<1>6. ASSUME NEW b \in Backups, SdkResumesIntent(b) \/ SdkMakesIntent(b)  PROVE QuietDeposits
  BY <1>6, QuietStep DEF SdkResumesIntent, SdkMakesIntent, serverVars, QuietPc
<1>7. ASSUME NEW b \in Backups, SdkAssembles(b)  PROVE QuietDeposits
  <2>1. \E pc : QuietPc(pc) /\ Goes(Sdk, pc, b.intent)
    BY <1>7 DEF SdkAssembles, QuietPc
  <2>. QED  BY <2>1, <1>7, QuietStep DEF SdkAssembles, serverVars
<1>. QED  BY <1>1, <1>2, <1>3, <1>4, <1>5, <1>6, <1>7

LEMMA QuietTab ==
    ASSUME OwnerInv, NEW t \in Tabs, TabNext(t),
           ~AsksWallet(t), ~TabSends(t), ~TabResends(t), ~TabHears(t)
    PROVE  QuietDeposits
<1>0. t \in Devices
  BY OpFacts
<1>. USE <1>0
<1>1. ASSUME NEW o \in Opens, Open(t, o) \/ Grant(t, o) \/ GivesUp(t, o)  PROVE QuietDeposits
  BY <1>1 DEF Open, Grant, GivesUp, hostVars, QuietDeposits
<1>2. CASE Checks(t) \/ EndsCheck(t) \/ Verifies(t)
  BY <1>2 DEF Checks, EndsCheck, Verifies, hostVars, QuietDeposits
<1>3. ASSUME NEW b \in Backups, Restores(t, b)  PROVE QuietDeposits
  BY <1>3 DEF Restores, hostVars, QuietDeposits
<1>4. CASE Closes(t)
  BY <1>4, OpMoves, OpFacts DEF Closes, serverVars, QuietDeposits, Idle
<1>5. CASE TabDies(t)
  BY <1>5, OpMoves, OpFacts, AbandonedFacts DEF TabDies, serverVars, QuietDeposits, Idle
<1>6. CASE TabMakesVault(t) \/ TabRegisters(t)
  BY <1>6, QuietStep DEF TabMakesVault, TabRegisters, RegisterRoute, serverVars, QuietPc
<1>7. CASE Begins(t)
  BY <1>7, QuietStep DEF Begins, serverVars, QuietPc
<1>8. CASE TabSigns(t) \/ TabSubmits(t)
  BY <1>8, QuietStep DEF TabSigns, TabSubmits, serverVars, QuietPc
<1>9. CASE TabSavesIntent(t)
  BY <1>9, QuietStep DEF TabSavesIntent, serverVars, QuietPc
<1>10. CASE TabAssembles(t)
  <2>1. \E i : KeepIntent(t, i)
    BY <1>10 DEF TabAssembles
  <2>2. Goes(t, "sign", tab[t].memory.intent) \/ UNCHANGED op
    BY <1>10 DEF TabAssembles
  <2>. QED  BY <2>1, <2>2, <1>10, QuietStep DEF TabAssembles, serverVars, QuietPc
<1>. QED
  BY <1>1, <1>2, <1>3, <1>4, <1>5, <1>6, <1>7, <1>8, <1>9, <1>10 DEF TabNext

(***************************************************************************)
(* Signing, sending and hearing of a deposit.                              *)
(***************************************************************************)
LEMMA SignsKeeps ==
    ASSUME OwnerInv, DepositInv, NEW c \in Devices, NEW d,
           Kept(c).deposit = Nil, vaultRow.deposit = Nil, op[c].pc # "deposit",
           Goes(c, "signed", d) \/ Goes(c, "keep", d),
           kept' = kept, vaultRow' = vaultRow, stray' = stray
    PROVE  DepositInv'
<1>1. /\ op'[c].pc \in {"signed", "keep"}
      /\ \A e \in Devices : e # c => op'[e] = op[e]
  <2>1. op'[c] = [pc |-> "signed", item |-> d, answer |-> "none"]
        \/ op'[c] = [pc |-> "keep", item |-> d, answer |-> "none"]
    BY OpMoves, Zenon
  <2>2. \A e \in Devices : e # c => op'[e] = op[e]
    BY OpMoves, Zenon
  <2>. QED  BY <2>1, <2>2
<1>2. \A s, x : SentBy(s, x)' => SentBy(s, x)
  BY <1>1 DEF SentBy
<1>3. \A s : SigningIn(s)' => SigningIn(s) \/ s = StoreOf(c)
  BY <1>1 DEF SigningIn
<1>4. \A x \in Deposits : ~SentBy(StoreOf(c), x)
  BY OpFacts DEF DepositInv, Kept
<1>5. \A e \in Devices : op'[e].pc = "deposit" => op'[e] = op[e]
  BY <1>1
<1>. QED  BY <1>2, <1>3, <1>4, <1>5 DEF DepositInv, Kept

LEMMA SendsKeeps ==
    ASSUME OwnerInv, DepositInv, NEW c \in Devices, op[c].pc \in {"signed", "keep"},
           \A e \in Devices \ {c} :
               StoreOf(e) = StoreOf(c) => op[e].pc \notin {"signed", "keep"},
           KeepDeposit(c, op[c].item), Goes(c, "deposit", op[c].item),
           vaultRow' = vaultRow, stray' = stray
    PROVE  DepositInv'
<1>. DEFINE r == StoreOf(c)
            d == op[c].item
<1>0. r \in Stores /\ d \in Deposits
  BY OpFacts
<1>1. /\ op'[c] = [pc |-> "deposit", item |-> d, answer |-> "none"]
      /\ \A e \in Devices : e # c => op'[e] = op[e]
  BY OpMoves, Zenon
<1>2. /\ kept'[r].deposit = d
      /\ \A s \in Stores : s # r => kept'[s] = kept[s]
  BY KeepFacts
<1>3. \A x \in Deposits : ~SentBy(r, x)
  BY <1>0 DEF DepositInv, SigningIn
<1>4. \A s, x : SentBy(s, x)' => SentBy(s, x) \/ (s = r /\ x = d)
  BY <1>1 DEF SentBy
<1>5. ~SigningIn(r)'
  BY <1>1 DEF SigningIn
<1>6. \A s : SigningIn(s)' => SigningIn(s)
  BY <1>1 DEF SigningIn
<1>7. \A e \in Devices : op'[e].pc = "deposit" => op'[e] = op[e] \/ op'[e].answer = "none"
  BY <1>1
<1>8. \A s \in Stores, x \in Deposits : SentBy(s, x)' =>
        x = kept'[s].deposit \/ (kept'[s].deposit = Nil /\ x = vaultRow'.deposit)
  <2>. SUFFICES ASSUME NEW s \in Stores, NEW x \in Deposits, SentBy(s, x)'
                PROVE  x = kept'[s].deposit
                       \/ (kept'[s].deposit = Nil /\ x = vaultRow'.deposit)
    OBVIOUS
  <2>1. CASE s = r
    BY <2>1, <1>2, <1>3, <1>4
  <2>2. CASE s # r
    BY <2>2, <1>2, <1>4 DEF DepositInv
  <2>. QED  BY <2>1, <2>2
<1>9. \A s \in Stores : SigningIn(s)' =>
        kept'[s].deposit = Nil /\ \A x \in Deposits : ~SentBy(s, x)'
  <2>. SUFFICES ASSUME NEW s \in Stores, SigningIn(s)'
                PROVE  kept'[s].deposit = Nil /\ \A x \in Deposits : ~SentBy(s, x)'
    OBVIOUS
  <2>1. s # r /\ SigningIn(s)
    BY <1>5, <1>6
  <2>. QED  BY <2>1, <1>2, <1>4 DEF DepositInv
<1>. QED  BY <1>7, <1>8, <1>9 DEF DepositInv

LEMMA ResendsKeeps ==
    ASSUME OwnerInv, DepositInv, NEW c \in Devices, Kept(c).deposit # Nil,
           Goes(c, "deposit", Kept(c).deposit),
           kept' = kept, vaultRow' = vaultRow, stray' = stray
    PROVE  DepositInv'
<1>. DEFINE r == StoreOf(c)
            d == kept[r].deposit
<1>0. r \in Stores /\ d # Nil
  BY OpFacts DEF Kept
<1>1. /\ op'[c] = [pc |-> "deposit", item |-> d, answer |-> "none"]
      /\ \A e \in Devices : e # c => op'[e] = op[e]
  BY OpMoves, Zenon DEF Kept
<1>2. \A s, x : SentBy(s, x)' => SentBy(s, x) \/ (s = r /\ x = d)
  BY <1>1 DEF SentBy
<1>3. \A s : SigningIn(s)' => SigningIn(s)
  BY <1>1 DEF SigningIn
<1>4. ~SigningIn(r)
  BY <1>0 DEF DepositInv
<1>5. \A e \in Devices : op'[e].pc = "deposit" => op'[e] = op[e] \/ op'[e].answer = "none"
  BY <1>1
<1>. QED  BY <1>0, <1>2, <1>3, <1>4, <1>5 DEF DepositInv

\* What a device forgets is a deposit that the server has recorded.
LEMMA ForgetsKeeps ==
    ASSUME OwnerInv, DepositInv, NEW c \in Devices,
           Kept(c).deposit \in {Nil, vaultRow.deposit}, ~SigningIn(StoreOf(c)),
           KeepDeposit(c, Nil), Stops(c) \/ UNCHANGED op,
           vaultRow' = vaultRow, stray' = stray
    PROVE  DepositInv'
<1>. DEFINE r == StoreOf(c)
<1>0. r \in Stores /\ kept[r].deposit \in {Nil, vaultRow.deposit} /\ ~SigningIn(r)
      /\ Nil \notin Deposits
  BY OpFacts DEF Kept
<1>1. \A e \in Devices : op'[e] = op[e] \/ op'[e] = Idle
  BY OpMoves
<1>2. /\ kept'[r].deposit = Nil
      /\ \A s \in Stores : s # r => kept'[s] = kept[s]
  BY KeepFacts
<1>3. \A s, x : SentBy(s, x)' => SentBy(s, x)
  BY <1>1 DEF SentBy, Idle
<1>4. \A s : SigningIn(s)' => SigningIn(s)
  BY <1>1 DEF SigningIn, Idle
<1>5. \A e \in Devices : op'[e].pc = "deposit" => op'[e] = op[e]
  BY <1>1 DEF Idle
<1>6. \A s \in Stores, x \in Deposits : SentBy(s, x)' =>
        x = kept'[s].deposit \/ (kept'[s].deposit = Nil /\ x = vaultRow'.deposit)
  <2>. SUFFICES ASSUME NEW s \in Stores, NEW x \in Deposits, SentBy(s, x)'
                PROVE  x = kept'[s].deposit
                       \/ (kept'[s].deposit = Nil /\ x = vaultRow'.deposit)
    OBVIOUS
  <2>0. x = kept[s].deposit \/ (kept[s].deposit = Nil /\ x = vaultRow.deposit)
    BY <1>3 DEF DepositInv
  <2>1. CASE s = r
    BY <2>0, <2>1, <1>0, <1>2
  <2>2. CASE s # r
    BY <2>0, <2>2, <1>2
  <2>. QED  BY <2>1, <2>2
<1>7. \A s \in Stores : SigningIn(s)' =>
        kept'[s].deposit = Nil /\ \A x \in Deposits : ~SentBy(s, x)'
  <2>. SUFFICES ASSUME NEW s \in Stores, SigningIn(s)'
                PROVE  kept'[s].deposit = Nil /\ \A x \in Deposits : ~SentBy(s, x)'
    OBVIOUS
  <2>1. s # r /\ SigningIn(s)
    BY <1>0, <1>4
  <2>. QED  BY <2>1, <1>2, <1>3 DEF DepositInv
<1>. QED  BY <1>5, <1>6, <1>7 DEF DepositInv

LEMMA HearsKeeps ==
    ASSUME OwnerInv, DepositInv, NEW c \in Devices, op[c].pc = "deposit", Stops(c),
           IF op[c].answer \in {"submitted", "rejected"} THEN KeepDeposit(c, Nil)
                                                         ELSE kept' = kept,
           vaultRow' = vaultRow, stray' = stray
    PROVE  DepositInv'
<1>0. StoreOf(c) \in Stores /\ op[c].item \in Deposits
  BY OpFacts
<1>1. SentBy(StoreOf(c), op[c].item)
  BY DEF SentBy
<1>2. ~SigningIn(StoreOf(c))
  BY <1>0, <1>1 DEF DepositInv
<1>3. CASE op[c].answer \in {"submitted", "rejected"}
  <2>1. Kept(c).deposit \in {Nil, vaultRow.deposit}
    BY <1>0, <1>1, <1>3 DEF DepositInv, Kept
  <2>. QED  BY <2>1, <1>2, <1>3, ForgetsKeeps
<1>4. CASE op[c].answer \notin {"submitted", "rejected"}
  <2>1. QuietDeposits
    BY <1>4, QuietStep DEF QuietPc
  <2>. QED  BY <2>1, QuietKeepsDeposits
<1>. QED  BY <1>3, <1>4

(***************************************************************************)
(* The route, for a deposit under way or given up on.                      *)
(***************************************************************************)
LEMMA RouteFacts ==
    ASSUME OwnerInv, NEW d \in Deposits, NEW answer, DepositRoute(d, answer)
    PROVE  /\ vaultRow.deposit # Nil => vaultRow'.deposit = vaultRow.deposit
           /\ answer = "submitted" => vaultRow'.deposit = d
           /\ answer = "rejected" => refusedOnce'
BY OpFacts DEF DepositRoute, OwnerInv, OwnerTypeOK, HostTypeOK

\* A row that records a deposit for the first time, or leaves the one it has.
LEMMA RecordsKeeps ==
    ASSUME OwnerInv, DepositInv, kept' = kept, stray' \subseteq stray,
           vaultRow.deposit # Nil => vaultRow'.deposit = vaultRow.deposit,
           \A e \in Devices : /\ op'[e].pc = op[e].pc /\ op'[e].item = op[e].item
                              /\ \/ op'[e].answer = op[e].answer
                                 \/ op'[e].answer # "rejected"
                              /\ \/ op'[e].answer = op[e].answer
                                 \/ op'[e].answer # "submitted"
                                 \/ op'[e].item = vaultRow'.deposit
    PROVE  DepositInv'
<1>1. \A s, x : SentBy(s, x)' => SentBy(s, x)
  BY DEF SentBy
<1>2. \A s : SigningIn(s)' => SigningIn(s)
  BY DEF SigningIn
<1>3. \A e \in Devices : op[e].pc = "deposit" => op[e].item # Nil
  BY OpFacts
<1>4. \A x \in Deposits : x = vaultRow.deposit => x = vaultRow'.deposit
  BY OpFacts
<1>5. \A e \in Devices : op'[e].pc = "deposit" =>
        /\ op'[e].answer # "rejected"
        /\ op'[e].answer = "submitted" => op'[e].item = vaultRow'.deposit
  <2>. SUFFICES ASSUME NEW e \in Devices, op'[e].pc = "deposit"
                PROVE  /\ op'[e].answer # "rejected"
                       /\ op'[e].answer = "submitted" => op'[e].item = vaultRow'.deposit
    OBVIOUS
  <2>1. op[e].pc = "deposit" /\ op'[e].item = op[e].item /\ op[e].item \in Deposits
    BY OpFacts
  <2>2. /\ op[e].answer # "rejected"
        /\ op[e].answer = "submitted" => op[e].item = vaultRow.deposit
    BY <2>1 DEF DepositInv
  <2>. QED  BY <2>1, <2>2, <1>4
<1>. QED  BY <1>1, <1>2, <1>4, <1>5 DEF DepositInv

LEMMA DepositArrivesRecords ==
    ASSUME OwnerInv, DepositInv, NEW c \in Devices, DepositArrives(c)
    PROVE  refusedOnce' \/ DepositInv'
<1>1. op[c].pc = "deposit" /\ op[c].item \in Deposits /\ op[c] \in Op
  BY OpFacts DEF DepositArrives, Waits
<1>2. PICK answer \in {"submitted", "uncertain", "rejected", "error"} :
        DepositRoute(op[c].item, answer) /\ Told(c, answer)
  BY DEF DepositArrives
<1>3. CASE answer = "rejected"
  BY <1>1, <1>2, <1>3, RouteFacts
<1>4. CASE answer # "rejected"
  <2>1. op' = [op EXCEPT ![c] = [op[c] EXCEPT !.answer = answer]]
    BY <1>2 DEF Told
  <2>2. op'[c] = [op[c] EXCEPT !.answer = answer]
        /\ \A e \in Devices : e # c => op'[e] = op[e]
    BY <2>1, OpFacts
  <2>3. /\ op'[c].pc = op[c].pc /\ op'[c].item = op[c].item
        /\ op'[c].answer = answer
    BY <2>2, <1>1 DEF Op
  <2>4. /\ vaultRow.deposit # Nil => vaultRow'.deposit = vaultRow.deposit
        /\ answer = "submitted" => vaultRow'.deposit = op[c].item
    BY <1>1, <1>2, RouteFacts
  <2>5. kept' = kept /\ stray' = stray
    BY DEF DepositArrives
  <2>. QED  BY <2>2, <2>3, <2>4, <2>5, <1>4, RecordsKeeps
<1>. QED  BY <1>3, <1>4

LEMMA StrayArrivesRecords ==
    ASSUME OwnerInv, DepositInv, NEW x \in stray, StrayArrives(x), x.kind = "deposit"
    PROVE  refusedOnce' \/ DepositInv'
<1>1. x.item \in Deposits
  BY DEF OwnerInv, Items
<1>2. PICK answer \in {"submitted", "rejected"} : DepositRoute(x.item, answer)
  BY DEF StrayArrives
<1>3. CASE answer = "rejected"
  BY <1>1, <1>2, <1>3, RouteFacts
<1>4. CASE answer # "rejected"
  <2>1. vaultRow.deposit # Nil => vaultRow'.deposit = vaultRow.deposit
    BY <1>1, <1>2, RouteFacts
  <2>2. kept' = kept /\ stray' \subseteq stray /\ op' = op
    BY DEF StrayArrives
  <2>. QED  BY <2>1, <2>2, RecordsKeeps
<1>. QED  BY <1>3, <1>4

(***************************************************************************)
(* Every step.                                                             *)
(***************************************************************************)
LEMMA HostMoves ==
    ASSUME OwnerInv, HostNext
    PROVE  \A d \in Devices : op'[d].pc = op[d].pc \/ op'[d].pc = "idle"
<1>1. ASSUME NEW c \in Devices, DepositArrives(c)
      PROVE  \A d \in Devices : op'[d].pc = op[d].pc
  <2>1. PICK answer : op' = [op EXCEPT ![c] = [op[c] EXCEPT !.answer = answer]]
    BY <1>1 DEF DepositArrives, Told
  <2>2. op[c] \in Op
    BY OpFacts
  <2>. QED  BY <2>1, <2>2, OpFacts DEF Op
<1>2. ASSUME NEW c \in Devices, JobArrives(c) \/ SubmitArrives(c)
      PROVE  \A d \in Devices : op'[d].pc = op[d].pc \/ op'[d].pc = "idle"
  BY <1>2, OpMoves DEF JobArrives, SubmitArrives, Idle
<1>3. ASSUME NEW x \in stray, StrayArrives(x)  PROVE op' = op
  BY <1>3 DEF StrayArrives
<1>4. ASSUME DepositConfirms \/ SearchEnds  PROVE op' = op
  BY <1>4 DEF DepositConfirms, SearchEnds
<1>. QED  BY <1>1, <1>2, <1>3, <1>4 DEF HostNext

LEMMA SdkMoves ==
    ASSUME OwnerInv, SdkNext
    PROVE  \A t \in Tabs : op'[t] = op[t]
<1>1. \A pc, item : Goes(Sdk, pc, item) => \A t \in Tabs : op'[t] = op[t]
  BY OpFacts, OpMoves
<1>2. Stops(Sdk) => \A t \in Tabs : op'[t] = op[t]
  BY OpFacts, OpMoves
<1>3. CASE SdkSavesVault \/ SdkRegisters \/ SdkSignsDeposit \/ SdkReadsVault \/ SdkSends
  BY <1>3, <1>1, <1>2
  DEF SdkSavesVault, SdkRegisters, SdkSignsDeposit, SdkReadsVault, SdkSends
<1>4. CASE SdkResends \/ SdkHears \/ SdkSeesDeposit \/ SdkSavesIntent \/ SdkClaims
  BY <1>4, <1>1, <1>2 DEF SdkResends, SdkHears, SdkSeesDeposit, SdkSavesIntent, SdkClaims
<1>5. CASE SdkSeals \/ SdkSigns \/ SdkSubmits \/ SdkStops
  BY <1>5, <1>1, <1>2 DEF SdkSeals, SdkSigns, SdkSubmits, SdkStops
<1>6. ASSUME NEW b \in Backups, SdkResumesIntent(b) \/ SdkMakesIntent(b) \/ SdkAssembles(b)
      PROVE  \A t \in Tabs : op'[t] = op[t]
  BY <1>6, <1>1 DEF SdkResumesIntent, SdkMakesIntent, SdkAssembles
<1>. QED  BY <1>3, <1>4, <1>5, <1>6 DEF SdkNext

LEMMA DialogKept ==
    ASSUME NEW o, Opens = {o}, OwnerInv, TurnInv(o), DialogInv, [OwnerNext]_ownerVars
    PROVE  DialogInv'
<1>0. Tabs \subseteq Devices
  BY OpFacts
<1>1. CASE HostNext /\ UNCHANGED tabVars
  BY <1>0, <1>1, HostMoves DEF DialogInv, tabVars
<1>2. CASE SdkNext /\ UNCHANGED tabVars
  BY <1>0, <1>2, SdkMoves DEF DialogInv, tabVars
<1>3. ASSUME NEW t \in Tabs, TabNext(t)  PROVE DialogInv'
  <2>. tab[t] \in Tab /\ DOMAIN tab = Tabs /\ t \in Devices /\ DOMAIN op = Devices
    BY OpFacts
  <2>0. \A pc, item : Goes(t, pc, item) => /\ op'[t].pc = pc
                                           /\ \A u \in Tabs : u # t => op'[u] = op[u]
    <3>. SUFFICES ASSUME NEW pc, NEW item, Goes(t, pc, item)
                  PROVE  op'[t].pc = pc /\ \A u \in Tabs : u # t => op'[u] = op[u]
      OBVIOUS
    <3>1. op'[t] = [pc |-> pc, item |-> item, answer |-> "none"]
      BY OpMoves, Zenon
    <3>2. \A u \in Devices : u # t => op'[u] = op[u]
      BY OpMoves, Zenon
    <3>. QED  BY <3>1, <3>2, <1>0
  <2>00. Stops(t) => op'[t].pc = "idle" /\ \A u \in Tabs : u # t => op'[u] = op[u]
    BY OpMoves, <1>0 DEF Idle
  <2>1. CASE Open(t, o)
    BY <2>1 DEF Open, hostVars, DialogInv
  <2>2. CASE Grant(t, o)
    <3>1. tab[t].dialog = "closed"
      BY <2>2 DEF Grant, TurnInv
    <3>2. op' = op /\ \A u \in Tabs \ {t} : tab'[u] = tab[u]
      BY <2>2 DEF Grant, Shows, hostVars
    <3>. QED  BY <3>1, <3>2 DEF DialogInv
  <2>3. CASE GivesUp(t, o)
    BY <2>3 DEF GivesUp, hostVars, DialogInv
  <2>4. CASE Closes(t)
    <3>1. (op[t].pc \in Requests /\ op' = op) \/ Stops(t)
      BY <2>4 DEF Closes
    <3>2. \A u \in Tabs \ {t} : tab'[u] = tab[u]
      BY <2>4 DEF Closes
    <3>. QED  BY <3>1, <3>2, <2>00 DEF DialogInv, Requests
  <2>5. CASE Checks(t) \/ EndsCheck(t)
    BY <2>5 DEF Checks, EndsCheck, hostVars, DialogInv
  <2>7. CASE TabDies(t)
    BY <2>7, <2>00 DEF TabDies, DialogInv
  <2>8. ASSUME NEW b \in Backups, Restores(t, b) PROVE DialogInv'
    BY <2>8 DEF Restores, Memorizes, hostVars, DialogInv, Tab
  <2>9. CASE TabSavesIntent(t)
    BY <2>9, <2>0 DEF TabSavesIntent, Memorizes, DialogInv, Tab
  <2>10. CASE TabAssembles(t)
    <3>1. \A u \in Tabs : tab'[u].dialog = tab[u].dialog
      BY <2>10 DEF TabAssembles, Memorizes, Tab
    <3>2. op' = op \/ Goes(t, "sign", tab[t].memory.intent)
      BY <2>10 DEF TabAssembles
    <3>. QED  BY <3>1, <3>2, <2>0 DEF DialogInv
  <2>11. CASE Verifies(t)
    BY <2>11 DEF Verifies, Memorizes, hostVars, DialogInv, Tab
  <2>12. CASE TabMakesVault(t) \/ TabRegisters(t)
    BY <2>12, <2>0, <2>00 DEF TabMakesVault, TabRegisters, tabVars, DialogInv
  <2>13. CASE AsksWallet(t) \/ Begins(t)
    BY <2>13, <2>0 DEF AsksWallet, Begins, tabVars, DialogInv
  <2>14. CASE TabSends(t) \/ TabResends(t) \/ TabHears(t)
    BY <2>14, <2>0, <2>00 DEF TabSends, TabResends, TabHears, tabVars, DialogInv
  <2>15. CASE TabSigns(t) \/ TabSubmits(t)
    BY <2>15, <2>0 DEF TabSigns, TabSubmits, tabVars, DialogInv
  <2>. QED
    BY <1>3, <2>1, <2>2, <2>3, <2>4, <2>5, <2>7, <2>8, <2>9, <2>10, <2>11, <2>12, <2>13,
      <2>14, <2>15 DEF TabNext
<1>4. CASE UNCHANGED ownerVars
  BY <1>4 DEF DialogInv, ownerVars, hostVars, tabVars
<1>. QED  BY <1>1, <1>2, <1>3, <1>4 DEF OwnerNext

LEMMA DepositSdkKept ==
    ASSUME OwnerInv, DepositInv, SdkNext
    PROVE  DepositInv'
<1>0. /\ Sdk \in Devices /\ StoreOf(Sdk) = "disk" /\ "disk" \in Stores
      /\ \A e \in Devices \ {Sdk} : StoreOf(e) = "browser"
  BY OpFacts DEF Stores
<1>1. CASE SdkSignsDeposit
  <2>1. PICK d : Goes(Sdk, "signed", d)
    BY <1>1 DEF SdkSignsDeposit
  <2>. QED  BY <1>0, <1>1, <2>1, SignsKeeps DEF SdkSignsDeposit, Idle, Unfunded, serverVars
<1>2. CASE SdkReadsVault
  <2>1. CASE vaultRow = Unfunded
    <3>1. SigningIn("disk")
      BY <1>0, <1>2 DEF SigningIn, SdkReadsVault
    <3>2. Kept(Sdk).deposit = Nil /\ vaultRow.deposit = Nil
      BY <1>0, <2>1, <3>1 DEF DepositInv, Kept, Unfunded
    <3>. QED  BY <1>0, <1>2, <2>1, <3>2, SignsKeeps DEF SdkReadsVault, serverVars
  <2>2. CASE vaultRow # Unfunded
    <3>1. QuietDeposits
      BY <1>0, <1>2, <2>2, QuietStep DEF SdkReadsVault, serverVars, QuietPc
    <3>. QED  BY <3>1, QuietKeepsDeposits
  <2>. QED  BY <2>1, <2>2
<1>3. CASE SdkSends
  BY <1>0, <1>3, SendsKeeps DEF SdkSends, serverVars
<1>4. CASE SdkResends
  BY <1>0, <1>4, ResendsKeeps DEF SdkResends, serverVars
<1>5. CASE SdkHears
  BY <1>0, <1>5, HearsKeeps DEF SdkHears, Settling, serverVars
<1>6. CASE SdkSeesDeposit
  <2>1. ~SigningIn("disk")
    BY <1>0, <1>6 DEF SdkSeesDeposit, SigningIn, Idle
  <2>2. Kept(Sdk).deposit = vaultRow.deposit
    BY <1>6 DEF SdkSeesDeposit
  <2>. QED  BY <1>0, <1>6, <2>1, <2>2, ForgetsKeeps DEF SdkSeesDeposit, serverVars
<1>. QED
  BY <1>1, <1>2, <1>3, <1>4, <1>5, <1>6, QuietSdk, QuietKeepsDeposits DEF SdkNext

LEMMA DepositTabKept ==
    ASSUME NEW o, Opens = {o}, OwnerInv, TurnInv(o), DialogInv, DepositInv,
           NEW t \in Tabs, TabNext(t)
    PROVE  DepositInv'
<1>0. t \in Devices /\ StoreOf(t) = "browser" /\ StoreOf(Sdk) = "disk"
  BY OpFacts
<1>1. CASE AsksWallet(t)
  <2>1. PICK d : Goes(t, "signed", d)
    BY <1>1 DEF AsksWallet
  <2>. QED
    BY <1>0, <1>1, <2>1, SignsKeeps DEF AsksWallet, Unlocked, Idle, Unfunded, serverVars
<1>2. CASE TabSends(t)
  <2>1. \A e \in Devices \ {t} : StoreOf(e) = StoreOf(t) => op[e].pc \notin {"signed", "keep"}
    <3>. SUFFICES ASSUME NEW e \in Devices \ {t}, StoreOf(e) = StoreOf(t),
                         op[e].pc \in {"signed", "keep"}
                  PROVE  FALSE
      OBVIOUS
    <3>1. e \in Tabs
      BY <1>0, OpFacts
    <3>2. tab[e].dialog # "closed" /\ tab[t].dialog # "closed"
      BY <3>1, <1>2 DEF DialogInv, TabSends
    <3>. QED  BY <3>1, <3>2, OneDialog
  <2>. QED  BY <1>0, <1>2, <2>1, SendsKeeps DEF TabSends, serverVars
<1>3. CASE TabResends(t)
  BY <1>0, <1>3, ResendsKeeps DEF TabResends, serverVars
<1>4. CASE TabHears(t)
  BY <1>0, <1>4, HearsKeeps DEF TabHears, serverVars
<1>. QED
  BY <1>1, <1>2, <1>3, <1>4, QuietTab, QuietKeepsDeposits

\* Once the miner has refused a deposit, it has.
LEMMA RefusedStays ==
    ASSUME refusedOnce, [OwnerNext]_ownerVars
    PROVE  refusedOnce'
<1>1. CASE HostNext
  BY <1>1 DEF HostNext, DepositArrives, JobArrives, SubmitArrives, StrayArrives,
    DepositConfirms, SearchEnds, DepositRoute, JobRoute, SubmitRoute, serverVars
<1>2. CASE SdkNext
  BY <1>2 DEF SdkNext, SdkSavesVault, SdkRegisters, SdkSignsDeposit, SdkReadsVault, SdkSends,
    SdkResends, SdkHears, SdkSeesDeposit, SdkResumesIntent, SdkMakesIntent, SdkAssembles,
    SdkSavesIntent, SdkClaims, SdkSeals, SdkSigns, SdkSubmits, SdkStops, RegisterRoute,
    serverVars
<1>3. ASSUME NEW t \in Tabs, TabNext(t)  PROVE refusedOnce'
  BY <1>3 DEF TabNext, Open, Grant, GivesUp, Closes, Checks, EndsCheck, TabDies,
    TabMakesVault, TabRegisters, Restores, AsksWallet, TabSends, TabResends, TabHears, Begins,
    TabSavesIntent, TabAssembles, Verifies, TabSigns, TabSubmits, RegisterRoute, serverVars,
    hostVars
<1>. QED  BY <1>1, <1>2, <1>3 DEF OwnerNext, ownerVars, hostVars

LEMMA DepositKeptOn ==
    ASSUME NEW o, Opens = {o}, OwnerInv, TurnInv(o), DialogInv, refusedOnce \/ DepositInv,
           [OwnerNext]_ownerVars
    PROVE  refusedOnce' \/ DepositInv'
<1>1. CASE refusedOnce
  BY <1>1, RefusedStays
<1>2. CASE DepositInv
  <2>1. ASSUME HostNext, UNCHANGED tabVars  PROVE refusedOnce' \/ DepositInv'
    BY <1>2, <2>1, DepositArrivesRecords, StrayArrivesRecords, QuietHost, QuietKeepsDeposits
    DEF HostNext
  <2>2. ASSUME SdkNext  PROVE DepositInv'
    BY <1>2, <2>2, DepositSdkKept
  <2>3. ASSUME NEW t \in Tabs, TabNext(t)  PROVE DepositInv'
    BY <1>2, <2>3, DepositTabKept
  <2>4. CASE UNCHANGED ownerVars
    BY <1>2, <2>4 DEF DepositInv, SentBy, SigningIn, ownerVars, hostVars
  <2>. QED  BY <2>1, <2>2, <2>3, <2>4 DEF OwnerNext
<1>. QED  BY <1>1, <1>2

(***************************************************************************)
(* What a store remembers of the withdrawal.                               *)
(***************************************************************************)
\* The steps that neither choose an intent nor ask for a search.
QuietIntents ==
    /\ \A s \in Stores : kept'[s].intent = kept[s].intent
    /\ \/ search' = search
       \/ search # NoSearch /\ search'.intent = search.intent /\ search'.by = search.by
    /\ \A c \in Devices : op'[c] = op[c] \/ op'[c].pc \notin {"job", "encrypt"}
    /\ \A x \in stray' : x.kind = "job" =>
         x \in stray \/ \E c \in Devices : /\ op[c].pc = "job" /\ x.item = op[c].item
                                           /\ x.by = StoreOf(c)

LEMMA QuietKeepsIntents ==
    ASSUME OwnerInv, IntentInv, QuietIntents
    PROVE  IntentInv'
<1>0. /\ \A c \in Devices : StoreOf(c) \in Stores
      /\ \A x \in stray : x.by \in Stores
      /\ "browser" \in Stores /\ Tabs \subseteq Devices
  BY OpFacts DEF Stores
<1>1. \A c \in Devices : op'[c].pc = "job" => kept'[StoreOf(c)].intent = op'[c].item
  BY <1>0 DEF QuietIntents, IntentInv
<1>2. \A x \in stray' : x.kind = "job" => kept'[x.by].intent = x.item
  BY <1>0 DEF QuietIntents, IntentInv
<1>3. search' # NoSearch => search'.by \in Stores /\ kept'[search'.by].intent = search'.intent
  BY <1>0 DEF QuietIntents, IntentInv
<1>4. \A t \in Tabs : op'[t].pc = "encrypt" => kept'["browser"].intent \in {Nil, op'[t].item}
  BY <1>0 DEF QuietIntents, IntentInv
<1>. QED  BY <1>1, <1>2, <1>3, <1>4 DEF IntentInv

\* A device moves on to a step of something else than asking for a search, or ends.
Asks(pc) == pc \in {"job", "encrypt"}
LEMMA AsksNothing ==
    ASSUME OwnerInv, NEW c \in Devices, NEW pc, NEW item,
           ~Asks(pc), Goes(c, pc, item) \/ Stops(c) \/ UNCHANGED op,
           kept' = kept \/ \E d : KeepDeposit(c, d), search' = search, stray' = stray
    PROVE  QuietIntents
<1>1. \A d \in Devices : op'[d] = op[d] \/ ~Asks(op'[d].pc)
  <2>1. CASE Goes(c, pc, item)
    <3>1. op'[c] = [pc |-> pc, item |-> item, answer |-> "none"]
      BY <2>1, OpMoves, Zenon
    <3>2. \A d \in Devices : d # c => op'[d] = op[d]
      BY <2>1, OpMoves, Zenon
    <3>3. op'[c].pc = pc
      BY <3>1
    <3>. QED  BY <3>2, <3>3
  <2>2. CASE Stops(c)
    BY <2>2, OpMoves DEF Asks, Idle
  <2>. QED  BY <2>1, <2>2
<1>2. \A s \in Stores : kept'[s].intent = kept[s].intent
  BY KeepFacts
<1>. QED  BY <1>1, <1>2 DEF Asks, QuietIntents

\* A store that remembers no other intent remembers this one, and asks for its search.
LEMMA RemembersKeeps ==
    ASSUME OwnerInv, IntentInv, NEW c \in Devices, NEW i \in Intents,
           Kept(c).intent \in {Nil, i}, KeepIntent(c, i),
           (\E pc : pc # "encrypt" /\ Goes(c, pc, i)) \/ UNCHANGED op,
           StoreOf(c) = "browser" => \A t \in Tabs : op'[t].pc # "encrypt",
           search' = search, stray' = stray
    PROVE  IntentInv'
<1>. DEFINE r == StoreOf(c)
<1>0. /\ \A e \in Devices : StoreOf(e) \in Stores
      /\ \A e \in Devices : op[e].pc = "job" => op[e].item \in Intents
      /\ \A x \in stray : x.kind = "job" => x.by \in Stores /\ x.item \in Intents
      /\ search # NoSearch => search.intent \in Intents
      /\ Nil \notin Intents /\ Tabs \subseteq Devices /\ "browser" \in Stores
  BY OpFacts DEF OwnerInv, Items, Stores
<1>1. /\ \A e \in Devices : e # c => op'[e] = op[e]
      /\ \/ op'[c] = op[c]
         \/ op'[c].item = i /\ op'[c].pc # "encrypt"
  <2>1. ASSUME NEW pc, pc # "encrypt", Goes(c, pc, i)
        PROVE  /\ \A e \in Devices : e # c => op'[e] = op[e]
               /\ op'[c].item = i /\ op'[c].pc # "encrypt"
    <3>1. op'[c] = [pc |-> pc, item |-> i, answer |-> "none"]
      BY <2>1, OpMoves, Zenon
    <3>2. \A e \in Devices : e # c => op'[e] = op[e]
      BY <2>1, OpMoves, Zenon
    <3>. QED  BY <2>1, <3>1, <3>2
  <2>. QED  BY <2>1
<1>2. /\ kept'[r].intent = i
      /\ \A s \in Stores : s # r => kept'[s] = kept[s]
  BY KeepFacts
<1>3. \A s \in Stores, j \in Intents : kept[s].intent = j => kept'[s].intent = j
  BY <1>0, <1>2 DEF Kept
<1>4. \A e \in Devices : op'[e].pc = "job" => kept'[StoreOf(e)].intent = op'[e].item
  BY <1>0, <1>1, <1>2, <1>3 DEF IntentInv
<1>5. \A x \in stray' : x.kind = "job" => kept'[x.by].intent = x.item
  BY <1>0, <1>3 DEF IntentInv
<1>6. search' # NoSearch => search'.by \in Stores /\ kept'[search'.by].intent = search'.intent
  BY <1>0, <1>3 DEF IntentInv
<1>7. \A t \in Tabs : op'[t].pc = "encrypt" => kept'["browser"].intent \in {Nil, op'[t].item}
  <2>1. CASE r = "browser"
    BY <2>1
  <2>2. CASE r # "browser"
    <3>1. \A t \in Tabs : t # c /\ op'[t] = op[t]
      BY <2>2, <1>0, <1>1, OpFacts
    <3>. QED  BY <2>2, <3>1, <1>0, <1>2 DEF IntentInv
  <2>. QED  BY <2>1, <2>2
<1>. QED  BY <1>4, <1>5, <1>6, <1>7 DEF IntentInv

LEMMA IntentHostKept ==
    ASSUME OwnerInv, IntentInv, HostNext
    PROVE  IntentInv'
<1>0. /\ \A c \in Devices : StoreOf(c) \in Stores
      /\ \A x \in stray : x.by \in Stores
  BY OpFacts
<1>1. ASSUME NEW c \in Devices, DepositArrives(c)  PROVE IntentInv'
  <2>1. op[c].pc = "deposit" /\ op[c] \in Op
    BY <1>1, OpFacts DEF DepositArrives, Waits
  <2>2. PICK answer : op' = [op EXCEPT ![c] = [op[c] EXCEPT !.answer = answer]]
    BY <1>1 DEF DepositArrives, Told
  <2>3. op'[c] = [op[c] EXCEPT !.answer = answer]
        /\ \A e \in Devices : e # c => op'[e] = op[e]
    BY <2>2, OpFacts
  <2>4. op'[c].pc = "deposit"
    BY <2>1, <2>3 DEF Op
  <2>5. kept' = kept /\ stray' = stray /\ search' = search
    BY <1>1 DEF DepositArrives, DepositRoute
  <2>6. QuietIntents
    BY <2>3, <2>4, <2>5 DEF QuietIntents
  <2>. QED  BY <2>6, QuietKeepsIntents
<1>2. ASSUME NEW i, NEW by \in Stores, JobRoute(i, by), kept[by].intent = i, kept' = kept,
             stray' \subseteq stray,
             \A c \in Devices : op'[c] = op[c] \/ op'[c] = Idle
      PROVE  IntentInv'
  <2>1. CASE search' = search
    <3>1. QuietIntents
      BY <1>2, <2>1 DEF QuietIntents, Idle
    <3>. QED  BY <3>1, QuietKeepsIntents
  <2>2. CASE search' # search
    <3>1. search'.intent = i /\ search'.by = by
      BY <1>2, <2>2 DEF JobRoute
    <3>2. \A c \in Devices : op'[c].pc \in {"job", "encrypt"} => op'[c] = op[c]
      BY <1>2 DEF Idle
    <3>. QED  BY <1>2, <3>1, <3>2, OpFacts DEF IntentInv
  <2>. QED  BY <2>1, <2>2
<1>3. ASSUME NEW c \in Devices, JobArrives(c)  PROVE IntentInv'
  BY <1>0, <1>2, <1>3, OpMoves DEF JobArrives, Waits, IntentInv
<1>4. ASSUME NEW i, SubmitRoute(i) \/ search' = search, kept' = kept, stray' \subseteq stray,
             \A c \in Devices : op'[c] = op[c] \/ op'[c] = Idle
      PROVE  IntentInv'
  <2>1. search' = search \/ (search # NoSearch /\ search'.intent = search.intent
                                               /\ search'.by = search.by)
    <3>1. search \in [intent : Intents \cup {Nil}, by : Stores \cup {Nil},
                      status : {"none", "searching", "solved", "submitted"}]
      BY DEF OwnerInv, OwnerTypeOK, HostTypeOK
    <3>. QED  BY <1>4, <3>1 DEF SubmitRoute, NoSearch
  <2>2. QuietIntents
    BY <1>4, <2>1 DEF QuietIntents, Idle
  <2>. QED  BY <2>2, QuietKeepsIntents
<1>5. ASSUME NEW c \in Devices, SubmitArrives(c)  PROVE IntentInv'
  BY <1>4, <1>5, OpMoves DEF SubmitArrives, serverVars
<1>6. ASSUME NEW x \in stray, StrayArrives(x)  PROVE IntentInv'
  <2>1. kept' = kept /\ stray' \subseteq stray /\ op' = op
    BY <1>6 DEF StrayArrives
  <2>2. CASE x.kind = "deposit"
    <3>1. search' = search
      BY <1>6, <2>2 DEF StrayArrives, DepositRoute
    <3>. QED  BY <2>1, <3>1, <1>4
  <2>3. CASE x.kind = "job"
    BY <1>0, <1>2, <1>6, <2>1, <2>3 DEF StrayArrives, IntentInv
  <2>4. CASE x.kind = "submit"
    BY <1>4, <1>6, <2>1, <2>4 DEF StrayArrives
  <2>. QED  BY <2>2, <2>3, <2>4, <1>6 DEF StrayArrives
<1>7. CASE DepositConfirms
  BY <1>4, <1>7 DEF DepositConfirms
<1>8. CASE SearchEnds
  <2>1. search \in [intent : Intents \cup {Nil}, by : Stores \cup {Nil},
                    status : {"none", "searching", "solved", "submitted"}]
    BY DEF OwnerInv, OwnerTypeOK, HostTypeOK
  <2>2. QuietIntents
    BY <1>8, <2>1 DEF SearchEnds, QuietIntents, NoSearch
  <2>. QED  BY <2>2, QuietKeepsIntents
<1>. QED  BY <1>1, <1>3, <1>5, <1>6, <1>7, <1>8 DEF HostNext

LEMMA IntentSdkKept ==
    ASSUME OwnerInv, IntentInv, SdkNext
    PROVE  IntentInv'
<1>0. /\ Sdk \in Devices /\ StoreOf(Sdk) = "disk" /\ "disk" # "browser"
  BY OpFacts
<1>. USE <1>0
<1>1. CASE SdkSavesVault \/ SdkRegisters
  <2>1. QuietIntents
    BY <1>1, AsksNothing DEF SdkSavesVault, SdkRegisters, RegisterRoute, serverVars, Asks
  <2>. QED  BY <2>1, QuietKeepsIntents
<1>2. CASE SdkSignsDeposit
  <2>1. QuietIntents
    BY <1>2, AsksNothing DEF SdkSignsDeposit, serverVars, Asks
  <2>. QED  BY <2>1, QuietKeepsIntents
<1>3. CASE SdkReadsVault
  <2>1. QuietIntents
    BY <1>3, AsksNothing DEF SdkReadsVault, serverVars, Asks
  <2>. QED  BY <2>1, QuietKeepsIntents
<1>4. CASE SdkSends \/ SdkResends
  <2>1. QuietIntents
    BY <1>4, AsksNothing DEF SdkSends, SdkResends, serverVars, Asks
  <2>. QED  BY <2>1, QuietKeepsIntents
<1>5. CASE SdkHears \/ SdkSeesDeposit
  <2>1. QuietIntents
    BY <1>5, AsksNothing DEF SdkHears, SdkSeesDeposit, serverVars, Asks
  <2>. QED  BY <2>1, QuietKeepsIntents
<1>6. ASSUME NEW b \in Backups, SdkResumesIntent(b)  PROVE IntentInv'
  <2>1. QuietIntents
    BY <1>6, AsksNothing DEF SdkResumesIntent, serverVars, Asks
  <2>. QED  BY <2>1, QuietKeepsIntents
<1>7. ASSUME NEW b \in Backups, SdkMakesIntent(b)  PROVE IntentInv'
  \* The SDK is no tab: what it encrypts is not remembered by the browser.
  <2>1. PICK i : Goes(Sdk, "encrypt", i)
    BY <1>7 DEF SdkMakesIntent
  <2>2. /\ op'[Sdk] = [pc |-> "encrypt", item |-> i, answer |-> "none"]
        /\ \A d \in Devices : d # Sdk => op'[d] = op[d]
    BY <2>1, OpMoves, Zenon
  <2>3. /\ \A d \in Devices : op'[d].pc = "job" => op'[d] = op[d]
        /\ \A t \in Tabs : op'[t] = op[t]
    BY <2>2, OpFacts
  <2>4. kept' = kept /\ stray' = stray /\ search' = search
    BY <1>7 DEF SdkMakesIntent, serverVars
  <2>. QED  BY <2>3, <2>4 DEF IntentInv
<1>8. CASE SdkSavesIntent
  <2>1. QuietIntents
    BY <1>8, AsksNothing DEF SdkSavesIntent, serverVars, Asks
  <2>. QED  BY <2>1, QuietKeepsIntents
<1>9. CASE SdkClaims
  <2>1. CASE MayClaim(Sdk, op[Sdk].item)
    <3>1. op[Sdk].item \in Intents
      BY <1>9 DEF SdkClaims, OwnerInv, Items, IntentSteps
    <3>2. Kept(Sdk).intent \in {Nil, op[Sdk].item}
      BY <2>1 DEF MayClaim
    <3>3. KeepIntent(Sdk, op[Sdk].item) /\ Goes(Sdk, "job", op[Sdk].item)
      BY <1>9, <2>1 DEF SdkClaims
    <3>4. search' = search /\ stray' = stray
      BY <1>9 DEF SdkClaims, serverVars
    <3>. QED  BY <3>1, <3>2, <3>3, <3>4, RemembersKeeps
  <2>2. CASE ~MayClaim(Sdk, op[Sdk].item)
    <3>1. QuietIntents
      BY <1>9, <2>2, AsksNothing DEF SdkClaims, serverVars, Asks
    <3>. QED  BY <3>1, QuietKeepsIntents
  <2>. QED  BY <2>1, <2>2
<1>10. ASSUME NEW b \in Backups, SdkAssembles(b)  PROVE IntentInv'
  <2>1. b.intent \in Intents
    BY <1>10 DEF SdkAssembles, Solves, OwnerInv, Items, NoSearch
  <2>2. Kept(Sdk).intent \in {Nil, b.intent} /\ KeepIntent(Sdk, b.intent)
    BY <1>10 DEF SdkAssembles, MayClaim
  <2>3. \E pc : pc # "encrypt" /\ Goes(Sdk, pc, b.intent)
    BY <1>10 DEF SdkAssembles
  <2>4. search' = search /\ stray' = stray
    BY <1>10 DEF SdkAssembles, serverVars
  <2>. QED  BY <2>1, <2>2, <2>3, <2>4, RemembersKeeps
<1>11. CASE SdkSeals \/ SdkSigns \/ SdkSubmits
  <2>1. QuietIntents
    BY <1>11, AsksNothing DEF SdkSeals, SdkSigns, SdkSubmits, serverVars, Asks
  <2>. QED  BY <2>1, QuietKeepsIntents
<1>12. CASE SdkStops
  <2>1. QuietIntents
    BY <1>12, OpMoves, OpFacts, AbandonedFacts DEF SdkStops, serverVars, QuietIntents, Idle
  <2>. QED  BY <2>1, QuietKeepsIntents
<1>. QED
  BY <1>1, <1>2, <1>3, <1>4, <1>5, <1>6, <1>7, <1>8, <1>9, <1>10, <1>11, <1>12 DEF SdkNext

LEMMA IntentTabKept ==
    ASSUME NEW o, Opens = {o}, OwnerInv, TurnInv(o), DialogInv, IntentInv,
           NEW t \in Tabs, TabNext(t)
    PROVE  IntentInv'
<1>0. t \in Devices /\ StoreOf(t) = "browser"
  BY OpFacts
<1>. USE <1>0
<1>1. CASE Open(t, o) \/ Grant(t, o) \/ GivesUp(t, o)
  <2>1. QuietIntents
    BY <1>1 DEF Open, Grant, GivesUp, hostVars, QuietIntents
  <2>. QED  BY <2>1, QuietKeepsIntents
<1>2. CASE Checks(t) \/ EndsCheck(t) \/ Verifies(t)
  <2>1. QuietIntents
    BY <1>2 DEF Checks, EndsCheck, Verifies, hostVars, QuietIntents
  <2>. QED  BY <2>1, QuietKeepsIntents
<1>3. ASSUME NEW b \in Backups, Restores(t, b)  PROVE IntentInv'
  <2>1. QuietIntents
    BY <1>3 DEF Restores, hostVars, QuietIntents
  <2>. QED  BY <2>1, QuietKeepsIntents
<1>4. CASE Closes(t)
  <2>1. QuietIntents
    BY <1>4, OpMoves, OpFacts DEF Closes, serverVars, QuietIntents, Idle
  <2>. QED  BY <2>1, QuietKeepsIntents
<1>5. CASE TabDies(t)
  <2>1. QuietIntents
    BY <1>5, OpMoves, OpFacts, AbandonedFacts DEF TabDies, serverVars, QuietIntents, Idle
  <2>. QED  BY <2>1, QuietKeepsIntents
<1>6. CASE TabMakesVault(t) \/ TabRegisters(t)
  <2>1. QuietIntents
    BY <1>6, AsksNothing DEF TabMakesVault, TabRegisters, RegisterRoute, serverVars, Asks
  <2>. QED  BY <2>1, QuietKeepsIntents
<1>7. CASE AsksWallet(t) \/ TabResends(t)
  <2>1. QuietIntents
    BY <1>7, AsksNothing DEF AsksWallet, TabResends, serverVars, Asks
  <2>. QED  BY <2>1, QuietKeepsIntents
<1>8. CASE TabSends(t) \/ TabHears(t)
  <2>1. QuietIntents
    BY <1>8, AsksNothing DEF TabSends, TabHears, serverVars, Asks
  <2>. QED  BY <2>1, QuietKeepsIntents
<1>9. CASE Begins(t)
  <2>1. PICK i : Kept(t).intent \in {Nil, i} /\ Goes(t, "encrypt", i)
    BY <1>9 DEF Begins
  <2>2. /\ op'[t] = [pc |-> "encrypt", item |-> i, answer |-> "none"]
        /\ \A d \in Devices : d # t => op'[d] = op[d]
    BY <2>1, OpMoves, Zenon
  <2>3. /\ \A d \in Devices : op'[d].pc = "job" => op'[d] = op[d]
        /\ \A u \in Tabs : op'[u] = op[u] \/ op'[u].item = i
    BY <2>2, OpFacts
  <2>4. kept' = kept /\ stray' = stray /\ search' = search
    BY <1>9 DEF Begins, serverVars
  <2>. QED  BY <2>1, <2>3, <2>4 DEF IntentInv, Kept
<1>10. CASE TabSavesIntent(t)
  <2>1. op[t].item \in Intents /\ Kept(t).intent \in {Nil, op[t].item}
    BY <1>10 DEF TabSavesIntent, OwnerInv, Items, IntentSteps, IntentInv, Kept
  <2>2. KeepIntent(t, op[t].item) /\ Goes(t, "job", op[t].item)
    BY <1>10 DEF TabSavesIntent
  <2>3. \A u \in Tabs : op'[u].pc # "encrypt"
    <3>1. /\ op'[t] = [pc |-> "job", item |-> op[t].item, answer |-> "none"]
          /\ \A d \in Devices : d # t => op'[d] = op[d]
      BY <2>2, OpMoves, Zenon
    <3>2. \A u \in Tabs : u # t => op[u].pc # "encrypt"
      BY <1>10, OneDialog DEF TabSavesIntent, DialogInv
    <3>. QED  BY <3>1, <3>2, OpFacts
  <2>4. search' = search /\ stray' = stray
    BY <1>10 DEF TabSavesIntent, serverVars
  <2>. QED  BY <2>1, <2>2, <2>3, <2>4, RemembersKeeps
<1>11. CASE TabAssembles(t)
  <2>1. tab[t].memory.intent \in Intents
    BY <1>11 DEF TabAssembles, Solves, OwnerInv, Items, NoSearch
  <2>2. /\ Kept(t).intent \in {Nil, tab[t].memory.intent}
        /\ KeepIntent(t, tab[t].memory.intent)
        /\ Goes(t, "sign", tab[t].memory.intent) \/ op' = op
    BY <1>11 DEF TabAssembles
  <2>3. \A u \in Tabs : op'[u].pc # "encrypt"
    <3>1. \A u \in Tabs : op[u].pc # "encrypt"
      BY <1>11, OneDialog DEF TabAssembles, Unlocked, Idle, DialogInv
    <3>2. CASE Goes(t, "sign", tab[t].memory.intent)
      <4>1. /\ op'[t] = [pc |-> "sign", item |-> tab[t].memory.intent, answer |-> "none"]
            /\ \A d \in Devices : d # t => op'[d] = op[d]
        BY <3>2, OpMoves, Zenon
      <4>. QED  BY <3>1, <4>1, OpFacts
    <3>. QED  BY <2>2, <3>1, <3>2
  <2>4. search' = search /\ stray' = stray
    BY <1>11 DEF TabAssembles, serverVars
  <2>. QED  BY <2>1, <2>2, <2>3, <2>4, RemembersKeeps
<1>12. CASE TabSigns(t) \/ TabSubmits(t)
  <2>1. QuietIntents
    BY <1>12, AsksNothing DEF TabSigns, TabSubmits, serverVars, Asks
  <2>. QED  BY <2>1, QuietKeepsIntents
<1>. QED
  BY <1>1, <1>2, <1>3, <1>4, <1>5, <1>6, <1>7, <1>8, <1>9, <1>10, <1>11, <1>12 DEF TabNext

LEMMA IntentKept ==
    ASSUME NEW o, Opens = {o}, OwnerInv, TurnInv(o), DialogInv, IntentInv,
           [OwnerNext]_ownerVars
    PROVE  IntentInv'
<1>1. CASE UNCHANGED ownerVars
  BY <1>1 DEF IntentInv, ownerVars, hostVars
<1>. QED  BY <1>1, IntentHostKept, IntentSdkKept, IntentTabKept DEF OwnerNext

LEMMA TurnInit ==
    ASSUME NEW o, Opens = {o}, OwnerInit
    PROVE  TurnInv(o)
BY OpensAssumption DEF OwnerInit, TabInit, ClosedTab, TurnInv

LEMMA KeptInit ==
    ASSUME OwnerInit
    PROVE  DialogInv /\ DepositInv /\ IntentInv
<1>1. /\ \A c \in Devices : op[c].pc = "idle"
      /\ Tabs \subseteq Devices /\ stray = {} /\ search = NoSearch
  BY DEF OwnerInit, HostInit, Idle, Devices
<1>. QED  BY <1>1 DEF DialogInv, DepositInv, SentBy, SigningIn, IntentInv

\* Where a tab has one opening of a dialog under way at a time: whatever was sent to the
\* server is recorded there or kept on the device that sent it, until the miner has
\* refused a deposit, however requests are given up on and arrive late.
THEOREM SentDepositsKept ==
    ASSUME NEW o, Opens = {o}
    PROVE  OwnerSpec => []DepositKept
<1>1. OwnerInit => TurnInv(o) /\ DialogInv /\ (refusedOnce \/ DepositInv)
  BY KeptInit, TurnInit
<1>2. OwnerInv /\ (refusedOnce \/ DepositInv) => DepositKept
  <2>. SUFFICES ASSUME OwnerInv, DepositInv, NEW d \in Deposits, InFlight(d)
                PROVE  vaultRow.deposit = d \/ \E s \in Stores : kept[s].deposit = d
    BY DEF DepositKept
  <2>1. \E s \in Stores : SentBy(s, d)
    BY OpFacts DEF InFlight, InStray, Waits, SentBy
  <2>. QED  BY <2>1 DEF DepositInv
<1>3. OwnerInv /\ TurnInv(o) /\ [OwnerNext]_ownerVars => TurnInv(o)'
  BY TurnKept
<1>4. OwnerInv /\ TurnInv(o) /\ DialogInv /\ [OwnerNext]_ownerVars => DialogInv'
  BY DialogKept
<1>5. OwnerInv /\ TurnInv(o) /\ DialogInv /\ (refusedOnce \/ DepositInv)
        /\ [OwnerNext]_ownerVars => (refusedOnce \/ DepositInv)'
  BY DepositKeptOn
<1>. QED  BY <1>1, <1>2, <1>3, <1>4, <1>5, InitKeeps, NextKeeps, PTL DEF OwnerSpec

\* Where a tab has one opening of a dialog under way at a time: the store whose request
\* created the search remembers that search's intent, so that it authorises no other.
THEOREM SearchIsRemembered ==
    ASSUME NEW o, Opens = {o}
    PROVE  OwnerSpec => []DeviceFollowsSearch
<1>1. OwnerInit => TurnInv(o) /\ DialogInv /\ IntentInv
  BY KeptInit, TurnInit
<1>2. IntentInv => DeviceFollowsSearch
  BY DEF IntentInv, DeviceFollowsSearch
<1>3. OwnerInv /\ TurnInv(o) /\ [OwnerNext]_ownerVars => TurnInv(o)'
  BY TurnKept
<1>4. OwnerInv /\ TurnInv(o) /\ DialogInv /\ [OwnerNext]_ownerVars => DialogInv'
  BY DialogKept
<1>5. OwnerInv /\ TurnInv(o) /\ DialogInv /\ IntentInv /\ [OwnerNext]_ownerVars => IntentInv'
  BY IntentKept
<1>. QED  BY <1>1, <1>2, <1>3, <1>4, <1>5, InitKeeps, NextKeeps, PTL DEF OwnerSpec
=============================================================================
