----------------------------- MODULE VaultOwner -----------------------------
(***************************************************************************)
(* One owner's vault from its keys to its withdrawal, with everything that *)
(* works on it at once: a process of the SDK, tabs of the web application, *)
(* and the server.                                                         *)
(***************************************************************************)
EXTENDS SdkClient, WalletTab

ownerVars == <<hostVars, tabVars>>

OwnerInit == HostInit /\ TabInit

OwnerNext ==
    \/ HostNext /\ UNCHANGED tabVars
    \/ SdkNext /\ UNCHANGED tabVars
    \/ \E t \in Tabs : TabNext(t)

OwnerSpec == OwnerInit /\ [][OwnerNext]_ownerVars

\* What the owner would need to get at the money is in a file the owner has, or in one
\* the browser failed to deliver: the keys of the registered vault, the intent of its
\* withdrawal, and the exact transaction of whatever the wallet has signed.  Each file is
\* saved by a step before the one that makes it necessary, with awaits and crashes in between.
Recoverable ==
    /\ registered # Nil => \E b \in saved : b.vault = registered
    /\ search.intent # Nil =>
           search.intent \in {b.intent : b \in Backups} \cup lost
    /\ \A i \in authorized : \E b \in Backups : b.intent = i /\ b.sealed

\* A deposit whose request is under way, or was given up on, is recorded by the server or
\* kept where it can be sent again, so that nobody signs another one meanwhile: until the
\* miner has refused a deposit, after which an answer may remove a later one's guard.
InFlight(d) == \/ d \in InStray("deposit")
               \/ \E c \in Devices : Waits(c, "deposit") /\ op[c].item = d
DepositKept ==
    refusedOnce \/ \A d \in Deposits :
        InFlight(d) => vaultRow.deposit = d \/ \E s \in Stores : kept[s].deposit = d

\* The device whose request created the search remembers that search's intent, so it
\* will authorise it and no other: tabs that read the memory before the other wrote
\* would both pass.
DeviceFollowsSearch ==
    search # NoSearch => kept[search.by].intent = search.intent

\* While a transaction dialog is open it holds the chain turn (App.tsx, comment at 340).
DialogHoldsTurn ==
    \A t \in Tabs : tab[t].dialog # "closed" => tab[t].held # Nil /\ turn = Mine(t)

OwnerTypeOK == HostTypeOK /\ TabTypeOK
=============================================================================
