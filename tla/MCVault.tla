------------------------------ MODULE MCVault -------------------------------
(***************************************************************************)
(* One vault for TLC, seen twice: from the server, whose deposit routes    *)
(* race each other (FundingSubmit), and from the devices that deposit into *)
(* it and withdraw from it (VaultOwner), for which a route is one step.    *)
(* They share no variable: a behaviour has one of them in focus.           *)
(*                                                                         *)
(* From the devices, it follows a process of the SDK and a tab, or two     *)
(* tabs, either without a withdrawal or from the deposit's confirmation    *)
(* on: no step of a withdrawal reads what a deposit left on a device.      *)
(***************************************************************************)
EXTENDS MCFundingSubmit, VaultOwner

CONSTANTS Tab1, Tab2

VARIABLES focus, devices

\* The vault as the SDK leaves it when its deposit is confirmed.
Confirmed ==
    /\ TabInit
    /\ saved = {Fresh(Sdk)} /\ lost = {}
    /\ kept = [s \in Stores |-> [deposit |-> Nil, intent |-> Nil]]
    /\ registered = Sdk
    /\ vaultRow = [status |-> "confirmed", deposit |-> 1] /\ refusedOnce = FALSE
    /\ search = NoSearch /\ authorized = {} /\ stray = {}
    /\ op = [c \in Devices |-> Idle]

VaultInit ==
    \/ focus = "routes" /\ devices = {} /\ Init /\ OwnerInit
    \/ /\ devices \in {{Sdk, Tab1}, {Tab1, Tab2}}
       /\ Init /\ vault = NoDeposit /\ reserved = "nobody"
       /\ \/ focus = "deposit" /\ OwnerInit
          \/ focus = "withdrawal" /\ Confirmed

RoutesMove == focus = "routes" /\ Next /\ UNCHANGED <<focus, devices, ownerVars>>
DevicesMove ==
    /\ focus \in {"deposit", "withdrawal"}
    /\ \/ HostNext /\ UNCHANGED tabVars
       \/ Sdk \in devices /\ SdkNext /\ UNCHANGED tabVars
       \/ \E t \in Tabs \cap devices : TabNext(t)
    /\ focus = "deposit" => \A c \in Devices : op'[c].pc \notin {"claim", "encrypt"}
    /\ UNCHANGED <<focus, devices, vars>>

VaultSpec == VaultInit /\ [][RoutesMove \/ DevicesMove]_<<focus, devices, vars, ownerVars>>
=============================================================================
