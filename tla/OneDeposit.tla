----------------------------- MODULE OneDeposit -----------------------------
(***************************************************************************)
(* What the deposit routes promise about one vault, whatever requests,     *)
(* exports, refusals and crashes do: it has one deposit at a time, a       *)
(* deposit the miner holds is never forgotten or replaced, and one that is *)
(* reported as submitted is one the miner holds.                           *)
(***************************************************************************)
CONSTANTS
    Txids,
    None

VARIABLES
    intent,     \* the deposit recorded for the vault
    held,       \* what the miner accepted of the deposits that were recorded
    outcome     \* what is recorded about the deposit's submission

vars == <<intent, held, outcome>>

\* The vault may be from before the promise, with a deposit nobody knows more about.
Init ==
    /\ held = {}
    /\ \/ intent = None /\ outcome = "none"
       \/ intent \in Txids /\ outcome = "uncertain"

\* A deposit to submit, or one that a wallet broadcast by itself.
Decide ==
    /\ intent = None
    /\ intent' \in Txids
    /\ outcome' \in {"uncertain", "none"}
    /\ UNCHANGED held

Accept ==
    /\ intent # None
    /\ held' = held \cup {intent}
    /\ UNCHANGED <<intent, outcome>>

Learn ==
    /\ outcome = "uncertain"
    /\ intent \in held
    /\ outcome' = "submitted"
    /\ UNCHANGED <<intent, held>>

\* Only a deposit that the miner refused, and never took, is forgotten.
Forget ==
    /\ intent \notin held
    /\ outcome = "uncertain"
    /\ intent' = None
    /\ outcome' = "none"
    /\ UNCHANGED held

Next == Decide \/ Accept \/ Learn \/ Forget

Spec == Init /\ [][Next]_vars
=============================================================================
