--------------------------- MODULE OneSubmission ----------------------------
(***************************************************************************)
(* What the withdrawal routes promise about one withdrawal, whatever       *)
(* callers, polls and crashes do (docs/EXACT-SUBMIT.md, "One switch, one   *)
(* attempt"): the owner's bytes are decided once, sent at most once after  *)
(* that, and from then on its outcome is only ever observed.               *)
(***************************************************************************)
EXTENDS Integers

CONSTANTS
    Raws,       \* signed transactions, witness included
    None

VARIABLES
    intent,     \* the bytes decided on
    sent,       \* how many times they were sent to the miner
    acked,      \* the miner's acknowledgement was recorded
    outcome     \* what is recorded about the withdrawal

vars == <<intent, sent, acked, outcome>>

Outcomes == {"uncertain", "submitted", "conflict", "confirmed"}

Init ==
    /\ intent = None
    /\ sent = 0
    /\ acked = FALSE
    /\ outcome = "none"

\* The first bytes accepted are the only ones ever sent.
Decide ==
    /\ intent = None
    /\ intent' \in Raws
    /\ outcome' = "uncertain"
    /\ UNCHANGED <<sent, acked>>

Send ==
    /\ intent # None
    /\ sent = 0
    /\ sent' = 1
    /\ UNCHANGED <<intent, acked, outcome>>

\* An acknowledgement is never forgotten, and an acknowledged withdrawal is
\* never reported as one that may not have reached the miner.
Learn ==
    /\ intent # None
    /\ acked' \in BOOLEAN
    /\ acked => acked'
    /\ acked' => sent = 1
    /\ outcome' \in Outcomes
    /\ acked' => outcome' # "uncertain"
    /\ UNCHANGED <<intent, sent>>

Next == Decide \/ Send \/ Learn

Spec == Init /\ [][Next]_vars
=============================================================================
