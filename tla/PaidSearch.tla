----------------------------- MODULE PaidSearch -----------------------------
(***************************************************************************)
(* What both branches of the coordinator promise about the GPU time of one *)
(* withdrawal, on one GPU (server/coordinator.ts) or on several            *)
(* (server/parallel-search.ts): time is charged before it is used, it is   *)
(* never charged beyond the withdrawal's cap nor given back, each charge   *)
(* pays for at most one request to AWS Batch, and no more Batch jobs run   *)
(* at once than the withdrawal may use GPUs.                               *)
(***************************************************************************)
EXTENDS Integers

CONSTANTS
    Cap,    \* charges the withdrawal may make
    Gpus    \* Batch jobs it may run at once

VARIABLES
    charged,    \* executions charged so far
    requests,   \* requests AWS Batch accepted or refused
    running     \* accepted jobs that have not ended

vars == <<charged, requests, running>>

Init == charged = 0 /\ requests = 0 /\ running = 0

Charge ==
    /\ charged < Cap
    /\ charged' = charged + 1
    /\ UNCHANGED <<requests, running>>

Accept ==
    /\ requests < charged /\ running < Gpus
    /\ requests' = requests + 1 /\ running' = running + 1
    /\ UNCHANGED charged

Refuse ==
    /\ requests < charged
    /\ requests' = requests + 1
    /\ UNCHANGED <<charged, running>>

End ==
    /\ running > 0
    /\ running' = running - 1
    /\ UNCHANGED <<charged, requests>>

Next == Charge \/ Accept \/ Refuse \/ End

Spec == Init /\ [][Next]_vars
=============================================================================
