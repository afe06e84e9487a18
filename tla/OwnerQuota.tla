----------------------------- MODULE OwnerQuota -----------------------------
(***************************************************************************)
(* What server/owner-limits.ts promises an operator of one owner: at most  *)
(* MaxActive withdrawals are started or resumed at once, a withdrawal is   *)
(* created only while its first GPU job fits the owner's GPU time, and GPU *)
(* time is charged only within it and never given back.                    *)
(***************************************************************************)
EXTENDS Integers, FiniteSets, FiniteSetsExt

CONSTANTS
    Jobs,
    MaxActive,      \* QSB_OWNER_MAX_ACTIVE_JOBS
    Timeout,        \* GPU seconds of one paid submission
    MaxSeconds      \* QSB_OWNER_MAX_GPU_SECONDS

VARIABLES
    created,    \* the owner's withdrawals
    active,     \* those that are queued or searching
    charged     \* GPU seconds charged for each

vars == <<created, active, charged>>

Used(charges) == MapThenSumSet(LAMBDA j : charges[j], Jobs)

Init ==
    /\ created \subseteq Jobs
    /\ active \subseteq created
    /\ charged = [j \in Jobs |-> 0]

Take(j) ==
    /\ j \notin active
    /\ Cardinality(active) < MaxActive
    /\ active' = active \cup {j}
    /\ UNCHANGED charged

Create(j) ==
    /\ j \notin created
    /\ Used(charged) + Timeout <= MaxSeconds
    /\ created' = created \cup {j}
    /\ Take(j)

Resume(j) ==
    /\ j \in created
    /\ Take(j)
    /\ UNCHANGED created

Release(j) ==
    /\ j \in active
    /\ active' = active \ {j}
    /\ UNCHANGED <<created, charged>>

Charge(j) ==
    /\ j \in active
    /\ \E seconds \in Timeout..MaxSeconds :
          charged' = [charged EXCEPT ![j] = @ + seconds]
    /\ Used(charged') <= MaxSeconds
    /\ UNCHANGED <<created, active>>

Next == \E j \in Jobs : Create(j) \/ Resume(j) \/ Release(j) \/ Charge(j)

Spec == Init /\ [][Next]_vars
=============================================================================
