-------------------------- MODULE OwnerLimitsProofs --------------------------
(***************************************************************************)
(* For any number of withdrawals and concurrent claims, and any limits:    *)
(* the rows keep their types, no claim takes a slot beyond the limit       *)
(* though its Query may see half of an earlier claim's transaction, the    *)
(* ledger is the sum of the charges, and OwnerQuota is implemented.        *)
(*                                                                         *)
(* Counted is about the slots: what a claim has counted is true for as     *)
(* long as its transaction can succeed.  Balanced is about the GPU time:   *)
(* what a tick or a claim has read of the ledger and of its job still      *)
(* holds for as long as the versions that it read are the stored ones.     *)
(***************************************************************************)
EXTENDS OwnerLimits, FiniteSetTheorems, TLAPS

LEMMA JobsFinite == IsFiniteSet(Jobs)
BY FS_Interval, LimitsAssumption DEF Jobs

(***************************************************************************)
(* The sum of the charges.  The library defines it by recursion over sets, *)
(* and no induction theorem can be instantiated here.  But the number of   *)
(* seconds charged, each paired with its job, meets the same equation, so  *)
(* the recursion defines a function; and were another one to meet it too,  *)
(* the smallest set they differ on would tell.                             *)
(***************************************************************************)
\* The job that the library's sum takes next, and that g is that sum of f over the subsets
\* of Jobs.
Some(s) == CHOOSE j \in s : TRUE
Adds(f, g) ==
    g = [s \in SUBSET Jobs |->
            IF s = {} THEN 0 ELSE f[Some(s)] + g[s \ {Some(s)}]]

\* Each second that is charged for a job of s.
SecondsOf(f, j) == {j} \X (1..f[j])
Seconds(f, s) == UNION {SecondsOf(f, j) : j \in s}

LEMMA SecondsOfOne ==
    ASSUME NEW f \in [Jobs -> Nat], NEW j \in Jobs
    PROVE  IsFiniteSet(SecondsOf(f, j)) /\ Cardinality(SecondsOf(f, j)) = f[j]
<1>1. f[j] \in Nat
  OBVIOUS
<1>2. IsFiniteSet(1..f[j]) /\ Cardinality(1..f[j]) = f[j]
  BY <1>1, FS_Interval
<1>3. IsFiniteSet({j}) /\ Cardinality({j}) = 1
  BY FS_Singleton
<1>4. /\ IsFiniteSet({j} \X (1..f[j]))
      /\ Cardinality({j} \X (1..f[j])) = Cardinality({j}) * Cardinality(1..f[j])
  BY <1>2, <1>3, FS_Product
<1>. QED  BY <1>1, <1>2, <1>3, <1>4 DEF SecondsOf

\* The seconds of two jobs are not the same ones.
LEMMA SecondsApart ==
    ASSUME NEW f \in [Jobs -> Nat], NEW s \in SUBSET Jobs, NEW j \in s
    PROVE  /\ Seconds(f, s) = Seconds(f, s \ {j}) \cup SecondsOf(f, j)
           /\ Seconds(f, s \ {j}) \cap SecondsOf(f, j) = {}
BY DEF Seconds, SecondsOf

\* A set of sets of jobs has one that no other is a part of.
LEMMA Smallest ==
    ASSUME NEW T \in SUBSET SUBSET Jobs, T # {}
    PROVE  \E s \in T : \A t \in T : t \subseteq s => t = s
<1>1. IsWellFoundedOn(StrictSubsetOrdering(Jobs), SUBSET Jobs)
  BY JobsFinite, FS_FiniteSubsetsOfFinite, FS_StrictSubsetOrderingWellFounded
<1>2. \E s \in T : \A t \in T : ~ (<<t, s>> \in StrictSubsetOrdering(Jobs))
  BY <1>1, WFMin
<1>. QED  BY <1>2 DEF StrictSubsetOrdering

LEMMA SecondsFinite ==
    ASSUME NEW f \in [Jobs -> Nat]
    PROVE  \A s \in SUBSET Jobs : IsFiniteSet(Seconds(f, s))
<1>. DEFINE T == {s \in SUBSET Jobs : ~IsFiniteSet(Seconds(f, s))}
<1>. SUFFICES ASSUME T # {} PROVE FALSE
  OBVIOUS
<1>0. T \in SUBSET SUBSET Jobs
  OBVIOUS
<1>1. PICK s \in T : \A t \in T : t \subseteq s => t = s
  <2>. HIDE DEF T
  <2>. QED  BY <1>0, Smallest
<1>2. CASE s = {}
  BY <1>1, <1>2, FS_EmptySet DEF Seconds
<1>3. CASE s # {}
  <2>1. PICK j \in s : TRUE
    BY <1>3
  <2>2. IsFiniteSet(Seconds(f, s \ {j}))
    BY <1>1, <2>1
  <2>3. IsFiniteSet(SecondsOf(f, j))
    BY <2>1, SecondsOfOne
  <2>4. IsFiniteSet(Seconds(f, s \ {j}) \cup SecondsOf(f, j))
    BY <2>2, <2>3, FS_Union
  <2>5. Seconds(f, s) = Seconds(f, s \ {j}) \cup SecondsOf(f, j)
    BY <1>1, <2>1, SecondsApart
  <2>. QED  BY <1>1, <2>4, <2>5
<1>. QED  BY <1>2, <1>3

LEMMA SecondsAdd ==
    ASSUME NEW f \in [Jobs -> Nat], NEW s \in SUBSET Jobs, NEW j \in s
    PROVE  Cardinality(Seconds(f, s)) = f[j] + Cardinality(Seconds(f, s \ {j}))
<1>. DEFINE rest == Seconds(f, s \ {j})
            one == SecondsOf(f, j)
<1>1. IsFiniteSet(rest) /\ IsFiniteSet(one) /\ Cardinality(one) = f[j] /\ f[j] \in Nat
  BY SecondsFinite, SecondsOfOne
<1>2. Seconds(f, s) = rest \cup one /\ rest \cap one = {}
  BY SecondsApart
<1>. HIDE DEF rest, one
<1>3. /\ Cardinality(rest \cup one)
           = Cardinality(rest) + Cardinality(one) - Cardinality(rest \cap one)
      /\ Cardinality({}) = 0 /\ Cardinality(rest) \in Nat
  BY <1>1, FS_Union, FS_EmptySet, FS_CardinalityType
<1>4. Cardinality(rest \cup one) = f[j] + Cardinality(rest)
  <2>1. Cardinality(rest \cap one) = 0
    BY <1>2, <1>3
  <2>. QED  BY <1>1, <1>3, <2>1
<1>. QED  BY <1>2, <1>4 DEF rest

Spent(f) == Cardinality(Seconds(f, Jobs))

\* The library's sum is the number of the seconds.
LEMMA SumCounts ==
    ASSUME NEW f \in [Jobs -> Nat]
    PROVE  /\ \E g : Adds(f, g)
           /\ \A g : Adds(f, g) => g[Jobs] = Spent(f)
<1>. DEFINE count == [s \in SUBSET Jobs |-> Cardinality(Seconds(f, s))]
<1>0. Cardinality(Seconds(f, {})) = 0
  BY FS_EmptySet DEF Seconds
<1>1. Adds(f, count)
  <2>1. ASSUME NEW s \in SUBSET Jobs, s # {}
        PROVE  count[s] = f[Some(s)] + count[s \ {Some(s)}]
    <3>1. Some(s) \in s
      BY <2>1 DEF Some
    <3>. QED  BY <3>1, SecondsAdd
  <2>. QED  BY <1>0, <2>1 DEF Adds
<1>2. ASSUME NEW g, Adds(f, g) PROVE g[Jobs] = count[Jobs]
  <2>. DEFINE T == {s \in SUBSET Jobs : g[s] # count[s]}
  <2>. SUFFICES ASSUME T # {} PROVE FALSE
    OBVIOUS
  <2>0. T \in SUBSET SUBSET Jobs
    OBVIOUS
  <2>1. PICK s \in T : \A t \in T : t \subseteq s => t = s
    <3>. HIDE DEF T
    <3>. QED  BY <2>0, Smallest
  <2>2. s # {}
    BY <1>0, <1>2, <2>1 DEF Adds
  <2>3. Some(s) \in s
    BY <2>2 DEF Some
  <2>4. g[s] = f[Some(s)] + g[s \ {Some(s)}]
    BY <1>2, <2>1, <2>2 DEF Adds
  <2>5. g[s \ {Some(s)}] = count[s \ {Some(s)}]
    <3>. DEFINE r == s \ {Some(s)}
    <3>1. r \in SUBSET Jobs /\ r \subseteq s /\ r # s
      BY <2>1, <2>3
    <3>. HIDE DEF r
    <3>2. g[r] = count[r]
      BY <2>1, <3>1
    <3>. QED  BY <3>2 DEF r
  <2>6. count[s] = f[Some(s)] + count[s \ {Some(s)}]
    BY <2>1, <2>3, SecondsAdd
  <2>. QED  BY <2>1, <2>4, <2>5, <2>6
<1>. QED  BY <1>1, <1>2 DEF Spent

LEMMA SpentNat ==
    ASSUME NEW f \in [Jobs -> Nat]
    PROVE  Spent(f) \in Nat
BY SecondsFinite, FS_CardinalityType DEF Spent

\* Nothing is spent before the first charge, and a charge adds what it adds for its job.
LEMMA SpentNothing == Spent([j \in Jobs |-> 0]) = 0
<1>1. Seconds([j \in Jobs |-> 0], Jobs) = {}
  BY DEF Seconds, SecondsOf
<1>. QED  BY <1>1, FS_EmptySet DEF Spent

LEMMA SpentGrows ==
    ASSUME NEW f \in [Jobs -> Nat], NEW g \in [Jobs -> Nat], NEW j \in Jobs,
           \A i \in Jobs \ {j} : g[i] = f[i]
    PROVE  Spent(g) = Spent(f) + g[j] - f[j]
<1>1. Seconds(g, Jobs \ {j}) = Seconds(f, Jobs \ {j})
  BY DEF Seconds, SecondsOf
<1>2. /\ Spent(f) = f[j] + Cardinality(Seconds(f, Jobs \ {j}))
      /\ Spent(g) = g[j] + Cardinality(Seconds(g, Jobs \ {j}))
  BY SecondsAdd DEF Spent
<1>3. Cardinality(Seconds(f, Jobs \ {j})) \in Nat /\ f[j] \in Nat /\ g[j] \in Nat
  BY SecondsFinite, FS_CardinalityType
<1>. QED  BY <1>1, <1>2, <1>3

\* What the rows have been charged, and the two sums that the specifications take.
Charges == [j \in Jobs |-> rows[j].charged]

LEMMA LedgerSum ==
    ASSUME TypeOK
    PROVE  LedgerIsSum <=> ledger.total = Spent(Charges)
<1>. DEFINE AddsRows(g) ==
                g = [s \in SUBSET Jobs |->
                        IF s = {} THEN 0 ELSE rows[Some(s)].charged + g[s \ {Some(s)}]]
            sum == CHOOSE g : AddsRows(g)
<1>1. Charges \in [Jobs -> Nat]
  BY DEF TypeOK, Row, Charges
<1>2. \A s \in SUBSET Jobs : s # {} => Charges[Some(s)] = rows[Some(s)].charged
  BY DEF Some, Charges
<1>3. \A g : AddsRows(g) <=> Adds(Charges, g)
  BY <1>2 DEF Adds
<1>4. LedgerIsSum <=> ledger.total = sum[Jobs]
  BY DEF LedgerIsSum, MapThenSumSet, MapThenFoldSet, Some
<1>5. \E g : AddsRows(g)
  BY <1>1, <1>3, SumCounts
<1>6. Adds(Charges, sum)
  <2>. HIDE DEF AddsRows
  <2>. QED  BY <1>3, <1>5
<1>. HIDE DEF sum
<1>. QED  BY <1>1, <1>4, <1>6, SumCounts

LEMMA QuotaSum ==
    ASSUME NEW f \in [Jobs -> Nat]
    PROVE  Quota!Used(f) = Spent(f)
<1>. DEFINE sum == CHOOSE g : Adds(f, g)
<1>1. Quota!Used(f) = sum[Jobs]
  BY DEF Quota!Used, Quota!MapThenSumSet, Quota!MapThenFoldSet, Adds, Some
<1>2. Adds(f, sum)
  BY SumCounts
<1>. HIDE DEF sum
<1>. QED  BY <1>1, <1>2, SumCounts

USE DEF Jobs

(***************************************************************************)
(* The inductive invariant.                                                *)
(***************************************************************************)
\* A charge is never more than what the withdrawal has reserved.
ChargesReserved == \A j \in Jobs : rows[j].charged <= rows[j].reserved

\* While the job's write does not show, the row is the one that the claim read; a fence
\* that shows already names this claim.
FlightFits ==
    /\ flight.left # {} => flight.job \in Jobs
    /\ "row" \in flight.left => /\ rows[flight.job].version + 1 = flight.version
                                /\ flight.version <= MaxVersion
    /\ "row" \in flight.left /\ "fence" \notin flight.left =>
          fence.job = flight.job /\ fence.since = flight.version

\* The claim's transaction can still succeed: no other has taken the fence since.
Current(k) == k.fence.version = fence.version /\ "fence" \notin flight.left

\* A withdrawal works when its row says so, or a claim has committed and does not show.
Works(j) == InFlight(j) \/ Held(rows[j])
Workers == {j \in Jobs : Works(j)}

\* Of the jobs that the Query has passed, each that works was seen to, or is the fence's
\* claimant and was not shown.
Accounted(k) ==
    \A j \in Jobs : j < k.next /\ Works(j) => j \in k.held \/ (j = k.fence.job /\ ~k.shown)

\* What a claim holds, wherever it is.
ClaimReads(k) ==
    /\ k.job \in Jobs /\ k.version < MaxVersion
    /\ k.fence.version <= fence.version

\* What it has counted is true for as long as its transaction can succeed.
ClaimFits(k) ==
    /\ k.pc # "idle" => ClaimReads(k)
    /\ k.pc = "count" /\ k.shown => k.fence.job < k.next
    /\ k.pc = "count" /\ k.fence.version = fence.version => k.fence = fence
    /\ k.pc = "count" /\ Current(k) => Accounted(k)
    /\ k.pc = "commit" /\ Current(k) => Cardinality(Workers) < MaxActive

Counted ==
    /\ TypeOK
    /\ ChargesReserved
    /\ FlightFits
    /\ \A c \in Claims : ClaimFits(claim[c])

\* Fewer withdrawals work when none starts.
NobodyStarts == \A j \in Jobs : Works(j)' => Works(j)

LEMMA NoneStarts ==
    ASSUME NobodyStarts
    PROVE  Cardinality(Workers') <= Cardinality(Workers) /\ Cardinality(Workers) \in Nat
                                                       /\ Cardinality(Workers') \in Nat
<1>1. Workers' \subseteq Workers /\ Workers \subseteq Jobs
  BY DEF Workers, NobodyStarts
<1>2. IsFiniteSet(Workers)
  BY <1>1, JobsFinite, FS_Subset
<1>. HIDE DEF Workers
<1>. QED  BY <1>1, <1>2, FS_Subset, FS_CardinalityType

LEMMA InitCounted == Init => Counted
<1>. SUFFICES ASSUME Init PROVE Counted
  OBVIOUS
<1>1. NoRow \in Row /\ Earlier \in Row /\ NoFence \in Fence /\ NoLedger \in Ledger
      /\ NoFlight \in Flight /\ NoTick \in Tick
  BY LimitsAssumption DEF NoRow, Earlier, NoFence, NoLedger, NoFlight, NoTick, Row,
     Versions, Fence, Ledger, Flight, Tick
<1>2. Idle \in Claim
  BY <1>1, LimitsAssumption DEF Idle, Claim, Versions
<1>3. TypeOK
  BY <1>1, <1>2 DEF Init, TypeOK
<1>4. ChargesReserved
  BY LimitsAssumption DEF Init, ChargesReserved, NoRow, Earlier
<1>5. FlightFits
  BY DEF Init, FlightFits, NoFlight
<1>6. \A c \in Claims : ClaimFits(claim[c])
  BY DEF Init, ClaimFits, Idle
<1>. QED  BY <1>3, <1>4, <1>5, <1>6 DEF Counted

(***************************************************************************)
(* Types and charges.                                                      *)
(***************************************************************************)
LEMMA SavedOK ==
    ASSUME NEW r \in Row, r.version < MaxVersion,
           NEW status \in {"none", "active", "paused", "final"}
    PROVE  /\ Saved(r, status) \in Row
           /\ Saved(r, status).version = r.version + 1
           /\ Saved(r, status).status = status
           /\ Saved(r, status).charged = r.charged
           /\ Saved(r, status).reserved = r.reserved
<1>. DEFINE v == r.version + 1
<1>1. v \in Versions /\ v = r.version + 1
  BY LimitsAssumption DEF Row, Versions
<1>2. Saved(r, status) = [r EXCEPT !.version = v, !.status = status]
  BY DEF Saved
<1>. HIDE DEF v
<1>. QED  BY <1>1, <1>2 DEF Row

LEMMA WrittenOK ==
    ASSUME NEW r \in Row, r.version < MaxVersion
    PROVE  /\ Written(r) \in Row
           /\ Written(r).version = r.version + 1
           /\ Held(Written(r))
           /\ Written(r).charged = r.charged
           /\ Written(r).reserved = r.reserved
<1>1. Written(r) = Saved(r, "active")
  BY DEF Written, Saved
<1>. QED  BY <1>1, SavedOK DEF Held

LEMMA ChargeOK ==
    ASSUME TypeOK, NEW j \in Jobs, rows[j].version < MaxVersion
    PROVE  /\ Charge(j) \in Row
           /\ Charge(j).version = rows[j].version + 1
           /\ Charge(j).status = rows[j].status
           /\ Charge(j).charged = Charge(j).reserved
<1>1. rows[j] \in Row
  BY DEF TypeOK
<1>. DEFINE n == Reservation(j)
            r == rows[j]
            v == rows[j].version + 1
<1>2. n \in Nat /\ v \in Versions
  BY <1>1, LimitsAssumption DEF Reservation, Row, Versions
<1>3. Charge(j) = [r EXCEPT !.version = v, !.reserved = n, !.charged = n] /\ r \in Row
  BY <1>1 DEF Charge
<1>4. v = rows[j].version + 1 /\ r = rows[j]
  OBVIOUS
<1>. HIDE DEF n, r, v
<1>5. /\ Charge(j) \in Row /\ Charge(j).version = v
      /\ Charge(j).status = r.status
      /\ Charge(j).charged = Charge(j).reserved
  BY <1>2, <1>3 DEF Row
<1>. QED  BY <1>4, <1>5

LEMMA IdleOK == Idle \in Claim /\ Idle.pc = "idle"
<1>1. NoFence \in Fence
  BY LimitsAssumption DEF NoFence, Fence
<1>2. -1 \in Versions
  BY LimitsAssumption DEF Versions
<1>3. 1 \in 1..JobCount + 1 /\ 0 \in 0..JobCount /\ -1 \in Int
  BY LimitsAssumption
<1>. QED  BY <1>1, <1>2, <1>3 DEF Idle, Claim

LEMMA AskingOK ==
    ASSUME TypeOK, NEW j \in Jobs
    PROVE  /\ Asking(j) \in Claim
           /\ Asking(j).pc = "count" /\ Asking(j).job = j
           /\ Asking(j).version = rows[j].version /\ Asking(j).fence = fence
           /\ Asking(j).next = 1 /\ Asking(j).shown = FALSE
<1>. DEFINE v == rows[j].version
<1>1. v \in Versions /\ v = rows[j].version /\ fence \in Fence /\ j \in 0..JobCount
  BY LimitsAssumption DEF TypeOK, Row
<1>2. Idle.next = 1 /\ Idle.shown = FALSE
  BY DEF Idle
<1>3. Asking(j) = [Idle EXCEPT !.pc = "count", !.job = j, !.version = v, !.fence = fence]
  BY DEF Asking
<1>. HIDE DEF v
<1>. QED  BY <1>1, <1>2, <1>3, IdleOK DEF Claim

LEMMA ListedOK ==
    ASSUME NEW k \in Claim, k.next \in Jobs
    PROVE  /\ Listed(k) \in Claim
           /\ Listed(k).pc = k.pc /\ Listed(k).job = k.job
           /\ Listed(k).version = k.version /\ Listed(k).fence = k.fence
           /\ Listed(k).next = k.next + 1
           /\ k.held \subseteq Listed(k).held
           /\ Held(rows[k.next]) => k.next \in Listed(k).held
           /\ Listed(k).shown <=> \/ k.shown
                                 \/ /\ k.next = k.fence.job /\ rows[k.next].status # "none"
                                    /\ Shows(rows[k.next], k.fence.since)
<1>. DEFINE held == IF Held(rows[k.next]) THEN k.held \cup {k.next} ELSE k.held
            shown == \/ k.shown
                     \/ /\ k.next = k.fence.job /\ rows[k.next].status # "none"
                        /\ Shows(rows[k.next], k.fence.since)
            next == k.next + 1
<1>1. Listed(k) = [k EXCEPT !.next = next, !.held = held, !.shown = shown]
  BY DEF Listed
<1>2. shown \in BOOLEAN
  BY DEF Claim
<1>3. held \subseteq Jobs /\ k.held \subseteq held /\ (Held(rows[k.next]) => k.next \in held)
  BY DEF Claim
<1>4. next \in 1..JobCount + 1
  BY LimitsAssumption
<1>5. next = k.next + 1
      /\ (shown <=> \/ k.shown
                    \/ /\ k.next = k.fence.job /\ rows[k.next].status # "none"
                       /\ Shows(rows[k.next], k.fence.since))
  OBVIOUS
<1>. HIDE DEF held, shown, next
<1>6. /\ Listed(k) \in Claim
      /\ Listed(k).pc = k.pc /\ Listed(k).job = k.job
      /\ Listed(k).version = k.version /\ Listed(k).fence = k.fence
      /\ Listed(k).next = next /\ Listed(k).held = held /\ Listed(k).shown = shown
  BY <1>1, <1>2, <1>3, <1>4 DEF Claim
<1>. QED  BY <1>3, <1>5, <1>6

LEMMA GrantedOK ==
    ASSUME TypeOK, NEW k \in Claim
    PROVE  /\ Granted(k) \in Claim
           /\ Granted(k).pc = "commit" /\ Granted(k).job = k.job
           /\ Granted(k).version = k.version /\ Granted(k).fence = k.fence
<1>. DEFINE read == IF Creates(k) THEN ledger.version ELSE -1
<1>1. read \in Int
  BY DEF TypeOK, Ledger
<1>2. Granted(k) = [Idle EXCEPT !.pc = "commit", !.job = k.job, !.version = k.version,
                              !.fence = k.fence, !.ledger = read]
  BY DEF Granted
<1>. HIDE DEF read
<1>. QED  BY <1>1, <1>2, IdleOK DEF Claim

(***************************************************************************)
(* The claims' steps change nothing that others see but for Commit.        *)
(***************************************************************************)
\* A claim that did not move keeps what it knows, when nobody starts working and the
\* fence, if it moved, moved on.
LEMMA OthersFit ==
    ASSUME Counted, NEW d \in Claims, claim'[d] = claim[d],
           NobodyStarts,
           \/ fence' = fence /\ ("fence" \in flight.left => "fence" \in flight'.left)
           \/ fence'.version = fence.version + 1
    PROVE  ClaimFits(claim[d])'
<1>0. PICK k \in Claim : k = claim[d]
  BY DEF Counted, TypeOK
<1>1. ClaimFits(k) /\ fence.version \in Int /\ k.fence.version \in Int
  BY <1>0 DEF Counted, TypeOK, Claim, Fence
<1>2. claim'[d] = k
  BY <1>0
<1>3. k.pc # "idle" => ClaimReads(k) /\ ClaimReads(k)'
  BY <1>1 DEF ClaimFits, ClaimReads
<1>4. CASE fence' = fence /\ ("fence" \in flight.left => "fence" \in flight'.left)
  <2>1. Current(k)' => Current(k)
    BY <1>4 DEF Current
  <2>2. Accounted(k) => Accounted(k)'
    BY DEF Accounted, NobodyStarts
  <2>3. Cardinality(Workers) < MaxActive => Cardinality(Workers') < MaxActive
    BY NoneStarts, LimitsAssumption
  <2>. QED  BY <1>1, <1>2, <1>3, <1>4, <2>1, <2>2, <2>3 DEF ClaimFits
<1>5. CASE fence'.version = fence.version + 1
  <2>1. k.pc # "idle" => k.fence.version # fence'.version
    BY <1>1, <1>3, <1>5 DEF ClaimReads
  <2>. QED  BY <1>1, <1>2, <1>3, <2>1 DEF ClaimFits, Current
<1>. QED  BY <1>4, <1>5

\* Claim c goes on as k, which fits the rows.
LEMMA ClaimStep ==
    ASSUME Counted, NEW c \in Claims, NEW k \in Claim, ClaimFits(k),
           claim' = [claim EXCEPT ![c] = k],
           UNCHANGED <<rows, fence, ledger, flight, tick>>
    PROVE  Counted' /\ NobodyStarts
<1>1. claim' \in [Claims -> Claim] /\ claim'[c] = k
      /\ \A d \in Claims : d # c => claim'[d] = claim[d]
  BY DEF Counted, TypeOK
<1>2. TypeOK' /\ ChargesReserved' /\ FlightFits'
  BY <1>1 DEF Counted, TypeOK, ChargesReserved, FlightFits
<1>3. NobodyStarts
  BY DEF NobodyStarts, Works, InFlight, Held
<1>4. ClaimFits(claim[c])'
  <2>1. Workers' = Workers
    BY DEF Workers, Works, InFlight, Held
  <2>. HIDE DEF Workers
  <2>. QED
    BY <1>1, <2>1 DEF ClaimFits, ClaimReads, Current, Accounted, Works, InFlight, Held
<1>5. \A d \in Claims : d # c => ClaimFits(claim[d])'
  BY <1>1, <1>3, OthersFit
<1>. QED  BY <1>3, <1>2, <1>4, <1>5 DEF Counted

LEMMA BeginCounted ==
    ASSUME Counted, NEW c \in Claims, NEW j \in Jobs, Begin(c, j)
    PROVE  Counted' /\ NobodyStarts
<1>. DEFINE k == Asking(j)
<1>1. /\ claim' = [claim EXCEPT ![c] = k] /\ rows[j].version < MaxVersion
      /\ UNCHANGED <<rows, fence, ledger, flight, tick>>
  BY DEF Begin
<1>2. k \in Claim /\ k.pc = "count" /\ k.job = j /\ k.version = rows[j].version
      /\ k.fence = fence /\ k.next = 1 /\ k.shown = FALSE
  BY AskingOK DEF Counted
<1>3. fence.version \in Int
  BY DEF Counted, TypeOK, Fence
<1>. HIDE DEF k
<1>4. Accounted(k)
  BY <1>2, LimitsAssumption DEF Accounted
<1>5. ClaimFits(k)
  BY <1>1, <1>2, <1>3, <1>4 DEF ClaimFits, ClaimReads
<1>. QED  BY <1>1, <1>2, <1>5, ClaimStep

\* The job that is listed next works only if it is seen to, or is the claimant that the
\* Query does not show.
LEMMA CountJobCounted ==
    ASSUME Counted, NEW c \in Claims, CountJob(c)
    PROVE  Counted' /\ NobodyStarts
<1>. DEFINE was == claim[c]
            k == Listed(claim[c])
<1>1. /\ claim' = [claim EXCEPT ![c] = k] /\ was.pc = "count" /\ was.next \in Jobs
      /\ UNCHANGED <<rows, fence, ledger, flight, tick>>
  BY DEF CountJob
<1>2. was \in Claim /\ ClaimFits(was) /\ was.next \in Int /\ was.fence.job \in Int
  BY LimitsAssumption DEF Counted, TypeOK, Claim, Fence
<1>3. /\ k \in Claim
      /\ k.pc = was.pc /\ k.job = was.job /\ k.version = was.version /\ k.fence = was.fence
      /\ k.next = was.next + 1
      /\ was.held \subseteq k.held
      /\ Held(rows[was.next]) => was.next \in k.held
      /\ k.shown <=> \/ was.shown
                    \/ /\ was.next = was.fence.job /\ rows[was.next].status # "none"
                       /\ Shows(rows[was.next], was.fence.since)
  BY <1>1, <1>2, ListedOK
<1>. HIDE DEF was, k
<1>4. k.shown => k.fence.job < k.next
  BY <1>1, <1>2, <1>3 DEF ClaimFits
<1>5. ASSUME Current(k) PROVE Accounted(k)
  <2>1. Current(was) /\ Accounted(was) /\ was.fence = fence
    BY <1>1, <1>2, <1>3, <1>5 DEF ClaimFits, Current
  <2>2. ASSUME NEW j \in Jobs, j < k.next, Works(j)
        PROVE  j \in k.held \/ (j = k.fence.job /\ ~k.shown)
    <3>1. CASE j < was.next
      <4>1. j \in was.held \/ (j = was.fence.job /\ ~was.shown)
        BY <2>1, <2>2, <3>1 DEF Accounted
      <4>2. j = was.fence.job => was.next # was.fence.job
        BY <1>2, <3>1
      <4>. QED  BY <1>3, <4>1, <4>2
    <3>2. CASE j = was.next /\ Held(rows[j])
      BY <1>3, <3>2
    <3>3. CASE j = was.next /\ ~Held(rows[j])
      <4>1. flight.job = j /\ "row" \in flight.left /\ "fence" \notin flight.left
        BY <2>1, <2>2, <3>3 DEF Works, InFlight, Current
      <4>2. fence.job = j /\ fence.since = rows[j].version + 1
        BY <4>1 DEF Counted, FlightFits
      <4>3. rows[j].version \in Int
        BY LimitsAssumption DEF Counted, TypeOK, Row, Versions
      <4>4. ~Shows(rows[j], fence.since)
        BY <3>3, <4>2, <4>3 DEF Shows
      <4>5. ~was.shown
        BY <1>1, <1>2, <2>1, <3>3, <4>2 DEF ClaimFits
      <4>. QED  BY <1>3, <2>1, <3>3, <4>2, <4>4, <4>5
    <3>. QED  BY <1>2, <1>3, <2>2, <3>1, <3>2, <3>3
  <2>. QED  BY <2>2 DEF Accounted
<1>6. ClaimFits(k)
  BY <1>1, <1>2, <1>3, <1>4, <1>5 DEF ClaimFits, ClaimReads
<1>. QED  BY <1>1, <1>3, <1>6, ClaimStep

\* Whoever works was listed or is the claimant that the count adds.
LEMMA ActiveCounts ==
    ASSUME Counted, NEW k \in Claim, k.next = JobCount + 1, Accounted(k)
    PROVE  Cardinality(Workers) <= Active(k)
<1>1. IsFiniteSet(k.held) /\ k.held \subseteq Jobs
  BY JobsFinite, FS_Subset DEF Claim
<1>2. Workers \subseteq Jobs
  BY DEF Workers
<1>3. \A j \in Workers : j \in k.held \/ (j = k.fence.job /\ ~k.shown)
  BY LimitsAssumption DEF Workers, Accounted
<1>. HIDE DEF Workers
<1>4. Cardinality(k.held) \in Nat
  BY <1>1, FS_CardinalityType
<1>5. CASE k.fence.job # 0 /\ ~k.shown
  <2>1. Workers \subseteq k.held \cup {k.fence.job}
    BY <1>3
  <2>2. /\ IsFiniteSet(k.held \cup {k.fence.job})
        /\ Cardinality(k.held \cup {k.fence.job}) <= Cardinality(k.held) + 1
    <3>1. /\ IsFiniteSet(k.held \cup {k.fence.job})
          /\ Cardinality(k.held \cup {k.fence.job})
               = IF k.fence.job \in k.held THEN Cardinality(k.held)
                                           ELSE Cardinality(k.held) + 1
      BY <1>1, FS_AddElement
    <3>. QED  BY <1>4, <3>1
  <2>3. Cardinality(Workers) <= Cardinality(k.held \cup {k.fence.job})
    BY <2>1, <2>2, FS_Subset
  <2>4. /\ Cardinality(Workers) \in Nat
        /\ Cardinality(k.held \cup {k.fence.job}) \in Nat
    BY <2>1, <2>2, FS_Subset, FS_CardinalityType
  <2>5. Active(k) = Cardinality(k.held) + 1
    BY <1>5 DEF Active
  <2>. QED  BY <1>4, <2>2, <2>3, <2>4, <2>5
<1>6. CASE ~(k.fence.job # 0 /\ ~k.shown)
  <2>1. Workers \subseteq k.held
    BY <1>2, <1>3, <1>6
  <2>2. Cardinality(Workers) <= Cardinality(k.held)
    BY <1>1, <2>1, FS_Subset
  <2>3. Active(k) = Cardinality(k.held) + 0
    BY <1>6 DEF Active
  <2>. QED  BY <1>4, <2>2, <2>3
<1>. QED  BY <1>5, <1>6

LEMMA WorkersNat == Cardinality(Workers) \in Nat
<1>1. Workers \subseteq Jobs
  BY DEF Workers
<1>. QED  BY <1>1, JobsFinite, FS_Subset, FS_CardinalityType

LEMMA TakeSlotCounted ==
    ASSUME Counted, NEW c \in Claims, TakeSlot(c)
    PROVE  Counted' /\ NobodyStarts
<1>. DEFINE was == claim[c]
            k == Granted(claim[c])
<1>1. /\ claim' = [claim EXCEPT ![c] = k]
      /\ was.pc = "count" /\ was.next = JobCount + 1 /\ Active(was) < MaxActive
      /\ UNCHANGED <<rows, fence, ledger, flight, tick>>
  BY DEF TakeSlot
<1>2. was \in Claim /\ ClaimFits(was) /\ TypeOK
  BY DEF Counted, TypeOK
<1>3. k \in Claim /\ k.pc = "commit" /\ k.job = was.job /\ k.version = was.version
      /\ k.fence = was.fence
  BY <1>2, GrantedOK
<1>. HIDE DEF was, k
<1>4. ASSUME Current(k) PROVE Cardinality(Workers) < MaxActive
  <2>1. Accounted(was)
    BY <1>1, <1>2, <1>3, <1>4 DEF ClaimFits, Current
  <2>2. Cardinality(Workers) <= Active(was)
    BY <1>1, <1>2, <2>1, ActiveCounts
  <2>3. Active(was) \in Nat
    <3>1. Cardinality(was.held) \in Nat
      BY <1>2, JobsFinite, FS_Subset, FS_CardinalityType DEF Claim
    <3>. QED  BY <3>1 DEF Active
  <2>. QED  BY <1>1, <2>2, <2>3, WorkersNat, LimitsAssumption
<1>5. ClaimFits(k)
  BY <1>1, <1>2, <1>3, <1>4 DEF ClaimFits, ClaimReads
<1>. QED  BY <1>1, <1>3, <1>5, ClaimStep

LEMMA GiveUpCounted ==
    ASSUME Counted, NEW c \in Claims, GiveUp(c)
    PROVE  Counted' /\ NobodyStarts
<1>1. ClaimFits(Idle)
  BY IdleOK DEF ClaimFits
<1>. QED  BY <1>1, IdleOK, ClaimStep DEF GiveUp

(***************************************************************************)
(* A claim commits and shows.                                              *)
(***************************************************************************)
\* A claim that commits does so with a count that is still true.
LEMMA CommitWithin ==
    ASSUME Counted, NEW c \in Claims, Commit(c)
    PROVE  Cardinality(Workers) < MaxActive
<1>1. claim[c].pc = "commit" /\ Current(claim[c])
  BY DEF Commit, Current, FenceUnmoved
<1>. QED  BY <1>1 DEF Counted, ClaimFits

LEMMA CommitCounted ==
    ASSUME Counted, NEW c \in Claims, Commit(c)
    PROVE  Counted'
<1>. DEFINE k == claim[c]
<1>1. /\ k.pc = "commit" /\ flight.left = {} /\ rows[k.job].version = k.version
      /\ flight' = [job |-> k.job, version |-> k.version + 1, left |-> {"row", "fence"}]
      /\ claim' = [claim EXCEPT ![c] = Idle]
      /\ UNCHANGED <<rows, fence, tick>>
  BY DEF Commit, ClaimedVersion
<1>2. k \in Claim /\ k.job \in Jobs /\ k.version < MaxVersion /\ k.version \in Int
  BY <1>1, LimitsAssumption DEF Counted, TypeOK, ClaimFits, ClaimReads, Claim, Versions
<1>3. claim' \in [Claims -> Claim] /\ claim'[c] = Idle
      /\ \A d \in Claims : d # c => claim'[d] = claim[d]
  BY <1>1, IdleOK DEF Counted, TypeOK
<1>4. ledger' \in Ledger
  <2>1. CASE Creates(k)
    <3>1. ledger' = [ledger EXCEPT !.version = IF @ = -1 THEN 0 ELSE @]
      BY <2>1 DEF Commit, CreationFence
    <3>. QED  BY <3>1 DEF Counted, TypeOK, Ledger
  <2>2. CASE ~Creates(k)
    BY <2>2 DEF Commit, Counted, TypeOK
  <2>. QED  BY <2>1, <2>2
<1>. HIDE DEF k
<1>5. flight' \in Flight /\ flight'.job = k.job /\ flight'.version = k.version + 1
      /\ flight'.left = {"row", "fence"}
  BY <1>1, <1>2, LimitsAssumption DEF Flight
<1>6. TypeOK' /\ ChargesReserved'
  BY <1>1, <1>3, <1>4, <1>5 DEF Counted, TypeOK, ChargesReserved
<1>7. FlightFits'
  BY <1>1, <1>2, <1>5, LimitsAssumption DEF FlightFits
<1>8. ClaimFits(claim[c])'
  BY <1>3, IdleOK DEF ClaimFits
<1>9. ASSUME NEW d \in Claims, d # c
      PROVE  ClaimFits(claim[d])'
  <2>1. claim'[d] = claim[d] /\ ClaimFits(claim[d]) /\ "fence" \in flight'.left
    BY <1>3, <1>5, <1>9 DEF Counted
  <2>. QED  BY <1>1, <2>1 DEF ClaimFits, ClaimReads, Current
<1>. QED  BY <1>6, <1>7, <1>8, <1>9 DEF Counted

LEMMA ShownOK ==
    ASSUME TypeOK, NEW what \in flight.left
    PROVE  /\ Shown(what) \in Flight
           /\ Shown(what).left = flight.left \ {what}
           /\ Shown(what).left # {} => /\ Shown(what).job = flight.job
                                       /\ Shown(what).version = flight.version
<1>1. flight \in Flight
  BY DEF TypeOK
<1>2. CASE flight.left = {what}
  BY <1>2, LimitsAssumption DEF Shown, NoFlight, Flight
<1>3. CASE flight.left # {what}
  <2>1. Shown(what) = [flight EXCEPT !.left = flight.left \ {what}]
    BY <1>1, <1>3 DEF Shown, Flight
  <2>. QED  BY <1>1, <2>1 DEF Flight
<1>. QED  BY <1>2, <1>3

LEMMA ShowRowCounted ==
    ASSUME Counted, ShowRow
    PROVE  Counted' /\ NobodyStarts
<1>. DEFINE j == flight.job
            new == Written(rows[flight.job])
<1>1. /\ "row" \in flight.left /\ rows' = [rows EXCEPT ![j] = new]
      /\ flight' = Shown("row") /\ UNCHANGED <<fence, ledger, claim, tick>>
  BY DEF ShowRow
<1>2. j \in Jobs /\ rows[j] \in Row /\ rows[j].version + 1 = flight.version
      /\ flight.version <= MaxVersion /\ rows[j].version \in Int
  BY <1>1, LimitsAssumption DEF Counted, FlightFits, TypeOK, Row, Versions
<1>3. /\ new \in Row /\ new.version = flight.version
      /\ new.charged = rows[j].charged /\ new.reserved = rows[j].reserved
  BY <1>2, WrittenOK, LimitsAssumption
<1>4. /\ flight' \in Flight /\ flight'.left = flight.left \ {"row"}
      /\ flight'.left # {} => flight'.job = j
  BY <1>1, ShownOK DEF Counted
<1>5. InFlight(j)
  BY <1>1 DEF InFlight
<1>6. \A i \in Jobs : i # j => rows'[i] = rows[i]
  BY <1>1 DEF Counted, TypeOK
<1>7. rows' \in [Jobs -> Row] /\ rows'[j] = new
  BY <1>1, <1>2, <1>3 DEF Counted, TypeOK
<1>8. j = flight.job
  OBVIOUS
<1>. HIDE DEF j, new
<1>9. TypeOK' /\ ChargesReserved'
  BY <1>1, <1>2, <1>3, <1>4, <1>6, <1>7 DEF Counted, TypeOK, ChargesReserved
<1>10. FlightFits'
  BY <1>2, <1>4 DEF FlightFits
<1>11. NobodyStarts
  BY <1>4, <1>5, <1>6 DEF NobodyStarts, Works, InFlight
<1>12. "fence" \in flight.left => "fence" \in flight'.left
  BY <1>4
<1>13. \A c \in Claims : ClaimFits(claim[c])'
  BY <1>1, <1>11, <1>12, OthersFit
<1>. QED  BY <1>11, <1>9, <1>10, <1>13 DEF Counted

LEMMA ShowFenceCounted ==
    ASSUME Counted, ShowFence
    PROVE  Counted' /\ NobodyStarts
<1>1. /\ "fence" \in flight.left /\ flight' = Shown("fence")
      /\ fence' = [version |-> fence.version + 1, job |-> flight.job, since |-> flight.version]
      /\ UNCHANGED <<rows, ledger, claim, tick>>
  BY DEF ShowFence
<1>2. /\ flight' \in Flight /\ flight'.left = flight.left \ {"fence"}
      /\ flight'.left # {} => flight'.job = flight.job /\ flight'.version = flight.version
  BY <1>1, ShownOK DEF Counted
<1>3. flight.job \in Jobs /\ flight.version \in Int /\ fence.version \in Int
  BY <1>1 DEF Counted, FlightFits, TypeOK, Flight, Fence
<1>4. fence' \in Fence /\ fence'.version = fence.version + 1
      /\ fence'.job = flight.job /\ fence'.since = flight.version
  BY <1>1, <1>3, LimitsAssumption DEF Fence
<1>5. TypeOK' /\ ChargesReserved'
  BY <1>1, <1>2, <1>4 DEF Counted, TypeOK, ChargesReserved
<1>6. FlightFits'
  BY <1>1, <1>2, <1>3, <1>4 DEF Counted, FlightFits
<1>7. NobodyStarts
  BY <1>1, <1>2 DEF NobodyStarts, Works, InFlight, Held
<1>8. \A c \in Claims : ClaimFits(claim[c])'
  BY <1>1, <1>4, <1>7, OthersFit
<1>. QED  BY <1>7, <1>5, <1>6, <1>8 DEF Counted

(***************************************************************************)
(* The withdrawals' own steps start nobody.                                *)
(***************************************************************************)
\* Row j, which no claim is writing, becomes new, and starts nothing.
LEMMA RowStep ==
    ASSUME Counted, NEW j \in Jobs, NEW new \in Row, ~InFlight(j),
           Held(new) => Held(rows[j]), new.charged <= new.reserved,
           rows' = [rows EXCEPT ![j] = new], ledger' \in Ledger,
           tick' \in [Jobs -> Tick], UNCHANGED <<fence, flight, claim>>
    PROVE  Counted' /\ NobodyStarts
<1>1. rows' \in [Jobs -> Row] /\ rows'[j] = new
      /\ \A i \in Jobs : i # j => rows'[i] = rows[i]
  BY DEF Counted, TypeOK
<1>2. TypeOK' /\ ChargesReserved'
  BY <1>1 DEF Counted, TypeOK, ChargesReserved
<1>3. FlightFits'
  BY <1>1 DEF Counted, FlightFits, InFlight
<1>4. NobodyStarts
  BY <1>1 DEF NobodyStarts, Works, InFlight, Held
<1>5. \A c \in Claims : ClaimFits(claim[c])'
  BY <1>4, OthersFit
<1>. QED  BY <1>4, <1>2, <1>3, <1>5 DEF Counted

LEMMA SaveJobCounted ==
    ASSUME Counted, NEW j \in Jobs, NEW status \in {"active", "paused", "final"},
           SaveJob(j, status)
    PROVE  Counted' /\ NobodyStarts
<1>. DEFINE new == Saved(rows[j], status)
<1>1. rows[j] \in Row /\ rows[j].charged <= rows[j].reserved
      /\ ledger \in Ledger /\ tick \in [Jobs -> Tick]
  BY DEF Counted, TypeOK, ChargesReserved
<1>2. /\ rows' = [rows EXCEPT ![j] = new] /\ rows[j].version < MaxVersion /\ ~InFlight(j)
      /\ rows[j].status = "active" \/ status = "paused"
      /\ UNCHANGED <<fence, ledger, flight, claim, tick>>
  BY DEF SaveJob
<1>3. new \in Row /\ new.status = status /\ new.charged <= new.reserved
  BY <1>1, <1>2, SavedOK
<1>. HIDE DEF new
<1>4. Held(new) => Held(rows[j])
  BY <1>2, <1>3 DEF Held
<1>. QED  BY <1>1, <1>2, <1>3, <1>4, RowStep

LEMMA ReserveCounted ==
    ASSUME Counted, NEW j \in Jobs, Reserve(j)
    PROVE  Counted' /\ NobodyStarts
<1>. DEFINE budget == [version |-> tick[j].ledger.version + 1,
                       total |-> Total(j, tick[j].ledger)]
            k == [on |-> TRUE, version |-> rows[j].version + 1, ledger |-> budget]
            new == Charge(j)
<1>1. /\ ~InFlight(j) /\ rows[j].version < MaxVersion /\ budget.total <= MaxSeconds
      /\ rows' = [rows EXCEPT ![j] = new] /\ ledger' = budget
      /\ tick' = [tick EXCEPT ![j] = k] /\ UNCHANGED <<fence, flight, claim>>
  BY DEF Reserve, Within
<1>2. /\ rows[j] \in Row /\ tick[j].ledger \in Ledger /\ rows[j].charged <= rows[j].reserved
      /\ tick \in [Jobs -> Tick]
  BY DEF Counted, TypeOK, ChargesReserved, Tick
<1>3. /\ new \in Row /\ new.status = rows[j].status /\ new.charged <= new.reserved
  BY <1>1, <1>2, ChargeOK DEF Counted, Row
<1>4. budget \in Ledger
  <2>1. rows[j].reserved \in Nat /\ rows[j].charged \in Nat
        /\ tick[j].ledger.total \in Nat /\ tick[j].ledger.version \in Int
    BY <1>2, LimitsAssumption DEF Row, Ledger
  <2>2. Total(j, tick[j].ledger) \in Nat
    <3>1. Total(j, tick[j].ledger)
            = tick[j].ledger.total + (rows[j].reserved + Timeout) - rows[j].charged
      BY DEF Total, Reservation
    <3>2. Timeout \in Nat
      BY LimitsAssumption
    <3>3. \A total, reserved, charged, timeout \in Nat :
             charged <= reserved => total + (reserved + timeout) - charged \in Nat
      OBVIOUS
    <3>. QED  BY <1>2, <2>1, <3>1, <3>2, <3>3
  <2>. QED  BY <1>1, <2>1, <2>2, LimitsAssumption DEF Ledger
<1>5. k \in Tick
  BY <1>1, <1>2, <1>4, LimitsAssumption DEF Tick, Row, Versions
<1>. HIDE DEF budget, k, new
<1>6. tick' \in [Jobs -> Tick] /\ ledger' \in Ledger
  BY <1>1, <1>2, <1>4, <1>5
<1>7. Held(new) => Held(rows[j])
  BY <1>3 DEF Held
<1>. QED  BY <1>1, <1>3, <1>6, <1>7, RowStep

\* Reading the rows changes none of them.
LEMMA TickStep ==
    ASSUME Counted, tick' \in [Jobs -> Tick],
           UNCHANGED <<rows, fence, ledger, flight, claim>>
    PROVE  Counted' /\ NobodyStarts
<1>1. TypeOK' /\ ChargesReserved' /\ FlightFits'
  BY DEF Counted, TypeOK, ChargesReserved, FlightFits
<1>2. NobodyStarts
  BY DEF NobodyStarts, Works, InFlight, Held
<1>3. \A c \in Claims : ClaimFits(claim[c])'
  BY <1>2, OthersFit
<1>. QED  BY <1>2, <1>1, <1>3 DEF Counted

LEMMA ReadingCounted ==
    ASSUME Counted, NEW j \in Jobs, OpenBudget(j) \/ Retry(j) \/ CloseBudget(j)
    PROVE  Counted' /\ NobodyStarts
<1>. DEFINE read == [on |-> TRUE, version |-> rows[j].version, ledger |-> ledger]
<1>1. read \in Tick /\ NoTick \in Tick
  <2>1. rows[j].version \in Versions /\ ledger \in Ledger
    BY DEF Counted, TypeOK, Row
  <2>2. NoLedger \in Ledger /\ -1 \in Versions
    BY LimitsAssumption DEF NoLedger, Ledger, Versions
  <2>. QED  BY <2>1, <2>2 DEF Tick, NoTick
<1>2. /\ tick' = [tick EXCEPT ![j] = read] \/ tick' = [tick EXCEPT ![j] = NoTick]
      /\ UNCHANGED <<rows, fence, ledger, flight, claim>>
  BY DEF OpenBudget, Retry, CloseBudget
<1>. HIDE DEF read
<1>3. tick' \in [Jobs -> Tick]
  BY <1>1, <1>2 DEF Counted, TypeOK
<1>. QED  BY <1>2, <1>3, TickStep

(***************************************************************************)
(* The theorems.                                                           *)
(***************************************************************************)
\* Only a commit makes a withdrawal work.
LEMMA StepCounted ==
    Counted /\ [Next]_vars => Counted' /\ (NobodyStarts \/ \E c \in Claims : Commit(c))
<1>. SUFFICES ASSUME Counted, [Next]_vars
              PROVE  Counted' /\ (NobodyStarts \/ \E c \in Claims : Commit(c))
  OBVIOUS
<1>1. CASE \E c \in Claims : \E j \in Jobs : Begin(c, j)
  BY <1>1, BeginCounted
<1>2. CASE \E c \in Claims : CountJob(c) \/ TakeSlot(c) \/ GiveUp(c)
  BY <1>2, CountJobCounted, TakeSlotCounted, GiveUpCounted
<1>3. CASE \E c \in Claims : Commit(c)
  BY <1>3, CommitCounted
<1>4. CASE ShowRow \/ ShowFence
  BY <1>4, ShowRowCounted, ShowFenceCounted
<1>5. CASE \E j \in Jobs : \E status \in {"active", "paused", "final"} : SaveJob(j, status)
  BY <1>5, SaveJobCounted
<1>6. CASE \E j \in Jobs : OpenBudget(j) \/ Reserve(j) \/ Retry(j) \/ CloseBudget(j)
  BY <1>6, ReadingCounted, ReserveCounted
<1>7. CASE UNCHANGED vars
  <2>1. tick' \in [Jobs -> Tick] /\ UNCHANGED <<rows, fence, ledger, flight, claim>>
    BY <1>7 DEF Counted, TypeOK, vars
  <2>. QED  BY <2>1, TickStep
<1>. QED  BY <1>1, <1>2, <1>3, <1>4, <1>5, <1>6, <1>7 DEF Next

LEMMA AlwaysCounted == Spec => []Counted
BY InitCounted, StepCounted, PTL DEF Spec

\* The rows, the claims and the ticks of server/owner-limits.ts keep their types; the
\* ledger is never beyond the owner's GPU time.
THEOREM TypeCorrect == Spec => []TypeOK
<1>1. Counted => TypeOK
  BY DEF Counted
<1>. QED  BY <1>1, AlwaysCounted, PTL

\* What has committed works exactly as Works says.
LEMMA WorkingIsWorkers == TypeOK => Working = Workers
<1>. SUFFICES ASSUME TypeOK PROVE Working = Workers
  OBVIOUS
<1>1. ASSUME NEW j \in Jobs PROVE Held(Committed[j]) <=> Works(j)
  <2>1. CASE InFlight(j)
    <3>1. rows[j] \in Row
      BY DEF TypeOK
    <3>2. Held(Written(rows[j]))
      BY <3>1 DEF Written, Row, Held
    <3>. QED  BY <2>1, <3>2 DEF Committed, Works
  <2>2. CASE ~InFlight(j)
    BY <2>2 DEF Committed, Works
  <2>. QED  BY <2>1, <2>2
<1>. QED  BY <1>1 DEF Working, Workers

\* A creation, a resume or a reconciliation never takes a slot beyond the limit, for any
\* number of withdrawals and of claims that race: claimWithdrawalSlot's correction of what
\* the Query lists, and its fence, are enough.
THEOREM NeverOverLimit == Spec => SlotLimit
<1>1. Counted /\ Counted' /\ [Next]_vars
      => [\A j \in Working' \ Working : Cardinality(Working) < MaxActive]_vars
  <2>. SUFFICES ASSUME Counted, TypeOK', Next, NEW j \in Working' \ Working
                PROVE  Cardinality(Working) < MaxActive
    BY DEF Counted
  <2>1. Working = Workers /\ j \in Jobs /\ ~Works(j) /\ Works(j)'
    <3>1. Working = Workers
      BY WorkingIsWorkers DEF Counted
    <3>2. Held(Committed[j])' => Works(j)'
      BY DEF Committed, Works, Working
    <3>. QED  BY <3>1, <3>2 DEF Working, Workers
  <2>2. PICK c \in Claims : Commit(c)
    BY <2>1, StepCounted DEF NobodyStarts
  <2>3. Cardinality(Workers) < MaxActive
    BY <2>2, CommitWithin
  <2>. QED  BY <2>1, <2>3
<1>. QED  BY <1>1, AlwaysCounted, PTL DEF Spec, SlotLimit

(***************************************************************************)
(* The ledger is the sum of the charges, and the refinement of OwnerQuota. *)
(***************************************************************************)
\* What a tick has read of the ledger is what is stored, unless the ledger has moved on;
\* a job at the version that it read is active.
TickReads(t, j) ==
    t.on => /\ t.ledger.version <= ledger.version
            /\ t.ledger.version = ledger.version => t.ledger = ledger
            /\ t.version <= rows[j].version
            /\ t.version = rows[j].version => Held(rows[j])

\* The job that a claim took is at rest at the version it read, there or not as it was;
\* a creation that read the ledger as it is found room in it.
ClaimTakes(k) ==
    /\ k.pc # "idle" =>
          /\ k.version <= rows[k.job].version
          /\ k.version = rows[k.job].version => rows[k.job].status \in {"none", "paused"}
    /\ k.pc = "commit" /\ Creates(k) =>
          /\ k.ledger <= ledger.version
          /\ k.ledger = ledger.version => ledger.total + Timeout <= MaxSeconds

\* A job that is not there has no version.
RowsThere == \A j \in Jobs : rows[j].status = "none" <=> rows[j].version = -1

Balanced ==
    /\ ledger.total = Spent(Charges)
    /\ RowsThere
    /\ \A j \in Jobs : TickReads(tick[j], j)
    /\ \A c \in Claims : ClaimTakes(claim[c])

LEMMA ChargesNat == TypeOK => Charges \in [Jobs -> Nat]
BY DEF TypeOK, Row, Charges

LEMMA InitBalanced == Init => Balanced
<1>. SUFFICES ASSUME Init PROVE Balanced
  OBVIOUS
<1>1. Charges = [j \in Jobs |-> 0]
  BY DEF Init, NoRow, Earlier, Charges
<1>2. ledger.total = Spent(Charges)
  BY <1>1, SpentNothing DEF Init, NoLedger
<1>3. RowsThere
  BY DEF Init, NoRow, Earlier, RowsThere
<1>4. \A j \in Jobs : TickReads(tick[j], j)
  BY DEF Init, NoTick, TickReads
<1>5. \A c \in Claims : ClaimTakes(claim[c])
  BY DEF Init, Idle, ClaimTakes
<1>. QED  BY <1>2, <1>3, <1>4, <1>5 DEF Balanced

\* Row j goes on by a version, and what it was charged is not touched.
RowMoves(j) ==
    /\ rows'[j].version = rows[j].version + 1
    /\ rows'[j].status # "none"
    /\ rows'[j].charged = rows[j].charged
    /\ \A i \in Jobs \ {j} : rows'[i] = rows[i]

LEMMA SameCharges ==
    ASSUME \A j \in Jobs : rows'[j].charged = rows[j].charged
    PROVE  Charges' = Charges
BY DEF Charges

LEMMA VersionsInt ==
    ASSUME TypeOK
    PROVE  /\ ledger.version \in Int
           /\ \A j \in Jobs : /\ rows[j].version \in Int /\ rows[j].version >= -1
                             /\ tick[j].version \in Int /\ tick[j].ledger.version \in Int
           /\ \A c \in Claims : /\ claim[c].version \in Int /\ claim[c].version >= -1
                               /\ claim[c].ledger \in Int
<1>1. \A v \in Versions : v \in Int /\ v >= -1
  BY LimitsAssumption DEF Versions
<1>2. ledger.version \in Int
  BY DEF TypeOK, Ledger
<1>3. \A j \in Jobs : rows[j].version \in Versions
  BY DEF TypeOK, Row
<1>4. \A j \in Jobs : tick[j].version \in Versions /\ tick[j].ledger.version \in Int
  BY DEF TypeOK, Tick, Ledger
<1>5. \A c \in Claims : claim[c].version \in Versions /\ claim[c].ledger \in Int
  BY DEF TypeOK, Claim
<1>. QED  BY <1>1, <1>2, <1>3, <1>4, <1>5

LEMMA MovedBalanced ==
    ASSUME Balanced, TypeOK, \A c \in Claims : ClaimFits(claim[c]),
           NEW j \in Jobs, RowMoves(j), UNCHANGED <<ledger, claim, tick>>
    PROVE  Balanced'
<1>1. Charges' = Charges
  BY SameCharges DEF RowMoves
<1>2. RowsThere'
  BY VersionsInt DEF Balanced, RowsThere, RowMoves
<1>3. ASSUME NEW i \in Jobs PROVE TickReads(tick[i], i)'
  <2>1. rows'[i] = rows[i] \/ (i = j /\ rows'[i].version = rows[i].version + 1)
    BY DEF RowMoves
  <2>. QED  BY <2>1, VersionsInt DEF Balanced, TickReads, Held
<1>4. ASSUME NEW c \in Claims PROVE ClaimTakes(claim[c])'
  <2>. DEFINE i == claim[c].job
  <2>1. claim[c].pc # "idle" => i \in Jobs
    BY DEF ClaimFits, ClaimReads
  <2>2. i \in Jobs => rows'[i] = rows[i] \/ (i = j /\ rows'[i].version = rows[i].version + 1)
    BY DEF RowMoves
  <2>. QED  BY <2>1, <2>2, VersionsInt DEF Balanced, ClaimTakes, Creates
<1>. QED  BY <1>1, <1>2, <1>3, <1>4 DEF Balanced

LEMMA BeginBalanced ==
    ASSUME Balanced, Counted, NEW c \in Claims,
           \/ \E j \in Jobs : Begin(c, j)
           \/ CountJob(c) \/ TakeSlot(c) \/ GiveUp(c)
    PROVE  Balanced'
<1>1. UNCHANGED <<rows, ledger, tick>>
  BY DEF Begin, CountJob, TakeSlot, GiveUp
<1>2. PICK k : claim' = [claim EXCEPT ![c] = k] /\ ClaimTakes(k)
  <2>1. ASSUME NEW j \in Jobs, Begin(c, j)
        PROVE  claim' = [claim EXCEPT ![c] = Asking(j)] /\ ClaimTakes(Asking(j))
    <3>1. /\ Asking(j).pc = "count" /\ Asking(j).job = j
          /\ Asking(j).version = rows[j].version /\ rows[j].version \in Int
      BY AskingOK, VersionsInt DEF Counted
    <3>2. /\ claim' = [claim EXCEPT ![c] = Asking(j)]
          /\ rows[j].status \in {"none", "paused"}
      BY <2>1 DEF Begin
    <3>. QED  BY <3>1, <3>2 DEF ClaimTakes
  <2>2. ASSUME CountJob(c)
        PROVE  claim' = [claim EXCEPT ![c] = Listed(claim[c])] /\ ClaimTakes(Listed(claim[c]))
    BY <2>2, ListedOK DEF CountJob, ClaimTakes, Balanced, Counted, TypeOK
  <2>3. ASSUME TakeSlot(c)
        PROVE  claim' = [claim EXCEPT ![c] = Granted(claim[c])] /\ ClaimTakes(Granted(claim[c]))
    <3>. DEFINE k == claim[c]
    <3>1. /\ k.pc = "count"
          /\ Creates(k) => ledger.total + Timeout <= MaxSeconds
          /\ claim' = [claim EXCEPT ![c] = Granted(k)]
      BY <2>3 DEF TakeSlot
    <3>2. k \in Claim /\ ClaimTakes(k) /\ ledger.version \in Int
      BY VersionsInt DEF Counted, TypeOK, Balanced
    <3>3. /\ Granted(k).pc = "commit" /\ Granted(k).job = k.job
          /\ Granted(k).version = k.version
          /\ Granted(k).ledger = IF Creates(k) THEN ledger.version ELSE -1
      BY <3>2, GrantedOK DEF Counted, Granted, Idle
    <3>. HIDE DEF k
    <3>4. ClaimTakes(Granted(k))
      BY <3>1, <3>2, <3>3 DEF ClaimTakes, Creates
    <3>. QED  BY <3>1, <3>4 DEF k
  <2>4. ASSUME GiveUp(c)
        PROVE  claim' = [claim EXCEPT ![c] = Idle] /\ ClaimTakes(Idle)
    BY <2>4, IdleOK DEF GiveUp, ClaimTakes
  <2>. QED  BY <2>1, <2>2, <2>3, <2>4
<1>3. \A d \in Claims : claim'[d] = IF d = c THEN k ELSE claim[d]
  BY <1>2 DEF Counted, TypeOK
<1>4. ASSUME NEW d \in Claims PROVE ClaimTakes(claim[d])'
  BY <1>1, <1>2, <1>3 DEF Balanced, ClaimTakes, Creates
<1>5. Charges' = Charges /\ RowsThere'
  BY <1>1 DEF Charges, Balanced, RowsThere
<1>6. \A j \in Jobs : TickReads(tick[j], j)'
  BY <1>1 DEF Balanced, TickReads, Held
<1>. QED  BY <1>1, <1>4, <1>5, <1>6 DEF Balanced

\* The ledger's first version moves no second.
LEMMA CommitBalanced ==
    ASSUME Balanced, Counted, NEW c \in Claims, Commit(c)
    PROVE  Balanced'
<1>1. /\ claim' = [claim EXCEPT ![c] = Idle] /\ UNCHANGED <<rows, tick>>
      /\ \/ ledger' = ledger
         \/ ledger' = [ledger EXCEPT !.version = IF @ = -1 THEN 0 ELSE @]
  BY DEF Commit, CreationFence
<1>2. \/ ledger' = ledger
      \/ ledger.version = -1 /\ ledger'.version = 0 /\ ledger'.total = ledger.total
  <2>1. ledger \in Ledger
    BY DEF Counted, TypeOK
  <2>. QED  BY <1>1, <2>1 DEF Ledger
<1>3. \A d \in Claims : claim'[d] = IF d = c THEN Idle ELSE claim[d]
  BY <1>1 DEF Counted, TypeOK
<1>4. ASSUME NEW d \in Claims PROVE ClaimTakes(claim[d])'
  <2>1. CASE d = c
    BY <1>3, <2>1, IdleOK DEF ClaimTakes
  <2>2. CASE d # c
    BY <1>1, <1>2, <1>3, <2>2, VersionsInt DEF Balanced, Counted, ClaimTakes, Creates
  <2>. QED  BY <2>1, <2>2
<1>5. Charges' = Charges /\ RowsThere'
  BY <1>1 DEF Charges, Balanced, RowsThere
<1>6. ASSUME NEW j \in Jobs PROVE TickReads(tick[j], j)'
  BY <1>1, <1>2, VersionsInt DEF Balanced, Counted, TickReads, Held
<1>. QED  BY <1>1, <1>2, <1>4, <1>5, <1>6 DEF Balanced

LEMMA ShowBalanced ==
    ASSUME Balanced, Counted, ShowRow \/ ShowFence
    PROVE  Balanced'
<1>1. CASE ShowFence
  <2>1. UNCHANGED <<rows, ledger, claim, tick>>
    BY <1>1 DEF ShowFence
  <2>. QED  BY <2>1 DEF Balanced, Charges, RowsThere, TickReads, ClaimTakes, Creates, Held
<1>2. CASE ShowRow
  <2>. DEFINE j == flight.job
  <2>1. "row" \in flight.left /\ rows' = [rows EXCEPT ![j] = Written(rows[j])]
        /\ UNCHANGED <<ledger, claim, tick>>
    BY <1>2 DEF ShowRow
  <2>2. j \in Jobs /\ rows[j] \in Row /\ rows[j].version < MaxVersion
    BY <2>1, VersionsInt, LimitsAssumption DEF Counted, FlightFits, TypeOK
  <2>3. /\ Written(rows[j]).version = rows[j].version + 1
        /\ Held(Written(rows[j])) /\ Written(rows[j]).charged = rows[j].charged
    BY <2>2, WrittenOK
  <2>4. RowMoves(j)
    BY <2>1, <2>2, <2>3 DEF RowMoves, Held, Counted, TypeOK
  <2>. QED  BY <2>1, <2>2, <2>4, MovedBalanced DEF Counted
<1>. QED  BY <1>1, <1>2

LEMMA SaveJobBalanced ==
    ASSUME Balanced, Counted, NEW j \in Jobs, NEW status \in {"active", "paused", "final"},
           SaveJob(j, status)
    PROVE  Balanced'
<1>1. rows' = [rows EXCEPT ![j] = Saved(rows[j], status)] /\ rows[j].version < MaxVersion
      /\ UNCHANGED <<ledger, claim, tick>>
  BY DEF SaveJob
<1>2. rows[j] \in Row
  BY DEF Counted, TypeOK
<1>3. RowMoves(j)
  BY <1>1, <1>2, SavedOK DEF RowMoves, Counted, TypeOK
<1>. QED  BY <1>1, <1>3, MovedBalanced DEF Counted

\* What a charge adds to the ledger it adds to the job: the two were read as they are.
Added(j) == Reservation(j) - rows[j].charged

LEMMA ReserveFacts ==
    ASSUME Balanced, Counted, NEW j \in Jobs, Reserve(j)
    PROVE  /\ Held(rows[j]) /\ ~InFlight(j) /\ Added(j) \in Nat /\ Timeout <= Added(j)
           /\ ledger' = [version |-> ledger.version + 1, total |-> ledger.total + Added(j)]
           /\ ledger.total + Added(j) <= MaxSeconds
           /\ tick' = [tick EXCEPT ![j] = [on |-> TRUE, version |-> rows[j].version + 1,
                                          ledger |-> ledger']]
           /\ rows'[j].version = rows[j].version + 1 /\ rows'[j].status = rows[j].status
           /\ rows'[j].charged = rows[j].charged + Added(j)
           /\ \A i \in Jobs \ {j} : rows'[i] = rows[i]
           /\ UNCHANGED <<fence, flight, claim>>
<1>. DEFINE old == tick[j].ledger
<1>1. /\ Unmoved(j) /\ ~InFlight(j) /\ rows[j].version < MaxVersion
      /\ Within(Total(j, old)) /\ ledger.version = old.version
      /\ rows' = [rows EXCEPT ![j] = Charge(j)]
      /\ ledger' = [version |-> old.version + 1, total |-> Total(j, old)]
      /\ tick' = [tick EXCEPT ![j] = [on |-> TRUE, version |-> rows[j].version + 1,
                                     ledger |-> ledger']]
      /\ UNCHANGED <<fence, flight, claim>>
  BY DEF Reserve
<1>2. old = ledger /\ Held(rows[j])
  BY <1>1 DEF Balanced, TickReads, Unmoved
<1>3. /\ rows[j].reserved \in Nat /\ rows[j].charged \in Nat /\ Timeout \in Nat
      /\ rows[j].charged <= rows[j].reserved /\ ledger.total \in Nat
  BY LimitsAssumption DEF Counted, TypeOK, Row, Ledger, ChargesReserved
<1>4. /\ Added(j) = rows[j].reserved + Timeout - rows[j].charged
      /\ Total(j, ledger) = ledger.total + (rows[j].reserved + Timeout) - rows[j].charged
      /\ Reservation(j) = rows[j].reserved + Timeout
  BY <1>3 DEF Added, Total, Reservation
<1>5. /\ Added(j) \in Nat /\ Timeout <= Added(j)
      /\ Total(j, ledger) = ledger.total + Added(j)
      /\ Reservation(j) = rows[j].charged + Added(j)
  BY <1>3, <1>4
<1>6. /\ Charge(j).version = rows[j].version + 1 /\ Charge(j).status = rows[j].status
      /\ Charge(j).charged = Reservation(j)
  <2>1. rows[j] \in Row
    BY DEF Counted, TypeOK
  <2>. QED  BY <2>1 DEF Charge, Row
<1>7. rows'[j] = Charge(j) /\ \A i \in Jobs \ {j} : rows'[i] = rows[i]
  BY <1>1 DEF Counted, TypeOK
<1>. HIDE DEF old
<1>. QED  BY <1>1, <1>2, <1>5, <1>6, <1>7 DEF Within

LEMMA ReserveBalanced ==
    ASSUME Balanced, Counted, NEW j \in Jobs, Reserve(j)
    PROVE  Balanced'
<1>0. /\ tick' = [tick EXCEPT ![j] = [on |-> TRUE, version |-> rows[j].version + 1,
                                     ledger |-> ledger']]
      /\ ledger'.version = ledger.version + 1 /\ rows'[j].version = rows[j].version + 1
      /\ Held(rows[j]) /\ rows'[j].status = rows[j].status
      /\ \A i \in Jobs \ {j} : rows'[i] = rows[i]
  BY ReserveFacts
<1>1. Counted'
  BY ReserveCounted
<1>2. ledger'.total = Spent(Charges')
  <2>1. Charges \in [Jobs -> Nat] /\ Charges' \in [Jobs -> Nat]
    BY <1>1, ChargesNat DEF Counted, Charges, TypeOK, Row
  <2>2. /\ \A i \in Jobs \ {j} : Charges'[i] = Charges[i]
        /\ Charges'[j] = Charges[j] + Added(j)
    BY ReserveFacts DEF Charges
  <2>3. Spent(Charges') = Spent(Charges) + Charges'[j] - Charges[j]
    BY <2>1, <2>2, SpentGrows
  <2>4. Charges[j] \in Nat /\ Added(j) \in Nat /\ Spent(Charges) \in Nat
        /\ ledger.total = Spent(Charges) /\ ledger'.total = ledger.total + Added(j)
    BY <2>1, ReserveFacts, SpentNat DEF Balanced
  <2>. QED  BY <2>2, <2>3, <2>4
<1>3. RowsThere'
  BY ReserveFacts, VersionsInt DEF Balanced, Counted, RowsThere, Held
<1>4. ASSUME NEW i \in Jobs PROVE TickReads(tick[i], i)'
  <2>1. CASE i = j
    <3>1. tick'[j] = [on |-> TRUE, version |-> rows[j].version + 1, ledger |-> ledger']
      BY <1>0 DEF Counted, TypeOK
    <3>2. ledger.version \in Int /\ rows[j].version \in Int
      BY VersionsInt DEF Counted
    <3>. QED  BY <1>0, <2>1, <3>1, <3>2 DEF TickReads, Held
  <2>2. CASE i # j
    <3>1. tick'[i] = tick[i] /\ rows'[i] = rows[i] /\ ledger'.version = ledger.version + 1
      BY <1>0, <2>2 DEF Counted, TypeOK
    <3>. QED  BY <3>1, VersionsInt DEF Balanced, Counted, TickReads, Held
  <2>. QED  BY <2>1, <2>2
<1>5. ASSUME NEW c \in Claims PROVE ClaimTakes(claim[c])'
  <2>. DEFINE i == claim[c].job
  <2>1. claim[c].pc # "idle" => i \in Jobs
    BY DEF Counted, ClaimFits, ClaimReads
  <2>2. /\ i \in Jobs => rows'[i] = rows[i] \/ (i = j /\ rows'[i].version = rows[i].version + 1)
        /\ ledger'.version = ledger.version + 1 /\ claim' = claim
    BY ReserveFacts
  <2>. QED  BY <2>1, <2>2, VersionsInt DEF Balanced, Counted, ClaimTakes, Creates
<1>. QED  BY <1>2, <1>3, <1>4, <1>5 DEF Balanced

LEMMA ReadingBalanced ==
    ASSUME Balanced, Counted, NEW j \in Jobs, OpenBudget(j) \/ Retry(j) \/ CloseBudget(j)
    PROVE  Balanced'
<1>1. /\ UNCHANGED <<rows, ledger, claim>>
      /\ \/ tick' = [tick EXCEPT ![j] = NoTick]
         \/ /\ Held(rows[j])
            /\ tick' = [tick EXCEPT ![j] = [on |-> TRUE, version |-> rows[j].version,
                                           ledger |-> ledger]]
  BY DEF OpenBudget, Retry, CloseBudget, Held, Unmoved, Balanced, TickReads
<1>2. \A i \in Jobs : i # j => tick'[i] = tick[i]
  BY <1>1 DEF Counted, TypeOK
<1>3. \/ tick'[j] = NoTick
      \/ /\ Held(rows[j])
         /\ tick'[j] = [on |-> TRUE, version |-> rows[j].version, ledger |-> ledger]
  BY <1>1 DEF Counted, TypeOK
<1>4. ASSUME NEW i \in Jobs PROVE TickReads(tick[i], i)'
  BY <1>1, <1>2, <1>3, VersionsInt DEF Balanced, Counted, TickReads, Held, NoTick
<1>5. Charges' = Charges /\ RowsThere' /\ \A c \in Claims : ClaimTakes(claim[c])'
  BY <1>1 DEF Charges, Balanced, RowsThere, ClaimTakes, Creates
<1>. QED  BY <1>1, <1>4, <1>5 DEF Balanced

LEMMA StepBalanced ==
    Balanced /\ Counted /\ [Next]_vars => Balanced'
<1>. SUFFICES ASSUME Balanced, Counted, [Next]_vars PROVE Balanced'
  OBVIOUS
<1>1. CASE UNCHANGED vars
  BY <1>1 DEF vars, Balanced, Charges, RowsThere, TickReads, ClaimTakes, Creates, Held
<1>. QED
  BY <1>1, BeginBalanced, CommitBalanced, ShowBalanced, SaveJobBalanced, ReserveBalanced,
     ReadingBalanced DEF Next

\* The owner's row equals the sum of what the rows of the withdrawals were charged, for any
\* number of them, whichever of their ticks retry, fail or die between a read and a save.
THEOREM LedgerBalances == Spec => []LedgerIsSum
<1>1. Balanced /\ Counted => LedgerIsSum
  BY LedgerSum DEF Balanced, Counted
<1>. QED  BY <1>1, InitBalanced, StepBalanced, AlwaysCounted, PTL DEF Spec

(***************************************************************************)
(* OwnerLimits implements OwnerQuota.                                      *)
(***************************************************************************)
\* The quota's variables are what has committed.
Made == {j \in Jobs : Committed[j].status # "none"}
Billed == [j \in Jobs |-> Committed[j].charged]
QuotaVars == <<Made, Working, Billed>>

LEMMA CommittedIs ==
    ASSUME NEW j \in Jobs
    PROVE  Committed[j] = IF InFlight(j) THEN Written(rows[j]) ELSE rows[j]
BY DEF Committed

LEMMA BilledIsCharges == TypeOK => Billed = Charges
<1>. SUFFICES ASSUME TypeOK PROVE Billed = Charges
  OBVIOUS
<1>1. ASSUME NEW j \in Jobs PROVE Committed[j].charged = rows[j].charged
  <2>1. rows[j] \in Row
    BY DEF TypeOK
  <2>2. Written(rows[j]).charged = rows[j].charged
    BY <2>1 DEF Written, Row
  <2>. QED  BY <2>2, CommittedIs
<1>. QED  BY <1>1 DEF Billed, Charges

LEMMA SameQuota ==
    ASSUME \A j \in Jobs : Committed'[j] = Committed[j]
    PROVE  UNCHANGED QuotaVars
BY DEF QuotaVars, Made, Working, Billed

\* Only a withdrawal's own steps and a claim's commit change what has committed.
LEMMA QuietQuota ==
    ASSUME Counted, rows' = rows, \A j \in Jobs : InFlight(j)' <=> InFlight(j)
    PROVE  UNCHANGED QuotaVars
<1>1. \A j \in Jobs : Committed'[j] = Committed[j]
  BY DEF Committed, Written
<1>. QED  BY <1>1, SameQuota

LEMMA ShowRowQuota ==
    ASSUME Counted, ShowRow
    PROVE  UNCHANGED QuotaVars
<1>1. /\ "row" \in flight.left /\ flight.job \in Jobs
      /\ rows' = [rows EXCEPT ![flight.job] = Written(rows[flight.job])]
      /\ "row" \notin flight'.left
  BY ShownOK DEF ShowRow, Counted, FlightFits
<1>2. \A j \in Jobs : rows'[j] = IF j = flight.job THEN Written(rows[j]) ELSE rows[j]
  BY <1>1 DEF Counted, TypeOK
<1>3. \A j \in Jobs : ~InFlight(j)' /\ (InFlight(j) <=> j = flight.job)
  BY <1>1 DEF InFlight
<1>4. \A j \in Jobs : Committed'[j] = Committed[j]
  BY <1>2, <1>3 DEF Committed
<1>. QED  BY <1>4, SameQuota

LEMMA ShowFenceQuota ==
    ASSUME Counted, ShowFence
    PROVE  UNCHANGED QuotaVars
<1>1. /\ rows' = rows /\ flight'.left = flight.left \ {"fence"}
      /\ flight'.left # {} => flight'.job = flight.job
  BY ShownOK DEF ShowFence, Counted
<1>2. \A j \in Jobs : InFlight(j)' <=> InFlight(j)
  BY <1>1 DEF InFlight
<1>. QED  BY <1>1, <1>2, QuietQuota

\* Job j alone takes on a status, with what it was charged.
LEMMA OneCommitted ==
    ASSUME NEW j \in Jobs, \A i \in Jobs \ {j} : Committed'[i] = Committed[i]
    PROVE  /\ Made' = IF Committed'[j].status # "none" THEN Made \cup {j} ELSE Made \ {j}
           /\ Working' = IF Held(Committed'[j]) THEN Working \cup {j} ELSE Working \ {j}
           /\ \A i \in Jobs \ {j} : Billed'[i] = Billed[i]
           /\ Billed'[j] = Committed'[j].charged
<1>1. /\ Made' \subseteq Jobs /\ Made \subseteq Jobs
      /\ Working' \subseteq Jobs /\ Working \subseteq Jobs
      /\ \A i \in Jobs : i \in Made' <=> Committed'[i].status # "none"
      /\ \A i \in Jobs : i \in Made <=> Committed[i].status # "none"
      /\ \A i \in Jobs : i \in Working' <=> Held(Committed'[i])
      /\ \A i \in Jobs : i \in Working <=> Held(Committed[i])
  BY DEF Made, Working, Held
<1>2. \A i \in Jobs : Billed'[i] = Committed'[i].charged /\ Billed[i] = Committed[i].charged
  BY DEF Billed
<1>3. \A i \in Jobs \ {j} : /\ i \in Made' <=> i \in Made
                            /\ i \in Working' <=> i \in Working
  BY <1>1
<1>4. Made' = IF Committed'[j].status # "none" THEN Made \cup {j} ELSE Made \ {j}
  BY <1>1, <1>3
<1>5. Working' = IF Held(Committed'[j]) THEN Working \cup {j} ELSE Working \ {j}
  BY <1>1, <1>3
<1>. QED  BY <1>2, <1>4, <1>5

LEMMA CommitQuota ==
    ASSUME Balanced, Counted, NEW c \in Claims, Commit(c)
    PROVE  \E j \in Jobs : Quota!Create(j) \/ Quota!Resume(j)
<1>. DEFINE k == claim[c]
            j == k.job
<1>1. /\ k.pc = "commit" /\ flight.left = {} /\ rows[j].version = k.version
      /\ Creates(k) => k.ledger = ledger.version
      /\ flight'.job = j /\ "row" \in flight'.left /\ rows' = rows
  BY DEF Commit, CreationFence, LedgerUnmoved
<1>2. j \in Jobs /\ rows[j] \in Row
  BY <1>1 DEF Counted, ClaimFits, ClaimReads, TypeOK
<1>3. /\ rows[j].status \in {"none", "paused"}
      /\ Creates(k) => ledger.total + Timeout <= MaxSeconds
      /\ Creates(k) <=> rows[j].status = "none"
  BY <1>1, <1>2 DEF Balanced, ClaimTakes, RowsThere, Creates
<1>4. /\ \A i \in Jobs : ~InFlight(i)
      /\ \A i \in Jobs : InFlight(i)' <=> i = j
  BY <1>1 DEF InFlight
<1>. HIDE DEF k, j
<1>5. /\ Committed[j] = rows[j] /\ Committed'[j] = Written(rows[j])
      /\ \A i \in Jobs \ {j} : Committed'[i] = Committed[i]
  BY <1>1, <1>2, <1>4 DEF Committed, Written
<1>6. Written(rows[j]).charged = rows[j].charged /\ Written(rows[j]).status = "active"
  BY <1>2 DEF Written, Row
<1>7. /\ Made' = Made \cup {j} /\ Working' = Working \cup {j}
      /\ \A i \in Jobs : Billed'[i] = Billed[i]
      /\ j \notin Working /\ (j \in Made <=> rows[j].status # "none")
  <2>1. Committed[j].charged = rows[j].charged /\ Billed[j] = Committed[j].charged
    BY <1>2, <1>5 DEF Billed
  <2>2. j \notin Working /\ (j \in Made <=> rows[j].status # "none")
    BY <1>2, <1>3, <1>5 DEF Made, Working, Held
  <2>. QED  BY <1>2, <1>5, <1>6, <2>1, <2>2, OneCommitted DEF Held
<1>8. Billed' = Billed
  BY <1>7 DEF Billed
<1>9. Cardinality(Working) < MaxActive
  BY CommitWithin, WorkingIsWorkers DEF Counted
<1>10. Quota!Take(j)
  <2>1. Quota!Cardinality(Working) = Cardinality(Working)
    BY DEF Quota!Cardinality, Cardinality
  <2>. QED  BY <1>7, <1>8, <1>9, <2>1 DEF Quota!Take, Billed
<1>11. CASE rows[j].status # "none"
  <2>1. j \in Made /\ Made' = Made
    BY <1>7, <1>11
  <2>. QED  BY <1>2, <1>10, <2>1 DEF Quota!Resume, Made
<1>12. CASE rows[j].status = "none"
  <2>1. Quota!Used(Billed) = ledger.total
    BY QuotaSum, ChargesNat, BilledIsCharges DEF Balanced, Counted
  <2>2. Quota!Used(Billed) + Timeout <= MaxSeconds
    BY <1>3, <1>12, <2>1
  <2>. QED  BY <1>2, <1>7, <1>10, <1>12, <2>2 DEF Quota!Create, Made, Billed
<1>. QED  BY <1>11, <1>12

LEMMA SaveJobQuota ==
    ASSUME Counted, NEW j \in Jobs, NEW status \in {"active", "paused", "final"},
           SaveJob(j, status)
    PROVE  Quota!Release(j) \/ UNCHANGED QuotaVars
<1>1. /\ rows' = [rows EXCEPT ![j] = Saved(rows[j], status)]
      /\ rows[j].status = "active" \/ (rows[j].status = "paused" /\ status = "paused")
      /\ ~InFlight(j) /\ flight' = flight /\ rows[j] \in Row
  BY DEF SaveJob, Counted, TypeOK
<1>2. \A i \in Jobs : rows'[i] = IF i = j THEN Saved(rows[j], status) ELSE rows[i]
  BY <1>1 DEF Counted, TypeOK
<1>3. /\ Committed[j] = rows[j] /\ Committed'[j] = Saved(rows[j], status)
      /\ \A i \in Jobs \ {j} : Committed'[i] = Committed[i]
  BY <1>1, <1>2 DEF Committed, InFlight, Written
<1>4. Saved(rows[j], status).charged = rows[j].charged /\ Saved(rows[j], status).status = status
  BY <1>1 DEF Saved, Row
<1>5. /\ j \in Made /\ Billed[j] = rows[j].charged
      /\ j \in Working <=> rows[j].status = "active"
  BY <1>1, <1>3 DEF Made, Working, Billed, Held
<1>6. /\ Made' = Made \cup {j}
      /\ Working' = IF status = "active" THEN Working \cup {j} ELSE Working \ {j}
      /\ \A i \in Jobs : Billed'[i] = Billed[i]
  BY <1>3, <1>4, <1>5, OneCommitted DEF Held
<1>7. Made' = Made /\ Billed' = Billed
  <2>1. Billed' = Billed
    BY <1>6 DEF Billed
  <2>. QED  BY <1>5, <1>6, <2>1
<1>8. CASE rows[j].status = "active" /\ status # "active"
  BY <1>5, <1>6, <1>7, <1>8 DEF Quota!Release, Made, Billed
<1>9. CASE ~(rows[j].status = "active" /\ status # "active")
  <2>1. Working' = Working
    BY <1>1, <1>5, <1>6, <1>9
  <2>. QED  BY <1>7, <2>1 DEF QuotaVars
<1>. QED  BY <1>8, <1>9

LEMMA ReserveQuota ==
    ASSUME Balanced, Counted, Balanced', Counted', NEW j \in Jobs, Reserve(j)
    PROVE  Quota!Charge(j)
<1>0. /\ Held(rows[j]) /\ ~InFlight(j) /\ Added(j) \in Nat /\ Timeout <= Added(j)
      /\ ledger'.total = ledger.total + Added(j)
      /\ ledger.total + Added(j) <= MaxSeconds
      /\ rows'[j].status = rows[j].status
      /\ rows'[j].charged = rows[j].charged + Added(j)
      /\ \A i \in Jobs \ {j} : rows'[i] = rows[i]
      /\ flight' = flight
  BY ReserveFacts
<1>1. /\ Committed[j] = rows[j] /\ Committed'[j] = rows'[j]
      /\ \A i \in Jobs \ {j} : Committed'[i] = Committed[i]
  BY <1>0 DEF Committed, InFlight, Written
<1>2. /\ j \in Working /\ j \in Made /\ Billed[j] = rows[j].charged
  BY <1>0, <1>1 DEF Made, Working, Billed, Held
<1>3. /\ Made' = Made /\ Working' = Working
      /\ \A i \in Jobs \ {j} : Billed'[i] = Billed[i]
      /\ Billed'[j] = Billed[j] + Added(j)
  BY <1>0, <1>1, <1>2, OneCommitted DEF Held
<1>4. Billed' = [Billed EXCEPT ![j] = @ + Added(j)]
  BY <1>3 DEF Billed
<1>5. Added(j) \in Timeout..MaxSeconds
  <2>1. ledger.total \in Nat /\ Timeout \in Nat /\ MaxSeconds \in Nat
    BY LimitsAssumption DEF Counted, TypeOK, Ledger
  <2>. QED  BY <1>0, <2>1
<1>6. Quota!Used(Billed') <= MaxSeconds
  <2>1. Charges' \in [Jobs -> Nat] /\ Billed' = Charges'
    BY ChargesNat, BilledIsCharges DEF Counted, TypeOK, Row, Charges, Billed, Committed, Written,
       InFlight
  <2>2. Quota!Used(Charges') = ledger'.total
    BY <2>1, QuotaSum DEF Balanced
  <2>. QED  BY <1>0, <2>1, <2>2
<1>. QED  BY <1>2, <1>3, <1>4, <1>5, <1>6 DEF Quota!Charge, Made, Billed

LEMMA StepQuota ==
    Balanced /\ Counted /\ Balanced' /\ Counted' /\ [Next]_vars => [Quota!Next]_(Quota!vars)
<1>. SUFFICES ASSUME Balanced, Counted, Balanced', Counted', [Next]_vars
              PROVE  [Quota!Next]_(Quota!vars)
  OBVIOUS
<1>0. UNCHANGED QuotaVars => UNCHANGED Quota!vars
  BY DEF QuotaVars, Made, Billed, Quota!vars
<1>1. CASE UNCHANGED <<rows, flight>>
  <2>1. UNCHANGED QuotaVars
    BY <1>1, QuietQuota DEF InFlight
  <2>. QED  BY <1>0, <2>1
<1>2. ASSUME NEW c \in Claims, Commit(c) PROVE Quota!Next
  BY <1>2, CommitQuota DEF Quota!Next
<1>3. CASE ShowRow \/ ShowFence
  BY <1>0, <1>3, ShowRowQuota, ShowFenceQuota
<1>4. ASSUME NEW j \in Jobs, NEW status \in {"active", "paused", "final"}, SaveJob(j, status)
      PROVE  [Quota!Next]_(Quota!vars)
  BY <1>0, <1>4, SaveJobQuota DEF Quota!Next
<1>5. ASSUME NEW j \in Jobs, Reserve(j) PROVE Quota!Next
  BY <1>5, ReserveQuota DEF Quota!Next
<1>6. \/ UNCHANGED <<rows, flight>>
      \/ \E c \in Claims : Commit(c)
      \/ ShowRow \/ ShowFence
      \/ \E j \in Jobs : \/ \E status \in {"active", "paused", "final"} : SaveJob(j, status)
                         \/ Reserve(j)
  BY DEF Next, vars, Begin, CountJob, TakeSlot, GiveUp, OpenBudget, Retry, CloseBudget
<1>. QED  BY <1>1, <1>2, <1>3, <1>4, <1>5, <1>6

LEMMA InitQuota == Init => Quota!Init
<1>. SUFFICES ASSUME Init PROVE Quota!Init
  OBVIOUS
<1>1. \A j \in Jobs : Committed[j] = rows[j]
  BY DEF Init, Committed, InFlight, NoFlight
<1>2. \A j \in Jobs : rows[j].charged = 0
  BY DEF Init, NoRow, Earlier
<1>3. Working \subseteq Made /\ Made \subseteq Jobs /\ Billed = [j \in Jobs |-> 0]
  BY <1>1, <1>2 DEF Working, Made, Billed, Held
<1>. QED  BY <1>3 DEF Quota!Init, Made, Billed

\* The rows of server/owner-limits.ts keep what OwnerQuota promises, for any number of
\* withdrawals and claims: a slot is taken within the limit, a withdrawal is created while
\* its first GPU job fits the owner's time, and time is charged within it.
THEOREM ImplementsQuota == Spec => KeepsQuota
<1>. QED
  BY InitQuota, StepQuota, InitBalanced, StepBalanced, AlwaysCounted, PTL
     DEF Spec, KeepsQuota, Quota!Spec
=============================================================================
