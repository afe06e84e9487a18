------------------------ MODULE FundingSubmitProofs -------------------------
(***************************************************************************)
(* Proofs about FundingSubmit, for any requests, deposits and bounds.      *)
(*                                                                         *)
(* The properties are not inductive: that a refusal clears no deposit the  *)
(* miner took rests on what each request under way holds of the row.       *)
(* Coherent says it: Row of the vault, CallFits of a submission, OneOwner  *)
(* of all, OtherFits of another request.  A submission Owns the deposit it *)
(* recorded while nobody wrote the row since: then no bytes of it were     *)
(* taken, are on their way, were handed out or are about to be sent again, *)
(* which is why it may clear it.                                           *)
(***************************************************************************)
EXTENDS FundingSubmit, TLAPS

Owns(k) == k.fresh /\ ~k.stale /\ k.pc \in {"post", "refused", "clear"}

Row ==
    /\ vault.status = "unfunded" <=> vault.txid = None
    /\ vault.txid = None => vault = NoDeposit
    /\ vault.raw # None => vault.txid = TxidOf[vault.raw] /\ vault.sub # "none"
    /\ vault.raw = None =>
         vault.sub = "none" /\ (vault.txid # None => Broadcast(vault.txid))

CallFits(k) ==
    /\ k.pc # "idle" => k.raw \in Raws
    /\ k.pc \in {"refused", "clear"} => k.fresh
    /\ k.pc \in {"seen", "touch", "resend"} => ~k.fresh
    /\ k.pc = "intend" /\ ~k.stale => vault = NoDeposit
    /\ k.pc \in {"resend", "save"} /\ ~k.stale => vault.txid = TxidOf[k.raw]
    /\ k.pc = "post" => vault.txid = TxidOf[k.raw] /\ reserved = "this"
    /\ k.pc \in {"record", "save"} /\ k.learnt = "submitted" => TxidOf[k.raw] \in known
    /\ Owns(k) => vault = Recorded(k.raw) /\ known = {} /\ late = {} /\ exported = {}

OneOwner == \A c, d \in Calls : Owns(call[c]) /\ c # d => call[d].pc # "post"

OtherFits(k) ==
    /\ k.pc \in {"bound", "export"} => k.raw \in Raws
    /\ k.pc = "export" /\ ~k.stale => vault.raw = k.raw
    /\ k.pc = "status" /\ ~k.stale => vault.txid = k.txid /\ k.txid # None
    /\ k.pc = "fund" => k.txid \in Txids /\ Broadcast(k.txid) /\ k.status # "unfunded"
    /\ k.pc = "fund" /\ ~k.stale => vault = NoDeposit

Safe ==
    /\ DepositNeverForgotten
    /\ ExportedBytesKept
    /\ SubmittedIsAccepted
    /\ exported # {} => reserved = "this"

Coherent ==
    /\ TypeOK
    /\ Row
    /\ Safe
    /\ \A c \in Calls : CallFits(call[c])
    /\ OneOwner
    /\ \A p \in Others : OtherFits(other[p])

(***************************************************************************)
(* Shapes, and what a write does to the requests that read the row.        *)
(***************************************************************************)
\* Recorded deposits and idle records have their types.
LEMMA Shapes ==
    /\ NoDeposit \in Vault /\ \A raw \in Raws : Recorded(raw) \in Vault
    /\ IdleCall \in Call /\ IdleOther \in Other
    /\ \A txid \in Txids : txid # None
    /\ \A raw \in Raws : raw # None /\ TxidOf[raw] \in Txids
<1>1. 0 \in 0..MaxTries
  BY FundingAssumption
<1>2. \A raw \in Raws : raw # None /\ TxidOf[raw] \in Txids
  BY FundingAssumption
<1>3. \A raw \in Raws : Recorded(raw) \in Vault
  BY <1>2 DEF Recorded, Vault
<1> QED BY <1>1, <1>2, <1>3, FundingAssumption
        DEF NoDeposit, Vault, IdleCall, Call, IdleOther, Other

LEMMA IdleFits == CallFits(IdleCall) /\ CallFits(IdleCall)' /\ ~Owns(IdleCall)
BY DEF CallFits, Owns, IdleCall

LEMMA IdleOtherFits == OtherFits(IdleOther) /\ OtherFits(IdleOther)'
BY DEF OtherFits, IdleOther

\* A submission whose row was written owns nothing, and fits if the deposit it is about
\* to send is still the vault's.
LEMMA StaleCallFits ==
    ASSUME NEW k \in Call, CallFits(k), NEW m, m = StaleCall(k), known \subseteq known',
           k.pc = "post" => vault'.txid = TxidOf[k.raw] /\ reserved' = "this"
    PROVE  m \in Call /\ CallFits(m)' /\ ~Owns(m) /\ m.pc = k.pc
<1>1. CASE k.pc = "idle"
  BY <1>1 DEF StaleCall, CallFits, Owns
<1>2. CASE k.pc # "idle"
  <2>1. m = [k EXCEPT !.stale = TRUE]
    BY <1>2 DEF StaleCall
  <2>2. /\ m \in Call /\ m.stale /\ m.pc = k.pc /\ m.raw = k.raw /\ m.fresh = k.fresh
        /\ m.learnt = k.learnt
    BY <2>1 DEF Call
  <2> HIDE <2>1
  <2> QED BY <2>2 DEF CallFits, Owns
<1> QED BY <1>1, <1>2

LEMMA StaleOtherFits ==
    ASSUME NEW k \in Other, OtherFits(k), NEW m, m = StaleOther(k)
    PROVE  m \in Other /\ OtherFits(m)'
<1>1. CASE k.pc = "idle"
  BY <1>1 DEF StaleOther, OtherFits
<1>2. CASE k.pc # "idle"
  <2>1. m = [k EXCEPT !.stale = TRUE]
    BY <1>2 DEF StaleOther
  <2>2. /\ m \in Other /\ m.stale /\ m.pc = k.pc /\ m.raw = k.raw /\ m.txid = k.txid
        /\ m.status = k.status
    BY <2>1 DEF Other
  <2> HIDE <2>1
  <2> QED BY <2>2 DEF OtherFits, Broadcast
<1> QED BY <1>1, <1>2

(***************************************************************************)
(* Steps of one kind keep Coherent.                                        *)
(***************************************************************************)
\* A step of one submission that does not write the row; the miner may take, or be on
\* its way to take, the vault's deposit.
LEMMA CallStep ==
    ASSUME Coherent, NEW c \in Calls, NEW k \in Call,
           call' = [call EXCEPT ![c] = k], UNCHANGED <<vault, reserved, exported, other>>,
           known \subseteq known', known' \subseteq known \cup {vault.txid},
           late' \subseteq late \cup {vault.txid}, known' \cup late' \subseteq Txids,
           CallFits(k)', Owns(k) => Owns(call[c]), k.pc = "post" => call[c].pc = "post",
           \/ known' = known /\ late' = late
           \/ call[c].pc = "post"
    PROVE  Coherent'
<1>1. TypeOK' /\ \A d \in Calls : call'[d] = IF d = c THEN k ELSE call[d]
  BY DEF Coherent, TypeOK
<1>2. Row' /\ \A p \in Others : OtherFits(other[p])'
  BY DEF Coherent, Row, OtherFits, Broadcast
<1>3. Safe'
  BY DEF Coherent, Safe, DepositNeverForgotten, ExportedBytesKept, SubmittedIsAccepted
<1>4. OneOwner'
  BY <1>1 DEF Coherent, OneOwner
<1>5. ASSUME NEW d \in Calls PROVE CallFits(call[d])'
  <2>1. CASE d = c
    BY <1>1, <2>1
  <2>2. CASE d # c
    <3>1. call'[d] = call[d] /\ CallFits(call[d])
      BY <1>1, <2>2 DEF Coherent
    <3>2. Owns(call[d]) => known' = known /\ late' = late
      BY <2>2 DEF Coherent, OneOwner
    <3> QED BY <3>1, <3>2 DEF CallFits, Owns
  <2> QED BY <2>1, <2>2
<1> QED BY <1>1, <1>2, <1>3, <1>4, <1>5 DEF Coherent

\* A step of another request that does not write the row.
LEMMA OtherStep ==
    ASSUME Coherent, NEW p \in Others, NEW k \in Other,
           other' = [other EXCEPT ![p] = k],
           UNCHANGED <<vault, reserved, known, late, exported, call>>, OtherFits(k)
    PROVE  Coherent'
<1>1. TypeOK' /\ \A q \in Others : other'[q] = IF q = p THEN k ELSE other[q]
  BY DEF Coherent, TypeOK
<1>2. Row' /\ Safe' /\ OneOwner' /\ \A c \in Calls : CallFits(call[c])'
  BY DEF Coherent, Row, Safe, DepositNeverForgotten, ExportedBytesKept, SubmittedIsAccepted,
         OneOwner, CallFits, Owns, Broadcast
<1>3. \A q \in Others : OtherFits(other[q])'
  BY <1>1 DEF Coherent, OtherFits, Broadcast
<1> QED BY <1>1, <1>2, <1>3 DEF Coherent

\* A write of the row by a submission, which goes on as k.
LEMMA CallWrites ==
    ASSUME Coherent, NEW c \in Calls, NEW k \in Call, WriteBy(c, k),
           vault' \in Vault, reserved' \in {"nobody", "this", "another"},
           UNCHANGED <<known, late, exported>>,
           Row', Safe', CallFits(k)',
           \A d \in Calls : d # c /\ call[d].pc = "post" =>
                vault'.txid = vault.txid /\ reserved' = "this" /\ ~Owns(k)
    PROVE  Coherent'
<1>1. /\ call' = [StaleCalls EXCEPT ![c] = k] /\ other' = StaleOthers
      /\ \A d \in Calls : call'[d] = IF d = c THEN k ELSE StaleCall(call[d])
      /\ \A p \in Others : other'[p] = StaleOther(other[p])
  BY DEF WriteBy, StaleCalls, StaleOthers
<1>2. ASSUME NEW d \in Calls
      PROVE  /\ call'[d] \in Call /\ CallFits(call[d])'
             /\ d # c => ~Owns(call'[d]) /\ call'[d].pc = call[d].pc
  <2>1. CASE d = c
    BY <1>1, <2>1
  <2>2. CASE d # c
    BY <1>1, <2>2, StaleCallFits DEF Coherent, TypeOK, CallFits
  <2> QED BY <2>1, <2>2
<1>3. ASSUME NEW p \in Others PROVE other'[p] \in Other /\ OtherFits(other[p])'
  BY <1>1, StaleOtherFits DEF Coherent, TypeOK
<1>4. TypeOK'
  BY <1>1, <1>2, <1>3 DEF Coherent, TypeOK, StaleCalls, StaleOthers
<1>5. OneOwner'
  BY <1>1, <1>2 DEF OneOwner
<1> QED BY <1>2, <1>3, <1>4, <1>5 DEF Coherent

\* A write of the row by another request, which goes on as k.
LEMMA OtherWrites ==
    ASSUME Coherent, NEW p \in Others, NEW k \in Other, WriteByOther(p, k),
           vault' \in Vault, reserved' \in {"nobody", "this", "another"},
           exported' \subseteq Raws, UNCHANGED <<known, late>>,
           Row', Safe', OtherFits(k)',
           \A d \in Calls : call[d].pc = "post" => vault'.txid = vault.txid /\ reserved' = "this"
    PROVE  Coherent'
<1>1. /\ call' = StaleCalls /\ other' = [StaleOthers EXCEPT ![p] = k]
      /\ \A d \in Calls : call'[d] = StaleCall(call[d])
      /\ \A q \in Others : other'[q] = IF q = p THEN k ELSE StaleOther(other[q])
  BY DEF WriteByOther, StaleCalls, StaleOthers
<1>2. ASSUME NEW d \in Calls
      PROVE  call'[d] \in Call /\ CallFits(call[d])' /\ ~Owns(call'[d])
  BY <1>1, StaleCallFits DEF Coherent, TypeOK, CallFits
<1>3. ASSUME NEW q \in Others PROVE other'[q] \in Other /\ OtherFits(other[q])'
  <2>1. CASE q = p
    BY <1>1, <2>1
  <2>2. CASE q # p
    BY <1>1, <2>2, StaleOtherFits DEF Coherent, TypeOK
  <2> QED BY <2>1, <2>2
<1>4. TypeOK'
  BY <1>1, <1>2, <1>3 DEF Coherent, TypeOK, StaleCalls, StaleOthers
<1>5. OneOwner'
  BY <1>1, <1>2 DEF OneOwner
<1> QED BY <1>2, <1>3, <1>4, <1>5 DEF Coherent

(***************************************************************************)
(* One lemma per action: a submission's own steps.                         *)
(***************************************************************************)
LEMMA BeginCoherent ==
    ASSUME Coherent, NEW c \in Calls, NEW raw \in Raws, Begin(c, raw)
    PROVE  Coherent'
<1> DEFINE fresh == [IdleCall EXCEPT !.pc = "intend", !.raw = raw, !.fresh = TRUE]
           again == [IdleCall EXCEPT !.pc = "seen", !.raw = raw]
<1>1. fresh \in Call /\ again \in Call
  BY Shapes DEF Call
<1>2. CASE vault.status = "unfunded" /\ call' = [call EXCEPT ![c] = fresh]
  <2>1. CallFits(fresh)' /\ ~Owns(fresh) /\ fresh.pc # "post"
    BY <1>2 DEF CallFits, Owns, IdleCall, Begin, Coherent, Row
  <2> HIDE DEF fresh
  <2> QED BY <1>1, <1>2, <2>1, CallStep DEF Begin, Coherent, TypeOK
<1>3. CASE call' = [call EXCEPT ![c] = again]
  <2>1. CallFits(again)' /\ ~Owns(again) /\ again.pc # "post"
    BY DEF CallFits, Owns, IdleCall
  <2> HIDE DEF again
  <2> QED BY <1>1, <1>3, <2>1, CallStep DEF Begin, Coherent, TypeOK
<1> QED BY <1>2, <1>3 DEF Begin

\* A submission that ends without a write, refused or dead.
LEMMA EndsCoherent ==
    ASSUME Coherent, NEW c \in Calls, End(c),
           UNCHANGED <<vault, reserved, known, late, exported, other>>
    PROVE  Coherent'
BY IdleFits, Shapes, CallStep DEF End, Coherent, TypeOK, IdleCall

LEMMA IntendCoherent ==
    ASSUME Coherent, NEW c \in Calls, Intend(c)
    PROVE  Coherent'
<1>0. PICK k, raw : k = [call[c] EXCEPT !.pc = "post"] /\ raw = call[c].raw
  OBVIOUS
<1>1. /\ call[c] \in Call /\ raw \in Raws /\ vault = NoDeposit
      /\ vault' = Recorded(raw) /\ reserved' = "this" /\ UNCHANGED <<known, late, exported>>
      /\ WriteBy(c, k)
  BY <1>0 DEF Intend, ScriptFence, Coherent, TypeOK, CallFits
<1>2. k \in Call /\ k.pc = "post" /\ k.raw = raw
  BY <1>0, <1>1 DEF Call
<1>3. known = {} /\ late = {} /\ exported = {}
  BY <1>1, Shapes
     DEF Coherent, TypeOK, Safe, DepositNeverForgotten, ExportedBytesKept, NoDeposit
<1>4. CallFits(k)'
  BY <1>1, <1>2, <1>3, Shapes DEF CallFits, Owns, Recorded
<1>5. \A d \in Calls : call[d].pc # "post"
  BY <1>1, Shapes DEF Coherent, CallFits, NoDeposit
<1>6. Row' /\ vault' \in Vault
  BY <1>1, Shapes DEF Row, Recorded
<1>7. Safe'
  BY <1>1, <1>3
     DEF Safe, DepositNeverForgotten, ExportedBytesKept, SubmittedIsAccepted, Recorded
<1> QED BY <1>1, <1>2, <1>4, <1>5, <1>6, <1>7, CallWrites

LEMMA SeenCoherent ==
    ASSUME Coherent, NEW c \in Calls, Seen(c)
    PROVE  Coherent'
<1>0. PICK k : k = IF TxidOf[call[c].raw] \in known
                   THEN [call[c] EXCEPT !.pc = "record", !.learnt = "submitted"]
                   ELSE [call[c] EXCEPT !.pc = "touch"]
  OBVIOUS
<1>1. /\ call[c] \in Call /\ CallFits(call[c]) /\ call[c].pc = "seen"
      /\ call' = [call EXCEPT ![c] = k]
      /\ UNCHANGED <<vault, reserved, known, late, exported, other>>
  BY <1>0 DEF Seen, Coherent, TypeOK
<1>2. k \in Call /\ CallFits(k)' /\ ~Owns(k) /\ k.pc # "post"
  BY <1>0, <1>1 DEF Call, CallFits, Owns
<1> QED BY <1>1, <1>2, CallStep DEF Coherent, TypeOK

LEMMA TouchReadCoherent ==
    ASSUME Coherent, NEW c \in Calls, TouchRead(c)
    PROVE  Coherent'
<1>0. PICK k : k = [call[c] EXCEPT !.pc = "resend", !.stale = FALSE]
  OBVIOUS
<1>1. /\ call[c] \in Call /\ CallFits(call[c]) /\ call[c].pc = "touch"
      /\ vault.txid = TxidOf[call[c].raw]
      /\ call' = [call EXCEPT ![c] = k]
      /\ UNCHANGED <<vault, reserved, known, late, exported, other>>
  BY <1>0 DEF TouchRead, Coherent, TypeOK
<1>2. k \in Call /\ CallFits(k)' /\ ~Owns(k) /\ k.pc # "post"
  BY <1>0, <1>1 DEF Call, CallFits, Owns
<1> QED BY <1>1, <1>2, CallStep DEF Coherent, TypeOK

LEMMA TouchSaveCoherent ==
    ASSUME Coherent, NEW c \in Calls, TouchSave(c)
    PROVE  Coherent'
<1>0. PICK k : k = [call[c] EXCEPT !.pc = "post"]
  OBVIOUS
<1>1. /\ call[c] \in Call /\ CallFits(call[c]) /\ call[c].pc = "resend" /\ ~call[c].stale
      /\ reserved' = "this" /\ UNCHANGED <<vault, known, late, exported>>
      /\ WriteBy(c, k)
  BY <1>0 DEF TouchSave, Touches, ScriptFence, Coherent, TypeOK
<1>2. k \in Call /\ CallFits(k)' /\ ~Owns(k)
  BY <1>0, <1>1 DEF Call, CallFits, Owns
<1>3. Row' /\ Safe' /\ vault' \in Vault
  BY <1>1 DEF Coherent, TypeOK, Row, Safe, DepositNeverForgotten, ExportedBytesKept,
              SubmittedIsAccepted, Broadcast
<1> QED BY <1>1, <1>2, <1>3, CallWrites

\* A submission that tries again, or gave up.
LEMMA AgainFits ==
    ASSUME NEW k \in Call, NEW pc \in {"touch", "record"}, NEW m, m = Again(k, pc),
           CallFits(k), pc = "touch" => k.pc = "resend", pc = "record" => k.pc = "save"
    PROVE  m \in Call /\ CallFits(m) /\ ~Owns(m) /\ m.pc # "post"
<1>1. CASE k.tries + 1 < MaxTries
  <2>1. m = [k EXCEPT !.pc = pc, !.tries = k.tries + 1]
    BY <1>1 DEF Again
  <2>2. k.tries \in Nat /\ MaxTries \in Nat
    BY FundingAssumption DEF Call
  <2>3. k.tries + 1 \in 0..MaxTries
    BY <1>1, <2>2
  <2>4. /\ m \in Call /\ m.pc = pc /\ m.raw = k.raw /\ m.fresh = k.fresh /\ m.learnt = k.learnt
    BY <2>1, <2>3 DEF Call
  <2> HIDE <2>1
  <2> QED BY <2>4 DEF CallFits, Owns
<1>2. CASE ~(k.tries + 1 < MaxTries)
  BY <1>2, IdleFits, Shapes DEF Again, IdleCall
<1> QED BY <1>1, <1>2

LEMMA ConflictCoherent ==
    ASSUME Coherent, NEW c \in Calls, TouchConflict(c) \/ RecordConflict(c)
    PROVE  Coherent'
<1>1. PICK pc \in {"touch", "record"} :
        /\ pc = "touch" => call[c].pc = "resend"
        /\ pc = "record" => call[c].pc = "save"
        /\ call' = [call EXCEPT ![c] = Again(call[c], pc)]
        /\ UNCHANGED <<vault, reserved, known, late, exported, other>>
  BY DEF TouchConflict, RecordConflict, Coherent, TypeOK
<1>2. PICK m : m = Again(call[c], pc)
  OBVIOUS
<1>3. m \in Call /\ CallFits(m) /\ ~Owns(m) /\ m.pc # "post"
  BY <1>1, <1>2, AgainFits DEF Coherent, TypeOK
<1>4. CallFits(m)'
  BY <1>1, <1>3 DEF CallFits, Owns
<1> QED BY <1>1, <1>2, <1>3, <1>4, CallStep DEF Coherent, TypeOK

\* What a submission learnt fits, if it is right.
LEMMA LearnsFits ==
    ASSUME NEW k \in Call, k.raw \in Raws, NEW outcome \in {"uncertain", "submitted"}, NEW m,
           m = Learns(k, outcome)
    PROVE  /\ m \in Call /\ ~Owns(m) /\ m.pc # "post"
           /\ (outcome = "submitted" => TxidOf[k.raw] \in known') => CallFits(m)'
<1>1. 0 \in 0..MaxTries
  BY FundingAssumption
<1>2. m \in Call /\ m.pc = "record" /\ m.raw = k.raw /\ m.learnt = outcome
  BY <1>1 DEF Learns, Call
<1> QED BY <1>2 DEF CallFits, Owns

LEMMA PostAnsweredCoherent ==
    ASSUME Coherent, NEW c \in Calls, PostAccepted(c) \/ PostUnanswered(c)
    PROVE  Coherent'
<1>1. /\ call[c] \in Call /\ call[c].raw \in Raws
      /\ call[c].pc = "post" /\ vault.txid = TxidOf[call[c].raw] /\ vault.txid \in Txids
  BY Shapes DEF PostAccepted, PostUnanswered, Coherent, TypeOK, CallFits
<1>2. PICK outcome \in {"uncertain", "submitted"} :
        /\ call' = [call EXCEPT ![c] = Learns(call[c], outcome)]
        /\ outcome = "submitted" => TxidOf[call[c].raw] \in known'
        /\ UNCHANGED <<vault, reserved, exported, other>>
        /\ known \subseteq known' /\ known' \subseteq known \cup {vault.txid}
        /\ late' \subseteq late \cup {vault.txid} /\ known' \cup late' \subseteq Txids
  BY <1>1 DEF PostAccepted, PostUnanswered, Coherent, TypeOK
<1>3. PICK m : m = Learns(call[c], outcome)
  OBVIOUS
<1>4. m \in Call /\ ~Owns(m) /\ m.pc # "post" /\ CallFits(m)'
  BY <1>1, <1>2, <1>3, LearnsFits DEF CallFits, Owns
<1> QED BY <1>1, <1>2, <1>3, <1>4, CallStep

LEMMA PostRefusedCoherent ==
    ASSUME Coherent, NEW c \in Calls, PostRefused(c)
    PROVE  Coherent'
<1>1. /\ call[c] \in Call /\ CallFits(call[c]) /\ call[c].pc = "post" /\ call[c].raw \in Raws
      /\ call' = [call EXCEPT ![c] = Refused(call[c])]
      /\ UNCHANGED <<vault, reserved, known, late, exported, other>>
  BY DEF PostRefused, Coherent, TypeOK, CallFits
<1>2. PICK m : m = Refused(call[c])
  OBVIOUS
<1>3. m \in Call /\ CallFits(m)' /\ (Owns(m) => Owns(call[c])) /\ m.pc # "post"
  <2>1. CASE call[c].fresh
    <3>1. m = [call[c] EXCEPT !.pc = "refused"]
      BY <1>2, <2>1 DEF Refused
    <3>2. /\ m \in Call /\ m.pc = "refused" /\ m.raw = call[c].raw /\ m.fresh
          /\ m.stale = call[c].stale
      BY <1>1, <2>1, <3>1 DEF Call
    <3> QED BY <1>1, <2>1, <3>2 DEF CallFits, Owns
  <2>2. CASE ~call[c].fresh
    <3>1. m = Learns(call[c], "uncertain")
      BY <1>2, <2>2 DEF Refused
    <3> QED BY <1>1, <3>1, LearnsFits DEF CallFits, Owns
  <2> QED BY <2>1, <2>2
<1> QED BY <1>1, <1>2, <1>3, CallStep DEF Coherent, TypeOK

LEMMA AskMinerCoherent ==
    ASSUME Coherent, NEW c \in Calls, AskMiner(c)
    PROVE  Coherent'
<1>1. /\ call[c] \in Call /\ CallFits(call[c]) /\ call[c].pc = "refused" /\ call[c].raw \in Raws
      /\ UNCHANGED <<vault, reserved, known, late, exported, other>>
  BY DEF AskMiner, Coherent, TypeOK, CallFits
<1>2. ASSUME NEW outcome \in {"uncertain", "submitted"},
             outcome = "submitted" => TxidOf[call[c].raw] \in known,
             call' = [call EXCEPT ![c] = Learns(call[c], outcome)]
      PROVE  Coherent'
  <2>1. PICK m : m = Learns(call[c], outcome)
    OBVIOUS
  <2>2. m \in Call /\ ~Owns(m) /\ m.pc # "post" /\ CallFits(m)'
    BY <1>1, <1>2, <2>1, LearnsFits DEF CallFits, Owns
  <2> QED BY <1>1, <1>2, <2>1, <2>2, CallStep DEF Coherent, TypeOK
<1>3. ASSUME call' = [call EXCEPT ![c] = [call[c] EXCEPT !.pc = "clear"]]
      PROVE  Coherent'
  <2>1. PICK m : m = [call[c] EXCEPT !.pc = "clear"]
    OBVIOUS
  <2>2. m \in Call /\ CallFits(m)' /\ (Owns(m) => Owns(call[c])) /\ m.pc # "post"
    BY <1>1, <2>1 DEF Call, CallFits, Owns
  <2> QED BY <1>1, <1>3, <2>1, <2>2, CallStep DEF Coherent, TypeOK
<1> QED BY <1>2, <1>3 DEF AskMiner

\* The step it is all about: nothing of the deposit is out there.
LEMMA ClearCoherent ==
    ASSUME Coherent, NEW c \in Calls, Clear(c)
    PROVE  Coherent'
<1>1. /\ Owns(call[c]) /\ known = {} /\ late = {} /\ exported = {}
      /\ vault' = NoDeposit /\ WriteBy(c, IdleCall) /\ UNCHANGED <<reserved, known, late, exported>>
  BY DEF Clear, Coherent, CallFits, Owns
<1>2. Row'
  BY <1>1 DEF Row, NoDeposit
<1>3. Safe'
  BY <1>1 DEF Safe, DepositNeverForgotten, ExportedBytesKept, SubmittedIsAccepted, NoDeposit
<1>4. \A d \in Calls : d # c => call[d].pc # "post"
  BY <1>1 DEF Coherent, OneOwner
<1> QED BY <1>1, <1>2, <1>3, <1>4, IdleFits, Shapes, CallWrites DEF Coherent, TypeOK

LEMMA ClearConflictCoherent ==
    ASSUME Coherent, NEW c \in Calls, ClearConflict(c)
    PROVE  Coherent'
<1>1. /\ call[c] \in Call /\ call[c].raw \in Raws
      /\ call' = [call EXCEPT ![c] = Learns(call[c], "uncertain")]
      /\ UNCHANGED <<vault, reserved, known, late, exported, other>>
  BY DEF ClearConflict, Coherent, TypeOK, CallFits
<1>2. PICK m : m = Learns(call[c], "uncertain")
  OBVIOUS
<1>3. m \in Call /\ ~Owns(m) /\ m.pc # "post" /\ CallFits(m)'
  BY <1>1, <1>2, LearnsFits DEF CallFits, Owns
<1> QED BY <1>1, <1>2, <1>3, CallStep DEF Coherent, TypeOK

LEMMA RecordReadCoherent ==
    ASSUME Coherent, NEW c \in Calls, RecordRead(c)
    PROVE  Coherent'
<1>0. PICK k : k = IF vault.txid = TxidOf[call[c].raw]
                   THEN [call[c] EXCEPT !.pc = "save", !.stale = FALSE] ELSE IdleCall
  OBVIOUS
<1>1. /\ call[c] \in Call /\ CallFits(call[c]) /\ call[c].pc = "record"
      /\ call' = [call EXCEPT ![c] = k]
      /\ UNCHANGED <<vault, reserved, known, late, exported, other>>
  BY <1>0 DEF RecordRead, Coherent, TypeOK
<1>2. k \in Call /\ CallFits(k)' /\ ~Owns(k) /\ k.pc # "post"
  <2>1. CASE vault.txid = TxidOf[call[c].raw]
    BY <1>0, <1>1, <2>1 DEF Call, CallFits, Owns
  <2>2. CASE vault.txid # TxidOf[call[c].raw]
    BY <1>0, <2>2, IdleFits, Shapes DEF IdleCall
  <2> QED BY <2>1, <2>2
<1> QED BY <1>1, <1>2, CallStep DEF Coherent, TypeOK

LEMMA RecordSaveCoherent ==
    ASSUME Coherent, NEW c \in Calls, RecordSave(c)
    PROVE  Coherent'
<1> DEFINE sub == Outcome(vault.sub, call[c].learnt)
<1>1. /\ call[c] \in Call /\ CallFits(call[c]) /\ call[c].pc = "save" /\ ~call[c].stale
      /\ vault \in Vault /\ vault' = [vault EXCEPT !.sub = sub]
      /\ WriteBy(c, IdleCall) /\ UNCHANGED <<reserved, known, late, exported>>
  BY DEF RecordSave, Coherent, TypeOK
<1>2. vault.txid = TxidOf[call[c].raw] /\ call[c].raw \in Raws
  BY <1>1 DEF CallFits
<1>3. vault.raw # None /\ vault.txid # None
  BY <1>2, Shapes DEF Coherent, Row, Broadcast
<1>4. /\ sub \in {"uncertain", "submitted"}
      /\ sub = "submitted" => vault.txid \in known
  BY <1>1, <1>2 DEF Outcome, CallFits, Call, Vault, Coherent, Safe, SubmittedIsAccepted
<1>5. /\ vault' \in Vault /\ vault'.sub = sub /\ vault'.txid = vault.txid
      /\ vault'.raw = vault.raw /\ vault'.status = vault.status
  BY <1>1, <1>4 DEF Vault
<1> HIDE DEF sub
<1>6. Row'
  BY <1>3, <1>4, <1>5 DEF Coherent, Row
<1>7. Safe'
  BY <1>1, <1>4, <1>5
     DEF Coherent, Safe, DepositNeverForgotten, ExportedBytesKept, SubmittedIsAccepted
<1>8. \A d \in Calls : call[d].pc = "post" => reserved = "this"
  BY DEF Coherent, CallFits
<1> QED BY <1>1, <1>5, <1>6, <1>7, <1>8, IdleFits, Shapes, CallWrites DEF Coherent, TypeOK

(***************************************************************************)
(* The other requests.                                                     *)
(***************************************************************************)
LEMMA ExportReadCoherent ==
    ASSUME Coherent, NEW p \in Others, ExportRead(p)
    PROVE  Coherent'
<1> DEFINE k == [other[p] EXCEPT !.pc = "export", !.raw = vault.raw, !.stale = FALSE]
<1>1. other[p] \in Other /\ vault.raw \in Raws
  BY DEF ExportRead, Coherent, TypeOK, Vault
<1>2. k \in Other /\ OtherFits(k)
  BY <1>1 DEF Other, OtherFits
<1>3. other' = [other EXCEPT ![p] = k] /\ UNCHANGED <<vault, reserved, known, late, exported, call>>
  BY DEF ExportRead
<1> HIDE DEF k
<1> QED BY <1>2, <1>3, OtherStep

LEMMA ExportSaveCoherent ==
    ASSUME Coherent, NEW p \in Others, ExportSave(p)
    PROVE  Coherent'
<1>1. /\ other[p].raw \in Raws /\ vault.raw = other[p].raw
      /\ exported' = exported \cup {vault.raw} /\ reserved' = "this"
      /\ UNCHANGED <<vault, known, late>> /\ WriteByOther(p, IdleOther)
  BY DEF ExportSave, Exports, ScriptFence, Coherent, OtherFits
<1>2. Row' /\ Safe' /\ vault' \in Vault /\ exported' \subseteq Raws
  BY <1>1 DEF Coherent, TypeOK, Row, Safe, DepositNeverForgotten, ExportedBytesKept,
              SubmittedIsAccepted, Broadcast
<1> QED BY <1>1, <1>2, IdleOtherFits, Shapes, OtherWrites

\* A request that ends without a write.
LEMMA OtherEndsCoherent ==
    ASSUME Coherent, NEW p \in Others, other' = [other EXCEPT ![p] = IdleOther],
           UNCHANGED <<vault, reserved, known, late, exported, call>>
    PROVE  Coherent'
BY IdleOtherFits, Shapes, OtherStep

LEMMA ExportConflictCoherent ==
    ASSUME Coherent, NEW p \in Others, ExportConflict(p)
    PROVE  Coherent'
<1> DEFINE k == [other[p] EXCEPT !.pc = "bound", !.tries = @ + 1]
<1>1. /\ other[p] \in Other /\ OtherFits(other[p]) /\ other[p].pc = "export"
      /\ UNCHANGED <<vault, reserved, known, late, exported, call>>
  BY DEF ExportConflict, Coherent, TypeOK
<1>2. CASE other[p].tries + 1 < MaxTries /\ other' = [other EXCEPT ![p] = k]
  <2>1. other[p].tries \in Nat /\ MaxTries \in Nat
    BY <1>1, FundingAssumption DEF Other
  <2>2. other[p].tries + 1 \in 0..MaxTries
    BY <1>2, <2>1
  <2>3. k \in Other /\ OtherFits(k)
    BY <1>1, <2>2 DEF Other, OtherFits
  <2> HIDE DEF k
  <2> QED BY <1>1, <1>2, <2>3, OtherStep
<1>3. CASE other' = [other EXCEPT ![p] = IdleOther]
  BY <1>1, <1>3, OtherEndsCoherent
<1> QED BY <1>2, <1>3 DEF ExportConflict, Rebound, Coherent, TypeOK

LEMMA StatusReadCoherent ==
    ASSUME Coherent, NEW p \in Others, StatusRead(p)
    PROVE  Coherent'
<1>0. PICK raw : raw = IF reserved # "another" THEN vault.raw ELSE None
  OBVIOUS
<1> DEFINE k == [IdleOther EXCEPT !.pc = "status", !.txid = vault.txid,
                                  !.status = vault.status, !.raw = raw]
<1>1. raw \in Raws \cup {None} /\ vault \in Vault /\ vault.txid # None
  BY <1>0 DEF Coherent, TypeOK, Vault, StatusRead
<1>2. k \in Other /\ OtherFits(k)
  BY <1>1, Shapes DEF Other, OtherFits, IdleOther, Vault
<1>3. other' = [other EXCEPT ![p] = k] /\ UNCHANGED <<vault, reserved, known, late, exported, call>>
  BY <1>0 DEF StatusRead
<1> HIDE DEF k
<1> QED BY <1>2, <1>3, OtherStep

LEMMA StatusUnseenCoherent ==
    ASSUME Coherent, NEW p \in Others, StatusUnseen(p)
    PROVE  Coherent'
<1> DEFINE k == [other[p] EXCEPT !.pc = "bound"]
<1>1. other[p] \in Other /\ other[p].raw # None
  BY DEF StatusUnseen, Coherent, TypeOK
<1>2. k \in Other /\ OtherFits(k)
  BY <1>1 DEF Other, OtherFits
<1>3. other' = [other EXCEPT ![p] = k] /\ UNCHANGED <<vault, reserved, known, late, exported, call>>
  BY DEF StatusUnseen
<1> HIDE DEF k
<1> QED BY <1>2, <1>3, OtherStep

LEMMA StatusSaveCoherent ==
    ASSUME Coherent, NEW p \in Others, StatusSave(p)
    PROVE  Coherent'
<1>1. PICK status \in {"submitted", "confirmed"} : vault' = [vault EXCEPT !.status = status]
  BY DEF StatusSave
<1>2. /\ other[p] \in Other /\ vault \in Vault /\ vault.txid # None
      /\ UNCHANGED <<reserved, known, late, exported>>
  BY DEF StatusSave, Coherent, TypeOK, OtherFits
<1>3. /\ vault' \in Vault /\ vault'.txid = vault.txid /\ vault'.raw = vault.raw
      /\ vault'.sub = vault.sub /\ vault'.status = status
  BY <1>1, <1>2 DEF Vault
<1>4. Row'
  BY <1>2, <1>3 DEF Coherent, Row, Broadcast
<1>5. Safe'
  BY <1>2, <1>3
     DEF Coherent, Safe, DepositNeverForgotten, ExportedBytesKept, SubmittedIsAccepted
<1>6. PICK k \in {IdleOther, [other[p] EXCEPT !.pc = "bound"]} :
        WriteByOther(p, k) /\ (k # IdleOther => other[p].raw # None)
  BY DEF StatusSave
<1>7. k \in Other /\ OtherFits(k)'
  <2>1. CASE k = IdleOther
    BY <2>1, IdleOtherFits, Shapes
  <2>2. CASE k # IdleOther
    BY <1>2, <1>6, <2>2 DEF Other, OtherFits
  <2> QED BY <2>1, <2>2
<1>8. \A d \in Calls : call[d].pc = "post" => reserved = "this"
  BY DEF Coherent, CallFits
<1> QED BY <1>2, <1>3, <1>4, <1>5, <1>6, <1>7, <1>8, OtherWrites DEF Coherent, TypeOK

LEMMA FundReadCoherent ==
    ASSUME Coherent, NEW p \in Others, NEW txid \in Txids, FundRead(p, txid)
    PROVE  Coherent'
<1>1. PICK status \in {"submitted", "confirmed"} :
        other' = [other EXCEPT ![p] =
                    [IdleOther EXCEPT !.pc = "fund", !.txid = txid, !.status = status]]
  BY DEF FundRead
<1> DEFINE k == [IdleOther EXCEPT !.pc = "fund", !.txid = txid, !.status = status]
<1>2. vault = NoDeposit /\ known = {} /\ Broadcast(txid)
      /\ UNCHANGED <<vault, reserved, known, late, exported, call>>
  BY Shapes DEF FundRead, Minable, Coherent, TypeOK, Row, Safe, DepositNeverForgotten, NoDeposit
<1>3. k \in Other /\ OtherFits(k)
  BY <1>2, Shapes DEF Other, OtherFits, IdleOther
<1> HIDE DEF k
<1> QED BY <1>1, <1>2, <1>3, OtherStep DEF k

LEMMA FundSaveCoherent ==
    ASSUME Coherent, NEW p \in Others, FundSave(p)
    PROVE  Coherent'
<1>1. /\ other[p] \in Other /\ other[p].txid \in Txids /\ other[p].txid # None
      /\ Broadcast(other[p].txid) /\ other[p].status \in {"submitted", "confirmed"}
      /\ vault = NoDeposit /\ reserved' = "this" /\ UNCHANGED <<known, late, exported>>
      /\ vault' = [NoDeposit EXCEPT !.txid = other[p].txid, !.status = other[p].status]
      /\ WriteByOther(p, IdleOther)
  BY Shapes DEF FundSave, ScriptFence, Coherent, TypeOK, OtherFits, Other
<1>2. known = {} /\ late = {} /\ exported = {}
  BY <1>1, Shapes
     DEF Coherent, TypeOK, Safe, DepositNeverForgotten, ExportedBytesKept, NoDeposit
<1>3. /\ vault' \in Vault /\ vault'.txid = other[p].txid /\ vault'.raw = None
      /\ vault'.sub = "none" /\ vault'.status = other[p].status
  BY <1>1 DEF Vault, NoDeposit
<1>4. Row'
  BY <1>1, <1>3 DEF Row, Broadcast
<1>5. Safe'
  BY <1>1, <1>2, <1>3 DEF Safe, DepositNeverForgotten, ExportedBytesKept, SubmittedIsAccepted
<1>6. \A d \in Calls : call[d].pc # "post"
  BY <1>1, Shapes DEF Coherent, CallFits, NoDeposit
<1> QED BY <1>1, <1>2, <1>3, <1>4, <1>5, <1>6, IdleOtherFits, Shapes, OtherWrites

(***************************************************************************)
(* Everything else.                                                        *)
(***************************************************************************)
\* Another writer of the row: every request that read it is overtaken.
LEMMA FlaggedCoherent ==
    ASSUME Coherent, Flagged
    PROVE  Coherent'
<1>1. /\ \A d \in Calls : call'[d] = StaleCall(call[d])
      /\ \A p \in Others : other'[p] = StaleOther(other[p])
      /\ UNCHANGED <<vault, reserved, known, late, exported>>
  BY DEF Flagged, StaleCalls, StaleOthers
<1>2. ASSUME NEW d \in Calls
      PROVE  call'[d] \in Call /\ CallFits(call[d])' /\ ~Owns(call'[d])
  BY <1>1, StaleCallFits DEF Coherent, TypeOK, CallFits
<1>3. ASSUME NEW p \in Others PROVE other'[p] \in Other /\ OtherFits(other[p])'
  BY <1>1, StaleOtherFits DEF Coherent, TypeOK
<1>4. TypeOK'
  BY <1>1, <1>2, <1>3 DEF Coherent, TypeOK, Flagged, StaleCalls, StaleOthers
<1>5. Row' /\ Safe' /\ OneOwner'
  BY <1>1, <1>2 DEF Coherent, Row, Safe, DepositNeverForgotten, ExportedBytesKept,
                    SubmittedIsAccepted, OneOwner, Broadcast
<1> QED BY <1>2, <1>3, <1>4, <1>5 DEF Coherent

LEMMA ReserveCoherent ==
    ASSUME Coherent, NEW whose \in {"this", "another"}, Reserve(whose)
    PROVE  Coherent'
<1>1. /\ reserved = "nobody" /\ reserved' = whose
      /\ UNCHANGED <<vault, known, late, exported>>
      /\ \A d \in Calls : /\ call[d].pc # "post"
                          /\ call'[d] = call[d] \/ call'[d] = StaleCall(call[d])
      /\ \A p \in Others : other'[p] = other[p] \/ other'[p] = StaleOther(other[p])
  BY DEF Reserve, Coherent, CallFits
<1>2. ASSUME NEW d \in Calls
      PROVE  /\ call'[d] \in Call /\ CallFits(call[d])' /\ call'[d].pc # "post"
  <2>1. CASE call'[d] = call[d]
    BY <1>1, <2>1 DEF Coherent, TypeOK, CallFits, Owns
  <2>2. CASE call'[d] = StaleCall(call[d])
    BY <1>1, <2>2, StaleCallFits DEF Coherent, TypeOK
  <2> QED BY <1>1, <2>1, <2>2
<1>3. ASSUME NEW p \in Others PROVE other'[p] \in Other /\ OtherFits(other[p])'
  <2>1. CASE other'[p] = other[p]
    BY <1>1, <2>1 DEF Coherent, TypeOK, OtherFits, Broadcast
  <2>2. CASE other'[p] = StaleOther(other[p])
    BY <2>2, StaleOtherFits DEF Coherent, TypeOK
  <2> QED BY <1>1, <2>1, <2>2
<1>4. TypeOK'
  BY <1>1, <1>2, <1>3 DEF Coherent, TypeOK, Reserve
<1>5. Row' /\ Safe' /\ OneOwner'
  BY <1>1, <1>2 DEF Coherent, Row, Safe, DepositNeverForgotten, ExportedBytesKept,
                    SubmittedIsAccepted, OneOwner, Broadcast
<1> QED BY <1>2, <1>3, <1>4, <1>5 DEF Coherent

LEMMA ArrivesCoherent ==
    ASSUME Coherent, NEW txid \in Txids, Arrives(txid)
    PROVE  Coherent'
<1>1. txid = vault.txid
  BY Shapes DEF Arrives, Coherent, TypeOK, Row, Safe, DepositNeverForgotten, ExportedBytesKept
<1>2. \A d \in Calls : ~Owns(call[d])
  BY DEF Arrives, Coherent, CallFits
<1>3. TypeOK' /\ Row' /\ OneOwner'
  BY <1>2 DEF Arrives, Coherent, TypeOK, Row, OneOwner, Broadcast
<1>4. Safe'
  BY <1>1 DEF Arrives, Coherent, Safe, DepositNeverForgotten, ExportedBytesKept,
              SubmittedIsAccepted
<1>5. \A d \in Calls : CallFits(call[d])'
  BY <1>2 DEF Arrives, Coherent, CallFits, Owns
<1>6. \A p \in Others : OtherFits(other[p])'
  BY DEF Arrives, Coherent, OtherFits, Broadcast
<1> QED BY <1>3, <1>4, <1>5, <1>6 DEF Coherent

LEMMA InitCoherent ==
    ASSUME Init
    PROVE  Coherent
<1>1. TypeOK
  BY Shapes DEF Init, TypeOK, Recorded
<1>2. Row
  BY Shapes DEF Init, Row, NoDeposit, Recorded
<1>3. Safe
  BY DEF Init, Safe, DepositNeverForgotten, ExportedBytesKept, SubmittedIsAccepted, NoDeposit,
         Recorded
<1>4. /\ \A c \in Calls : CallFits(call[c])
      /\ OneOwner /\ \A p \in Others : OtherFits(other[p])
  BY IdleFits, IdleOtherFits DEF Init, OneOwner
<1> QED BY <1>1, <1>2, <1>3, <1>4 DEF Coherent

LEMMA StutterCoherent ==
    ASSUME Coherent, UNCHANGED vars
    PROVE  Coherent'
BY DEF Coherent, TypeOK, Row, Safe, DepositNeverForgotten, ExportedBytesKept,
       SubmittedIsAccepted, CallFits, Owns, OneOwner, OtherFits, Broadcast, vars

LEMMA NextCoherent ==
    ASSUME Coherent, Next
    PROVE  Coherent'
<1>1. ASSUME NEW c \in Calls, Submission(c)
      PROVE  Coherent'
  <2>1. ASSUME Refuse(c) PROVE Coherent'
    BY <2>1, EndsCoherent DEF Refuse
  <2> QED BY <1>1, <2>1, IntendCoherent, SeenCoherent, TouchReadCoherent, TouchSaveCoherent,
             ConflictCoherent, PostAnsweredCoherent, PostRefusedCoherent, AskMinerCoherent,
             ClearCoherent, ClearConflictCoherent, RecordReadCoherent, RecordSaveCoherent
          DEF Submission
<1>2. ASSUME NEW c \in Calls, Die(c)
      PROVE  Coherent'
  BY <1>2, EndsCoherent DEF Die
<1>3. ASSUME NEW c \in Calls, NEW raw \in Raws, Begin(c, raw)
      PROVE  Coherent'
  BY <1>3, BeginCoherent
<1>4. ASSUME NEW p \in Others, OtherRequest(p)
      PROVE  Coherent'
  <2>1. ASSUME OtherEnds(p) PROVE Coherent'
    BY <2>1, OtherEndsCoherent DEF OtherEnds
  <2> QED BY <1>4, <2>1, ExportReadCoherent, ExportSaveCoherent, ExportConflictCoherent,
             StatusReadCoherent, StatusSaveCoherent, StatusUnseenCoherent, FundSaveCoherent
          DEF OtherRequest
<1>5. ASSUME NEW p \in Others, NEW txid \in Txids, FundRead(p, txid)
      PROVE  Coherent'
  BY <1>5, FundReadCoherent
<1>6. ASSUME NEW txid \in Txids, Arrives(txid)
      PROVE  Coherent'
  BY <1>6, ArrivesCoherent
<1>7. ASSUME NEW whose \in {"this", "another"}, Reserve(whose)
      PROVE  Coherent'
  BY <1>7, ReserveCoherent
<1>8. ASSUME Flagged PROVE Coherent'
  BY <1>8, FlaggedCoherent
<1> QED BY <1>1, <1>2, <1>3, <1>4, <1>5, <1>6, <1>7, <1>8 DEF Next

LEMMA AlwaysCoherent == Spec => []Coherent
<1>1. Coherent /\ [Next]_vars => Coherent'
  BY NextCoherent, StutterCoherent
<1> QED BY InitCoherent, <1>1, PTL DEF Spec

(***************************************************************************)
(* The theorems.                                                           *)
(***************************************************************************)
\* Every reachable state has the type of the row, the miner's view and the requests
\* (store.ts, submit-funding.ts).
THEOREM TypeCorrect == Spec => []TypeOK
<1>1. Coherent => TypeOK
  BY DEF Coherent
<1> QED BY AlwaysCoherent, <1>1, PTL

\* A deposit that the miner took, or may yet take, stays the vault's recorded one: clear
\* of submit-funding.ts never forgets it, however many requests race.
THEOREM NeverForgotten == Spec => []DepositNeverForgotten
<1>1. Coherent => DepositNeverForgotten
  BY DEF Coherent, Safe
<1> QED BY AlwaysCoherent, <1>1, PTL

\* Bytes that exportFunding handed out stay the vault's recorded ones.
THEOREM ExportKept == Spec => []ExportedBytesKept
<1>1. Coherent => ExportedBytesKept
  BY DEF Coherent, Safe
<1> QED BY AlwaysCoherent, <1>1, PTL

\* What record of submit-funding.ts reports as submitted, the miner accepted.
THEOREM SubmittedTrue == Spec => []SubmittedIsAccepted
<1>1. Coherent => SubmittedIsAccepted
  BY DEF Coherent, Safe
<1> QED BY AlwaysCoherent, <1>1, PTL

\* fencedVaultSave: nothing is sent or handed out for a vault without its script.
THEOREM ScriptHeld == Spec => []DepositHoldsScript
<1>1. Coherent => DepositHoldsScript
  BY DEF Coherent, Safe, CallFits, DepositHoldsScript
<1> QED BY AlwaysCoherent, <1>1, PTL

(***************************************************************************)
(* The refinement.                                                         *)
(***************************************************************************)
LEMMA InitPromised == Init => Promise!Init
BY FundingAssumption DEF Init, Promise!Init, NoDeposit, Recorded

\* Most steps change nothing the promise speaks of.
LEMMA QuietStep ==
    ASSUME Coherent, vault'.txid = vault.txid, vault'.sub = vault.sub, known' = known
    PROVE  UNCHANGED Promise!vars
BY DEF Promise!vars

LEMMA DecidePromised ==
    ASSUME Coherent, \/ \E c \in Calls : Intend(c)
                     \/ \E p \in Others : FundSave(p)
    PROVE  Promise!Decide
<1>1. ASSUME NEW c \in Calls, Intend(c) PROVE Promise!Decide
  <2>1. PICK raw : raw = call[c].raw
    OBVIOUS
  <2>2. vault = NoDeposit /\ raw \in Raws /\ vault' = Recorded(raw) /\ known' = known
    BY <1>1, <2>1 DEF Intend, Coherent, CallFits
  <2> QED BY <2>2, Shapes DEF Promise!Decide, NoDeposit, Recorded
<1>2. ASSUME NEW p \in Others, FundSave(p) PROVE Promise!Decide
  <2>1. PICK txid, status : txid = other[p].txid /\ status = other[p].status
    OBVIOUS
  <2>2. /\ vault = NoDeposit /\ txid \in Txids /\ known' = known
        /\ vault' = [NoDeposit EXCEPT !.txid = txid, !.status = status]
    BY <1>2, <2>1 DEF FundSave, Coherent, OtherFits
  <2> QED BY <2>2 DEF Promise!Decide, NoDeposit
<1> QED BY <1>1, <1>2

LEMMA AcceptPromised ==
    ASSUME Coherent, \/ \E c \in Calls : PostAccepted(c)
                     \/ \E txid \in Txids : Arrives(txid)
    PROVE  Promise!Accept
<1>1. ASSUME NEW c \in Calls, PostAccepted(c) PROVE Promise!Accept
  <2>1. PICK txid : txid = TxidOf[call[c].raw]
    OBVIOUS
  <2>2. /\ txid = vault.txid /\ txid \in Txids /\ vault' = vault
        /\ known' = known \cup {txid}
    BY <1>1, <2>1, Shapes DEF PostAccepted, Coherent, CallFits
  <2> QED BY <2>2, Shapes DEF Promise!Accept
<1>2. ASSUME NEW txid \in Txids, Arrives(txid) PROVE Promise!Accept
  <2>1. txid = vault.txid
    BY <1>2, Shapes
       DEF Arrives, Coherent, TypeOK, Row, Safe, DepositNeverForgotten, ExportedBytesKept
  <2> QED BY <1>2, <2>1, Shapes DEF Arrives, Promise!Accept
<1> QED BY <1>1, <1>2

\* Only the request that owns its intent clears it, and the miner has none of it.
LEMMA ForgetPromised ==
    ASSUME Coherent, NEW c \in Calls, Clear(c)
    PROVE  Promise!Forget
<1>1. PICK raw : raw = call[c].raw
  OBVIOUS
<1>2. /\ vault = Recorded(raw) /\ known = {} /\ vault' = NoDeposit /\ known' = known
  BY <1>1 DEF Clear, Coherent, CallFits, Owns
<1> QED BY <1>2 DEF Promise!Forget, Recorded, NoDeposit

LEMMA LearnPromised ==
    ASSUME Coherent, NEW c \in Calls, RecordSave(c)
    PROVE  Promise!Learn \/ UNCHANGED Promise!vars
<1>1. PICK learnt, raw, sub :
        learnt = call[c].learnt /\ raw = call[c].raw /\ sub = Outcome(vault.sub, learnt)
  OBVIOUS
<1>2. /\ call[c] \in Call /\ CallFits(call[c]) /\ call[c].pc = "save" /\ ~call[c].stale
      /\ vault \in Vault /\ vault' = [vault EXCEPT !.sub = sub] /\ known' = known
  BY <1>1 DEF RecordSave, Coherent, TypeOK
<1>3. /\ raw \in Raws /\ vault.txid = TxidOf[raw] /\ learnt \in {"uncertain", "submitted"}
      /\ learnt = "submitted" => TxidOf[raw] \in known
  BY <1>1, <1>2 DEF CallFits, Call
<1>4. vault.sub \in {"uncertain", "submitted"}
  BY <1>2, <1>3, Shapes DEF Coherent, Row, Broadcast, Vault
<1>5. vault'.txid = vault.txid /\ vault'.sub = sub
  BY <1>2 DEF Vault
<1>6. CASE vault.sub = "uncertain" /\ learnt = "submitted"
  BY <1>1, <1>2, <1>3, <1>5, <1>6 DEF Promise!Learn, Outcome
<1>7. CASE ~(vault.sub = "uncertain" /\ learnt = "submitted")
  <2>1. sub = vault.sub
    BY <1>1, <1>3, <1>4, <1>7 DEF Outcome
  <2> QED BY <1>2, <1>5, <2>1 DEF Promise!vars
<1> QED BY <1>6, <1>7

LEMMA StepPromised ==
    ASSUME Coherent, [Next]_vars
    PROVE  [Promise!Next]_(Promise!vars)
<1>1. CASE UNCHANGED vars
  BY <1>1, QuietStep DEF vars
<1>2. ASSUME NEW c \in Calls, Submission(c)
      PROVE  [Promise!Next]_(Promise!vars)
  <2>1. CASE Intend(c)
    BY <2>1, DecidePromised DEF Promise!Next
  <2>2. CASE PostAccepted(c)
    BY <2>2, AcceptPromised DEF Promise!Next
  <2>3. CASE Clear(c)
    BY <2>3, ForgetPromised DEF Promise!Next
  <2>4. CASE RecordSave(c)
    BY <2>4, LearnPromised DEF Promise!Next
  <2>5. CASE vault' = vault /\ known' = known
    BY <2>5, QuietStep
  <2> QED BY <1>2, <2>1, <2>2, <2>3, <2>4, <2>5
          DEF Submission, Refuse, Seen, TouchRead, TouchSave, TouchConflict, PostUnanswered,
              PostRefused, AskMiner, ClearConflict, RecordRead, RecordConflict
<1>3. ASSUME NEW p \in Others, OtherRequest(p)
      PROVE  [Promise!Next]_(Promise!vars)
  <2>1. CASE FundSave(p)
    BY <2>1, DecidePromised DEF Promise!Next
  <2>2. CASE StatusSave(p)
    <3>1. PICK status : vault' = [vault EXCEPT !.status = status]
      BY <2>2 DEF StatusSave
    <3>2. vault'.txid = vault.txid /\ vault'.sub = vault.sub
      BY <3>1 DEF Coherent, TypeOK, Vault
    <3> QED BY <2>2, <3>2, QuietStep DEF StatusSave
  <2>3. CASE vault' = vault /\ known' = known
    BY <2>3, QuietStep
  <2> QED BY <1>3, <2>1, <2>2, <2>3
          DEF OtherRequest, ExportRead, ExportSave, ExportConflict, StatusRead, StatusUnseen,
              OtherEnds
<1>4. ASSUME NEW txid \in Txids, Arrives(txid)
      PROVE  [Promise!Next]_(Promise!vars)
  BY <1>4, AcceptPromised DEF Promise!Next
<1>5. ASSUME Next, vault' = vault, known' = known
      PROVE  [Promise!Next]_(Promise!vars)
  BY <1>5, QuietStep
<1> QED BY <1>1, <1>2, <1>3, <1>4, <1>5 DEF Next, Die, Begin, FundRead, Reserve, Flagged

\* The routes implement the abstract deposit: one at a time, never forgotten while the
\* miner may have it, its outcome learnt once (OneDeposit; submit-funding.ts).
THEOREM Implements == Spec => KeepsPromise
<1>1. Coherent /\ [Next]_vars => [Promise!Next]_(Promise!vars)
  BY StepPromised
<1> QED BY AlwaysCoherent, InitPromised, <1>1, PTL DEF Spec, KeepsPromise, Promise!Spec
=============================================================================
