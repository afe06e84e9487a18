------------------------- MODULE ExactSubmitProofs --------------------------
(***************************************************************************)
(* Proofs about ExactSubmit, for any requests, polls and transactions.     *)
(*                                                                         *)
(* TypeOK, OneIntentOnePost and AckedNotUncertain are not inductive: each  *)
(* rests on what the requests and polls under way hold of the rows they    *)
(* read.  Coherent says it: Rows of the saved rows, CallFits of one        *)
(* request, OneOwner of all, PollFits of one poll.  One lemma per action   *)
(* shows it is kept.                                                       *)
(***************************************************************************)
EXTENDS ExactSubmit, TLAPS

\* A request that saved its intent and has not returned.
Owns(k) == k.pc \in {"post", "merge", "save"}

Rows ==
    /\ \A t \in Txids : Known(t) <=> t = job.txid
    /\ \A t \in Txids : Known(t) => TxidOf[tx[t].raw] = t
    /\ job.status = "awaiting_authorization" <=> job.txid = None
    /\ posts # <<>> => job.txid # None /\ posts = <<tx[job.txid].raw>>

CallFits(k) ==
    /\ k.pc # "idle" => k.raw \in Raws
    /\ k.pc \in {"check", "intend"} => job.txid = None
    /\ Owns(k) => job.txid # None /\ k.raw = tx[job.txid].raw
    /\ k.pc = "post" => posts = <<>>
    /\ k.ack => posts # <<>> /\ k.pc \in {"merge", "save"}

OneOwner == \A c, d \in Calls : Owns(call[c]) /\ Owns(call[d]) => c = d

PollFits(k) ==
    /\ k.pc # "idle" => job.txid # None
    /\ k.pc = "observe" /\ ~k.txStale => k.intent = tx[job.txid]
    /\ k.pc = "save" /\ SavesTx(k) => k.intent = tx[job.txid]

Coherent ==
    /\ TypeOK
    /\ Rows
    /\ \A c \in Calls : CallFits(call[c])
    /\ OneOwner
    /\ \A p \in Polls : PollFits(poll[p])
    /\ AckedNotUncertain

(***************************************************************************)
(* The intent's row, and what a save does to the requests and polls that   *)
(* read the row it writes.                                                 *)
(***************************************************************************)
\* Once the job names a txid, that TX# row holds an intent.
LEMMA TheIntent ==
    ASSUME Coherent, job.txid # None
    PROVE  /\ job.txid \in Txids
           /\ tx[job.txid] \in Intent
           /\ tx[job.txid].raw \in Raws
           /\ TxidOf[tx[job.txid].raw] = job.txid
BY SubmitAssumption DEF Coherent, TypeOK, Rows, Known, Job, Intent, NoIntent

\* Idle records are records.
LEMMA IdleRecords == IdleCall \in Call /\ IdlePoll \in Poll
<1>1. IdleCall \in Call
  <2>1. 0 \in 0..MaxMerge
    BY SubmitAssumption
  <2> QED BY <2>1 DEF IdleCall, Call
<1>2. IdlePoll \in Poll
  <2>1. NoIntent \in Intent \cup {NoIntent} /\ "nobody" \in Views
    BY DEF Views
  <2> QED BY <2>1 DEF IdlePoll, Poll
<1> QED BY <1>1, <1>2

LEMMA IdleFits == PollFits(IdlePoll) /\ PollFits(IdlePoll)' /\ IdlePoll.pc = "idle"
BY DEF PollFits, IdlePoll

\* What a save of the job row, of the TX# row, or of both does to a request.
LEMMA Interrupted ==
    ASSUME NEW k \in Call
    PROVE  /\ Overtaken(k) \in {k, IdleCall}
           /\ MergeStale(k) \in {k, [k EXCEPT !.stale = TRUE]}
           /\ Overtaken(MergeStale(k)) \in {k, IdleCall, [k EXCEPT !.stale = TRUE]}
           /\ [k EXCEPT !.stale = TRUE] \in Call
BY DEF Call, Overtaken, MergeStale

\* An overtaken poll of the job still fits, whatever the save did to its status.
LEMMA JobStaleFits ==
    ASSUME NEW k \in Poll, NEW m, m = JobStale(k), PollFits(k), job'.txid = job.txid,
           job.txid # None => tx'[job.txid] = tx[job.txid]
    PROVE  m \in Poll /\ PollFits(m)'
<1>1. m \in {k, IdlePoll, [k EXCEPT !.jobStale = TRUE]}
  BY DEF JobStale
<1>2. m \in Poll
  BY <1>1, IdleRecords DEF Poll
<1>3. CASE m = IdlePoll
  BY <1>2, <1>3 DEF PollFits, IdlePoll
<1>4. CASE m = k \/ m = [k EXCEPT !.jobStale = TRUE]
  <2>1. /\ m.pc = k.pc /\ m.txStale = k.txStale /\ m.intent = k.intent
        /\ SavesTx(m) <=> SavesTx(k)
    BY <1>4 DEF Poll, SavesTx
  <2> QED BY <1>2, <2>1 DEF PollFits, SavesTx
<1> QED BY <1>1, <1>2, <1>3, <1>4

\* A poll whose TX# row was saved fits, whatever the save wrote.
LEMMA TxStaleFits ==
    ASSUME NEW k \in Poll, NEW m, m = TxStale(k), PollFits(k), job'.txid = job.txid
    PROVE  m \in Poll /\ PollFits(m)'
<1>1. CASE k.pc = "save" /\ SavesTx(k)
  BY <1>1, IdleRecords, IdleFits DEF TxStale, PollFits
<1>2. CASE k.pc = "observe"
  BY <1>2 DEF TxStale, PollFits, Poll
<1>3. CASE k.pc # "observe" /\ ~(k.pc = "save" /\ SavesTx(k))
  BY <1>3 DEF TxStale, PollFits, SavesTx
<1> QED BY <1>1, <1>2, <1>3

\* The same for the operator's receipt, which saves both rows.
LEMMA BothStaleFits ==
    ASSUME NEW k \in Poll, NEW m, m = JobStale(TxStale(k)), PollFits(k), job'.txid = job.txid
    PROVE  m \in Poll /\ PollFits(m)'
<1>1. PICK n : n = TxStale(k)
  OBVIOUS
<1>2. n \in Poll /\ PollFits(n)' /\ m = JobStale(n)
  BY <1>1, TxStaleFits
<1>3. m \in {n, IdlePoll, [n EXCEPT !.jobStale = TRUE]}
  BY <1>2 DEF JobStale
<1>4. m \in Poll
  BY <1>2, <1>3, IdleRecords DEF Poll
<1>5. CASE m = IdlePoll
  BY <1>4, <1>5 DEF PollFits, IdlePoll
<1>6. CASE m = n \/ m = [n EXCEPT !.jobStale = TRUE]
  <2>1. /\ m.pc = n.pc /\ m.txStale = n.txStale /\ m.intent = n.intent
        /\ SavesTx(m) <=> SavesTx(n)
    BY <1>2, <1>6 DEF Poll, SavesTx
  <2> QED BY <1>2, <1>4, <2>1 DEF PollFits, SavesTx
<1> QED BY <1>3, <1>4, <1>5, <1>6

(***************************************************************************)
(* Steps of one kind keep Coherent.                                        *)
(***************************************************************************)
\* A step of one request that saves nothing.
LEMMA RequestStep ==
    ASSUME Coherent, NEW c \in Calls, NEW k \in Call,
           call' = [call EXCEPT ![c] = k], UNCHANGED <<job, tx, vault, posts, poll>>,
           CallFits(k), Owns(k) => Owns(call[c])
    PROVE  Coherent'
<1>1. TypeOK' /\ \A d \in Calls : call'[d] = IF d = c THEN k ELSE call[d]
  BY DEF Coherent, TypeOK
<1>2. Rows' /\ AckedNotUncertain' /\ \A p \in Polls : PollFits(poll[p])'
  BY DEF Coherent, Rows, AckedNotUncertain, PollFits, Known
<1>3. (\A d \in Calls : CallFits(call[d])') /\ OneOwner'
  BY <1>1 DEF Coherent, CallFits, OneOwner
<1> QED BY <1>1, <1>2, <1>3 DEF Coherent

\* A step of one poll that saves nothing.
LEMMA PollStep ==
    ASSUME Coherent, NEW p \in Polls, NEW k \in Poll,
           poll' = [poll EXCEPT ![p] = k], UNCHANGED <<job, tx, vault, posts, call>>,
           PollFits(k)
    PROVE  Coherent'
<1>1. TypeOK' /\ \A q \in Polls : poll'[q] = IF q = p THEN k ELSE poll[q]
  BY DEF Coherent, TypeOK
<1>2. Rows' /\ AckedNotUncertain' /\ OneOwner' /\ \A c \in Calls : CallFits(call[c])'
  BY DEF Coherent, Rows, AckedNotUncertain, OneOwner, CallFits, Known
<1>3. \A q \in Polls : PollFits(poll[q])'
  BY <1>1 DEF Coherent, PollFits
<1> QED BY <1>1, <1>2, <1>3 DEF Coherent

\* A save of the rows of a withdrawal that has its intent, or of none: the intent's bytes
\* stay, requests are interrupted, and polls fit what was saved.
LEMMA SaveStep ==
    ASSUME Coherent, job' \in Job, job'.txid = job.txid,
           job'.status = "awaiting_authorization" <=> job.txid = None,
           vault' \in {"confirmed", "spent"}, posts' = posts,
           DOMAIN tx' = Txids, tx' = [t \in Txids |-> tx'[t]],
           \A t \in Txids : t # job.txid => tx'[t] = tx[t],
           job.txid # None =>
              /\ tx'[job.txid] \in Intent
              /\ tx'[job.txid].raw = tx[job.txid].raw
              /\ tx'[job.txid].ack => posts # <<>> /\ tx'[job.txid].status # "uncertain",
           call' = [c \in Calls |-> call'[c]],
           \A c \in Calls : call'[c] \in {call[c], IdleCall, [call[c] EXCEPT !.stale = TRUE]},
           poll' \in [Polls -> Poll],
           \A p \in Polls : PollFits(poll[p])'
    PROVE  Coherent'
<1>1. \A t \in Txids : tx'[t] \in Intent \cup {NoIntent}
  <2> TAKE t \in Txids
  <2>1. tx[t] \in Intent \cup {NoIntent} /\ t # None
    BY SubmitAssumption DEF Coherent, TypeOK
  <2> QED BY <2>1
<1>2. \A c \in Calls : call'[c] \in Call
  <2> TAKE c \in Calls
  <2>1. call[c] \in Call
    BY DEF Coherent, TypeOK
  <2> QED BY <2>1, IdleRecords, Interrupted
<1>3. TypeOK'
  BY <1>1, <1>2 DEF Coherent, TypeOK
<1>4. Rows'
  <2>1. ASSUME NEW t \in Txids
        PROVE  /\ Known(t)' <=> t = job'.txid
               /\ Known(t)' => TxidOf[tx'[t].raw] = t
    <3>1. CASE t = job.txid
      <4>1. job.txid # None
        BY <3>1, SubmitAssumption
      <4>2. tx'[t].status # "none"
        BY <3>1, <4>1 DEF Intent
      <4> QED BY <3>1, <4>1, <4>2, TheIntent DEF Known
    <3>2. CASE t # job.txid
      BY <3>2 DEF Coherent, Rows, Known
    <3> QED BY <3>1, <3>2
  <2> QED BY <2>1 DEF Coherent, Rows
<1>5. \A c \in Calls : CallFits(call[c])' /\ (Owns(call'[c]) => Owns(call[c]))
  <2> TAKE c \in Calls
  <2>1. CallFits(call[c]) /\ call[c] \in Call
    BY DEF Coherent, TypeOK
  <2>2. CASE call'[c] = IdleCall
    BY <2>2 DEF CallFits, Owns, IdleCall
  <2>3. CASE call'[c] = call[c] \/ call'[c] = [call[c] EXCEPT !.stale = TRUE]
    <3>1. /\ call'[c].pc = call[c].pc /\ call'[c].raw = call[c].raw
          /\ call'[c].ack = call[c].ack
      BY <2>1, <2>3 DEF Call
    <3> QED BY <2>1, <3>1 DEF CallFits, Owns
  <2> QED BY <2>2, <2>3
<1>6. OneOwner'
  BY <1>5 DEF Coherent, OneOwner
<1>7. AckedNotUncertain'
  <2> SUFFICES ASSUME NEW t \in Txids, tx'[t].ack
               PROVE  posts' # <<>> /\ tx'[t].status # "uncertain"
    BY DEF AckedNotUncertain
  <2>1. CASE t = job.txid
    BY <2>1, SubmitAssumption
  <2>2. CASE t # job.txid
    BY <2>2 DEF Coherent, AckedNotUncertain
  <2> QED BY <2>1, <2>2
<1> QED BY <1>3, <1>4, <1>5, <1>6, <1>7 DEF Coherent

(***************************************************************************)
(* One lemma per action.                                                   *)
(***************************************************************************)
LEMMA BeginCoherent ==
    ASSUME Coherent, NEW c \in Calls, NEW raw \in Raws, Begin(c, raw)
    PROVE  Coherent'
<1> DEFINE k == [IdleCall EXCEPT !.pc = "check", !.raw = raw]
<1>1. k \in Call
  BY IdleRecords DEF Call
<1>2. CallFits(k) /\ ~Owns(k)
  BY DEF CallFits, Owns, IdleCall, Begin
<1>3. call' = [call EXCEPT ![c] = k] /\ UNCHANGED <<job, tx, vault, posts, poll>>
  BY DEF Begin
<1> HIDE DEF k
<1> QED BY <1>1, <1>2, <1>3, RequestStep

LEMMA CheckCoherent ==
    ASSUME Coherent, NEW c \in Calls, Check(c)
    PROVE  Coherent'
<1> DEFINE k == [call[c] EXCEPT !.pc = "intend"]
<1>1. call[c] \in Call /\ CallFits(call[c]) /\ call[c].pc = "check"
  BY DEF Coherent, TypeOK, Check
<1>2. k \in Call /\ CallFits(k) /\ ~Owns(k)
  BY <1>1 DEF Call, CallFits, Owns
<1>3. call' = [call EXCEPT ![c] = k] /\ UNCHANGED <<job, tx, vault, posts, poll>>
  BY DEF Check, Coherent, TypeOK
<1> HIDE DEF k
<1> QED BY <1>2, <1>3, RequestStep

\* A request that ends, whether it is refused or dies, and saves nothing.
LEMMA EndsCoherent ==
    ASSUME Coherent, NEW c \in Calls, call' = Idle(c), UNCHANGED <<job, tx, vault, posts, poll>>
    PROVE  Coherent'
<1>1. CallFits(IdleCall) /\ ~Owns(IdleCall)
  BY DEF CallFits, Owns, IdleCall
<1> QED BY <1>1, IdleRecords, RequestStep DEF Idle

LEMMA IntendCoherent ==
    ASSUME Coherent, NEW c \in Calls, Intend(c)
    PROVE  Coherent'
<1> DEFINE raw == call[c].raw
           t == TxidOf[raw]
           k == [call[c] EXCEPT !.pc = "post"]
<1>1. /\ call[c] \in Call /\ CallFits(call[c]) /\ call[c].pc = "intend"
      /\ job.txid = None /\ raw \in Raws /\ t \in Txids /\ t # None
      /\ posts = <<>> /\ ~call[c].ack
  BY SubmitAssumption DEF Coherent, TypeOK, Intend, CallFits, Rows
<1>2. /\ job' = [status |-> "submitted", txid |-> t]
      /\ tx' = [tx EXCEPT ![t] = [raw |-> raw, status |-> "uncertain", ack |-> FALSE]]
      /\ call' = [OvertakenCalls EXCEPT ![c] = k]
      /\ poll' = JobStalePolls
      /\ UNCHANGED <<vault, posts>>
  BY <1>1 DEF Intend, Coherent, TypeOK
<1>3. [raw |-> raw, status |-> "uncertain", ack |-> FALSE] \in Intent
  BY <1>1 DEF Intent
<1>4. k \in Call /\ k.pc = "post" /\ k.raw = raw /\ ~k.ack
  BY <1>1 DEF Call
<1>5. \A d \in Calls : d # c => call'[d] = Overtaken(call[d])
  BY <1>2 DEF OvertakenCalls
<1>6. call'[c] = k /\ call' = [d \in Calls |-> call'[d]]
  BY <1>2 DEF OvertakenCalls
<1>7. \A d \in Calls : ~Owns(call[d])
  BY <1>1 DEF Coherent, CallFits
<1>8. ASSUME NEW d \in Calls, d # c
      PROVE  call'[d] \in Call /\ ~Owns(call'[d]) /\ CallFits(call[d])'
  <2>1. call[d] \in Call /\ CallFits(call[d]) /\ ~Owns(call[d])
    BY <1>7 DEF Coherent, TypeOK
  <2>2. call'[d].pc = "idle" /\ call'[d] \in Call /\ ~call'[d].ack
    <3>1. CASE call[d].pc \in {"check", "intend"}
      BY <3>1, <1>5, <1>8, IdleRecords DEF Overtaken, IdleCall
    <3>2. CASE call[d].pc \notin {"check", "intend"}
      BY <3>2, <2>1, <1>5, <1>8 DEF Overtaken, Owns, Call, CallFits
    <3> QED BY <3>1, <3>2
  <2> QED BY <2>2 DEF CallFits, Owns
<1>9. tx'[t] = [raw |-> raw, status |-> "uncertain", ack |-> FALSE]
      /\ \A u \in Txids : u # t => tx'[u] = tx[u]
  BY <1>1, <1>2 DEF Coherent, TypeOK
<1>10. \A p \in Polls : poll[p].pc = "idle" /\ poll'[p] = poll[p]
  BY <1>1, <1>2 DEF Coherent, PollFits, JobStalePolls, JobStale
<1> HIDE DEF k, t
<1>11. TypeOK'
  <2>1. job' \in Job
    BY <1>1, <1>2 DEF Job
  <2>2. tx' \in [Txids -> Intent \cup {NoIntent}]
    BY <1>1, <1>2, <1>3 DEF Coherent, TypeOK
  <2>3. call' \in [Calls -> Call]
    BY <1>4, <1>6, <1>8
  <2>4. poll' \in [Polls -> Poll]
    BY <1>2, <1>10 DEF JobStalePolls, Coherent, TypeOK
  <2> QED BY <1>2, <2>1, <2>2, <2>3, <2>4 DEF Coherent, TypeOK
<1>12. Rows'
  <2>1. \A u \in Txids : ~Known(u)
    BY <1>1, SubmitAssumption DEF Coherent, Rows
  <2>2. \A u \in Txids : Known(u)' <=> u = t
    BY <2>1, <1>9 DEF Known
  <2>3. TxidOf[tx'[t].raw] = t
    BY <1>9 DEF t
  <2> QED BY <1>1, <1>2, <2>2, <2>3 DEF Rows
<1>13. CallFits(call[c])'
  BY <1>1, <1>2, <1>4, <1>6, <1>9 DEF CallFits, Owns
<1>14. OneOwner'
  BY <1>8 DEF OneOwner
<1>15. \A p \in Polls : PollFits(poll[p])'
  BY <1>10 DEF PollFits
<1>16. AckedNotUncertain'
  BY <1>1, <1>2, <1>9 DEF Coherent, AckedNotUncertain
<1> QED BY <1>8, <1>11, <1>12, <1>13, <1>14, <1>15, <1>16 DEF Coherent

LEMMA PostCoherent ==
    ASSUME Coherent, NEW c \in Calls, Post(c)
    PROVE  Coherent'
<1>1. PICK ack \in BOOLEAN : call' = [call EXCEPT ![c] = [@ EXCEPT !.pc = "merge", !.ack = ack]]
  BY DEF Post, Coherent, TypeOK, Call
<1> DEFINE k == [call[c] EXCEPT !.pc = "merge", !.ack = ack]
<1>2. /\ call[c] \in Call /\ CallFits(call[c]) /\ call[c].pc = "post"
      /\ posts' = Append(posts, call[c].raw) /\ UNCHANGED <<job, tx, vault, poll>>
  BY DEF Post, Coherent, TypeOK
<1>3. k \in Call /\ k.pc = "merge" /\ k.raw = call[c].raw
  BY <1>2 DEF Call
<1>4. /\ posts = <<>> /\ job.txid # None /\ call[c].raw = tx[job.txid].raw /\ call[c].raw \in Raws
      /\ posts' = <<call[c].raw>>
  BY <1>2 DEF CallFits, Owns
<1>5. posts' \in Seq(Raws) /\ posts' # <<>>
  BY <1>4
<1>6. call'[c] = k /\ \A d \in Calls : d # c => call'[d] = call[d]
  BY <1>1 DEF Coherent, TypeOK
<1> HIDE DEF k
<1>7. TypeOK'
  BY <1>1, <1>2, <1>3, <1>5, <1>6 DEF Coherent, TypeOK
<1>8. Rows'
  BY <1>2, <1>4 DEF Coherent, Rows, Known
<1>9. \A d \in Calls : CallFits(call[d])'
  <2>1. CallFits(call[c])'
    BY <1>2, <1>3, <1>4, <1>5, <1>6 DEF CallFits, Owns
  <2>2. ASSUME NEW d \in Calls, d # c
        PROVE  CallFits(call[d])'
    <3>1. CallFits(call[d]) /\ ~Owns(call[d])
      BY <1>2, <2>2 DEF Coherent, OneOwner, Owns
    <3> QED BY <1>2, <1>5, <1>6, <2>2, <3>1 DEF CallFits, Owns
  <2> QED BY <2>1, <2>2
<1>10. OneOwner'
  BY <1>2, <1>3, <1>6 DEF Coherent, OneOwner, Owns
<1>11. (\A p \in Polls : PollFits(poll[p])') /\ AckedNotUncertain'
  BY <1>2, <1>5 DEF Coherent, PollFits, AckedNotUncertain
<1> QED BY <1>7, <1>8, <1>9, <1>10, <1>11 DEF Coherent

LEMMA PostNothingCoherent ==
    ASSUME Coherent, NEW c \in Calls, PostNothing(c)
    PROVE  Coherent'
<1> DEFINE k == [call[c] EXCEPT !.pc = "merge"]
<1>1. call[c] \in Call /\ CallFits(call[c]) /\ call[c].pc = "post"
  BY DEF Coherent, TypeOK, PostNothing
<1>2. k \in Call /\ CallFits(k) /\ Owns(call[c])
  BY <1>1 DEF Call, CallFits, Owns
<1>3. call' = [call EXCEPT ![c] = k] /\ UNCHANGED <<job, tx, vault, posts, poll>>
  BY DEF PostNothing, Coherent, TypeOK
<1> HIDE DEF k
<1> QED BY <1>2, <1>3, RequestStep

LEMMA MergeReadCoherent ==
    ASSUME Coherent, NEW c \in Calls, MergeRead(c)
    PROVE  Coherent'
<1> DEFINE k == [call[c] EXCEPT !.pc = "save", !.stale = FALSE]
<1>1. call[c] \in Call /\ CallFits(call[c]) /\ call[c].pc = "merge"
  BY DEF Coherent, TypeOK, MergeRead
<1>2. k \in Call /\ CallFits(k) /\ Owns(call[c])
  BY <1>1 DEF Call, CallFits, Owns
<1>3. call' = [call EXCEPT ![c] = k] /\ UNCHANGED <<job, tx, vault, posts, poll>>
  BY DEF MergeRead, Coherent, TypeOK, Call
<1> HIDE DEF k
<1> QED BY <1>2, <1>3, RequestStep

LEMMA MergeConflictCoherent ==
    ASSUME Coherent, NEW c \in Calls, MergeConflict(c)
    PROVE  Coherent'
<1> DEFINE k == AfterConflict(call[c])
<1>1. call[c] \in Call /\ CallFits(call[c]) /\ call[c].pc = "save"
  BY DEF Coherent, TypeOK, MergeConflict
<1>2. k \in Call /\ CallFits(k) /\ Owns(call[c])
  <2>1. CASE call[c].tries + 1 < MaxMerge
    <3>1. k = [call[c] EXCEPT !.pc = "merge", !.tries = @ + 1]
      BY <2>1 DEF AfterConflict
    <3>2. call[c].tries + 1 \in 0..MaxMerge
      BY <1>1, <2>1, SubmitAssumption DEF Call
    <3> QED BY <1>1, <3>1, <3>2 DEF Call, CallFits, Owns
  <2>2. CASE ~(call[c].tries + 1 < MaxMerge)
    <3>1. k = IdleCall
      BY <2>2 DEF AfterConflict
    <3> QED BY <1>1, <3>1, IdleRecords DEF CallFits, Owns, IdleCall
  <2> QED BY <2>1, <2>2
<1>3. call' = [call EXCEPT ![c] = k] /\ UNCHANGED <<job, tx, vault, posts, poll>>
  BY DEF MergeConflict, Coherent, TypeOK
<1> HIDE DEF k
<1> QED BY <1>2, <1>3, RequestStep

\* The merge of the POST's outcome: an acknowledgement is one of bytes that were sent.
LEMMA MergeSaveCoherent ==
    ASSUME Coherent, NEW c \in Calls, MergeSave(c)
    PROVE  Coherent'
<1> DEFINE t == job.txid
           row == Merged(tx[t], call[c].ack)
<1>1. /\ call[c] \in Call /\ CallFits(call[c]) /\ call[c].pc = "save"
      /\ t \in Txids /\ t # None /\ tx[t] \in Intent /\ TxidOf[call[c].raw] = t
  BY TheIntent DEF Coherent, TypeOK, MergeSave, CallFits, Owns
<1>2. tx' = [tx EXCEPT ![t] = row] /\ poll' = TxStalePolls /\ UNCHANGED <<job, vault, posts>>
  BY <1>1 DEF MergeSave, Coherent, TypeOK
<1>3. /\ row \in Intent /\ row.raw = tx[t].raw
      /\ row.ack => posts # <<>> /\ row.status # "uncertain"
  <2>1. /\ row \in Intent /\ row.raw = tx[t].raw /\ (row.ack => tx[t].ack \/ call[c].ack)
        /\ row.ack /\ ~call[c].ack => row.status = tx[t].status
        /\ call[c].ack => row.status # "uncertain"
    BY <1>1 DEF Merged, Intent, Call
  <2>2. tx[t].ack => posts # <<>> /\ tx[t].status # "uncertain"
    BY <1>1 DEF Coherent, AckedNotUncertain
  <2>3. call[c].ack => posts # <<>>
    BY <1>1 DEF CallFits
  <2> QED BY <2>1, <2>2, <2>3
<1>4. \A d \in Calls : call'[d] \in {call[d], IdleCall, [call[d] EXCEPT !.stale = TRUE]}
  BY DEF MergeSave, MergeStaleCalls, MergeStale
<1>5. call' = [d \in Calls |-> call'[d]]
  BY DEF MergeSave, MergeStaleCalls
<1>6. poll' \in [Polls -> Poll] /\ \A p \in Polls : PollFits(poll[p])'
  BY <1>2, TxStaleFits DEF TxStalePolls, Coherent, TypeOK
<1> HIDE DEF row
<1>7. DOMAIN tx' = Txids /\ tx' = [u \in Txids |-> tx'[u]] /\ tx'[t] = row
      /\ \A u \in Txids : u # t => tx'[u] = tx[u]
  BY <1>1, <1>2 DEF Coherent, TypeOK
<1> QED BY <1>1, <1>2, <1>3, <1>4, <1>5, <1>6, <1>7, SaveStep DEF Coherent, TypeOK, Rows

(***************************************************************************)
(* The observers.                                                          *)
(***************************************************************************)
LEMMA PollJobCoherent ==
    ASSUME Coherent, NEW p \in Polls, NEW by \in {"job", "operator"}, PollJob(p, by)
    PROVE  Coherent'
<1> DEFINE k == [IdlePoll EXCEPT !.pc = "intent", !.by = by,
                                 !.was = IF by = "job" THEN job.status ELSE @]
<1>1. job.status \in {"submitted", "confirmed"}
  BY DEF PollJob, Coherent, Rows, TypeOK, Job
<1>2. IdlePoll \in Poll /\ IdlePoll.was = "submitted" /\ k.pc = "intent"
  BY IdleRecords DEF IdlePoll
<1>3. k \in Poll
  BY <1>1, <1>2 DEF Poll
<1>4. PollFits(k)
  BY <1>2 DEF PollFits, PollJob
<1>5. poll' = [poll EXCEPT ![p] = k] /\ UNCHANGED <<job, tx, vault, posts, call>>
  BY DEF PollJob
<1> HIDE DEF k
<1> QED BY <1>3, <1>4, <1>5, PollStep

LEMMA PollIntentCoherent ==
    ASSUME Coherent, NEW p \in Polls, PollIntent(p)
    PROVE  Coherent'
<1>1. poll[p] \in Poll /\ PollFits(poll[p]) /\ job.txid # None
  BY DEF Coherent, TypeOK, PollIntent, PollFits
<1>2. PICK k : /\ k \in {[poll[p] EXCEPT !.pc = "observe", !.intent = tx[job.txid]],
                         [IdlePoll EXCEPT !.pc = "observe", !.by = "transaction",
                                          !.intent = tx[job.txid]]}
               /\ poll' = [poll EXCEPT ![p] = k]
  BY <1>1 DEF PollIntent, Coherent, TypeOK, Poll
<1>3. k \in Poll /\ k.pc = "observe" /\ k.intent = tx[job.txid]
  BY <1>1, <1>2, IdleRecords, TheIntent DEF Poll
<1>4. PollFits(k)
  BY <1>1, <1>3 DEF PollFits
<1>5. UNCHANGED <<job, tx, vault, posts, call>>
  BY DEF PollIntent
<1> QED BY <1>2, <1>3, <1>4, <1>5, PollStep

LEMMA PollChainCoherent ==
    ASSUME Coherent, NEW p \in Polls, PollChain(p)
    PROVE  Coherent'
<1>1. poll[p] \in Poll /\ PollFits(poll[p]) /\ poll[p].pc = "observe"
  BY DEF Coherent, TypeOK, PollChain
<1>2. PICK view \in Views : LET k == Answered(poll[p], view)
                            IN  poll' = [poll EXCEPT ![p] =
                IF (k.txStale /\ SavesTx(k)) \/ (k.jobStale /\ SavesJob(k)) THEN IdlePoll
                ELSE IF SavesTx(k) THEN k
                ELSE [k EXCEPT !.txStale = FALSE, !.intent = NoIntent]]
  BY DEF PollChain
<1> DEFINE k == Answered(poll[p], view)
           m == IF (k.txStale /\ SavesTx(k)) \/ (k.jobStale /\ SavesJob(k)) THEN IdlePoll
                ELSE IF SavesTx(k) THEN k
                ELSE [k EXCEPT !.txStale = FALSE, !.intent = NoIntent]
<1>3. /\ k \in Poll /\ k.pc = "save" /\ k.by = poll[p].by /\ k.view = view
      /\ k.txStale = poll[p].txStale /\ k.intent = poll[p].intent
  BY <1>1 DEF Answered, Poll
<1> HIDE DEF k
<1>4. m \in Poll /\ PollFits(m)
  <2>1. CASE (k.txStale /\ SavesTx(k)) \/ (k.jobStale /\ SavesJob(k))
    <3>1. m = IdlePoll
      BY <2>1
    <3> QED BY <3>1, IdleRecords, IdleFits
  <2>2. CASE ~((k.txStale /\ SavesTx(k)) \/ (k.jobStale /\ SavesJob(k))) /\ SavesTx(k)
    <3>1. m = k
      BY <2>2
    <3> QED BY <1>1, <1>3, <2>2, <3>1 DEF PollFits
  <2>3. CASE ~((k.txStale /\ SavesTx(k)) \/ (k.jobStale /\ SavesJob(k))) /\ ~SavesTx(k)
    <3>1. m = [k EXCEPT !.txStale = FALSE, !.intent = NoIntent]
      BY <2>3
    <3>2. m \in Poll /\ m.pc = "save" /\ ~SavesTx(m)
      BY <1>3, <2>3, <3>1 DEF Poll, SavesTx
    <3> QED BY <1>1, <3>2 DEF PollFits
  <2> QED BY <2>1, <2>2, <2>3
<1>5. poll' = [poll EXCEPT ![p] = m]
  BY <1>2 DEF k
<1>6. UNCHANGED <<job, tx, vault, posts, call>>
  BY DEF PollChain
<1> HIDE DEF m
<1> QED BY <1>4, <1>5, <1>6, PollStep

LEMMA PollDiesCoherent ==
    ASSUME Coherent, NEW p \in Polls, PollDies(p)
    PROVE  Coherent'
BY IdleRecords, IdleFits, PollStep DEF PollDies

\* What a poll may save in the TX# row: the intent it read, which is still the one
\* recorded, with a verdict that an acknowledgement rules "uncertain" out of.
LEMMA SavedRow ==
    ASSUME Coherent, NEW p \in Polls, poll[p].pc = "save", SavesTx(poll[p]), SaveTx(p)
    PROVE  /\ job.txid # None
           /\ DOMAIN tx' = Txids /\ tx' = [t \in Txids |-> tx'[t]]
           /\ \A t \in Txids : t # job.txid => tx'[t] = tx[t]
           /\ tx'[job.txid] \in Intent
           /\ tx'[job.txid].raw = tx[job.txid].raw
           /\ tx'[job.txid].ack = tx[job.txid].ack
           /\ tx'[job.txid].ack => posts # <<>> /\ tx'[job.txid].status # "uncertain"
<1>1. poll[p] \in Poll /\ job.txid # None /\ poll[p].intent = tx[job.txid]
  BY DEF Coherent, TypeOK, PollFits
<1>2. /\ job.txid \in Txids /\ tx[job.txid] \in Intent
      /\ tx[job.txid].ack => posts # <<>> /\ tx[job.txid].status # "uncertain"
  BY <1>1, TheIntent DEF Coherent, AckedNotUncertain
<1>3. tx \in [Txids -> Intent \cup {NoIntent}]
  BY DEF Coherent, TypeOK
<1>4. CASE poll[p].view = "unavailable"
  BY <1>1, <1>2, <1>3, <1>4 DEF SaveTx
<1>5. CASE poll[p].view # "unavailable"
  <2> DEFINE row == [tx[job.txid] EXCEPT !.status = Observed(poll[p])]
  <2>1. tx' = [tx EXCEPT ![job.txid] = row]
    BY <1>1, <1>5 DEF SaveTx
  <2>2. /\ Observed(poll[p]) \in {"uncertain", "submitted", "conflict", "confirmed"}
        /\ tx[job.txid].ack => Observed(poll[p]) # "uncertain"
    BY <1>1, <1>5 DEF Observed, Poll, Views
  <2>3. /\ row \in Intent /\ row.raw = tx[job.txid].raw /\ row.ack = tx[job.txid].ack
        /\ row.status = Observed(poll[p])
    BY <1>2, <2>2 DEF Intent
  <2> HIDE DEF row
  <2> QED BY <1>1, <1>2, <1>3, <2>1, <2>2, <2>3
<1> QED BY <1>4, <1>5

\* A save of the TX# row alone.
LEMMA TxSaveCoherent ==
    ASSUME Coherent, NEW p \in Polls, NEW k \in Poll, PollFits(k),
           k.pc \in {"idle", "downgrade"},
           poll[p].pc = "save", SavesTx(poll[p]), SaveTx(p),
           call' = MergeStaleCalls, poll' = [TxStalePolls EXCEPT ![p] = k],
           UNCHANGED <<job, vault, posts>>
    PROVE  Coherent'
<1>1. \A d \in Calls : call'[d] \in {call[d], IdleCall, [call[d] EXCEPT !.stale = TRUE]}
  BY DEF MergeStaleCalls, MergeStale
<1>2. call' = [d \in Calls |-> call'[d]]
  BY DEF MergeStaleCalls
<1>3. ASSUME NEW q \in Polls, NEW m, m = TxStale(poll[q])
      PROVE  m \in Poll /\ PollFits(m)'
  <2>1. PICK o : o = poll[q]
    OBVIOUS
  <2>2. o \in Poll /\ PollFits(o)
    BY <2>1 DEF Coherent, TypeOK, PollFits
  <2> QED BY <1>3, <2>1, <2>2, TxStaleFits
<1>4. PollFits(k)'
  <2>1. CASE k.pc = "idle"
    BY <2>1 DEF PollFits
  <2>2. CASE k.pc = "downgrade"
    BY <2>2 DEF PollFits
  <2> QED BY <2>1, <2>2
<1>5. poll' \in [Polls -> Poll] /\ \A q \in Polls : PollFits(poll[q])'
  <2>1. /\ poll' = [q \in Polls |-> IF q = p THEN k ELSE TxStale(poll[q])]
        /\ \A q \in Polls : poll'[q] = IF q = p THEN k ELSE TxStale(poll[q])
    BY DEF TxStalePolls
  <2>2. ASSUME NEW q \in Polls PROVE poll'[q] \in Poll /\ PollFits(poll[q])'
    <3>1. PICK m : m = poll'[q]
      OBVIOUS
    <3>2. m \in Poll /\ PollFits(m)'
      BY <1>3, <1>4, <2>1, <3>1 DEF PollFits
    <3> QED BY <3>1, <3>2 DEF PollFits
  <2> QED BY <2>1, <2>2
<1> QED BY <1>1, <1>2, <1>5, SavedRow, SaveStep DEF Coherent, TypeOK, Rows

LEMMA SaveTransactionCoherent ==
    ASSUME Coherent, NEW p \in Polls, SaveTransaction(p)
    PROVE  Coherent'
BY IdleRecords, IdleFits, TxSaveCoherent DEF SaveTransaction, SavesTx

LEMMA SaveUnconfirmedCoherent ==
    ASSUME Coherent, NEW p \in Polls, SaveUnconfirmed(p)
    PROVE  Coherent'
<1>1. job.txid # None
  BY DEF Coherent, PollFits, SaveUnconfirmed
<1> DEFINE k == IF /\ poll[p].was = "confirmed" /\ poll[p].view # "unavailable"
                   /\ ~poll[p].jobStale
                THEN [IdlePoll EXCEPT !.pc = "downgrade"] ELSE IdlePoll
<1>2. k \in Poll /\ PollFits(k) /\ k.pc \in {"idle", "downgrade"}
  BY <1>1, IdleRecords DEF IdlePoll, Poll, PollFits
<1> QED BY <1>2, TxSaveCoherent DEF SaveUnconfirmed, SavesTx

LEMMA SaveCheckedCoherent ==
    ASSUME Coherent, NEW p \in Polls, SaveChecked(p)
    PROVE  Coherent'
BY IdleRecords, IdleFits, TxSaveCoherent DEF SaveChecked, SavesTx

\* A save of the job row, its txid kept, or of nothing but its version.
LEMMA JobSaveCoherent ==
    ASSUME Coherent, job' \in Job, job'.txid = job.txid,
           job'.status = "awaiting_authorization" <=> job.txid = None,
           vault' \in {"confirmed", "spent"}, UNCHANGED <<tx, posts>>,
           call' = OvertakenCalls,
           poll' = JobStalePolls \/ \E p \in Polls : poll' = [JobStalePolls EXCEPT ![p] = IdlePoll]
    PROVE  Coherent'
<1>1. \A d \in Calls : call'[d] \in {call[d], IdleCall, [call[d] EXCEPT !.stale = TRUE]}
  BY DEF OvertakenCalls, Overtaken
<1>2. call' = [d \in Calls |-> call'[d]]
  BY DEF OvertakenCalls
<1>3. ASSUME NEW q \in Polls, NEW m, m = JobStale(poll[q])
      PROVE  m \in Poll /\ PollFits(m)'
  <2>1. PICK o : o = poll[q]
    OBVIOUS
  <2>2. o \in Poll /\ PollFits(o)
    BY <2>1 DEF Coherent, TypeOK, PollFits
  <2> QED BY <1>3, <2>1, <2>2, JobStaleFits
<1>4. poll' \in [Polls -> Poll] /\ \A q \in Polls : PollFits(poll[q])'
  <2>1. /\ poll' = [q \in Polls |-> poll'[q]]
        /\ \A q \in Polls : poll'[q] \in {JobStale(poll[q]), IdlePoll}
    BY DEF JobStalePolls
  <2>2. ASSUME NEW q \in Polls PROVE poll'[q] \in Poll /\ PollFits(poll[q])'
    <3>1. PICK m : m = poll'[q]
      OBVIOUS
    <3>2. CASE m = JobStale(poll[q])
      BY <1>3, <3>1, <3>2 DEF PollFits
    <3>3. CASE m = IdlePoll
      BY <3>1, <3>3, IdleRecords, IdleFits DEF PollFits
    <3> QED BY <2>1, <3>1, <3>2, <3>3
  <2> QED BY <2>1, <2>2
<1>5. job.txid # None =>
        /\ tx[job.txid] \in Intent
        /\ tx[job.txid].ack => posts # <<>> /\ tx[job.txid].status # "uncertain"
  BY TheIntent DEF Coherent, AckedNotUncertain
<1>6. DOMAIN tx = Txids /\ tx = [t \in Txids |-> tx[t]]
  BY DEF Coherent, TypeOK
<1> QED BY <1>1, <1>2, <1>4, <1>5, <1>6, SaveStep

LEMMA SaveDowngradeCoherent ==
    ASSUME Coherent, NEW p \in Polls, SaveDowngrade(p)
    PROVE  Coherent'
<1>1. job.txid # None /\ job \in Job /\ vault \in {"confirmed", "spent"}
  BY DEF Coherent, TypeOK, PollFits, SaveDowngrade
<1>2. job' \in Job /\ job'.txid = job.txid /\ job'.status = "submitted"
  BY <1>1 DEF SaveDowngrade, Job
<1> QED BY <1>1, <1>2, JobSaveCoherent DEF SaveDowngrade

LEMMA SaveConfirmedCoherent ==
    ASSUME Coherent, NEW p \in Polls, SaveConfirmed(p)
    PROVE  Coherent'
<1>1. job.txid # None /\ job \in Job
  BY DEF Coherent, TypeOK, PollFits, SaveConfirmed
<1>2. job' \in Job /\ job'.txid = job.txid /\ job'.status = "confirmed"
  BY <1>1 DEF SaveConfirmed, Job
<1> QED BY <1>1, <1>2, JobSaveCoherent DEF SaveConfirmed

LEMMA TouchedCoherent ==
    ASSUME Coherent, Touched
    PROVE  Coherent'
BY JobSaveCoherent DEF Touched, Coherent, TypeOK, Rows

LEMMA SaveReceiptCoherent ==
    ASSUME Coherent, NEW p \in Polls, SaveReceipt(p)
    PROVE  Coherent'
<1>1. SavesTx(poll[p]) /\ poll[p].pc = "save" /\ SaveTx(p) /\ UNCHANGED <<vault, posts>>
  BY DEF SaveReceipt, SavesTx
<1>2. job.txid # None /\ job \in Job
  BY <1>1, SavedRow DEF Coherent, TypeOK
<1>3. /\ job' \in Job /\ job'.txid = job.txid
      /\ job'.status # "awaiting_authorization"
  BY <1>2 DEF SaveReceipt, Job
<1>4. \A d \in Calls : call'[d] \in {call[d], IdleCall, [call[d] EXCEPT !.stale = TRUE]}
  BY Interrupted DEF SaveReceipt, Coherent, TypeOK
<1>5. call' = [d \in Calls |-> call'[d]]
  BY DEF SaveReceipt
<1>6. ASSUME NEW q \in Polls, NEW m, m = JobStale(TxStale(poll[q]))
      PROVE  m \in Poll /\ PollFits(m)'
  <2>1. PICK o : o = poll[q]
    OBVIOUS
  <2>2. o \in Poll /\ PollFits(o)
    BY <2>1 DEF Coherent, TypeOK, PollFits
  <2> QED BY <1>3, <1>6, <2>1, <2>2, BothStaleFits
<1>7. poll' \in [Polls -> Poll] /\ \A q \in Polls : PollFits(poll[q])'
  <2>1. /\ poll' = [q \in Polls |-> poll'[q]]
        /\ \A q \in Polls : poll'[q] \in {JobStale(TxStale(poll[q])), IdlePoll}
    BY DEF SaveReceipt
  <2>2. ASSUME NEW q \in Polls PROVE poll'[q] \in Poll /\ PollFits(poll[q])'
    <3>1. PICK m : m = poll'[q]
      OBVIOUS
    <3>2. CASE m = JobStale(TxStale(poll[q]))
      BY <1>6, <3>1, <3>2 DEF PollFits
    <3>3. CASE m = IdlePoll
      BY <3>1, <3>3, IdleRecords, IdleFits DEF PollFits
    <3> QED BY <2>1, <3>1, <3>2, <3>3
  <2> QED BY <2>1, <2>2
<1> QED BY <1>1, <1>2, <1>3, <1>4, <1>5, <1>7, SavedRow, SaveStep DEF Coherent, TypeOK

(***************************************************************************)
(* The invariants.                                                         *)
(***************************************************************************)
LEMMA InitCoherent == Init => Coherent
<1> SUFFICES ASSUME Init PROVE Coherent
  OBVIOUS
<1>1. TypeOK
  BY IdleRecords DEF Init, TypeOK, Job
<1>2. Rows
  BY SubmitAssumption DEF Init, Rows, Known, NoIntent
<1>3. (\A c \in Calls : CallFits(call[c])) /\ OneOwner
  BY DEF Init, CallFits, Owns, OneOwner, IdleCall
<1>4. \A p \in Polls : PollFits(poll[p])
  BY DEF Init, PollFits, IdlePoll
<1>5. AckedNotUncertain
  BY DEF Init, AckedNotUncertain, NoIntent
<1> QED BY <1>1, <1>2, <1>3, <1>4, <1>5 DEF Coherent

LEMMA StutterCoherent ==
    ASSUME Coherent, UNCHANGED vars
    PROVE  Coherent'
BY DEF Coherent, TypeOK, Rows, CallFits, Owns, OneOwner, PollFits, AckedNotUncertain,
       Known, vars

LEMMA NextCoherent ==
    ASSUME Coherent, Next
    PROVE  Coherent'
<1>1. ASSUME NEW c \in Calls, Submission(c)
      PROVE  Coherent'
  <2>1. ASSUME Refuse(c) PROVE Coherent'
    BY <2>1, EndsCoherent DEF Refuse
  <2> QED BY <1>1, <2>1, CheckCoherent, IntendCoherent, PostCoherent, PostNothingCoherent,
             MergeReadCoherent, MergeSaveCoherent, MergeConflictCoherent DEF Submission
<1>2. ASSUME NEW c \in Calls, Die(c)
      PROVE  Coherent'
  BY <1>2, EndsCoherent DEF Die
<1>3. ASSUME NEW c \in Calls, NEW raw \in Raws, Begin(c, raw)
      PROVE  Coherent'
  BY <1>3, BeginCoherent
<1>4. ASSUME NEW p \in Polls, Observation(p)
      PROVE  Coherent'
  BY <1>4, PollIntentCoherent, PollChainCoherent, SaveTransactionCoherent,
     SaveUnconfirmedCoherent, SaveDowngradeCoherent, SaveConfirmedCoherent,
     SaveCheckedCoherent, SaveReceiptCoherent, PollDiesCoherent DEF Observation
<1>5. ASSUME NEW p \in Polls, NEW by \in {"job", "operator"}, PollJob(p, by)
      PROVE  Coherent'
  BY <1>5, PollJobCoherent
<1>6. ASSUME Touched PROVE Coherent'
  BY <1>6, TouchedCoherent
<1> QED BY <1>1, <1>2, <1>3, <1>4, <1>5, <1>6 DEF Next

LEMMA AlwaysCoherent == Spec => []Coherent
<1>1. Coherent /\ [Next]_vars => Coherent'
  BY NextCoherent, StutterCoherent
<1> QED BY InitCoherent, <1>1, PTL DEF Spec

\* Rows, requests and polls always have the shapes server/model.ts and the
\* handlers of server/submit-exact.ts and server/app.ts give them.
THEOREM TypeCorrect == Spec => []TypeOK
<1>1. Coherent => TypeOK
  BY DEF Coherent
<1> QED BY AlwaysCoherent, <1>1, PTL

\* However many requests, polls and crashes there are, server/submit-exact.ts
\* POSTs at most once, and then the bytes of the one intent it saved before.
THEOREM AtMostOnePost == Spec => []OneIntentOnePost
<1>1. Coherent => OneIntentOnePost
  BY DEF Coherent, Rows, OneIntentOnePost
<1> QED BY AlwaysCoherent, <1>1, PTL

\* No merge and no poll takes back an acknowledgement that was recorded, or reports
\* an acknowledged withdrawal as uncertain (server/submit-exact.ts, withdrawal-status.ts).
THEOREM AckIsKept == Spec => []AckedNotUncertain
<1>1. Coherent => AckedNotUncertain
  BY DEF Coherent
<1> QED BY AlwaysCoherent, <1>1, PTL

(***************************************************************************)
(* What a step does to a verdict, and to the promise.                      *)
(***************************************************************************)
\* A step that saves no TX# row.
Quiet == tx' = tx /\ posts' = posts /\ job'.txid = job.txid

\* A step that saves the intent's TX# row.
Learns ==
    /\ job.txid # None /\ job'.txid = job.txid /\ posts' = posts
    /\ \A t \in Txids : t # job.txid => tx'[t] = tx[t]
    /\ tx'[job.txid].raw = tx[job.txid].raw
    /\ tx[job.txid].ack => tx'[job.txid].ack

\* A merge keeps a verdict.
KeepsVerdicts ==
    \A t \in Txids : tx[t].status \in {"confirmed", "conflict"} => tx'[t].status = tx[t].status

\* A poll saves an answer, given after it read the verdict it replaces.
Answers(p) ==
    /\ poll[p].pc = "save" /\ poll'[p].pc # "save"
    /\ tx' # tx => poll[p].view # "unavailable" /\ poll[p].intent = tx[job.txid]

LEMMA MergeLearns ==
    ASSUME Coherent, NEW c \in Calls, MergeSave(c)
    PROVE  Learns /\ KeepsVerdicts
<1>1. /\ call[c] \in Call /\ CallFits(call[c]) /\ call[c].pc = "save"
      /\ job.txid \in Txids /\ job.txid # None /\ tx[job.txid] \in Intent
      /\ TxidOf[call[c].raw] = job.txid
  BY TheIntent DEF Coherent, TypeOK, MergeSave, CallFits, Owns
<1> DEFINE row == Merged(tx[job.txid], call[c].ack)
<1>2. tx' = [tx EXCEPT ![job.txid] = row] /\ UNCHANGED <<job, posts>>
  BY <1>1 DEF MergeSave, Coherent, TypeOK
<1>3. /\ row.raw = tx[job.txid].raw /\ (tx[job.txid].ack => row.ack)
      /\ tx[job.txid].status \in {"confirmed", "conflict"} => row.status = tx[job.txid].status
  BY <1>1 DEF Merged, Intent, Call
<1>4. tx'[job.txid] = row /\ \A t \in Txids : t # job.txid => tx'[t] = tx[t]
  BY <1>1, <1>2 DEF Coherent, TypeOK
<1> HIDE DEF row
<1> QED BY <1>1, <1>2, <1>3, <1>4 DEF Learns, KeepsVerdicts

LEMMA PollLearns ==
    ASSUME Coherent, NEW p \in Polls,
           SaveTransaction(p) \/ SaveUnconfirmed(p) \/ SaveChecked(p) \/ SaveReceipt(p)
    PROVE  Learns /\ Answers(p)
<1>1. /\ SavesTx(poll[p]) /\ poll[p].pc = "save" /\ SaveTx(p) /\ posts' = posts
      /\ job'.txid = job.txid
  BY DEF SaveTransaction, SaveUnconfirmed, SaveChecked, SaveReceipt, SavesTx, Coherent, TypeOK, Job
<1>2. Learns
  BY <1>1, SavedRow DEF Learns
<1>3. poll[p].intent = tx[job.txid]
  BY <1>1 DEF Coherent, PollFits
<1>4. tx' # tx => poll[p].view # "unavailable"
  BY <1>1 DEF SaveTx
<1>5. poll'[p].pc # "save"
  BY DEF SaveTransaction, SaveUnconfirmed, SaveChecked, SaveReceipt, IdlePoll, TxStalePolls
<1> QED BY <1>1, <1>2, <1>3, <1>4, <1>5 DEF Answers

LEMMA StepKinds ==
    ASSUME Coherent, Next
    PROVE  \/ Quiet
           \/ \E c \in Calls : Intend(c)
           \/ \E c \in Calls : Post(c)
           \/ \E c \in Calls : Learns /\ KeepsVerdicts
           \/ \E p \in Polls : Learns /\ Answers(p)
<1>1. ASSUME NEW c \in Calls, Submission(c)
      PROVE  Quiet \/ Intend(c) \/ Post(c) \/ (Learns /\ KeepsVerdicts)
  BY <1>1, MergeLearns
     DEF Submission, Quiet, Check, Refuse, PostNothing, MergeRead, MergeConflict
<1>2. ASSUME NEW p \in Polls, Observation(p)
      PROVE  Quiet \/ (Learns /\ Answers(p))
  <2>1. ASSUME SaveDowngrade(p) \/ SaveConfirmed(p) PROVE Quiet
    BY <2>1 DEF SaveDowngrade, SaveConfirmed, Quiet, Coherent, TypeOK, Job
  <2> QED BY <1>2, <2>1, PollLearns DEF Observation, Quiet, PollIntent, PollChain, PollDies
<1>3. ASSUME \/ \E c \in Calls : Die(c) \/ \E raw \in Raws : Begin(c, raw)
             \/ \E p \in Polls : \E by \in {"job", "operator"} : PollJob(p, by)
             \/ Touched
      PROVE  Quiet
  BY <1>3 DEF Die, Begin, PollJob, Touched, Quiet
<1> QED BY <1>1, <1>2, <1>3 DEF Next

LEMMA StepFresh ==
    ASSUME Coherent, [Next]_vars,
           NEW t \in Txids, tx[t].status \in {"confirmed", "conflict"},
           tx'[t].status # tx[t].status
    PROVE  \E p \in Polls : /\ poll[p].pc = "save" /\ poll'[p].pc # "save"
                            /\ poll[p].view # "unavailable"
                            /\ poll[p].intent.status = tx[t].status
<1>1. tx' # tx /\ t = job.txid
  BY DEF Coherent, Rows, Known
<1>2. ASSUME NEW c \in Calls, Intend(c) PROVE FALSE
  BY <1>1, <1>2, SubmitAssumption DEF Coherent, CallFits, Intend
<1>3. ASSUME NEW c \in Calls, Post(c) PROVE FALSE
  BY <1>1, <1>3 DEF Post
<1>4. ASSUME NEW p \in Polls, Answers(p)
      PROVE  /\ poll[p].pc = "save" /\ poll'[p].pc # "save"
             /\ poll[p].view # "unavailable" /\ poll[p].intent.status = tx[t].status
  BY <1>1, <1>4 DEF Answers
<1>5. ~KeepsVerdicts
  BY DEF KeepsVerdicts
<1>6. Next /\ ~Quiet
  BY <1>1 DEF vars, Quiet
<1> QED BY <1>2, <1>3, <1>4, <1>5, <1>6, StepKinds

\* A confirmation or conflict gives way only to an answer of the chain that a poll
\* got after reading it, whatever merges and polls race (server/app.ts, the routes
\* that observe a withdrawal, and server/submit-exact.ts).
THEOREM FreshVerdicts == Spec => VerdictsAreFresh
<1>1. Coherent /\ [Next]_vars =>
        [\A t \in Txids :
           tx[t].status \in {"confirmed", "conflict"} /\ tx'[t].status # tx[t].status =>
              \E p \in Polls : /\ poll[p].pc = "save" /\ poll'[p].pc # "save"
                               /\ poll[p].view # "unavailable"
                               /\ poll[p].intent.status = tx[t].status]_vars
  BY StepFresh
<1> QED BY AlwaysCoherent, <1>1, PTL DEF Spec, VerdictsAreFresh

(***************************************************************************)
(* The refinement.                                                         *)
(***************************************************************************)
LEMMA InitPromised == Init => Promise!Init
BY DEF Init, Promise!Init

LEMMA StepPromised ==
    ASSUME Coherent, Coherent', [Next]_vars
    PROVE  [Promise!Next]_(Promise!vars)
<1>1. CASE UNCHANGED vars \/ Quiet
  BY <1>1 DEF vars, Quiet, Promise!vars
<1>2. ASSUME NEW c \in Calls, Intend(c)
      PROVE  Promise!Decide
  <2> DEFINE t == TxidOf[call[c].raw]
  <2>1. job.txid = None /\ call[c].raw \in Raws /\ t \in Txids /\ t # None
    BY <1>2, SubmitAssumption DEF Coherent, CallFits, Intend
  <2>2. /\ job'.txid = t /\ posts' = posts
        /\ tx'[t] = [raw |-> call[c].raw, status |-> "uncertain", ack |-> FALSE]
    BY <1>2, <2>1 DEF Intend, Coherent, TypeOK
  <2> HIDE DEF t
  <2> QED BY <2>1, <2>2 DEF Promise!Decide
<1>3. ASSUME NEW c \in Calls, Post(c)
      PROVE  Promise!Send
  <2>1. /\ call[c].pc = "post" /\ CallFits(call[c])
        /\ posts' = Append(posts, call[c].raw) /\ UNCHANGED <<job, tx>>
    BY <1>3 DEF Post, Coherent
  <2>2. posts = <<>> /\ job.txid # None
    BY <2>1 DEF CallFits, Owns
  <2>3. Len(posts) = 0 /\ Len(posts') = 1
    BY <2>1, <2>2
  <2>4. tx[job.txid].raw # None
    BY <2>2, TheIntent, SubmitAssumption
  <2> QED BY <2>1, <2>2, <2>3, <2>4 DEF Promise!Send
<1>4. ASSUME Learns
      PROVE  Promise!Learn
  <2>1. /\ job.txid # None /\ job'.txid = job.txid /\ job.txid \in Txids
        /\ tx[job.txid].raw \in Raws /\ tx[job.txid].ack \in BOOLEAN
        /\ tx'[job.txid] \in Intent
    BY <1>4, TheIntent, SubmitAssumption
       DEF Learns, Coherent, Rows, Known, TypeOK, Intent, NoIntent, Job
  <2>2. tx'[job.txid].ack => posts # <<>> /\ tx'[job.txid].status # "uncertain"
    BY <1>4, <2>1 DEF Coherent, AckedNotUncertain, Learns
  <2>3. posts # <<>> => Len(posts) = 1
    BY <2>1 DEF Coherent, Rows
  <2>4. tx[job.txid].raw # None
    BY <2>1, SubmitAssumption
  <2> QED BY <1>4, <2>1, <2>2, <2>3, <2>4
          DEF Learns, Promise!Learn, Promise!Outcomes, Intent
<1> QED BY <1>1, <1>2, <1>3, <1>4, StepKinds DEF Promise!Next

\* The routes implement the abstract submission: bytes decided once, sent at most
\* once, acknowledged for good (OneSubmission; docs/EXACT-SUBMIT.md).
THEOREM Implements == Spec => KeepsPromise
<1>1. Coherent /\ Coherent' /\ [Next]_vars => [Promise!Next]_(Promise!vars)
  BY StepPromised
<1> QED BY AlwaysCoherent, InitPromised, <1>1, PTL DEF Spec, KeepsPromise, Promise!Spec
=============================================================================
