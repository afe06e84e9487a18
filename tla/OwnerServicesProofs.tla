------------------------ MODULE OwnerServicesProofs -------------------------
(***************************************************************************)
(* The services that every route shares, for any number of units, rounds,  *)
(* requests and keys: the event log, the webhooks and the gateway.  They   *)
(* share no row, so each is proved by itself, from invariants of its own.  *)
(***************************************************************************)
EXTENDS OwnerEvents, Webhooks, Gateway, TLAPS, FiniteSetTheorems, SequenceTheorems

(***************************************************************************)
(* The event log.  No event lands behind a client's cursor, and a change of*)
(* status that a unit lived to record is told, once and as it happened, given*)
(* that a stamped row is written within WriteTime and listed only after    *)
(* SettleTime.                                                             *)
(***************************************************************************)
\* A row on its way was stamped at most WriteTime ago, the cursor is at least
\* SettleTime old, and so no row on its way can be behind it.
CursorInv ==
    /\ \A u \in Units : unit[u].pc \in {"transaction", "write"} =>
         unit[u].stamp <= now /\ now <= unit[u].stamp + WriteTime
    /\ cursor[1] = -1 \/ cursor[1] + SettleTime <= now
    /\ NoneBehindCursor

\* What a unit read is what the subject was at that version.
ReadInv ==
    \A u \in Units :
        /\ unit[u].version <= version
        /\ unit[u].pc \in {"work", "transaction"} => unit[u].status = subject[unit[u].version]

\* A version has one event, in the log or noted by one unit.
LogInv ==
    /\ \A row \in log :
         /\ row.version \in 1..version /\ subject[row.version] = row.status
         /\ \A other \in log : other.version = row.version => other = row
    /\ \A u \in Units : \A e \in unit[u].noted :
         /\ e.version \in 1..version /\ subject[e.version] = e.status
         /\ \A row \in log : row.version # e.version
         /\ \A w \in Units : \A f \in unit[w].noted : f.version = e.version => w = u

\* A change of status has its event in the log, noted, or known to be dropped.
ToldInv ==
    \A v \in 1..version : subject[v] # subject[v - 1] =>
        \/ v \in dropped
        \/ \E row \in log : row.version = v
        \/ \E u \in Units : \E e \in unit[u].noted : e.version = v

(***************************************************************************)
(* What the operators give.                                                *)
(***************************************************************************)
LEMMA UnitUpdates ==
    /\ IdleUnit \in Unit
    /\ \A x \in Unit : [x EXCEPT !.pc = "settle"] \in Unit
    /\ \A x \in Unit, t \in Times : [x EXCEPT !.pc = "write", !.stamp = t] \in Unit
    /\ \A x \in Unit, t \in Times, s \in Statuses :
         [x EXCEPT !.pc = "transaction", !.next = s, !.stamp = t] \in Unit
    /\ \A x \in Unit, v \in Versions, s \in Statuses :
         [x EXCEPT !.pc = "work", !.version = v, !.status = s] \in Unit
    /\ \A x \in Unit, v \in Versions, s \in Statuses, N \in SUBSET Event :
         [x EXCEPT !.version = v, !.status = s, !.noted = N] \in Unit
<1>1. IdleUnit \in Unit
  <2>1. AnyStatus \in Statuses
    BY EventAssumption DEF AnyStatus
  <2>. QED  BY <2>1, EventAssumption DEF IdleUnit, Unit, Versions, Times
<1>2. \A x \in Unit : [x EXCEPT !.pc = "settle"] \in Unit
  BY DEF Unit
<1>3. \A x \in Unit, t \in Times : [x EXCEPT !.pc = "write", !.stamp = t] \in Unit
  BY DEF Unit
<1>4. \A x \in Unit, t \in Times, s \in Statuses :
         [x EXCEPT !.pc = "transaction", !.next = s, !.stamp = t] \in Unit
  BY DEF Unit
<1>5. \A x \in Unit, v \in Versions, s \in Statuses :
         [x EXCEPT !.pc = "work", !.version = v, !.status = s] \in Unit
  BY DEF Unit
<1>6. \A x \in Unit, v \in Versions, s \in Statuses, N \in SUBSET Event :
         [x EXCEPT !.version = v, !.status = s, !.noted = N] \in Unit
  BY DEF Unit
<1>. QED  BY <1>1, <1>2, <1>3, <1>4, <1>5, <1>6

\* A write over a row records its version and status, unless it saw no change.
LEMMA EventFacts ==
    ASSUME NEW v \in Versions, NEW s \in Statuses, NEW previous \in Statuses, NEW seen \in BOOLEAN
    PROVE  /\ EventOf(v, s, previous, seen) \in SUBSET Event
           /\ \A e \in EventOf(v, s, previous, seen) : e.version = v /\ e.status = s
           /\ s # previous => \E e \in EventOf(v, s, previous, seen) : e.version = v
<1>1. [version |-> v, status |-> s] \in Event
  BY DEF Event
<1>2. \/ EventOf(v, s, previous, seen) = {[version |-> v, status |-> s]}
      \/ EventOf(v, s, previous, seen) = {} /\ s = previous
  BY DEF EventOf
<1>. QED  BY <1>1, <1>2

\* A stamped row tells what its event tells.
LEMMA StampFacts ==
    ASSUME NEW E \in SUBSET Event, NEW t \in Times
    PROVE  /\ Stamped(E, t) \subseteq Row
           /\ \A row \in Stamped(E, t) : row.stamp = t
           /\ \A row \in Stamped(E, t) : \E e \in E : e.version = row.version /\ e.status = row.status
           /\ \A e \in E : \E row \in Stamped(E, t) : row.version = e.version
           /\ \A row, other \in Stamped(E, t) :
                row.version = other.version /\ row.status = other.status => row = other
<1>1. ASSUME NEW e \in E
      PROVE  /\ e.version \in Versions /\ e.status \in Statuses
             /\ [version |-> e.version, status |-> e.status, stamp |-> t] \in Row
  BY DEF Event, Row
<1>2. \A row \in Stamped(E, t) :
         \E e \in E : row = [version |-> e.version, status |-> e.status, stamp |-> t]
  BY DEF Stamped
<1>3. \A e \in E : [version |-> e.version, status |-> e.status, stamp |-> t] \in Stamped(E, t)
  BY DEF Stamped
<1>4. Stamped(E, t) \subseteq Row
  BY <1>1, <1>2
<1>5. \A row \in Stamped(E, t) :
         row.stamp = t /\ \E e \in E : e.version = row.version /\ e.status = row.status
  BY <1>2
<1>6. \A e \in E : \E row \in Stamped(E, t) : row.version = e.version
  BY <1>3
<1>7. \A row, other \in Stamped(E, t) :
         row.version = other.version /\ row.status = other.status => row = other
  BY <1>2
<1>. QED  BY <1>4, <1>5, <1>6, <1>7

\* A write adds a status and keeps the others.
LEMMA WriteFacts ==
    ASSUME EventsTypeOK, version < MaxWrites, NEW s \in Statuses
    PROVE  /\ version + 1 \in Versions
           /\ Written(s) \in [0..(version + 1) -> Statuses]
           /\ Written(s)[version + 1] = s
           /\ \A v \in 0..version : Written(s)[v] = subject[v]
  BY EventAssumption DEF EventsTypeOK, Written, Versions

\* What a unit holds.
LEMMA UnitFacts ==
    ASSUME EventsTypeOK, NEW u \in Units
    PROVE  /\ unit[u] \in Unit
           /\ unit[u].version \in Versions /\ unit[u].stamp \in Times
           /\ unit[u].status \in Statuses /\ unit[u].next \in Statuses
           /\ unit[u].noted \in SUBSET Event
  BY DEF EventsTypeOK, Unit

LEMMA EventsTypeKeeps ==
    ASSUME EventsTypeOK, [EventsNext]_eventVars
    PROVE  EventsTypeOK'
<1>. USE EventAssumption
<1>1. ASSUME NEW u \in Units, Read(u)
      PROVE  EventsTypeOK'
  <2>1. unit' \in [Units -> Unit]
    <3>1. version \in Versions /\ subject[version] \in Statuses
      BY DEF EventsTypeOK, Versions
    <3>. QED  BY <1>1, <3>1, UnitUpdates, UnitFacts DEF Read, EventsTypeOK
  <2>. QED
    BY <1>1, <2>1 DEF Read, EventsTypeOK
<1>2. ASSUME NEW u \in Units, Commit(u)
      PROVE  EventsTypeOK'
  <2>1. unit' \in [Units -> Unit]
    BY <1>2, UnitUpdates, UnitFacts, WriteFacts DEF Commit, EventsTypeOK
  <2>2. version' \in Versions /\ subject' \in [0..version' -> Statuses]
    BY <1>2, WriteFacts, UnitFacts DEF Commit
  <2>3. log' \subseteq Row
    BY <1>2, UnitFacts, WriteFacts, EventFacts, StampFacts DEF Commit, EventsTypeOK
  <2>. QED
    BY <1>2, <2>1, <2>2, <2>3 DEF Commit, EventsTypeOK
<1>3. ASSUME NEW u \in Units, Leave(u)
      PROVE  EventsTypeOK'
  BY <1>3 DEF EventsTypeOK, Versions, Unit, Times, Event, Row, Leave
<1>4. ASSUME NEW u \in Units, StampNoted(u)
      PROVE  EventsTypeOK'
  <2>1. unit' \in [Units -> Unit]
    BY <1>4, UnitUpdates, UnitFacts DEF StampNoted, EventsTypeOK
  <2>. QED
    BY <1>4, <2>1 DEF StampNoted, EventsTypeOK
<1>5. ASSUME NEW u \in Units, WriteNoted(u)
      PROVE  EventsTypeOK'
  <2>1. unit' \in [Units -> Unit]
    BY <1>5, UnitUpdates DEF WriteNoted, EventsTypeOK
  <2>2. log' \subseteq Row
    BY <1>5, UnitFacts, StampFacts DEF WriteNoted, EventsTypeOK
  <2>3. dropped' \subseteq Versions
    BY <1>5, UnitFacts DEF WriteNoted, EventsTypeOK, VersionsOf, Event
  <2>. QED
    BY <1>5, <2>1, <2>2, <2>3 DEF WriteNoted, EventsTypeOK
<1>6. ASSUME NEW u \in Units, UnitDies(u)
      PROVE  EventsTypeOK'
  <2>1. unit' \in [Units -> Unit]
    BY <1>6, UnitUpdates DEF UnitDies, EventsTypeOK
  <2>2. dropped' \subseteq Versions
    BY <1>6, UnitFacts DEF UnitDies, EventsTypeOK, VersionsOf, Event
  <2>. QED
    BY <1>6, <2>1, <2>2 DEF UnitDies, EventsTypeOK
<1>7. ASSUME NEW u \in Units, NEW s \in Statuses, Put(u, s)
      PROVE  EventsTypeOK'
  <2>1. unit' \in [Units -> Unit]
    <3>1. version + 1 \in Versions
      BY <1>7, WriteFacts DEF Put
    <3>2. \A seen \in BOOLEAN :
            unit[u].noted \cup EventOf(version + 1, s, unit[u].status, seen) \in SUBSET Event
      BY <3>1, UnitFacts, EventFacts
    <3>3. \A seen \in BOOLEAN : [unit[u] EXCEPT !.version = version + 1, !.status = s,
            !.noted = unit[u].noted \cup EventOf(version + 1, s, unit[u].status, seen)] \in Unit
      BY <3>1, <3>2, UnitFacts, UnitUpdates
    <3>4. PICK seen \in BOOLEAN :
            unit' = [unit EXCEPT ![u] = [unit[u] EXCEPT !.version = version + 1, !.status = s,
              !.noted = unit[u].noted \cup EventOf(version + 1, s, unit[u].status, seen)]]
      BY <1>7 DEF Put, EventsTypeOK
    <3>. QED  BY <3>3, <3>4 DEF EventsTypeOK
  <2>2. version' \in Versions /\ subject' \in [0..version' -> Statuses]
    BY <1>7, WriteFacts DEF Put
  <2>. QED
    BY <1>7, <2>1, <2>2 DEF Put, EventsTypeOK
<1>8. ASSUME NEW u \in Units, NEW s \in Statuses, PutLost(u, s)
      PROVE  EventsTypeOK'
  <2>1. unit' \in [Units -> Unit]
    BY <1>8, UnitUpdates, UnitFacts DEF PutLost, EventsTypeOK
  <2>2. version' \in Versions /\ subject' \in [0..version' -> Statuses]
    BY <1>8, WriteFacts DEF PutLost
  <2>. QED
    BY <1>8, <2>1, <2>2 DEF PutLost, EventsTypeOK, Versions
<1>9. ASSUME NEW u \in Units, NEW s \in Statuses, Transact(u, s)
      PROVE  EventsTypeOK'
  <2>1. unit' \in [Units -> Unit]
    BY <1>9, UnitUpdates, UnitFacts DEF Transact, EventsTypeOK
  <2>. QED
    BY <1>9, <2>1 DEF Transact, EventsTypeOK
<1>10. ASSUME List
      PROVE  EventsTypeOK'
  <2>0. PICK page \in SUBSET log : given' = given \cup VersionsOf(page) /\ \E last \in page : cursor' = Key(last)
    BY <1>10 DEF List
  <2>1. PICK last \in page : cursor' = Key(last)
    BY <2>0
  <2>2. given' \subseteq Versions
    BY <2>0 DEF EventsTypeOK, VersionsOf, Row
  <2>3. cursor' \in (Times \cup {-1}) \X Versions
    BY <2>1 DEF EventsTypeOK, Key, Row
  <2>. QED
    BY <1>10, <2>2, <2>3 DEF List, EventsTypeOK
<1>11. ASSUME Tick
      PROVE  EventsTypeOK'
  BY <1>11 DEF EventsTypeOK, Versions, Unit, Times, Event, Row, Tick
<1>12. CASE UNCHANGED eventVars
  BY <1>12 DEF EventsTypeOK, Versions, Unit, Times, Event, Row, eventVars
<1>. QED
  BY <1>1, <1>2, <1>3, <1>4, <1>5, <1>6, <1>7, <1>8, <1>9, <1>10, <1>11, <1>12 DEF EventsNext

LEMMA CursorKeeps ==
    ASSUME EventsTypeOK, CursorInv, [EventsNext]_eventVars
    PROVE  CursorInv'
<1>. USE EventAssumption
<1>1. ASSUME NEW u \in Units, Read(u)
      PROVE  CursorInv'
  BY <1>1 DEF CursorInv, NoneBehindCursor, Before, Key, EventsTypeOK, Versions, Unit,
      Times, Event, Row, Read
<1>2. ASSUME NEW u \in Units, Commit(u)
      PROVE  CursorInv'
  <2>1. NoneBehindCursor'
    <3>. SUFFICES ASSUME NEW row \in log', row \notin log
                  PROVE  Before(cursor, Key(row))
      BY <1>2 DEF Commit, CursorInv, NoneBehindCursor
    <3>1. row.stamp = unit[u].stamp /\ row \in Row
      BY <1>2, UnitFacts, WriteFacts, EventFacts, StampFacts DEF Commit
    <3>2. cursor[1] \in Times \cup {-1} /\ row.stamp \in Times /\ now \in Times
      BY <3>1 DEF EventsTypeOK, Row
    <3>3. now <= row.stamp + WriteTime /\ (cursor[1] = -1 \/ cursor[1] + SettleTime <= now)
      BY <1>2, <3>1 DEF CursorInv, Commit
    <3>4. cursor[1] < row.stamp
      BY <3>2, <3>3 DEF Times
    <3>. QED  BY <3>4 DEF Before, Key
  <2>. QED
    BY <1>2, <2>1 DEF Commit, CursorInv, EventsTypeOK
<1>3. ASSUME NEW u \in Units, Leave(u)
      PROVE  CursorInv'
  BY <1>3 DEF CursorInv, NoneBehindCursor, Before, Key, EventsTypeOK, Versions, Unit,
      Times, Event, Row, Leave
<1>4. ASSUME NEW u \in Units, StampNoted(u)
      PROVE  CursorInv'
  BY <1>4 DEF CursorInv, NoneBehindCursor, Before, Key, EventsTypeOK, Versions, Unit,
      Times, Event, Row, StampNoted
<1>5. ASSUME NEW u \in Units, WriteNoted(u)
      PROVE  CursorInv'
  <2>1. NoneBehindCursor'
    <3>. SUFFICES ASSUME NEW row \in log', row \notin log
                  PROVE  Before(cursor, Key(row))
      BY <1>5 DEF WriteNoted, CursorInv, NoneBehindCursor
    <3>1. row.stamp = unit[u].stamp /\ row \in Row
      BY <1>5, UnitFacts, StampFacts DEF WriteNoted
    <3>2. cursor[1] \in Times \cup {-1} /\ row.stamp \in Times /\ now \in Times
      BY <3>1 DEF EventsTypeOK, Row
    <3>3. now <= row.stamp + WriteTime /\ (cursor[1] = -1 \/ cursor[1] + SettleTime <= now)
      BY <1>5, <3>1 DEF CursorInv, WriteNoted
    <3>4. cursor[1] < row.stamp
      BY <3>2, <3>3 DEF Times
    <3>. QED  BY <3>4 DEF Before, Key
  <2>. QED
    BY <1>5, <2>1 DEF WriteNoted, CursorInv, EventsTypeOK, IdleUnit
<1>6. ASSUME NEW u \in Units, UnitDies(u)
      PROVE  CursorInv'
  BY <1>6 DEF CursorInv, NoneBehindCursor, Before, Key, EventsTypeOK, Versions, Unit,
      Times, Event, Row, UnitDies, VersionsOf, IdleUnit, AnyStatus
<1>7. ASSUME NEW u \in Units, NEW s \in Statuses, Put(u, s)
      PROVE  CursorInv'
  BY <1>7 DEF CursorInv, NoneBehindCursor, Before, Key, EventsTypeOK, Versions, Unit,
      Times, Event, Row, Put, Written, EventOf
<1>8. ASSUME NEW u \in Units, NEW s \in Statuses, PutLost(u, s)
      PROVE  CursorInv'
  BY <1>8 DEF CursorInv, NoneBehindCursor, Before, Key, EventsTypeOK, Versions, Unit,
      Times, Event, Row, PutLost, Written
<1>9. ASSUME NEW u \in Units, NEW s \in Statuses, Transact(u, s)
      PROVE  CursorInv'
  BY <1>9 DEF CursorInv, NoneBehindCursor, Before, Key, EventsTypeOK, Versions, Unit,
      Times, Event, Row, Transact
<1>10. ASSUME List
      PROVE  CursorInv'
  <2>0. PICK page \in SUBSET {row \in log : Settled(row) /\ Before(cursor, Key(row))} :
           /\ \A row \in log : \A p \in page :
                Settled(row) /\ Before(cursor, Key(row)) /\ Before(Key(row), Key(p)) => row \in page
           /\ given' = given \cup VersionsOf(page)
           /\ \E last \in page :
                /\ \A p \in page : p = last \/ Before(Key(p), Key(last))
                /\ cursor' = Key(last)
    BY <1>10 DEF List
  <2>1. PICK last \in page : cursor' = Key(last)
    BY <2>0
  <2>2. last \in Row /\ last.stamp + SettleTime <= now
    BY <2>0, <2>1 DEF EventsTypeOK, Settled
  <2>3. cursor'[1] + SettleTime <= now
    BY <2>1, <2>2 DEF Key
  <2>4. ASSUME NEW row \in log, ~Before(cursor', Key(row))
        PROVE  row.version \in given'
    <3>1. CASE ~Before(cursor, Key(row))
      BY <3>1, <2>0 DEF CursorInv, NoneBehindCursor
    <3>2. CASE Before(cursor, Key(row))
      <4>1. /\ row.stamp \in Int /\ row.version \in Int
            /\ last.stamp \in Int /\ last.version \in Int /\ now \in Int
        BY <2>2 DEF EventsTypeOK, Row, Times, Versions
      <4>2. Before(Key(row), Key(last)) \/ row.version = last.version
        BY <2>1, <2>4, <4>1 DEF Before, Key
      <4>3. row.stamp <= last.stamp
        BY <2>1, <2>4, <4>1 DEF Before, Key
      <4>4. Settled(row)
        BY <2>2, <4>1, <4>3 DEF Settled
      <4>5. row \in page \/ row.version = last.version
        BY <2>0, <2>1, <3>2, <4>2, <4>4
      <4>. QED  BY <2>0, <2>1, <4>5 DEF VersionsOf
    <3>. QED  BY <3>1, <3>2
  <2>. QED
    BY <1>10, <2>3, <2>4 DEF List, CursorInv, NoneBehindCursor
<1>11. ASSUME Tick
      PROVE  CursorInv'
  BY <1>11 DEF CursorInv, NoneBehindCursor, Before, Key, EventsTypeOK, Versions, Unit,
      Times, Event, Row, Tick
<1>12. CASE UNCHANGED eventVars
  BY <1>12 DEF CursorInv, NoneBehindCursor, Before, Key, EventsTypeOK, Versions, Unit,
      Times, Event, Row, eventVars
<1>. QED
  BY <1>1, <1>2, <1>3, <1>4, <1>5, <1>6, <1>7, <1>8, <1>9, <1>10, <1>11, <1>12 DEF EventsNext

LEMMA ReadKeeps ==
    ASSUME EventsTypeOK, ReadInv, [EventsNext]_eventVars
    PROVE  ReadInv'
<1>. USE EventAssumption
<1>1. ASSUME NEW u \in Units, Read(u)
      PROVE  ReadInv'
  BY <1>1 DEF ReadInv, EventsTypeOK, Versions, Unit, Times, Event, Row, Read
<1>2. ASSUME NEW u \in Units, Commit(u)
      PROVE  ReadInv'
  BY <1>2 DEF ReadInv, EventsTypeOK, Versions, Unit, Times, Event, Row, Commit, Written,
      Stamped, EventOf
<1>3. ASSUME NEW u \in Units, Leave(u)
      PROVE  ReadInv'
  BY <1>3 DEF ReadInv, EventsTypeOK, Versions, Unit, Times, Event, Row, Leave
<1>4. ASSUME NEW u \in Units, StampNoted(u)
      PROVE  ReadInv'
  BY <1>4 DEF ReadInv, EventsTypeOK, Versions, Unit, Times, Event, Row, StampNoted
<1>5. ASSUME NEW u \in Units, WriteNoted(u)
      PROVE  ReadInv'
  BY <1>5 DEF ReadInv, EventsTypeOK, Versions, Unit, Times, Event, Row, WriteNoted,
      Stamped, VersionsOf, IdleUnit, AnyStatus
<1>6. ASSUME NEW u \in Units, UnitDies(u)
      PROVE  ReadInv'
  BY <1>6 DEF ReadInv, EventsTypeOK, Versions, Unit, Times, Event, Row, UnitDies,
      VersionsOf, IdleUnit, AnyStatus
<1>7. ASSUME NEW u \in Units, NEW s \in Statuses, Put(u, s)
      PROVE  ReadInv'
  BY <1>7 DEF ReadInv, EventsTypeOK, Versions, Unit, Times, Event, Row, Put, Written,
      EventOf
<1>8. ASSUME NEW u \in Units, NEW s \in Statuses, PutLost(u, s)
      PROVE  ReadInv'
  BY <1>8 DEF ReadInv, EventsTypeOK, Versions, Unit, Times, Event, Row, PutLost, Written
<1>9. ASSUME NEW u \in Units, NEW s \in Statuses, Transact(u, s)
      PROVE  ReadInv'
  BY <1>9 DEF ReadInv, EventsTypeOK, Versions, Unit, Times, Event, Row, Transact
<1>10. ASSUME List
      PROVE  ReadInv'
  BY <1>10 DEF ReadInv, EventsTypeOK, Versions, Unit, Times, Event, Row, List, Settled,
      Before, Key, VersionsOf
<1>11. ASSUME Tick
      PROVE  ReadInv'
  BY <1>11 DEF ReadInv, EventsTypeOK, Versions, Unit, Times, Event, Row, Tick
<1>12. CASE UNCHANGED eventVars
  BY <1>12 DEF ReadInv, EventsTypeOK, Versions, Unit, Times, Event, Row, eventVars
<1>. QED
  BY <1>1, <1>2, <1>3, <1>4, <1>5, <1>6, <1>7, <1>8, <1>9, <1>10, <1>11, <1>12 DEF EventsNext

LEMMA LogKeeps ==
    ASSUME EventsTypeOK, LogInv, [EventsNext]_eventVars
    PROVE  LogInv'
<1>. USE EventAssumption
<1>1. ASSUME NEW u \in Units, Read(u)
      PROVE  LogInv'
  BY <1>1 DEF LogInv, EventsTypeOK, Versions, Unit, Times, Event, Row, Read
<1>2. ASSUME NEW u \in Units, Commit(u)
      PROVE  LogInv'
  <2>1. /\ version' = version + 1 /\ version \in Nat
        /\ \A v \in 1..version : v \in 1..version' /\ subject'[v] = subject[v]
        /\ version + 1 \in 1..version' /\ subject'[version + 1] = unit[u].next
    BY <1>2, WriteFacts, UnitFacts DEF Commit, EventsTypeOK, Versions
  <2>2. PICK seen \in BOOLEAN :
           log' = log \cup Stamped(EventOf(version + 1, unit[u].next, unit[u].status, seen),
                                   unit[u].stamp)
    BY <1>2 DEF Commit
  <2>3. version + 1 \in Versions
    BY <1>2, WriteFacts, UnitFacts DEF Commit
  <2>4. EventOf(version + 1, unit[u].next, unit[u].status, seen) \in SUBSET Event
    BY <2>3, UnitFacts, EventFacts
  <2>5. \A row \in log' : row \in log \/ (row.version = version + 1 /\ row.status = unit[u].next)
    <3>1. \A e \in EventOf(version + 1, unit[u].next, unit[u].status, seen) :
             e.version = version + 1 /\ e.status = unit[u].next
      BY <2>3, UnitFacts, EventFacts
    <3>2. \A row \in Stamped(EventOf(version + 1, unit[u].next, unit[u].status, seen), unit[u].stamp) :
             row.version = version + 1 /\ row.status = unit[u].next
      BY <2>4, <3>1, UnitFacts, StampFacts
    <3>. QED  BY <2>2, <3>2, Zenon
  <2>6. \A row, other \in log' : row \notin log /\ other \notin log => row = other
    BY <2>2, <2>4, <2>5, UnitFacts, StampFacts
  <2>7. version + 1 \notin 1..version
    BY <2>1
  <2>8. \A w \in Units : unit'[w].noted = unit[w].noted
    BY <1>2, UnitFacts DEF Commit, EventsTypeOK, Unit
  <2>9. \A row \in log' :
           /\ row.version \in 1..version' /\ subject'[row.version] = row.status
           /\ \A other \in log' : other.version = row.version => other = row
    BY <2>1, <2>5, <2>6, <2>7 DEF LogInv
  <2>10. \A w \in Units : \A e \in unit'[w].noted :
           /\ e.version \in 1..version' /\ subject'[e.version] = e.status
           /\ \A row \in log' : row.version # e.version
    BY <2>1, <2>5, <2>7, <2>8 DEF LogInv
  <2>. QED
    BY <2>8, <2>9, <2>10 DEF LogInv
<1>3. ASSUME NEW u \in Units, Leave(u)
      PROVE  LogInv'
  BY <1>3 DEF LogInv, EventsTypeOK, Versions, Unit, Times, Event, Row, Leave
<1>4. ASSUME NEW u \in Units, StampNoted(u)
      PROVE  LogInv'
  BY <1>4 DEF LogInv, EventsTypeOK, Versions, Unit, Times, Event, Row, StampNoted
<1>5. ASSUME NEW u \in Units, WriteNoted(u)
      PROVE  LogInv'
  BY <1>5 DEF LogInv, EventsTypeOK, Versions, Unit, Times, Event, Row, WriteNoted,
      Stamped, VersionsOf, IdleUnit, AnyStatus
<1>6. ASSUME NEW u \in Units, UnitDies(u)
      PROVE  LogInv'
  BY <1>6 DEF LogInv, EventsTypeOK, Versions, Unit, Times, Event, Row, UnitDies,
      VersionsOf, IdleUnit, AnyStatus
<1>7. ASSUME NEW u \in Units, NEW s \in Statuses, Put(u, s)
      PROVE  LogInv'
  <2>1. /\ version' = version + 1 /\ version \in Nat
        /\ \A v \in 1..version : v \in 1..version' /\ subject'[v] = subject[v]
        /\ version + 1 \in 1..version' /\ subject'[version + 1] = s
    BY <1>7, WriteFacts, UnitFacts DEF Put, EventsTypeOK, Versions
  <2>2. PICK seen \in BOOLEAN :
           unit' = [unit EXCEPT ![u].version = version + 1, ![u].status = s,
                      ![u].noted = @ \cup EventOf(version + 1, s, unit[u].status, seen)]
    BY <1>7 DEF Put
  <2>3. \A w \in Units : \A e \in unit'[w].noted :
           \/ e \in unit[w].noted
           \/ w = u /\ e.version = version + 1 /\ e.status = s
    <3>1. version + 1 \in Versions
      BY <1>7, WriteFacts DEF Put
    <3>. QED  BY <2>2, <3>1, UnitFacts, EventFacts DEF EventsTypeOK, Unit
  <2>4. version + 1 \notin 1..version
    BY <2>1
  <2>5. \A row \in log : row.version # version + 1
    BY <2>4 DEF LogInv
  <2>6. \A w \in Units : \A e \in unit[w].noted : e.version # version + 1
    BY <2>4 DEF LogInv
  <2>7. log' = log
    BY <1>7 DEF Put
  <2>. QED
    BY <2>1, <2>3, <2>5, <2>6, <2>7 DEF LogInv
<1>8. ASSUME NEW u \in Units, NEW s \in Statuses, PutLost(u, s)
      PROVE  LogInv'
  <2>1. /\ version' = version + 1 /\ version \in Nat
        /\ \A v \in 1..version : v \in 1..version' /\ subject'[v] = subject[v]
        /\ version + 1 \in 1..version' /\ subject'[version + 1] = s
    BY <1>8, WriteFacts, UnitFacts DEF PutLost, EventsTypeOK, Versions
  <2>2. \A w \in Units : unit'[w].noted = unit[w].noted
    BY <1>8, UnitFacts DEF PutLost, EventsTypeOK, Unit
  <2>. QED
    BY <1>8, <2>1, <2>2 DEF PutLost, LogInv
<1>9. ASSUME NEW u \in Units, NEW s \in Statuses, Transact(u, s)
      PROVE  LogInv'
  BY <1>9 DEF LogInv, EventsTypeOK, Versions, Unit, Times, Event, Row, Transact
<1>10. ASSUME List
      PROVE  LogInv'
  BY <1>10 DEF LogInv, EventsTypeOK, Versions, Unit, Times, Event, Row, List, Settled,
      Before, Key, VersionsOf
<1>11. ASSUME Tick
      PROVE  LogInv'
  BY <1>11 DEF LogInv, EventsTypeOK, Versions, Unit, Times, Event, Row, Tick
<1>12. CASE UNCHANGED eventVars
  BY <1>12 DEF LogInv, EventsTypeOK, Versions, Unit, Times, Event, Row, eventVars
<1>. QED
  BY <1>1, <1>2, <1>3, <1>4, <1>5, <1>6, <1>7, <1>8, <1>9, <1>10, <1>11, <1>12 DEF EventsNext

LEMMA ToldKeeps ==
    ASSUME EventsTypeOK, ReadInv, ToldInv, [EventsNext]_eventVars
    PROVE  ToldInv'
<1>. USE EventAssumption
<1>1. ASSUME NEW u \in Units, Read(u)
      PROVE  ToldInv'
  <2>1. \A w \in Units : unit'[w].noted = unit[w].noted
    BY <1>1, UnitFacts DEF Read, EventsTypeOK, Unit
  <2>2. subject' = subject /\ version' = version /\ log' = log /\ dropped' = dropped
    BY <1>1 DEF Read
  <2>. SUFFICES ASSUME NEW v \in 1..version, subject[v] # subject[v - 1]
                PROVE  \/ v \in dropped
                       \/ \E row \in log : row.version = v
                       \/ \E w \in Units : \E e \in unit'[w].noted : e.version = v
    BY <2>2 DEF ToldInv
  <2>. QED
    BY <2>1 DEF ToldInv
<1>2. ASSUME NEW u \in Units, Commit(u)
      PROVE  ToldInv'
  <2>1. /\ version' = version + 1 /\ version \in Nat
        /\ \A v \in 0..version : subject'[v] = subject[v]
        /\ subject'[version + 1] = unit[u].next
    BY <1>2, WriteFacts, UnitFacts DEF Commit, EventsTypeOK, Versions
  <2>2. \A v \in 1..version' : v = version + 1 \/ (v \in 1..version /\ v \in 0..version /\ v - 1 \in 0..version)
    BY <2>1
  <2>3. PICK seen \in BOOLEAN :
           log' = log \cup Stamped(EventOf(version + 1, unit[u].next, unit[u].status, seen),
                                   unit[u].stamp)
    BY <1>2 DEF Commit
  <2>4. version + 1 \in Versions
    BY <1>2, WriteFacts, UnitFacts DEF Commit
  <2>5. unit[u].next # unit[u].status => \E row \in log' : row.version = version + 1
    BY <2>3, <2>4, UnitFacts, EventFacts, StampFacts
  <2>6. \A w \in Units : unit'[w].noted = unit[w].noted
    BY <1>2, UnitFacts DEF Commit, EventsTypeOK, Unit
  <2>7. unit[u].status = subject[version] /\ log \subseteq log' /\ dropped' = dropped
    BY <1>2 DEF Commit, ReadInv
  <2>8. subject'[version + 1] # subject'[version] => \E row \in log' : row.version = version + 1
    BY <2>1, <2>5, <2>7
  <2>. SUFFICES ASSUME NEW v \in 1..version', subject'[v] # subject'[v - 1]
                PROVE  \/ v \in dropped'
                       \/ \E row \in log' : row.version = v
                       \/ \E w \in Units : \E e \in unit'[w].noted : e.version = v
    BY DEF ToldInv
  <2>20. CASE v = version + 1
    BY <2>1, <2>20, <2>8
  <2>21. CASE v # version + 1
    <3>1. subject[v] # subject[v - 1] /\ v \in 1..version
      BY <2>1, <2>2, <2>21
    <3>. QED  BY <3>1, <2>6, <2>7 DEF ToldInv
  <2>. QED
    BY <2>20, <2>21
<1>3. ASSUME NEW u \in Units, Leave(u)
      PROVE  ToldInv'
  BY <1>3 DEF ToldInv, EventsTypeOK, Versions, Unit, Times, Event, Row, ReadInv, Leave
<1>4. ASSUME NEW u \in Units, StampNoted(u)
      PROVE  ToldInv'
  <2>1. \A w \in Units : unit'[w].noted = unit[w].noted
    BY <1>4, UnitFacts DEF StampNoted, EventsTypeOK, Unit
  <2>2. subject' = subject /\ version' = version /\ log' = log /\ dropped' = dropped
    BY <1>4 DEF StampNoted
  <2>. SUFFICES ASSUME NEW v \in 1..version, subject[v] # subject[v - 1]
                PROVE  \/ v \in dropped
                       \/ \E row \in log : row.version = v
                       \/ \E w \in Units : \E e \in unit'[w].noted : e.version = v
    BY <2>2 DEF ToldInv
  <2>. QED
    BY <2>1 DEF ToldInv
<1>5. ASSUME NEW u \in Units, WriteNoted(u)
      PROVE  ToldInv'
  <2>1. PICK written \in SUBSET unit[u].noted :
           /\ log' = log \cup Stamped(written, unit[u].stamp)
           /\ dropped' = dropped \cup VersionsOf(unit[u].noted \ written)
    BY <1>5 DEF WriteNoted
  <2>2. \A e \in unit[u].noted : e.version \in dropped' \/ \E row \in log' : row.version = e.version
    BY <2>1, UnitFacts, StampFacts DEF VersionsOf
  <2>3. \A w \in Units : w # u => unit'[w] = unit[w]
    BY <1>5 DEF WriteNoted, EventsTypeOK
  <2>4. log \subseteq log' /\ dropped \subseteq dropped' /\ subject' = subject /\ version' = version
    BY <1>5, <2>1 DEF WriteNoted
  <2>. QED
    BY <2>2, <2>3, <2>4 DEF ToldInv
<1>6. ASSUME NEW u \in Units, UnitDies(u)
      PROVE  ToldInv'
  BY <1>6 DEF ToldInv, EventsTypeOK, Versions, Unit, Times, Event, Row, ReadInv,
      UnitDies, VersionsOf, IdleUnit, AnyStatus
<1>7. ASSUME NEW u \in Units, NEW s \in Statuses, Put(u, s)
      PROVE  ToldInv'
  <2>1. /\ version' = version + 1 /\ version \in Nat
        /\ \A v \in 0..version : subject'[v] = subject[v]
        /\ subject'[version + 1] = s
    BY <1>7, WriteFacts, UnitFacts DEF Put, EventsTypeOK, Versions
  <2>2. \A v \in 1..version' : v = version + 1 \/ (v \in 1..version /\ v \in 0..version /\ v - 1 \in 0..version)
    BY <2>1
  <2>3. PICK seen \in BOOLEAN :
           unit' = [unit EXCEPT ![u].version = version + 1, ![u].status = s,
                      ![u].noted = @ \cup EventOf(version + 1, s, unit[u].status, seen)]
    BY <1>7 DEF Put
  <2>4. \A w \in Units : unit[w].noted \subseteq unit'[w].noted
    BY <2>3, UnitFacts DEF EventsTypeOK, Unit
  <2>5. s # unit[u].status => \E e \in unit'[u].noted : e.version = version + 1
    <3>1. version + 1 \in Versions
      BY <1>7, WriteFacts DEF Put
    <3>. QED  BY <2>3, <3>1, UnitFacts, EventFacts DEF EventsTypeOK, Unit
  <2>6. unit[u].status = subject[version] /\ log' = log /\ dropped' = dropped
    BY <1>7 DEF Put, ReadInv
  <2>7. subject'[version + 1] # subject'[version] => \E e \in unit'[u].noted : e.version = version + 1
    BY <2>1, <2>5, <2>6
  <2>. SUFFICES ASSUME NEW v \in 1..version', subject'[v] # subject'[v - 1]
                PROVE  \/ v \in dropped'
                       \/ \E row \in log' : row.version = v
                       \/ \E w \in Units : \E e \in unit'[w].noted : e.version = v
    BY DEF ToldInv
  <2>20. CASE v = version + 1
    BY <2>1, <2>20, <2>7
  <2>21. CASE v # version + 1
    <3>1. subject[v] # subject[v - 1] /\ v \in 1..version
      BY <2>1, <2>2, <2>21
    <3>. QED  BY <3>1, <2>4, <2>6 DEF ToldInv
  <2>. QED
    BY <2>20, <2>21
<1>8. ASSUME NEW u \in Units, NEW s \in Statuses, PutLost(u, s)
      PROVE  ToldInv'
  <2>1. /\ version' = version + 1 /\ version \in Nat
        /\ \A v \in 0..version : subject'[v] = subject[v]
        /\ subject'[version + 1] = s
    BY <1>8, WriteFacts, UnitFacts DEF PutLost, EventsTypeOK, Versions
  <2>2. \A v \in 1..version' : v = version + 1 \/ (v \in 1..version /\ v \in 0..version /\ v - 1 \in 0..version)
    BY <2>1
  <2>3. \A w \in Units : unit'[w].noted = unit[w].noted
    BY <1>8, UnitFacts DEF PutLost, EventsTypeOK, Unit
  <2>4. log' = log /\ dropped' = dropped \cup {version + 1}
    BY <1>8 DEF PutLost
  <2>. SUFFICES ASSUME NEW v \in 1..version', subject'[v] # subject'[v - 1]
                PROVE  \/ v \in dropped'
                       \/ \E row \in log' : row.version = v
                       \/ \E w \in Units : \E e \in unit'[w].noted : e.version = v
    BY DEF ToldInv
  <2>20. CASE v = version + 1
    BY <2>1, <2>20, <2>4
  <2>21. CASE v # version + 1
    <3>1. subject[v] # subject[v - 1] /\ v \in 1..version
      BY <2>1, <2>2, <2>21
    <3>. QED  BY <3>1, <2>3, <2>4 DEF ToldInv
  <2>. QED
    BY <2>20, <2>21
<1>9. ASSUME NEW u \in Units, NEW s \in Statuses, Transact(u, s)
      PROVE  ToldInv'
  <2>1. \A w \in Units : unit'[w].noted = unit[w].noted
    BY <1>9, UnitFacts DEF Transact, EventsTypeOK, Unit
  <2>2. subject' = subject /\ version' = version /\ log' = log /\ dropped' = dropped
    BY <1>9 DEF Transact
  <2>. SUFFICES ASSUME NEW v \in 1..version, subject[v] # subject[v - 1]
                PROVE  \/ v \in dropped
                       \/ \E row \in log : row.version = v
                       \/ \E w \in Units : \E e \in unit'[w].noted : e.version = v
    BY <2>2 DEF ToldInv
  <2>. QED
    BY <2>1 DEF ToldInv
<1>10. ASSUME List
      PROVE  ToldInv'
  BY <1>10 DEF ToldInv, EventsTypeOK, Versions, Unit, Times, Event, Row, ReadInv, List,
      Settled, Before, Key, VersionsOf
<1>11. ASSUME Tick
      PROVE  ToldInv'
  BY <1>11 DEF ToldInv, EventsTypeOK, Versions, Unit, Times, Event, Row, ReadInv, Tick
<1>12. CASE UNCHANGED eventVars
  BY <1>12 DEF ToldInv, EventsTypeOK, Versions, Unit, Times, Event, Row, ReadInv,
      eventVars
<1>. QED
  BY <1>1, <1>2, <1>3, <1>4, <1>5, <1>6, <1>7, <1>8, <1>9, <1>10, <1>11, <1>12 DEF EventsNext

\* The log, the units and the cursor are always of their kind.
THEOREM EventsTypeCorrect == EventsSpec => []EventsTypeOK
<1>1. EventsInit => EventsTypeOK
  <2>. SUFFICES ASSUME EventsInit PROVE EventsTypeOK
    OBVIOUS
  <2>1. AnyStatus \in Statuses
    BY EventAssumption DEF AnyStatus
  <2>2. subject \in [0..version -> Statuses] /\ version \in Versions /\ now \in Times
    BY <2>1, EventAssumption DEF EventsInit, Versions, Times
  <2>3. unit \in [Units -> Unit]
    BY UnitUpdates DEF EventsInit
  <2>4. cursor \in (Times \cup {-1}) \X Versions
    BY EventAssumption DEF EventsInit, Versions
  <2>. QED  BY <2>2, <2>3, <2>4 DEF EventsInit, EventsTypeOK
<1>2. EventsTypeOK /\ [EventsNext]_eventVars => EventsTypeOK'
  BY EventsTypeKeeps
<1>. QED  BY <1>1, <1>2, PTL DEF EventsSpec

\* No event lands behind a cursor that a client was given.
THEOREM NothingLandsBehind == EventsSpec => []NoneBehindCursor
<1>1. EventsInit => CursorInv
  BY DEF EventsInit, CursorInv, NoneBehindCursor, IdleUnit
<1>2. EventsTypeOK /\ CursorInv /\ [EventsNext]_eventVars => CursorInv'
  BY CursorKeeps
<1>3. CursorInv => NoneBehindCursor
  BY DEF CursorInv
<1>. QED  BY <1>1, <1>2, <1>3, EventsTypeCorrect, PTL DEF EventsSpec

\* A change of status is told unless its event was dropped, and the log tells what
\* happened, each version once.
THEOREM ChangesAreTold == EventsSpec => []ToldUnlessDropped
<1>1. EventsInit => ReadInv /\ LogInv /\ ToldInv
  BY DEF EventsInit, ReadInv, LogInv, ToldInv, IdleUnit
<1>2. EventsTypeOK /\ ReadInv /\ [EventsNext]_eventVars => ReadInv'
  BY ReadKeeps
<1>3. EventsTypeOK /\ LogInv /\ [EventsNext]_eventVars => LogInv'
  BY LogKeeps
<1>4. EventsTypeOK /\ ReadInv /\ ToldInv /\ [EventsNext]_eventVars => ToldInv'
  BY ToldKeeps
<1>5. EventsTypeOK /\ LogInv /\ ToldInv => ToldUnlessDropped
  BY DEF EventsTypeOK, LogInv, ToldInv, ToldUnlessDropped, VersionsOf
<1>. QED  BY <1>1, <1>2, <1>3, <1>4, <1>5, EventsTypeCorrect, PTL DEF EventsSpec

(***************************************************************************)
(* The webhooks.  No two rounds send one delivery at once, and none leaves *)
(* the queue without a reason, though rounds die, freeze and answer late.  *)
(***************************************************************************)
Distinct(q) == \A i, j \in DOMAIN q : Item(q[i]) = Item(q[j]) => i = j

\* A delivery waits once, for a webhook that is active, and was queued before now.
QueueInv ==
    /\ Distinct(pending)
    /\ \A i \in DOMAIN pending :
         pending[i].event <= queued /\ hooks[pending[i].hook].status = "active"

\* The webhooks to queue for can be listed, and one that is or becomes active may fail
\* once more.
HookInv ==
    /\ IsFiniteSet(Registered)
    /\ \A h \in Hooks :
         hooks[h].status \in {"none", "active"} => hooks[h].failures < FailingAfter

\* What a round was answered is of what it claimed.
RoundInv ==
    \A r \in Rounds :
        /\ round[r].ok \cup round[r].failed \subseteq round[r].items
        /\ round[r].ok \subseteq accepted
        /\ \A i \in round[r].items : i[2] <= queued
        /\ round[r].pc = "idle" => round[r].items = {}
        /\ round[r].pc = "send" => round[r].failed = {}

\* Only the round that claimed a delivery last bears its token, and until the lease
\* ends no other round can take what one has claimed.
ClaimInv ==
    /\ \A i \in DOMAIN pending : \A r \in Rounds :
         /\ pending[i].claim = r => Item(pending[i]) \in round[r].items
         /\ Item(pending[i]) \in round[r].items /\ ~round[r].expired =>
              pending[i].claim = r /\ ~pending[i].due
    /\ HeldByOne

\* An attempt on a delivery was a request that failed, and what the round that holds
\* it was refused is not on the row yet.
MissInv ==
    \A i \in DOMAIN pending :
        /\ pending[i].attempts <= misses[Item(pending[i])]
        /\ \A r \in Rounds :
             pending[i].claim = r /\ Item(pending[i]) \in round[r].failed =>
                 pending[i].attempts < misses[Item(pending[i])]


(***************************************************************************)
(* The queue operators.                                                    *)
(***************************************************************************)
Rank(I, i) == Cardinality({j \in I : j <= i})

\* Among finitely many numbers each rank is taken once.
LEMMA Ranks ==
    ASSUME NEW n \in Nat, NEW I \in SUBSET (1..n)
    PROVE  /\ Cardinality(I) \in Nat
           /\ \A k \in 1..Cardinality(I) : \E i \in I : Rank(I, i) = k
           /\ \A i \in I : Rank(I, i) \in 1..Cardinality(I)
           /\ \A i, l \in I : Rank(I, i) = Rank(I, l) => i = l
<1>1. IsFiniteSet(I) /\ Cardinality(I) \in Nat
  <2>1. IsFiniteSet(1..n)
    BY FS_Interval
  <2>. QED  BY <2>1, FS_Subset, FS_CardinalityType
<1>2. ASSUME NEW i \in I  PROVE Rank(I, i) \in 1..Cardinality(I)
  <2>. DEFINE J == {j \in I : j <= i}
  <2>1. J \subseteq I /\ J # {}
    OBVIOUS
  <2>. HIDE DEF J
  <2>2. /\ IsFiniteSet(J) /\ Cardinality(J) \in Nat /\ Cardinality(J) <= Cardinality(I)
        /\ Cardinality(J) # 0
    BY <1>1, <2>1, FS_Subset, FS_CardinalityType, FS_EmptySet
  <2>3. Cardinality(J) \in 1..Cardinality(I)
    BY <1>1, <2>2
  <2>. QED  BY <2>3 DEF J, Rank
<1>3. ASSUME NEW i \in I, NEW l \in I, i < l  PROVE Rank(I, i) # Rank(I, l)
  <2>. DEFINE J == {j \in I : j <= i}
              L == {j \in I : j <= l}
  <2>0. i \in Int /\ l \in Int /\ \A j \in I : j \in Int
    OBVIOUS
  <2>1. l \in L /\ l \notin J
    BY <1>3, <2>0
  <2>2. \A j \in I : j <= i => j <= l
    BY <1>3, <2>0
  <2>3. L \subseteq I /\ J \subseteq L
    BY <2>2
  <2>. HIDE DEF J, L
  <2>4. Cardinality(L) # Cardinality(J)
    BY <1>1, <2>1, <2>3, FS_Subset
  <2>. QED  BY <2>4 DEF J, L, Rank
<1>4. \A i, l \in I : Rank(I, i) = Rank(I, l) => i = l
  BY <1>3
<1>5. \A k \in 1..Cardinality(I) : \E i \in I : Rank(I, i) = k
  <2>. DEFINE f == [i \in I |-> Rank(I, i)]
              T == 1..Cardinality(I)
  <2>1. f \in Injection(I, T)
    BY <1>2, <1>4 DEF Injection, IsInjective
  <2>2. IsFiniteSet(T) /\ Cardinality(T) = Cardinality(I)
    BY <1>1, FS_Interval
  <2>3. f \in Surjection(I, T)
    <3>. HIDE DEF f, T
    <3>. QED  BY <2>1, <2>2, FS_Injection
  <2>. QED  BY <2>3 DEF Surjection
<1>. QED  BY <1>1, <1>2, <1>4, <1>5

\* p holds what q holds at the indexes I, each once.
Picks(p, q, I) ==
    /\ \A k \in DOMAIN p : \E i \in I : p[k] = q[i]
    /\ \A i \in I : \E k \in DOMAIN p : p[k] = q[i]
    /\ \A k, l \in DOMAIN p : k # l => \E i, j \in I : i # j /\ p[k] = q[i] /\ p[l] = q[j]

LEMMA KeepingPicks ==
    ASSUME NEW S, NEW q \in Seq(S), NEW I \in SUBSET (DOMAIN q)
    PROVE  Keeping(q, I) \in Seq(S) /\ Picks(Keeping(q, I), q, I)
<1>1. Len(q) \in Nat /\ DOMAIN q = 1..Len(q) /\ \A i \in DOMAIN q : q[i] \in S
  BY LenProperties, ElementOfSeq
<1>2. /\ Cardinality(I) \in Nat
      /\ \A k \in 1..Cardinality(I) : \E i \in I : Rank(I, i) = k
      /\ \A i \in I : Rank(I, i) \in 1..Cardinality(I)
      /\ \A i, l \in I : Rank(I, i) = Rank(I, l) => i = l
  BY <1>1, Ranks
<1>. DEFINE n == Cardinality(I)
            at(k) == CHOOSE i \in I : Rank(I, i) = k
            p == [k \in 1..n |-> q[at(k)]]
<1>3. \A k \in 1..n : at(k) \in I /\ Rank(I, at(k)) = k
  BY <1>2
<1>4. \A i \in I : Rank(I, i) \in 1..n /\ at(Rank(I, i)) = i
  BY <1>2, <1>3
<1>5. Keeping(q, I) = p
  BY DEF Keeping, Rank
<1>. HIDE DEF at
<1>6. p \in Seq(S)
  BY <1>1, <1>2, <1>3, IsASeq
<1>7. DOMAIN p = 1..n /\ \A k \in 1..n : p[k] = q[at(k)]
  OBVIOUS
<1>. HIDE DEF p
<1>8. \A k, l \in 1..n : k # l => at(k) # at(l)
  BY <1>3
<1>9. Picks(p, q, I)
  BY <1>3, <1>4, <1>7, <1>8 DEF Picks
<1>. QED  BY <1>5, <1>6, <1>9

\* The newest deliveries stay, and only a full queue loses any.
LEMMA TrimmedPicks ==
    ASSUME NEW S, NEW q \in Seq(S)
    PROVE  /\ Trimmed(q) \in Seq(S)
           /\ Trimmed(q) # q => Len(Trimmed(q)) = PendingLimit
           /\ \E I \in SUBSET (DOMAIN q) : Picks(Trimmed(q), q, I)
<1>1. /\ Len(q) \in Nat /\ DOMAIN q = 1..Len(q) /\ \A i \in DOMAIN q : q[i] \in S
      /\ PendingLimit \in Nat /\ PendingLimit > 0
  BY LenProperties, ElementOfSeq, WebhookAssumption
<1>2. CASE Len(q) <= PendingLimit
  BY <1>1, <1>2 DEF Trimmed, Picks
<1>3. CASE Len(q) > PendingLimit
  <2>. DEFINE m == Len(q) - PendingLimit + 1
              p == SubSeq(q, m, Len(q))
  <2>1. m \in Int /\ m \in 1..Len(q) /\ Len(q) - m + 1 = PendingLimit
    BY <1>1, <1>3
  <2>2. /\ p \in Seq(S) /\ Len(p) = PendingLimit
        /\ \A i \in 1..PendingLimit : p[i] = q[m + i - 1]
    <3>. HIDE DEF m
    <3>1. \A i \in m..Len(q) : q[i] \in S
      BY <1>1, <2>1
    <3>. QED  BY <1>1, <2>1, <3>1, SubSeqProperties
  <2>3. DOMAIN p = 1..PendingLimit
    BY <2>2, LenProperties
  <2>4. \A i \in 1..PendingLimit : m + i - 1 \in m..Len(q)
    BY <1>1, <2>1
  <2>5. \A i \in m..Len(q) : i - m + 1 \in 1..PendingLimit /\ m + (i - m + 1) - 1 = i
    BY <1>1, <2>1
  <2>6. \A k, l \in 1..PendingLimit : k # l => m + k - 1 # m + l - 1
    BY <2>1
  <2>7. Trimmed(q) = p
    BY <1>1, <1>3 DEF Trimmed
  <2>. HIDE DEF p
  <2>. HIDE DEF m
  <2>8. Picks(p, q, m..Len(q))
    <3>1. \A k \in DOMAIN p : \E i \in m..Len(q) : p[k] = q[i]
      BY <2>2, <2>3, <2>4
    <3>2. ASSUME NEW i \in m..Len(q)  PROVE \E k \in DOMAIN p : p[k] = q[i]
      <4>1. i - m + 1 \in DOMAIN p /\ p[i - m + 1] = q[i]
        BY <2>2, <2>3, <2>5
      <4>. QED  BY <4>1
    <3>3. ASSUME NEW k \in DOMAIN p, NEW l \in DOMAIN p, k # l
          PROVE  \E i, j \in m..Len(q) : i # j /\ p[k] = q[i] /\ p[l] = q[j]
      <4>1. p[k] = q[m + k - 1] /\ p[l] = q[m + l - 1]
        BY <2>2, <2>3
      <4>2. /\ m + k - 1 \in m..Len(q) /\ m + l - 1 \in m..Len(q)
            /\ m + k - 1 # m + l - 1
        BY <2>3, <2>4, <2>6, <3>3
      <4>. QED  BY <4>1, <4>2
    <3>. QED  BY <3>1, <3>2, <3>3 DEF Picks
  <2>9. m..Len(q) \subseteq DOMAIN q
    BY <1>1, <2>1
  <2>. QED  BY <2>2, <2>7, <2>8, <2>9
<1>. QED  BY <1>1, <1>2, <1>3

LEMMA PicksDistinct ==
    ASSUME NEW p, NEW q, NEW I \in SUBSET (DOMAIN q), Picks(p, q, I), Distinct(q)
    PROVE  Distinct(p)
BY DEF Picks, Distinct

LEMMA DeliveryFacts ==
    ASSUME WebhooksTypeOK
    PROVE  /\ Len(pending) \in Nat /\ DOMAIN pending = 1..Len(pending)
           /\ \A i \in DOMAIN pending :
                /\ pending[i] \in Pending
                /\ Item(pending[i]) \in Items /\ pending[i].hook \in Hooks
                /\ pending[i].event \in Events /\ pending[i].attempts \in 0..MaxAttempts
                /\ pending[i].due \in BOOLEAN /\ pending[i].claim \in Rounds \cup {NoRound}
                /\ Item(pending[i])[1] = pending[i].hook
                /\ Item(pending[i])[2] = pending[i].event
<1>1. /\ Len(pending) \in Nat /\ DOMAIN pending = 1..Len(pending)
      /\ \A i \in DOMAIN pending : pending[i] \in Pending
  BY LenProperties, ElementOfSeq DEF WebhooksTypeOK
<1>. QED  BY <1>1 DEF Pending, Item, Items

New(h) == [hook |-> h, event |-> queued + 1, attempts |-> 0, due |-> TRUE, claim |-> NoRound]

\* Enqueue puts one delivery for each active webhook behind the queue.
LEMMA EnqueueQueue ==
    ASSUME WebhooksTypeOK, QueueInv, HookInv, Enqueue
    PROVE  /\ pending' \in Seq(Pending) /\ Distinct(pending')
           /\ \A k \in DOMAIN pending' :
                \/ \E i \in DOMAIN pending : pending'[k] = pending[i]
                \/ \E h \in Hooks : hooks[h].status = "active" /\ pending'[k] = New(h)
           /\ \/ Len(pending') = PendingLimit
              \/ \A i \in DOMAIN pending : \E k \in DOMAIN pending' : pending'[k] = pending[i]
<1>. DEFINE active == {h \in Hooks : hooks[h].status = "active"
                                       /\ <<h, queued + 1>> \notin Queue(pending)}
            n == Cardinality(active)
            f == SetToSeq(active)
            added == [i \in 1..n |-> New(f[i])]
            q == pending \o added
<1>1. n \in Nat /\ ExistsBijection(1..n, active)
  <2>1. active \subseteq Registered /\ IsFiniteSet(Registered)
    BY DEF Registered, HookInv
  <2>. HIDE DEF active
  <2>. QED  BY <2>1, FS_Subset, FS_CardinalityType
<1>2. f \in [1..n -> active] /\ IsInjective(f)
  <2>. HIDE DEF active
  <2>1. \E g : g \in [1..n -> active] /\ IsInjective(g)
    BY <1>1 DEF ExistsBijection, Bijection, Injection
  <2>. QED  BY <2>1 DEF SetToSeq
<1>3. queued + 1 \in Events
  BY WebhookAssumption DEF WebhooksTypeOK, Enqueue, Events
<1>4. \A h \in Hooks : New(h) \in Pending
  BY <1>3, WebhookAssumption DEF New, Pending
<1>5. \A i \in 1..n : f[i] \in active /\ f[i] \in Hooks /\ hooks[f[i]].status = "active"
  <2>1. active \subseteq Hooks /\ \A h \in active : hooks[h].status = "active"
    OBVIOUS
  <2>. HIDE DEF active, f, n
  <2>. QED  BY <1>2, <2>1
<1>6. added \in Seq(Pending) /\ Len(added) = n
  <2>. HIDE DEF n, f
  <2>1. \A i \in 1..n : New(f[i]) \in Pending
    BY <1>4, <1>5
  <2>2. added \in Seq(Pending)
    BY <1>1, <2>1, IsASeq
  <2>. QED  BY <1>1, <2>2
<1>7. /\ Len(pending) \in Nat /\ DOMAIN pending = 1..Len(pending)
      /\ \A i \in DOMAIN pending : pending[i].event \in Int /\ pending[i].event <= queued
      /\ queued \in Int /\ pending \in Seq(Pending)
  BY DeliveryFacts DEF QueueInv, WebhooksTypeOK, Events
<1>8. /\ q \in Seq(Pending) /\ DOMAIN q = 1..(Len(pending) + n)
      /\ \A k \in 1..(Len(pending) + n) :
           q[k] = IF k <= Len(pending) THEN pending[k] ELSE added[k - Len(pending)]
  <2>. HIDE DEF added, n
  <2>1. /\ q \in Seq(Pending) /\ Len(q) = Len(pending) + n
        /\ \A k \in 1..(Len(pending) + n) :
             q[k] = IF k <= Len(pending) THEN pending[k] ELSE added[k - Len(pending)]
    BY <1>6, <1>7, ConcatProperties
  <2>. HIDE DEF q
  <2>2. DOMAIN q = 1..Len(q)
    BY <2>1, LenProperties
  <2>. QED  BY <2>1, <2>2
<1>9. \A k \in DOMAIN q :
        \/ k \in DOMAIN pending /\ q[k] = pending[k]
        \/ k \notin DOMAIN pending /\ k - Len(pending) \in 1..n /\ q[k] = New(f[k - Len(pending)])
  <2>1. \A i \in 1..n : added[i] = New(f[i])
    OBVIOUS
  <2>. HIDE DEF q, n, f, added
  <2>2. \A k \in 1..(Len(pending) + n) : k <= Len(pending) \/ k - Len(pending) \in 1..n
    BY <1>1, <1>7
  <2>. QED  BY <1>1, <1>7, <1>8, <2>1, <2>2
<1>10. \A i \in DOMAIN pending : i \in DOMAIN q /\ q[i] = pending[i]
  <2>. HIDE DEF q, n, added
  <2>. QED  BY <1>1, <1>7, <1>8
<1>. HIDE DEF q
<1>11. Distinct(q)
  <2>. SUFFICES ASSUME NEW k \in DOMAIN q, NEW l \in DOMAIN q, Item(q[k]) = Item(q[l])
                PROVE  k = l
    BY DEF Distinct
  <2>. HIDE DEF f, n, active
  <2>1. k \in Int /\ l \in Int /\ Len(pending) \in Int
    BY <1>1, <1>7, <1>8
  <2>2. /\ \A i \in 1..n : New(f[i]).event = queued + 1 /\ New(f[i]).hook = f[i]
        /\ q[k].event = q[l].event /\ q[k].hook = q[l].hook
    BY DEF New, Item
  <2>3. CASE k \in DOMAIN pending /\ l \in DOMAIN pending
    BY <1>10, <2>3 DEF QueueInv, Distinct
  <2>4. CASE k \notin DOMAIN pending /\ l \notin DOMAIN pending
    <3>1. f[k - Len(pending)] = f[l - Len(pending)]
      BY <1>9, <2>2, <2>4
    <3>2. k - Len(pending) = l - Len(pending)
      BY <1>2, <1>9, <2>4, <3>1 DEF IsInjective
    <3>. QED  BY <2>1, <3>2
  <2>5. ASSUME NEW i \in DOMAIN q, NEW j \in DOMAIN q,
               i \in DOMAIN pending, j \notin DOMAIN pending
        PROVE  q[i].event # q[j].event
    <3>1. q[i].event \in Int /\ q[i].event <= queued /\ queued \in Int
      BY <1>7, <1>10, <2>5
    <3>2. q[j].event = queued + 1
      BY <1>9, <2>2, <2>5
    <3>. QED  BY <3>1, <3>2
  <2>. QED  BY <2>2, <2>3, <2>4, <2>5
<1>12. pending' = Trimmed(q)
  BY DEF Enqueue, q, New
<1>13. PICK I \in SUBSET (DOMAIN q) : Picks(Trimmed(q), q, I)
  BY <1>8, TrimmedPicks
<1>14. Trimmed(q) \in Seq(Pending) /\ (Trimmed(q) # q => Len(Trimmed(q)) = PendingLimit)
  BY <1>8, TrimmedPicks
<1>15. Distinct(pending')
  BY <1>11, <1>12, <1>13, PicksDistinct
<1>16. \A k \in DOMAIN q :
         \/ \E i \in DOMAIN pending : q[k] = pending[i]
         \/ \E h \in Hooks : hooks[h].status = "active" /\ q[k] = New(h)
  <2>. HIDE DEF f, n
  <2>. QED  BY <1>5, <1>9
<1>17. \A k \in DOMAIN pending' : \E i \in DOMAIN q : pending'[k] = q[i]
  BY <1>12, <1>13 DEF Picks
<1>18. \/ Len(pending') = PendingLimit
       \/ \A i \in DOMAIN pending : \E k \in DOMAIN pending' : pending'[k] = pending[i]
  BY <1>10, <1>12, <1>14
<1>. QED  BY <1>12, <1>14, <1>15, <1>16, <1>17, <1>18

\* Deleting a webhook takes its deliveries along, and no others.
LEMMA DeleteQueue ==
    ASSUME WebhooksTypeOK, QueueInv, NEW h \in Hooks, Delete(h)
    PROVE  /\ pending' \in Seq(Pending) /\ Distinct(pending')
           /\ \A k \in DOMAIN pending' : \E i \in DOMAIN pending :
                pending[i].hook # h /\ pending'[k] = pending[i]
           /\ \A i \in DOMAIN pending : pending[i].hook # h =>
                \E k \in DOMAIN pending' : pending'[k] = pending[i]
<1>. DEFINE I == {i \in DOMAIN pending : pending[i].hook # h}
<1>1. I \in SUBSET (DOMAIN pending) /\ pending' = Keeping(pending, I)
  BY DEF Delete
<1>2. pending' \in Seq(Pending) /\ Picks(pending', pending, I)
  <2>. HIDE DEF I
  <2>. QED  BY <1>1, KeepingPicks DEF WebhooksTypeOK
<1>3. Distinct(pending')
  <2>. HIDE DEF I
  <2>. QED  BY <1>1, <1>2, PicksDistinct DEF QueueInv
<1>. QED  BY <1>2, <1>3 DEF Picks

\* A webhook that is given up on had none of its deliveries answered.
LEMMA HookAfterIs ==
    ASSUME WebhooksTypeOK, QueueInv, HookInv, NEW r \in Rounds, NEW h \in Hooks
    PROVE  /\ HookAfter(r, h) \in Hook
           /\ hooks[h].status # "active" => HookAfter(r, h) = hooks[h]
           /\ hooks[h].status = "active" => HookAfter(r, h).status \in {"active", "failing"}
           /\ HookAfter(r, h).status = "active" =>
                hooks[h].status = "active" /\ HookAfter(r, h).failures < FailingAfter
<1>1. hooks[h] \in Hook /\ FailingAfter \in Nat /\ FailingAfter > 0
  BY WebhookAssumption DEF WebhooksTypeOK
<1>2. /\ hooks[h].status \in {"none", "active", "failing", "deleted"}
      /\ hooks[h].failures \in 0..FailingAfter /\ hooks[h].backoff \in BOOLEAN
      /\ hooks[h].status = "active" => hooks[h].failures < FailingAfter
  BY <1>1 DEF HookInv, Hook
<1>. DEFINE ok == Of(h, round[r].ok \cap HeldItems(r))
            failed == Of(h, round[r].failed \cap HeldItems(r))
<1>3. hooks[h].status # "active" => ok = {} /\ failed = {}
  <2>1. \A x \in HeldItems(r) : hooks[x[1]].status = "active"
    BY DeliveryFacts DEF HeldItems, QueueInv
  <2>. QED  BY <2>1 DEF Of
<1>4. \/ HookAfter(r, h) = hooks[h]
      \/ /\ ok # {} \/ failed # {}
         /\ HookAfter(r, h) = [hooks[h] EXCEPT !.failures = 0, !.backoff = FALSE]
      \/ /\ ok # {} \/ failed # {}
         /\ HookAfter(r, h) = [hooks[h] EXCEPT
               !.failures = hooks[h].failures + 1, !.backoff = TRUE,
               !.status = IF hooks[h].failures + 1 >= FailingAfter THEN "failing" ELSE @]
  BY DEF HookAfter
<1>. HIDE DEF ok, failed
<1>5. CASE HookAfter(r, h) = hooks[h]
  BY <1>1, <1>2, <1>5
<1>6. CASE hooks[h].status = "active"
           /\ HookAfter(r, h) = [hooks[h] EXCEPT !.failures = 0, !.backoff = FALSE]
  <2>0. 0 \in 0..FailingAfter
    BY <1>1
  <2>1. HookAfter(r, h) \in Hook
    BY <1>1, <1>6, <2>0 DEF Hook
  <2>2. HookAfter(r, h).status = hooks[h].status /\ HookAfter(r, h).failures = 0
    BY <1>1, <1>6 DEF Hook
  <2>. QED  BY <1>1, <1>6, <2>1, <2>2
<1>7. CASE /\ hooks[h].status = "active"
           /\ HookAfter(r, h) = [hooks[h] EXCEPT
               !.failures = hooks[h].failures + 1, !.backoff = TRUE,
               !.status = IF hooks[h].failures + 1 >= FailingAfter THEN "failing" ELSE @]
  <2>. DEFINE n == hooks[h].failures + 1
              status == IF n >= FailingAfter THEN "failing" ELSE hooks[h].status
  <2>1. n \in 0..FailingAfter /\ (status = "active" => n < FailingAfter)
    BY <1>1, <1>2, <1>7
  <2>2. status \in {"active", "failing"}
    BY <1>7
  <2>3. HookAfter(r, h) =
          [hooks[h] EXCEPT !.failures = n, !.backoff = TRUE, !.status = status]
    BY <1>7
  <2>. HIDE DEF n, status
  <2>4. HookAfter(r, h) \in Hook
    BY <1>1, <2>1, <2>2, <2>3 DEF Hook
  <2>5. HookAfter(r, h).status = status /\ HookAfter(r, h).failures = n
    BY <1>1, <2>3 DEF Hook
  <2>. QED  BY <1>7, <2>1, <2>2, <2>4, <2>5
<1>. QED  BY <1>3, <1>4, <1>5, <1>6, <1>7

\* Applying a round releases what stays of what it holds, and leaves the rest alone.
LEMMA ReleasedIs ==
    ASSUME WebhooksTypeOK, NEW r \in Rounds, NEW i \in DOMAIN pending,
           Held(r, pending[i]) => ~Done(r, pending[i])
    PROVE  /\ Released(r, pending[i]) \in Pending
           /\ Item(Released(r, pending[i])) = Item(pending[i])
           /\ Released(r, pending[i]).hook = pending[i].hook
           /\ Released(r, pending[i]).event = pending[i].event
           /\ Held(r, pending[i]) => Released(r, pending[i]).claim = NoRound
           /\ ~Held(r, pending[i]) => Released(r, pending[i]) = pending[i]
           /\ \/ Released(r, pending[i]).attempts = pending[i].attempts
              \/ /\ Held(r, pending[i]) /\ Item(pending[i]) \in round[r].failed
                 /\ Released(r, pending[i]).attempts = pending[i].attempts + 1
<1>1. pending[i] \in Pending /\ MaxAttempts \in Nat
  BY DeliveryFacts, WebhookAssumption
<1>2. CASE ~Held(r, pending[i])
  BY <1>1, <1>2 DEF Released
<1>3. CASE Held(r, pending[i])
  <2>. DEFINE n == Attempted(r, pending[i])
  <2>1. /\ n = pending[i].attempts \/ n = pending[i].attempts + 1
        /\ n # pending[i].attempts => Item(pending[i]) \in round[r].failed
        /\ ~(n >= MaxAttempts)
    BY <1>3 DEF Done, Attempted
  <2>2. pending[i].attempts \in 0..MaxAttempts
    BY <1>1 DEF Pending
  <2>3. Released(r, pending[i]) =
          [pending[i] EXCEPT !.attempts = n, !.due = TRUE, !.claim = NoRound]
    BY <1>3 DEF Released
  <2>. HIDE DEF n
  <2>4. n \in 0..MaxAttempts
    BY <1>1, <2>1, <2>2
  <2>. QED  BY <1>1, <1>3, <2>1, <2>3, <2>4 DEF Pending, Item
<1>. QED  BY <1>2, <1>3

LEMMA ApplyQueue ==
    ASSUME WebhooksTypeOK, QueueInv, NEW r \in Rounds, Apply(r), HeldItems(r) # {}
    PROVE  /\ pending' \in Seq(Pending) /\ Distinct(pending')
           /\ \A k \in DOMAIN pending' : \E i \in Kept(r) :
                pending'[k] = Released(r, pending[i])
           /\ \A i \in Kept(r) : \E k \in DOMAIN pending' :
                pending'[k] = Released(r, pending[i])
<1>. DEFINE kept == Keeping(pending, Kept(r))
<1>1. Kept(r) \in SUBSET (DOMAIN pending)
  BY DEF Kept
<1>2. kept \in Seq(Pending) /\ Picks(kept, pending, Kept(r))
  BY <1>1, KeepingPicks DEF WebhooksTypeOK
<1>3. Len(kept) \in Nat /\ DOMAIN kept = 1..Len(kept)
  <2>. HIDE DEF kept
  <2>. QED  BY <1>2, LenProperties
<1>4. pending' = [k \in DOMAIN kept |-> Released(r, kept[k])]
  BY DEF Apply
<1>. HIDE DEF kept
<1>5. DOMAIN pending' = DOMAIN kept /\ \A k \in DOMAIN kept : pending'[k] = Released(r, kept[k])
  BY <1>4
<1>6. \A i \in Kept(r) : /\ Released(r, pending[i]) \in Pending
                         /\ Item(Released(r, pending[i])) = Item(pending[i])
  BY ReleasedIs DEF Kept
<1>7. pending' \in Seq(Pending)
  <2>1. \A k \in 1..Len(kept) : Released(r, kept[k]) \in Pending
    BY <1>2, <1>3, <1>6 DEF Picks
  <2>. QED  BY <1>3, <1>4, <2>1, IsASeq
<1>8. Distinct(kept)
  BY <1>1, <1>2, PicksDistinct DEF QueueInv
<1>9. \A k \in DOMAIN kept : Item(pending'[k]) = Item(kept[k])
  BY <1>2, <1>5, <1>6 DEF Picks
<1>10. Distinct(pending')
  BY <1>5, <1>8, <1>9 DEF Distinct
<1>11. \A k \in DOMAIN pending' : \E i \in Kept(r) : pending'[k] = Released(r, pending[i])
  BY <1>2, <1>5 DEF Picks
<1>12. ASSUME NEW i \in Kept(r)
       PROVE  \E k \in DOMAIN pending' : pending'[k] = Released(r, pending[i])
  <2>1. PICK k \in DOMAIN kept : kept[k] = pending[i]
    BY <1>2 DEF Picks
  <2>. QED  BY <1>5, <2>1
<1>. QED  BY <1>7, <1>10, <1>11, <1>12

\* The steps that only mark deliveries as due or claimed.
SameDeliveries ==
    /\ DOMAIN pending' = DOMAIN pending
    /\ \A i \in DOMAIN pending :
         /\ Item(pending'[i]) = Item(pending[i])
         /\ pending'[i].hook = pending[i].hook /\ pending'[i].event = pending[i].event
         /\ pending'[i].attempts = pending[i].attempts

LEMMA MarkedQueue ==
    ASSUME WebhooksTypeOK,
           LeaseEnds \/ \E r \in Rounds : Claim(r) \/ OutliveLease(r) \/ RoundDies(r)
    PROVE  pending' \in Seq(Pending) /\ SameDeliveries
<1>1. /\ Len(pending) \in Nat /\ DOMAIN pending = 1..Len(pending)
      /\ \A i \in DOMAIN pending : pending[i] \in Pending
  BY DeliveryFacts
<1>. DEFINE Mark(d, e) ==
              \/ e = d
              \/ e = [d EXCEPT !.due = TRUE]
              \/ e = [d EXCEPT !.claim = NoRound]
              \/ \E r \in Rounds : e = [d EXCEPT !.due = FALSE, !.claim = r]
            Marked == /\ DOMAIN pending' = DOMAIN pending
                      /\ \A i \in DOMAIN pending : Mark(pending[i], pending'[i])
                      /\ pending' = [i \in DOMAIN pending |-> pending'[i]]
<1>2. Marked
  <2>1. CASE LeaseEnds
    BY <2>1 DEF LeaseEnds
  <2>2. ASSUME NEW r \in Rounds, Claim(r)  PROVE Marked
    BY <2>2 DEF Claim
  <2>3. ASSUME NEW r \in Rounds, OutliveLease(r)  PROVE Marked
    BY <2>3 DEF OutliveLease
  <2>4. ASSUME NEW r \in Rounds, RoundDies(r)  PROVE Marked
    BY <2>4 DEF RoundDies
  <2>. HIDE DEF Marked
  <2>. QED  BY <2>1, <2>2, <2>3, <2>4
<1>3. ASSUME NEW i \in DOMAIN pending
      PROVE  /\ pending'[i] \in Pending /\ Item(pending'[i]) = Item(pending[i])
             /\ pending'[i].hook = pending[i].hook /\ pending'[i].event = pending[i].event
             /\ pending'[i].attempts = pending[i].attempts
  <2>1. pending[i] \in Pending
    BY <1>1
  <2>2. /\ [pending[i] EXCEPT !.due = TRUE] \in Pending
        /\ [pending[i] EXCEPT !.claim = NoRound] \in Pending
        /\ \A r \in Rounds : [pending[i] EXCEPT !.due = FALSE, !.claim = r] \in Pending
    BY <2>1 DEF Pending
  <2>. QED  BY <1>2, <2>1, <2>2 DEF Item, Pending
<1>4. [i \in 1..Len(pending) |-> pending'[i]] \in Seq(Pending)
  BY <1>1, <1>3, IsASeq
<1>. QED  BY <1>1, <1>2, <1>3, <1>4 DEF SameDeliveries

\* The records that a round steps through are rounds.
LEMMA RoundUpdates ==
    /\ IdleRound \in Round
    /\ \A S \in SUBSET Items : [IdleRound EXCEPT !.pc = "send", !.items = S] \in Round
    /\ \A x \in Round :
         /\ [x EXCEPT !.expired = TRUE] \in Round
         /\ \A ok, failed \in SUBSET Items :
              [x EXCEPT !.pc = "apply", !.ok = ok, !.failed = failed] \in Round
BY DEF Round, IdleRound

LEMMA WebhooksTypeKeeps ==
    ASSUME WebhooksTypeOK, QueueInv, HookInv, [WebhooksNext]_webhookVars
    PROVE  WebhooksTypeOK'
<1>. USE DEF WebhooksTypeOK
<1>0. /\ MaxTroubles \in Nat /\ EventCount \in Nat /\ FailingAfter \in Nat
      /\ \A h \in Hooks : hooks[h] \in Hook
      /\ \A r \in Rounds : round[r] \in Round /\ round[r].items \subseteq Items
      /\ \A i \in Items : misses[i] \in Nat
  BY WebhookAssumption DEF Round
<1>1. ASSUME NEW h \in Hooks, Register(h)  PROVE WebhooksTypeOK'
  <2>1. [hooks[h] EXCEPT !.status = "active"] \in Hook
    BY <1>0 DEF Hook
  <2>. QED  BY <1>1, <2>1 DEF Register
<1>2. ASSUME NEW h \in Hooks, Delete(h)  PROVE WebhooksTypeOK'
  <2>1. [hooks[h] EXCEPT !.status = "deleted"] \in Hook
    BY <1>0 DEF Hook
  <2>. QED  BY <1>2, <2>1, DeleteQueue DEF Delete
<1>3. ASSUME NEW h \in Hooks, BackoffEnds(h)  PROVE WebhooksTypeOK'
  <2>1. [hooks[h] EXCEPT !.backoff = FALSE] \in Hook
    BY <1>0 DEF Hook
  <2>. QED  BY <1>3, <2>1 DEF BackoffEnds
<1>4. CASE Enqueue
  <2>1. pending' \in Seq(Pending)
    BY <1>4, EnqueueQueue
  <2>. QED  BY <1>0, <1>4, <2>1 DEF Enqueue
<1>5. ASSUME NEW r \in Rounds, Claim(r)  PROVE WebhooksTypeOK'
  <2>1. {Item(pending[i]) : i \in Claimed} \in SUBSET Items
    BY DeliveryFacts DEF Claimed
  <2>2. pending' \in Seq(Pending)
    BY <1>5, MarkedQueue
  <2>. QED  BY <1>5, <2>1, <2>2, RoundUpdates DEF Claim
<1>6. ASSUME NEW r \in Rounds, Send(r)  PROVE WebhooksTypeOK'
  <2>1. PICK ok, failed \in SUBSET round[r].items :
          /\ ok \cup failed # round[r].items => troubles < MaxTroubles
          /\ troubles' = troubles + (IF ok \cup failed = round[r].items THEN 0 ELSE 1)
          /\ round' = [round EXCEPT ![r].pc = "apply", ![r].ok = ok, ![r].failed = failed]
          /\ accepted' = accepted \cup ok
          /\ misses' = [i \in Items |-> IF i \in failed THEN misses[i] + 1 ELSE misses[i]]
    BY <1>6 DEF Send
  <2>2. ok \in SUBSET Items /\ failed \in SUBSET Items
    BY <1>0
  <2>3. round' \in [Rounds -> Round]
    BY <1>0, <2>1, <2>2, RoundUpdates
  <2>4. troubles' \in 0..MaxTroubles
    BY <1>0, <2>1
  <2>5. misses' \in [Items -> Nat]
    BY <1>0, <2>1
  <2>. QED  BY <1>6, <2>1, <2>2, <2>3, <2>4, <2>5 DEF Send
<1>7. ASSUME NEW r \in Rounds, Apply(r)  PROVE WebhooksTypeOK'
  <2>1. CASE HeldItems(r) = {}
    BY <1>7, <2>1, RoundUpdates DEF Apply
  <2>2. CASE HeldItems(r) # {}
    <3>1. pending' \in Seq(Pending)
      BY <1>7, <2>2, ApplyQueue
    <3>2. hooks' \in [Hooks -> Hook]
      BY <1>7, <2>2, HookAfterIs DEF Apply
    <3>. QED  BY <1>7, <3>1, <3>2, RoundUpdates DEF Apply
  <2>. QED  BY <2>1, <2>2
<1>8. ASSUME NEW r \in Rounds, OutliveLease(r) \/ RoundDies(r)  PROVE WebhooksTypeOK'
  <2>1. pending' \in Seq(Pending)
    BY <1>8, MarkedQueue
  <2>2. round' \in [Rounds -> Round]
    BY <1>0, <1>8, RoundUpdates DEF OutliveLease, RoundDies
  <2>. QED  BY <1>0, <1>8, <2>1, <2>2 DEF OutliveLease, RoundDies
<1>9. CASE LeaseEnds
  BY <1>9, MarkedQueue DEF LeaseEnds
<1>10. CASE UNCHANGED webhookVars
  BY <1>10 DEF webhookVars
<1>. QED
  BY <1>1, <1>2, <1>3, <1>4, <1>5, <1>6, <1>7, <1>8, <1>9, <1>10 DEF WebhooksNext

LEMMA HookKeeps ==
    ASSUME WebhooksTypeOK, QueueInv, HookInv, [WebhooksNext]_webhookVars
    PROVE  HookInv'
<1>1. /\ IsFiniteSet(Registered)
      /\ \A S : S \subseteq Registered => IsFiniteSet(S)
      /\ \A h \in Hooks : IsFiniteSet(Registered \cup {h})
  BY FS_Subset, FS_AddElement DEF HookInv
<1>2. \A h \in Hooks : hooks[h] \in Hook
  BY DEF WebhooksTypeOK
<1>3. ASSUME NEW h \in Hooks, Register(h)  PROVE HookInv'
  <2>1. hooks[h].status = "none" /\ hooks' = [hooks EXCEPT ![h].status = "active"]
    BY <1>3 DEF Register
  <2>2. /\ hooks'[h].status = "active" /\ hooks'[h].failures = hooks[h].failures
        /\ \A g \in Hooks : g # h => hooks'[g] = hooks[g]
    BY <1>2, <2>1 DEF WebhooksTypeOK, Hook
  <2>3. Registered' = Registered \cup {h}
    BY <2>2 DEF Registered
  <2>. QED  BY <1>1, <2>1, <2>2, <2>3 DEF HookInv
<1>4. ASSUME NEW h \in Hooks, Delete(h)  PROVE HookInv'
  <2>1. /\ hooks'[h].status = "deleted"
        /\ \A g \in Hooks : g # h => hooks'[g] = hooks[g]
    BY <1>2, <1>4 DEF Delete, WebhooksTypeOK, Hook
  <2>2. Registered' \subseteq Registered
    BY <2>1 DEF Registered
  <2>. QED  BY <1>1, <2>1, <2>2 DEF HookInv
<1>5. ASSUME NEW h \in Hooks, BackoffEnds(h)  PROVE HookInv'
  <2>1. \A g \in Hooks : /\ hooks'[g].status = hooks[g].status
                         /\ hooks'[g].failures = hooks[g].failures
    BY <1>2, <1>5 DEF BackoffEnds, WebhooksTypeOK, Hook
  <2>2. Registered' \subseteq Registered
    BY <2>1 DEF Registered
  <2>. QED  BY <1>1, <2>1, <2>2 DEF HookInv
<1>6. ASSUME NEW r \in Rounds, Apply(r), HeldItems(r) # {}  PROVE HookInv'
  <2>1. \A g \in Hooks : hooks'[g] = HookAfter(r, g)
    BY <1>6 DEF Apply
  <2>2. Registered' \subseteq Registered
    BY <2>1, HookAfterIs DEF Registered
  <2>3. \A g \in Hooks : hooks'[g].status \in {"none", "active"} =>
                            hooks'[g].failures < FailingAfter
    BY <2>1, HookAfterIs DEF HookInv
  <2>. QED  BY <1>1, <2>2, <2>3 DEF HookInv
<1>7. CASE UNCHANGED hooks
  BY <1>7 DEF HookInv, Registered
<1>8. \/ UNCHANGED hooks
      \/ \E h \in Hooks : Register(h) \/ Delete(h) \/ BackoffEnds(h)
      \/ \E r \in Rounds : Apply(r) /\ HeldItems(r) # {}
  BY DEF WebhooksNext, webhookVars, Enqueue, Claim, Send, Apply, OutliveLease, RoundDies,
         LeaseEnds
<1>. QED  BY <1>3, <1>4, <1>5, <1>6, <1>7, <1>8

LEMMA QueueKeeps ==
    ASSUME WebhooksTypeOK, QueueInv, HookInv, [WebhooksNext]_webhookVars
    PROVE  QueueInv'
<1>1. ASSUME NEW h \in Hooks, Register(h) \/ BackoffEnds(h)  PROVE QueueInv'
  <2>1. UNCHANGED <<pending, queued>>
    BY <1>1 DEF Register, BackoffEnds
  <2>2. \A g \in Hooks : hooks[g].status = "active" => hooks'[g].status = "active"
    BY <1>1 DEF Register, BackoffEnds, WebhooksTypeOK, Hook
  <2>. QED  BY <2>1, <2>2, DeliveryFacts DEF QueueInv, Distinct, Item
<1>2. ASSUME NEW h \in Hooks, Delete(h)  PROVE QueueInv'
  <2>1. queued' = queued /\ \A g \in Hooks : g # h => hooks'[g] = hooks[g]
    BY <1>2 DEF Delete, WebhooksTypeOK
  <2>2. Distinct(pending') /\ \A k \in DOMAIN pending' : \E i \in DOMAIN pending :
          pending[i].hook # h /\ pending'[k] = pending[i]
    BY <1>2, DeleteQueue
  <2>3. \A k \in DOMAIN pending' :
          pending'[k].event <= queued' /\ hooks'[pending'[k].hook].status = "active"
    BY <2>1, <2>2, DeliveryFacts DEF QueueInv
  <2>. QED  BY <2>2, <2>3 DEF QueueInv, Distinct, Item
<1>3. CASE Enqueue
  <2>1. queued' = queued + 1 /\ hooks' = hooks /\ queued \in Nat
    BY <1>3, WebhookAssumption DEF Enqueue, WebhooksTypeOK
  <2>2. \A i \in DOMAIN pending : pending[i].event \in Nat /\ pending[i].event <= queued
    BY DeliveryFacts DEF QueueInv, Events
  <2>3. \A k \in DOMAIN pending' :
          pending'[k].event <= queued' /\ hooks'[pending'[k].hook].status = "active"
    BY <1>3, <2>1, <2>2, EnqueueQueue DEF QueueInv, New
  <2>. QED  BY <1>3, <2>3, EnqueueQueue DEF QueueInv, Distinct, Item
<1>4. ASSUME NEW r \in Rounds, Apply(r), HeldItems(r) # {}  PROVE QueueInv'
  <2>1. queued' = queued /\ \A h \in Hooks : hooks'[h] = HookAfter(r, h)
    BY <1>4 DEF Apply
  <2>2. Distinct(pending') /\ \A k \in DOMAIN pending' : \E i \in Kept(r) :
          pending'[k] = Released(r, pending[i])
    BY <1>4, ApplyQueue
  <2>3. ASSUME NEW i \in Kept(r)
        PROVE  /\ Released(r, pending[i]).event <= queued
               /\ hooks'[Released(r, pending[i]).hook].status = "active"
    BY <2>1, <2>3, ReleasedIs, DeliveryFacts DEF Kept, QueueInv
  <2>. QED  BY <2>1, <2>2, <2>3 DEF QueueInv, Distinct, Item
<1>5. CASE SameDeliveries /\ UNCHANGED <<hooks, queued>>
  BY <1>5 DEF SameDeliveries, QueueInv, Distinct, Item
<1>6. CASE UNCHANGED <<pending, hooks, queued>>
  BY <1>6 DEF QueueInv, Distinct, Item
<1>7. ASSUME NEW r \in Rounds, Claim(r) \/ OutliveLease(r) \/ RoundDies(r)  PROVE QueueInv'
  BY <1>5, <1>7, MarkedQueue DEF Claim, OutliveLease, RoundDies
<1>8. CASE LeaseEnds
  BY <1>5, <1>8, MarkedQueue DEF LeaseEnds
<1>9. ASSUME NEW r \in Rounds, Send(r) \/ (Apply(r) /\ HeldItems(r) = {})  PROVE QueueInv'
  BY <1>6, <1>9 DEF Send, Apply
<1>. QED
  BY <1>1, <1>2, <1>3, <1>4, <1>6, <1>7, <1>8, <1>9 DEF WebhooksNext, webhookVars

LEMMA RoundKeeps ==
    ASSUME WebhooksTypeOK, QueueInv, RoundInv, [WebhooksNext]_webhookVars
    PROVE  RoundInv'
<1>1. queued \in Int /\ \A r \in Rounds : round[r] \in Round
  BY WebhookAssumption DEF WebhooksTypeOK
<1>2. CASE UNCHANGED <<round, queued, accepted>>
  BY <1>2 DEF RoundInv
<1>3. CASE Enqueue
  <2>1. UNCHANGED <<round, accepted>> /\ queued' = queued + 1
    BY <1>3 DEF Enqueue
  <2>2. \A r \in Rounds : \A i \in round[r].items : i[2] \in Int
    BY <1>1 DEF Round, Items, Events
  <2>3. \A r \in Rounds : \A i \in round[r].items : i[2] <= queued'
    BY <1>1, <2>1, <2>2 DEF RoundInv
  <2>. QED  BY <2>1, <2>3 DEF RoundInv
<1>4. ASSUME NEW r \in Rounds, Claim(r)  PROVE RoundInv'
  <2>. DEFINE S == {Item(pending[i]) : i \in Claimed}
  <2>1. UNCHANGED <<queued, accepted>>
        /\ round' = [round EXCEPT ![r] = [IdleRound EXCEPT !.pc = "send", !.items = S]]
    BY <1>4 DEF Claim
  <2>2. \A x \in S : x[2] <= queued
    BY DeliveryFacts DEF Claimed, QueueInv
  <2>. HIDE DEF S
  <2>3. /\ round'[r].ok = {} /\ round'[r].failed = {} /\ round'[r].items = S
        /\ round'[r].pc = "send"
        /\ \A s \in Rounds : s # r => round'[s] = round[s]
    BY <2>1 DEF IdleRound, WebhooksTypeOK
  <2>. QED  BY <2>1, <2>2, <2>3 DEF RoundInv
<1>5. ASSUME NEW r \in Rounds, Send(r)  PROVE RoundInv'
  <2>1. PICK ok, failed \in SUBSET round[r].items :
          /\ round' = [round EXCEPT ![r].pc = "apply", ![r].ok = ok, ![r].failed = failed]
          /\ accepted' = accepted \cup ok
    BY <1>5 DEF Send
  <2>2. /\ round'[r].ok = ok /\ round'[r].failed = failed
        /\ round'[r].items = round[r].items /\ round'[r].pc = "apply"
        /\ \A s \in Rounds : s # r => round'[s] = round[s]
    BY <1>1, <2>1 DEF Round, WebhooksTypeOK
  <2>3. queued' = queued
    BY <1>5 DEF Send
  <2>. QED  BY <2>1, <2>2, <2>3 DEF RoundInv
<1>6. ASSUME NEW r \in Rounds, Apply(r) \/ RoundDies(r)  PROVE RoundInv'
  BY <1>6 DEF Apply, RoundDies, RoundInv, IdleRound, WebhooksTypeOK
<1>7. ASSUME NEW r \in Rounds, OutliveLease(r)  PROVE RoundInv'
  <2>1. /\ round'[r] = [round[r] EXCEPT !.expired = TRUE]
        /\ \A s \in Rounds : s # r => round'[s] = round[s]
        /\ UNCHANGED <<queued, accepted>>
    BY <1>7 DEF OutliveLease, WebhooksTypeOK
  <2>2. /\ round'[r].ok = round[r].ok /\ round'[r].failed = round[r].failed
        /\ round'[r].items = round[r].items /\ round'[r].pc = round[r].pc
    BY <1>1, <2>1 DEF Round
  <2>. QED  BY <2>1, <2>2 DEF RoundInv
<1>8. \/ UNCHANGED <<round, queued, accepted>> \/ Enqueue
      \/ \E r \in Rounds : Claim(r) \/ Send(r) \/ Apply(r) \/ OutliveLease(r) \/ RoundDies(r)
  BY DEF WebhooksNext, webhookVars, Register, Delete, BackoffEnds, LeaseEnds
<1>. QED  BY <1>2, <1>3, <1>4, <1>5, <1>6, <1>7, <1>8

\* What each step of a round does to the rounds.
LEMMA RoundSteps ==
    ASSUME WebhooksTypeOK, NEW r \in Rounds
    PROVE  /\ \A s \in Rounds : s # r /\ (Claim(r) \/ Send(r) \/ Apply(r) \/ OutliveLease(r)
                                             \/ RoundDies(r)) => round'[s] = round[s]
           /\ Claim(r) => /\ round'[r].items = {Item(pending[i]) : i \in Claimed}
                          /\ round'[r].failed = {} /\ ~round'[r].expired
           /\ Send(r) => /\ round'[r].items = round[r].items
                         /\ round'[r].expired = round[r].expired
           /\ Apply(r) \/ RoundDies(r) => round'[r].items = {} /\ round'[r].failed = {}
           /\ OutliveLease(r) => /\ round'[r].items = round[r].items /\ round'[r].expired
                                 /\ round'[r].failed = round[r].failed
<1>1. round[r] \in Round /\ DOMAIN round = Rounds
  BY DEF WebhooksTypeOK
<1>2. ASSUME Claim(r)
      PROVE  /\ round'[r].items = {Item(pending[i]) : i \in Claimed}
             /\ round'[r].failed = {} /\ ~round'[r].expired
  BY <1>1, <1>2 DEF Claim, IdleRound
<1>3. ASSUME Send(r)
      PROVE  round'[r].items = round[r].items /\ round'[r].expired = round[r].expired
  BY <1>1, <1>3 DEF Send, Round
<1>4. ASSUME Apply(r) \/ RoundDies(r)  PROVE round'[r].items = {} /\ round'[r].failed = {}
  BY <1>1, <1>4 DEF Apply, RoundDies, IdleRound
<1>5. ASSUME OutliveLease(r)
      PROVE  /\ round'[r].items = round[r].items /\ round'[r].expired
             /\ round'[r].failed = round[r].failed
  BY <1>1, <1>5 DEF OutliveLease, Round
<1>6. ASSUME NEW s \in Rounds, s # r,
             Claim(r) \/ Send(r) \/ Apply(r) \/ OutliveLease(r) \/ RoundDies(r)
      PROVE  round'[s] = round[s]
  BY <1>1, <1>6 DEF Claim, Send, Apply, OutliveLease, RoundDies
<1>. QED  BY <1>2, <1>3, <1>4, <1>5, <1>6

\* Whatever round r applies, no delivery bears its token afterwards.
LEMMA ApplyReleases ==
    ASSUME WebhooksTypeOK, QueueInv, ClaimInv, NEW r \in Rounds, Apply(r)
    PROVE  /\ \A k \in DOMAIN pending' : \E i \in DOMAIN pending :
                /\ Item(pending'[k]) = Item(pending[i])
                /\ \/ pending'[k] = pending[i] /\ pending[i].claim # r
                   \/ /\ pending[i].claim = r /\ pending'[k].claim = NoRound
                      /\ \/ pending'[k].attempts = pending[i].attempts
                         \/ /\ Item(pending[i]) \in round[r].failed
                            /\ pending'[k].attempts = pending[i].attempts + 1
<1>1. \A i \in DOMAIN pending : pending[i].claim = r => Held(r, pending[i])
  BY DEF ClaimInv, Held
<1>2. CASE HeldItems(r) = {}
  <2>1. \A i \in DOMAIN pending : pending[i].claim # r
    BY <1>1, <1>2 DEF HeldItems
  <2>2. pending' = pending
    BY <1>2 DEF Apply
  <2>. QED  BY <2>1, <2>2 DEF Item
<1>3. CASE HeldItems(r) # {}
  <2>. SUFFICES ASSUME NEW k \in DOMAIN pending'
                PROVE  \E i \in DOMAIN pending :
                /\ Item(pending'[k]) = Item(pending[i])
                /\ \/ pending'[k] = pending[i] /\ pending[i].claim # r
                   \/ /\ pending[i].claim = r /\ pending'[k].claim = NoRound
                      /\ \/ pending'[k].attempts = pending[i].attempts
                         \/ /\ Item(pending[i]) \in round[r].failed
                            /\ pending'[k].attempts = pending[i].attempts + 1
    OBVIOUS
  <2>1. PICK i \in Kept(r) : pending'[k] = Released(r, pending[i])
    BY <1>3, ApplyQueue
  <2>2. i \in DOMAIN pending /\ (Held(r, pending[i]) => ~Done(r, pending[i]))
    BY DEF Kept
  <2>3. CASE Held(r, pending[i])
    BY <2>1, <2>2, <2>3, ReleasedIs DEF Held
  <2>4. CASE ~Held(r, pending[i])
    BY <1>1, <2>1, <2>2, <2>4, ReleasedIs
  <2>. QED  BY <2>3, <2>4
<1>. QED  BY <1>2, <1>3

LEMMA ClaimKeeps ==
    ASSUME WebhooksTypeOK, QueueInv, HookInv, RoundInv, ClaimInv, [WebhooksNext]_webhookVars
    PROVE  ClaimInv'
<1>0. NoRound \notin Rounds /\ queued \in Int
  BY WebhookAssumption DEF WebhooksTypeOK
<1>1. CASE UNCHANGED <<pending, round>>
  BY <1>1 DEF ClaimInv, HeldByOne, Item
<1>2. ASSUME NEW h \in Hooks, Delete(h)  PROVE ClaimInv'
  <2>1. round' = round
    BY <1>2 DEF Delete
  <2>2. \A k \in DOMAIN pending' : \E i \in DOMAIN pending : pending'[k] = pending[i]
    BY <1>2, DeleteQueue
  <2>. QED  BY <2>1, <2>2 DEF ClaimInv, HeldByOne, Item
<1>3. CASE Enqueue
  <2>1. round' = round
    BY <1>3 DEF Enqueue
  <2>2. ASSUME NEW h \in Hooks, NEW r \in Rounds
        PROVE  New(h).claim # r /\ Item(New(h)) \notin round[r].items
    <3>1. Item(New(h))[2] = queued + 1 /\ New(h).claim = NoRound
      BY DEF Item, New
    <3>2. \A x \in round[r].items : x[2] <= queued
      BY DEF RoundInv
    <3>. QED  BY <1>0, <3>1, <3>2
  <2>3. ASSUME NEW k \in DOMAIN pending', NEW r \in Rounds
        PROVE  /\ pending'[k].claim = r => Item(pending'[k]) \in round[r].items
               /\ Item(pending'[k]) \in round[r].items /\ ~round[r].expired =>
                    pending'[k].claim = r /\ ~pending'[k].due
    <3>1. CASE \E i \in DOMAIN pending : pending'[k] = pending[i]
      BY <3>1 DEF ClaimInv
    <3>2. CASE \E h \in Hooks : pending'[k] = New(h)
      BY <2>2, <3>2
    <3>. QED  BY <1>3, <3>1, <3>2, EnqueueQueue
  <2>. QED  BY <2>1, <2>3 DEF ClaimInv, HeldByOne, Item
<1>4. ASSUME NEW r \in Rounds, Claim(r)  PROVE ClaimInv'
  <2>. DEFINE S == {Item(pending[i]) : i \in Claimed}
  <2>1. /\ round'[r].items = S /\ ~round'[r].expired
        /\ \A s \in Rounds : s # r => round'[s] = round[s]
    BY <1>4, RoundSteps
  <2>2. /\ DOMAIN pending' = DOMAIN pending
        /\ \A i \in DOMAIN pending : Item(pending'[i]) = Item(pending[i])
    BY <1>4, MarkedQueue DEF SameDeliveries
  <2>3. /\ \A i \in Claimed : pending'[i].claim = r /\ ~pending'[i].due
        /\ \A i \in DOMAIN pending \ Claimed : pending'[i] = pending[i]
    <3>1. \A i \in Claimed : pending'[i] = [pending[i] EXCEPT !.due = FALSE, !.claim = r]
      BY <1>4 DEF Claim, Claimed
    <3>2. \A i \in Claimed : pending[i] \in Pending
      BY DeliveryFacts DEF Claimed
    <3>3. \A i \in Claimed : pending'[i].claim = r /\ ~pending'[i].due
      BY <3>1, <3>2 DEF Pending
    <3>4. \A i \in DOMAIN pending \ Claimed : pending'[i] = pending[i]
      BY <1>4 DEF Claim
    <3>. QED  BY <3>3, <3>4
  <2>4. /\ Claimed \subseteq DOMAIN pending /\ \A i \in Claimed : pending[i].due
        /\ \A i \in DOMAIN pending : Item(pending[i]) \in S => i \in Claimed
    BY DEF Claimed, Claimable, QueueInv, Distinct
  <2>5. \A i \in DOMAIN pending : pending[i].claim # r
    BY <1>4 DEF Claim, RoundInv, ClaimInv
  <2>6. \A i \in Claimed : \A s \in Rounds :
          ~round[s].expired => Item(pending[i]) \notin round[s].items
    BY <2>4 DEF ClaimInv
  <2>7. \A i \in Claimed : Item(pending[i]) \in S
    OBVIOUS
  <2>8. \A x \in S : \A s \in Rounds : ~round[s].expired => x \notin round[s].items
    BY <2>6
  <2>. HIDE DEF S
  <2>9. HeldByOne'
    BY <2>1, <2>8 DEF ClaimInv, HeldByOne
  <2>10. ASSUME NEW i \in DOMAIN pending, NEW s \in Rounds
         PROVE  /\ pending'[i].claim = s => Item(pending[i]) \in round'[s].items
                /\ Item(pending[i]) \in round'[s].items /\ ~round'[s].expired =>
                     pending'[i].claim = s /\ ~pending'[i].due
    <3>1. CASE i \in Claimed
      BY <2>1, <2>3, <2>6, <2>7, <3>1
    <3>2. CASE i \notin Claimed
      BY <2>1, <2>3, <2>4, <2>5, <3>2 DEF ClaimInv
    <3>. QED  BY <3>1, <3>2
  <2>. QED  BY <2>2, <2>9, <2>10 DEF ClaimInv, Item
<1>5. ASSUME NEW r \in Rounds, Send(r)  PROVE ClaimInv'
  <2>1. \A s \in Rounds : /\ round'[s].items = round[s].items
                          /\ round'[s].expired = round[s].expired
    BY <1>5, RoundSteps
  <2>2. pending' = pending
    BY <1>5 DEF Send
  <2>. QED  BY <2>1, <2>2 DEF ClaimInv, HeldByOne, Item
<1>6. ASSUME NEW r \in Rounds, Apply(r)  PROVE ClaimInv'
  <2>1. round'[r].items = {} /\ \A s \in Rounds : s # r => round'[s] = round[s]
    BY <1>6, RoundSteps
  <2>2. HeldByOne'
    BY <2>1 DEF ClaimInv, HeldByOne
  <2>3. ASSUME NEW k \in DOMAIN pending', NEW s \in Rounds
        PROVE  /\ pending'[k].claim = s => Item(pending'[k]) \in round'[s].items
               /\ Item(pending'[k]) \in round'[s].items /\ ~round'[s].expired =>
                    pending'[k].claim = s /\ ~pending'[k].due
    <3>1. PICK i \in DOMAIN pending :
            /\ Item(pending'[k]) = Item(pending[i])
            /\ \/ pending'[k] = pending[i] /\ pending[i].claim # r
               \/ pending[i].claim = r /\ pending'[k].claim = NoRound
      BY <1>6, ApplyReleases
    <3>. QED  BY <1>0, <2>1, <3>1 DEF ClaimInv
  <2>. QED  BY <2>2, <2>3 DEF ClaimInv, Item
<1>7. ASSUME NEW r \in Rounds, OutliveLease(r) \/ RoundDies(r)  PROVE ClaimInv'
  <2>1. \A s \in Rounds : s # r => round'[s] = round[s]
    BY <1>7, RoundSteps
  <2>2. \/ round'[r].items = {} /\ RoundDies(r)
        \/ round'[r].items = round[r].items /\ round'[r].expired /\ OutliveLease(r)
    BY <1>7, RoundSteps
  <2>3. /\ DOMAIN pending' = DOMAIN pending
        /\ \A i \in DOMAIN pending : Item(pending'[i]) = Item(pending[i])
    BY <1>7, MarkedQueue DEF SameDeliveries
  <2>4. ASSUME NEW i \in DOMAIN pending
        PROVE  \/ pending'[i] = pending[i] /\ pending[i].claim # r
               \/ /\ pending[i].claim = r
                  /\ \/ pending'[i].claim = r /\ OutliveLease(r)
                     \/ pending'[i].claim = NoRound
    <3>1. pending[i] \in Pending
      BY DeliveryFacts
    <3>. QED  BY <1>7, <3>1 DEF OutliveLease, RoundDies, Claims, Pending
  <2>5. HeldByOne'
    BY <2>1, <2>2 DEF ClaimInv, HeldByOne
  <2>6. ASSUME NEW i \in DOMAIN pending, NEW s \in Rounds
        PROVE  /\ pending'[i].claim = s => Item(pending[i]) \in round'[s].items
               /\ Item(pending[i]) \in round'[s].items /\ ~round'[s].expired =>
                    pending'[i].claim = s /\ ~pending'[i].due
    <3>1. OutliveLease(r) => round[r].pc # "idle" /\ round'[r].items = round[r].items
      BY RoundSteps DEF OutliveLease
    <3>2. CASE s = r
      BY <1>0, <2>2, <2>4, <3>1, <3>2 DEF ClaimInv
    <3>3. CASE s # r
      BY <1>0, <2>1, <2>4, <3>3 DEF ClaimInv
    <3>. QED  BY <3>2, <3>3
  <2>. QED  BY <2>3, <2>5, <2>6 DEF ClaimInv, Item
<1>8. CASE LeaseEnds
  <2>1. round' = round
    BY <1>8 DEF LeaseEnds
  <2>2. /\ DOMAIN pending' = DOMAIN pending
        /\ \A i \in DOMAIN pending : Item(pending'[i]) = Item(pending[i])
    BY <1>8, MarkedQueue DEF SameDeliveries
  <2>3. ASSUME NEW i \in DOMAIN pending
        PROVE  \/ pending'[i] = pending[i]
               \/ pending[i].claim = NoRound /\ pending'[i].claim = NoRound
    <3>1. pending[i] \in Pending
      BY DeliveryFacts
    <3>. QED  BY <1>8, <3>1 DEF LeaseEnds, Pending
  <2>. QED  BY <1>0, <2>1, <2>2, <2>3 DEF ClaimInv, HeldByOne, Item
<1>. QED
  BY <1>1, <1>2, <1>3, <1>4, <1>5, <1>6, <1>7, <1>8
  DEF WebhooksNext, webhookVars, Register, BackoffEnds

LEMMA MissKeeps ==
    ASSUME WebhooksTypeOK, QueueInv, HookInv, RoundInv, ClaimInv, MissInv,
           [WebhooksNext]_webhookVars
    PROVE  MissInv'
<1>0. /\ NoRound \notin Rounds
      /\ \A i \in Items : misses[i] \in Nat
      /\ \A i \in DOMAIN pending : Item(pending[i]) \in Items /\ pending[i].attempts \in Nat
  BY WebhookAssumption, DeliveryFacts DEF WebhooksTypeOK
<1>1. CASE UNCHANGED <<pending, round, misses>>
  BY <1>1 DEF MissInv, Item
<1>2. ASSUME NEW h \in Hooks, Delete(h)  PROVE MissInv'
  <2>1. UNCHANGED <<round, misses>>
    BY <1>2 DEF Delete
  <2>2. \A k \in DOMAIN pending' : \E i \in DOMAIN pending : pending'[k] = pending[i]
    BY <1>2, DeleteQueue
  <2>. QED  BY <2>1, <2>2 DEF MissInv, Item
<1>3. CASE Enqueue
  <2>1. UNCHANGED <<round, misses>> /\ queued + 1 \in Events
    BY <1>3, WebhookAssumption DEF Enqueue, WebhooksTypeOK, Events
  <2>2. \A h \in Hooks : /\ New(h).attempts <= misses[Item(New(h))]
                         /\ New(h).claim = NoRound
    <3>1. \A h \in Hooks : /\ Item(New(h)) \in Items
                           /\ New(h).attempts = 0 /\ New(h).claim = NoRound
      BY <2>1 DEF New, Item, Items
    <3>. QED  BY <1>0, <3>1
  <2>3. ASSUME NEW k \in DOMAIN pending'
        PROVE  /\ pending'[k].attempts <= misses[Item(pending'[k])]
               /\ \A r \in Rounds :
                    pending'[k].claim = r /\ Item(pending'[k]) \in round[r].failed =>
                        pending'[k].attempts < misses[Item(pending'[k])]
    <3>1. CASE \E i \in DOMAIN pending : pending'[k] = pending[i]
      BY <3>1 DEF MissInv
    <3>2. CASE \E h \in Hooks : pending'[k] = New(h)
      BY <1>0, <2>2, <3>2
    <3>. QED  BY <1>3, <3>1, <3>2, EnqueueQueue
  <2>. QED  BY <2>1, <2>3 DEF MissInv, Item
<1>4. ASSUME NEW r \in Rounds, Send(r)  PROVE MissInv'
  <2>1. PICK ok, failed \in SUBSET round[r].items :
          /\ round' = [round EXCEPT ![r].pc = "apply", ![r].ok = ok, ![r].failed = failed]
          /\ misses' = [i \in Items |-> IF i \in failed THEN misses[i] + 1 ELSE misses[i]]
    BY <1>4 DEF Send
  <2>2. round'[r].failed = failed /\ \A s \in Rounds : s # r => round'[s] = round[s]
    BY <2>1 DEF WebhooksTypeOK, Round
  <2>3. \A x \in Items : /\ misses'[x] \in Nat /\ misses[x] \in Nat
                         /\ misses[x] <= misses'[x]
                         /\ x \in failed => misses'[x] = misses[x] + 1
    BY <1>0, <2>1
  <2>4. pending' = pending
    BY <1>4 DEF Send
  <2>5. ASSUME NEW i \in DOMAIN pending, NEW s \in Rounds,
               pending[i].claim = s, Item(pending[i]) \in round'[s].failed
        PROVE  pending[i].attempts < misses'[Item(pending[i])]
    <3>. DEFINE x == Item(pending[i])
    <3>1. /\ misses'[x] \in Nat /\ misses[x] \in Nat /\ pending[i].attempts \in Nat
          /\ misses[x] <= misses'[x] /\ pending[i].attempts <= misses[x]
      BY <1>0, <2>3 DEF MissInv
    <3>2. CASE s = r
      BY <1>0, <2>2, <2>3, <2>5, <3>1, <3>2
    <3>3. CASE s # r
      BY <2>2, <2>5, <3>1, <3>3 DEF MissInv
    <3>. QED  BY <3>2, <3>3
  <2>6. \A i \in DOMAIN pending : pending[i].attempts <= misses'[Item(pending[i])]
    BY <1>0, <2>3 DEF MissInv
  <2>. QED  BY <2>4, <2>5, <2>6 DEF MissInv, Item
<1>5. ASSUME NEW r \in Rounds, Apply(r)  PROVE MissInv'
  <2>1. /\ misses' = misses /\ round'[r].failed = {}
        /\ \A s \in Rounds : s # r => round'[s] = round[s]
    BY <1>5, RoundSteps DEF Apply
  <2>2. ASSUME NEW k \in DOMAIN pending'
        PROVE  /\ pending'[k].attempts <= misses[Item(pending'[k])]
               /\ \A s \in Rounds :
                    pending'[k].claim = s /\ Item(pending'[k]) \in round'[s].failed =>
                        pending'[k].attempts < misses[Item(pending'[k])]
    <3>1. PICK i \in DOMAIN pending :
            /\ Item(pending'[k]) = Item(pending[i])
            /\ \/ pending'[k] = pending[i] /\ pending[i].claim # r
               \/ /\ pending[i].claim = r /\ pending'[k].claim = NoRound
                  /\ \/ pending'[k].attempts = pending[i].attempts
                     \/ /\ Item(pending[i]) \in round[r].failed
                        /\ pending'[k].attempts = pending[i].attempts + 1
      BY <1>5, ApplyReleases
    <3>2. CASE pending'[k] = pending[i] /\ pending[i].claim # r
      BY <2>1, <3>2 DEF MissInv
    <3>3. CASE /\ pending[i].claim = r /\ pending'[k].claim = NoRound
               /\ pending'[k].attempts = pending[i].attempts
      BY <1>0, <3>1, <3>3 DEF MissInv
    <3>4. CASE /\ pending[i].claim = r /\ pending'[k].claim = NoRound
               /\ Item(pending[i]) \in round[r].failed
               /\ pending'[k].attempts = pending[i].attempts + 1
      <4>1. /\ pending[i].attempts < misses[Item(pending[i])]
            /\ pending[i].attempts \in Nat /\ misses[Item(pending[i])] \in Nat
        BY <1>0, <3>4 DEF MissInv
      <4>2. pending'[k].attempts <= misses[Item(pending'[k])]
        BY <3>1, <3>4, <4>1
      <4>. QED  BY <1>0, <3>4, <4>2
    <3>. QED  BY <3>1, <3>2, <3>3, <3>4
  <2>. QED  BY <2>1, <2>2 DEF MissInv, Item
<1>6. ASSUME NEW r \in Rounds, Claim(r) \/ OutliveLease(r) \/ RoundDies(r)  PROVE MissInv'
  <2>1. /\ \A s \in Rounds : s # r => round'[s] = round[s]
        /\ round'[r].failed \subseteq round[r].failed /\ (Claim(r) => round'[r].failed = {})
    BY <1>6, RoundSteps
  <2>2. misses' = misses
    BY <1>6 DEF Claim, OutliveLease, RoundDies
  <2>3. SameDeliveries
    BY <1>6, MarkedQueue
  <2>4. ASSUME NEW i \in DOMAIN pending
        PROVE  \/ pending'[i].claim \in {pending[i].claim, NoRound}
               \/ Claim(r) /\ pending'[i].claim = r
    <3>1. pending[i] \in Pending
      BY DeliveryFacts
    <3>2. CASE Claim(r)
      BY <3>1, <3>2 DEF Claim, Pending
    <3>3. CASE OutliveLease(r)
      BY <3>1, <3>3 DEF OutliveLease, Pending
    <3>4. CASE RoundDies(r)
      BY <3>1, <3>4 DEF RoundDies, Pending
    <3>. QED  BY <1>6, <3>2, <3>3, <3>4
  <2>5. ASSUME NEW i \in DOMAIN pending, NEW s \in Rounds,
               pending'[i].claim = s, Item(pending[i]) \in round'[s].failed
        PROVE  pending[i].attempts < misses[Item(pending[i])]
    <3>1. Item(pending[i]) \in round[s].failed /\ ~(Claim(r) /\ s = r)
      BY <2>1, <2>5
    <3>2. pending[i].claim = s
      BY <1>0, <2>4, <2>5, <3>1
    <3>. QED  BY <3>1, <3>2 DEF MissInv
  <2>. QED  BY <2>2, <2>3, <2>5 DEF MissInv, SameDeliveries, Item
<1>7. CASE LeaseEnds
  <2>1. UNCHANGED <<round, misses>> /\ SameDeliveries
    BY <1>7, MarkedQueue DEF LeaseEnds
  <2>2. \A i \in DOMAIN pending : pending'[i].claim = pending[i].claim
    <3>1. \A i \in DOMAIN pending : pending[i] \in Pending
      BY DeliveryFacts
    <3>. QED  BY <1>7, <3>1 DEF LeaseEnds, Pending
  <2>. QED  BY <2>1, <2>2 DEF MissInv, SameDeliveries, Item
<1>. QED
  BY <1>1, <1>2, <1>3, <1>4, <1>5, <1>6, <1>7
  DEF WebhooksNext, webhookVars, Register, BackoffEnds

WebhooksInv == WebhooksTypeOK /\ QueueInv /\ HookInv /\ RoundInv /\ ClaimInv /\ MissInv

LEMMA WebhooksInitHolds == WebhooksInit => WebhooksInv
<1>. SUFFICES ASSUME WebhooksInit PROVE WebhooksInv
  OBVIOUS
<1>1. /\ pending = <<>> /\ DOMAIN pending = {} /\ pending \in Seq(Pending)
      /\ \A r \in Rounds : round[r] = IdleRound
      /\ \A h \in Hooks : hooks[h].status = "none" /\ hooks[h].failures = 0
      /\ Registered = {}
  BY EmptySeq DEF WebhooksInit, Registered
<1>2. WebhooksTypeOK
  <2>1. [status |-> "none", failures |-> 0, backoff |-> FALSE] \in Hook
    BY WebhookAssumption DEF Hook
  <2>2. hooks \in [Hooks -> Hook] /\ round \in [Rounds -> Round] /\ misses \in [Items -> Nat]
    BY <2>1, RoundUpdates DEF WebhooksInit
  <2>3. queued \in 0..EventCount /\ troubles \in 0..MaxTroubles /\ accepted \subseteq Items
    BY WebhookAssumption DEF WebhooksInit
  <2>. QED  BY <1>1, <2>2, <2>3 DEF WebhooksTypeOK
<1>3. HookInv
  BY <1>1, FS_EmptySet, WebhookAssumption DEF HookInv
<1>4. QueueInv /\ MissInv
  BY <1>1 DEF QueueInv, Distinct, MissInv
<1>5. RoundInv /\ ClaimInv
  BY <1>1 DEF IdleRound, RoundInv, ClaimInv, HeldByOne
<1>. QED  BY <1>2, <1>3, <1>4, <1>5 DEF WebhooksInv

LEMMA WebhooksInvKept == WebhooksInv /\ [WebhooksNext]_webhookVars => WebhooksInv'
BY WebhooksTypeKeeps, QueueKeeps, HookKeeps, RoundKeeps, ClaimKeeps, MissKeeps DEF WebhooksInv

\* The webhook row, its queue and its rounds stay well-formed: a webhook fails at most
\* FailingAfter times in a row, a delivery at most MaxAttempts times.
THEOREM WebhooksTypeCorrect == WebhooksSpec => []WebhooksTypeOK
<1>1. WebhooksInv => WebhooksTypeOK
  BY DEF WebhooksInv
<1>. QED  BY <1>1, WebhooksInitHolds, WebhooksInvKept, PTL DEF WebhooksSpec

\* No delivery is sent by two rounds at once while their leases last (webhooks.ts:445),
\* though rounds die, freeze and apply their results after others have claimed.
THEOREM DeliveriesHeldByOne == WebhooksSpec => []HeldByOne
<1>1. WebhooksInv => HeldByOne
  BY DEF WebhooksInv, ClaimInv
<1>. QED  BY <1>1, WebhooksInitHolds, WebhooksInvKept, PTL DEF WebhooksSpec

\* A delivery leaves the queue accepted, after MaxAttempts requests that failed, with
\* its webhook, or because newer ones filled the queue (webhooks.ts:467, :347).
THEOREM DeliveriesLeaveForAReason == WebhooksSpec => LeavesForAReason
<1>. DEFINE Leaves(i) ==
              \/ i \in accepted
              \/ misses[i] >= MaxAttempts
              \/ hooks'[i[1]].status \in {"failing", "deleted"}
              \/ Len(pending') = PendingLimit /\ queued' # queued
<1>1. ASSUME WebhooksInv, WebhooksNext, NEW x \in Queue(pending) \ Queue(pending')
      PROVE  Leaves(x)
  <2>0. /\ WebhooksTypeOK /\ QueueInv /\ HookInv /\ RoundInv /\ ClaimInv /\ MissInv
        /\ queued \in Int
    BY <1>1, WebhookAssumption DEF WebhooksInv, WebhooksTypeOK
  <2>1. PICK i \in DOMAIN pending : x = Item(pending[i])
    BY DEF Queue
  <2>2. \A k \in DOMAIN pending' : Item(pending'[k]) # x
    BY DEF Queue, Item
  <2>3. ~(UNCHANGED pending) /\ ~SameDeliveries
    BY <2>1, <2>2 DEF SameDeliveries
  <2>4. ASSUME NEW h \in Hooks, Delete(h)  PROVE Leaves(x)
    <3>1. pending[i].hook = h
      BY <2>0, <2>1, <2>2, <2>4, DeleteQueue DEF Item
    <3>2. x[1] = h /\ hooks'[h].status = "deleted"
      BY <2>0, <2>1, <2>4, <3>1 DEF Item, Delete, WebhooksTypeOK, Hook
    <3>. QED  BY <3>2
  <2>5. CASE Enqueue
    <3>1. Len(pending') = PendingLimit
      BY <2>0, <2>1, <2>2, <2>5, EnqueueQueue DEF Item
    <3>2. queued' # queued
      BY <2>0, <2>5 DEF Enqueue
    <3>. QED  BY <3>1, <3>2
  <2>6. ASSUME NEW r \in Rounds, Apply(r)  PROVE Leaves(x)
    <3>1. HeldItems(r) # {} /\ \A h \in Hooks : hooks'[h] = HookAfter(r, h)
      BY <2>3, <2>6 DEF Apply
    <3>2. i \notin Kept(r)
      <4>1. SUFFICES ASSUME i \in Kept(r) PROVE FALSE
        OBVIOUS
      <4>2. PICK k \in DOMAIN pending' : pending'[k] = Released(r, pending[i])
        BY <2>0, <2>6, <3>1, <4>1, ApplyQueue
      <4>3. Item(Released(r, pending[i])) = Item(pending[i])
        BY <2>0, <4>1, ReleasedIs DEF Kept
      <4>. QED  BY <2>1, <2>2, <4>2, <4>3 DEF Item
    <3>3. CASE HookAfter(r, pending[i].hook).status # "active"
      <4>1. pending[i].hook \in Hooks /\ x[1] = pending[i].hook
            /\ hooks[pending[i].hook].status = "active"
        BY <2>0, <2>1, DeliveryFacts DEF QueueInv
      <4>. QED  BY <2>0, <3>1, <3>3, <4>1, HookAfterIs
    <3>4. CASE Held(r, pending[i]) /\ Done(r, pending[i])
      <4>1. CASE x \in round[r].ok
        BY <2>0, <4>1 DEF RoundInv
      <4>2. CASE Attempted(r, pending[i]) >= MaxAttempts
        <5>1. /\ pending[i].attempts \in Nat /\ misses[x] \in Nat /\ MaxAttempts \in Nat
              /\ pending[i].attempts <= misses[x]
              /\ x \in round[r].failed => pending[i].attempts < misses[x]
          BY <2>0, <2>1, <3>4, DeliveryFacts, WebhookAssumption
          DEF MissInv, WebhooksTypeOK, Held
        <5>2. /\ Attempted(r, pending[i]) \in Nat
              /\ Attempted(r, pending[i]) <= misses[x]
          BY <2>1, <5>1 DEF Attempted
        <5>3. misses[x] >= MaxAttempts
          BY <4>2, <5>1, <5>2
        <5>. QED  BY <5>3
      <4>. QED  BY <2>1, <3>4, <4>1, <4>2 DEF Done
    <3>. QED  BY <3>2, <3>3, <3>4 DEF Kept
  <2>7. ASSUME NEW r \in Rounds, Send(r)  PROVE FALSE
    BY <2>3, <2>7 DEF Send
  <2>8. ASSUME NEW h \in Hooks, Register(h) \/ BackoffEnds(h)  PROVE FALSE
    BY <2>3, <2>8 DEF Register, BackoffEnds
  <2>9. ~LeaseEnds /\ \A r \in Rounds : ~Claim(r) /\ ~OutliveLease(r) /\ ~RoundDies(r)
    BY <2>0, <2>3, MarkedQueue
  <2>. HIDE DEF Leaves
  <2>. QED  BY <1>1, <2>4, <2>5, <2>6, <2>7, <2>8, <2>9 DEF WebhooksNext
<1>2. WebhooksInv /\ [WebhooksNext]_webhookVars =>
        [\A i \in Queue(pending) \ Queue(pending') : Leaves(i)]_webhookVars
  BY <1>1
<1>. QED
  BY <1>2, WebhooksInitHolds, WebhooksInvKept, PTL DEF WebhooksSpec, LeavesForAReason

(***************************************************************************)
(* The gateway.  The sign-in challenge opens one session, issuances keep to*)
(* the cap of keys, a late revocation answers as the first did, and one    *)
(* handler runs under an Idempotency-Key.  The invariants say what a version*)
(* that was read before still tells about the rows.                        *)
(***************************************************************************)
\* No session comes before the delete of the challenge, which one request makes.
SessionInv ==
    /\ sessions \in {0, 1}
    /\ challenge # "gone" => sessions = 0
    /\ \A c \in Calls : call[c].pc = "open" => challenge = "gone" /\ sessions = 0
    /\ \A c, d \in Calls : call[c].pc = "open" /\ call[d].pc = "open" => c = d

\* While the fence a request read has not moved, what it counted still bounds the
\* active keys: only an issuance adds one, and it moves the fence.
CapInv ==
    /\ Cardinality(ActiveKeys) <= MaxActiveKeys
    /\ \A c \in Calls : call[c].pc = "issue" =>
         /\ call[c].fence <= fence
         /\ call[c].listed /\ call[c].fence = fence => Cardinality(ActiveKeys) < MaxActiveKeys

\* A key's first version is the only one at which it is not revoked.
RevokeInv ==
    /\ ~refused
    /\ \A k \in Keys : key[k].state # "none" /\ ~key[k].revoked => key[k].version = 0
    /\ \A k \in Keys : key[k].state = "none" => key[k].version = -1 /\ ~key[k].revoked
    /\ \A c \in Calls : call[c].pc = "revoke" =>
         call[c].key \in Keys /\ call[c].row = 0 /\ key[call[c].key].state # "none"

\* A handler that runs holds the row at the version it claimed, unless the row has
\* expired since; a request that is about to claim it saw a row that is free.
RowInv ==
    /\ \A c \in Calls : call[c].pc \in {"claim", "run", "record"} =>
         /\ call[c].row <= idem.version
         /\ call[c].body \in Bodies
    /\ \A c \in Calls : call[c].pc = "claim" /\ RowUnmoved(c) =>
         idem.state \in {"none", "released", "expired"}
    /\ \A c \in Calls : call[c].pc \in {"run", "record"} /\ ~call[c].lapsed =>
         RowUnmoved(c) /\ idem.state = "leased"
    /\ \A c \in Calls : call[c].pc \in {"run", "record"} /\ call[c].lapsed /\ RowUnmoved(c) =>
         idem.state = "expired"
    /\ \A c, d \in Calls :
         /\ call[c].pc \in {"run", "record"} /\ ~call[c].lapsed
         /\ call[d].pc \in {"run", "record"} /\ ~call[d].lapsed
         => c = d

\* The active keys can be counted, and a step that adds one raises their number by one.
LEMMA ActiveCounts ==
    /\ Cardinality(ActiveKeys) \in Nat
    /\ \A S : S \subseteq ActiveKeys =>
          Cardinality(S) \in Nat /\ Cardinality(S) <= Cardinality(ActiveKeys)
    /\ \A S, k : S \subseteq ActiveKeys \cup {k} =>
          Cardinality(S) \in Nat /\ Cardinality(S) <= Cardinality(ActiveKeys) + 1
<1>1. IsFiniteSet(ActiveKeys)
  BY FS_Subset, GatewayAssumption DEF ActiveKeys
<1>2. ASSUME NEW S, NEW k, S \subseteq ActiveKeys \cup {k}
      PROVE  Cardinality(S) \in Nat /\ Cardinality(S) <= Cardinality(ActiveKeys) + 1
  <2>0. Cardinality(ActiveKeys) \in Nat
    BY <1>1, FS_CardinalityType
  <2>1. /\ IsFiniteSet(ActiveKeys \cup {k})
        /\ \/ Cardinality(ActiveKeys \cup {k}) = Cardinality(ActiveKeys)
           \/ Cardinality(ActiveKeys \cup {k}) = Cardinality(ActiveKeys) + 1
    BY <1>1, FS_AddElement
  <2>2. IsFiniteSet(S) /\ Cardinality(S) <= Cardinality(ActiveKeys \cup {k})
    BY <1>2, <2>1, FS_Subset
  <2>3. Cardinality(S) \in Nat
    BY <2>2, FS_CardinalityType
  <2>. QED  BY <2>0, <2>1, <2>2, <2>3
<1>. QED  BY <1>1, <1>2, FS_Subset, FS_CardinalityType

\* The records a request steps through are requests.
LEMMA CallUpdates ==
    /\ IdleCall \in Call
    /\ \A x \in Call :
         /\ [x EXCEPT !.pc = "verify"] \in Call
         /\ [x EXCEPT !.pc = "open"] \in Call
         /\ [x EXCEPT !.listed = TRUE] \in Call
         /\ [x EXCEPT !.lapsed = TRUE] \in Call
    /\ \A x \in Call, settled \in BOOLEAN :
         [x EXCEPT !.pc = "record", !.settled = settled] \in Call
    /\ \A x \in Call, n \in Int :
         /\ [x EXCEPT !.pc = "issue", !.fence = n] \in Call
         /\ [x EXCEPT !.pc = "run", !.row = n] \in Call
    /\ \A x \in Call, n \in Int, k \in Keys :
         [x EXCEPT !.pc = "revoke", !.key = k, !.row = n] \in Call
    /\ \A x \in Call, n \in Int, b \in Bodies :
         [x EXCEPT !.pc = "claim", !.body = b, !.row = n] \in Call
<1>1. IdleCall \in Call
  BY DEF Call, IdleCall
<1>2. \A x \in Call :
         /\ [x EXCEPT !.pc = "verify"] \in Call
         /\ [x EXCEPT !.pc = "open"] \in Call
         /\ [x EXCEPT !.listed = TRUE] \in Call
         /\ [x EXCEPT !.lapsed = TRUE] \in Call
  BY DEF Call
<1>3. \A x \in Call, n \in Int :
         /\ [x EXCEPT !.pc = "issue", !.fence = n] \in Call
         /\ [x EXCEPT !.pc = "run", !.row = n] \in Call
  BY DEF Call
<1>4. \A x \in Call, n \in Int, k \in Keys :
         [x EXCEPT !.pc = "revoke", !.key = k, !.row = n] \in Call
  BY DEF Call
<1>5. \A x \in Call, n \in Int, b \in Bodies :
         [x EXCEPT !.pc = "claim", !.body = b, !.row = n] \in Call
  BY DEF Call
<1>6. \A x \in Call, settled \in BOOLEAN :
         [x EXCEPT !.pc = "record", !.settled = settled] \in Call
  BY DEF Call
<1>. QED  BY <1>1, <1>2, <1>3, <1>4, <1>5, <1>6

\* So are the rows that a write changes.
LEMMA RowUpdates ==
    /\ \A x \in KeyRow, n \in Int : [x EXCEPT !.revoked = TRUE, !.version = n] \in KeyRow
    /\ \A x \in IdemRow, n \in Int, s \in {"released", "answered", "expired"} :
          [x EXCEPT !.version = n, !.state = s] \in IdemRow
<1>1. \A x \in KeyRow, n \in Int : [x EXCEPT !.revoked = TRUE, !.version = n] \in KeyRow
  BY DEF KeyRow
<1>2. \A x \in IdemRow, n \in Int, s \in {"released", "answered", "expired"} :
          [x EXCEPT !.version = n, !.state = s] \in IdemRow
  BY DEF IdemRow
<1>. QED  BY <1>1, <1>2

LEMMA GatewayTypeKeeps ==
    ASSUME GatewayTypeOK, [GatewayNext]_gatewayVars
    PROVE  GatewayTypeOK'
<1>. USE GatewayAssumption
<1>1. ASSUME NEW c \in Calls, ReadChallenge(c)
      PROVE  GatewayTypeOK'
  <2>1. [IdleCall EXCEPT !.pc = "verify"] \in Call
    BY CallUpdates DEF GatewayTypeOK, KeyRow, IdemRow
  <2>2. call' = [call EXCEPT ![c] = [IdleCall EXCEPT !.pc = "verify"]]
    BY <1>1 DEF ReadChallenge, Continue
  <2>. QED
    BY <1>1, <2>1, <2>2 DEF ReadChallenge, GatewayTypeOK
<1>2. ASSUME NEW c \in Calls, DeleteChallenge(c)
      PROVE  GatewayTypeOK'
  <2>1. [IdleCall EXCEPT !.pc = "open"] \in Call
    BY CallUpdates DEF GatewayTypeOK, KeyRow, IdemRow
  <2>2. call' = [call EXCEPT ![c] = [IdleCall EXCEPT !.pc = "open"]]
    BY <1>2 DEF DeleteChallenge, Continue
  <2>. QED
    BY <1>2, <2>1, <2>2 DEF DeleteChallenge, GatewayTypeOK
<1>3. ASSUME NEW c \in Calls, OpenSession(c)
      PROVE  GatewayTypeOK'
  BY <1>3 DEF GatewayTypeOK, KeyRow, IdemRow, Call, OpenSession, Finish, Continue,
      IdleCall
<1>4. ASSUME NEW c \in Calls, ReadFence(c)
      PROVE  GatewayTypeOK'
  <2>1. [IdleCall EXCEPT !.pc = "issue", !.fence = fence] \in Call
    BY CallUpdates DEF GatewayTypeOK, KeyRow, IdemRow
  <2>2. call' = [call EXCEPT ![c] = [IdleCall EXCEPT !.pc = "issue", !.fence = fence]]
    BY <1>4 DEF ReadFence, Continue
  <2>. QED
    BY <1>4, <2>1, <2>2 DEF ReadFence, GatewayTypeOK
<1>5. ASSUME NEW c \in Calls, ListKeys(c)
      PROVE  GatewayTypeOK'
  <2>1. IdleCall \in Call /\ [call[c] EXCEPT !.listed = TRUE] \in Call
    BY CallUpdates DEF GatewayTypeOK
  <2>2. call' \in [Calls -> Call]
    BY <1>5, <2>1 DEF ListKeys, Continue, GatewayTypeOK
  <2>. QED
    BY <1>5, <2>2 DEF ListKeys, GatewayTypeOK
<1>6. ASSUME NEW c \in Calls, Revoke(c)
      PROVE  GatewayTypeOK'
  <2>1. call' \in [Calls -> Call]
    BY <1>6, CallUpdates DEF Revoke, Finish, Continue, GatewayTypeOK
  <2>2. key' \in [Keys -> KeyRow]
    <3>1. key' = [key EXCEPT ![call[c].key] = [key[call[c].key] EXCEPT
                    !.revoked = TRUE, !.version = key[call[c].key].version + 1]]
      BY <1>6 DEF Revoke, GatewayTypeOK, KeyRow
    <3>2. \A k \in Keys : key[k] \in KeyRow /\ key[k].version + 1 \in Int
      BY DEF GatewayTypeOK, KeyRow
    <3>. QED  BY <3>1, <3>2, RowUpdates DEF GatewayTypeOK
  <2>. QED
    BY <1>6, <2>1, <2>2 DEF Revoke, GatewayTypeOK
<1>7. ASSUME NEW c \in Calls, RevokeConflict(c)
      PROVE  GatewayTypeOK'
  BY <1>7 DEF GatewayTypeOK, KeyRow, IdemRow, Call, RevokeConflict, RowsUnmoved,
      Answered, Finish, Continue, IdleCall
<1>8. ASSUME NEW c \in Calls, ClaimRow(c)
      PROVE  GatewayTypeOK'
  <2>1. [call[c] EXCEPT !.pc = "run", !.row = idem.version + 1] \in Call
    <3>1. call[c] \in Call /\ idem.version + 1 \in Int
      BY DEF GatewayTypeOK, IdemRow
    <3>. QED  BY <3>1, CallUpdates
  <2>2. call' \in [Calls -> Call]
    BY <1>8, <2>1 DEF ClaimRow, Continue, GatewayTypeOK
  <2>3. call[c].body \in Bodies \cup {None}
    BY DEF GatewayTypeOK, Call
  <2>4. idem' \in IdemRow
    BY <1>8, <2>3 DEF ClaimRow, GatewayTypeOK, IdemRow
  <2>. QED
    BY <1>8, <2>2, <2>4 DEF ClaimRow, GatewayTypeOK
<1>9. ASSUME NEW c \in Calls, Run(c)
      PROVE  GatewayTypeOK'
  <2>1. \A settled \in BOOLEAN : [call[c] EXCEPT !.pc = "record", !.settled = settled] \in Call
    BY CallUpdates, call[c] \in Call DEF GatewayTypeOK
  <2>2. call' \in [Calls -> Call]
    BY <1>9, <2>1 DEF Run, Continue, GatewayTypeOK
  <2>. QED
    BY <1>9, <2>2 DEF Run, GatewayTypeOK
<1>10. ASSUME NEW c \in Calls, Record(c)
      PROVE  GatewayTypeOK'
  <2>1. call' \in [Calls -> Call]
    BY <1>10, CallUpdates DEF Record, Finish, Continue, GatewayTypeOK
  <2>2. Outcome(c) \in {"released", "answered", "expired"}
    BY DEF Outcome
  <2>3. idem' \in IdemRow
    <3>1. idem' = [idem EXCEPT !.version = idem.version + 1, !.state = Outcome(c)]
      BY <1>10 DEF Record, GatewayTypeOK, IdemRow
    <3>2. idem \in IdemRow /\ idem.version + 1 \in Int
      BY DEF GatewayTypeOK, IdemRow
    <3>. QED  BY <3>1, <3>2, <2>2, RowUpdates
  <2>. QED
    BY <1>10, <2>1, <2>3 DEF Record, GatewayTypeOK
<1>11. ASSUME NEW c \in Calls, Lose(c)
      PROVE  GatewayTypeOK'
  BY <1>11 DEF GatewayTypeOK, KeyRow, IdemRow, Call, Lose, StillThere, FenceUnmoved,
      RowUnmoved, Finish, Continue, IdleCall
<1>12. ASSUME NEW c \in Calls, CallDies(c)
      PROVE  GatewayTypeOK'
  BY <1>12 DEF GatewayTypeOK, KeyRow, IdemRow, Call, CallDies, Finish, Continue,
      IdleCall
<1>13. ASSUME NEW c \in Calls, NEW k \in Keys, Issue(c, k)
      PROVE  GatewayTypeOK'
  BY <1>13 DEF GatewayTypeOK, KeyRow, IdemRow, Call, Issue, FenceUnmoved, Finish,
      Continue, IdleCall
<1>14. ASSUME NEW c \in Calls, NEW k \in Keys, ReadKey(c, k)
      PROVE  GatewayTypeOK'
  <2>1. [IdleCall EXCEPT !.pc = "revoke", !.key = k, !.row = key[k].version] \in Call
    BY CallUpdates DEF GatewayTypeOK, KeyRow, IdemRow
  <2>2. call' = [call EXCEPT ![c] = [IdleCall EXCEPT !.pc = "revoke", !.key = k, !.row = key[k].version]]
    BY <1>14 DEF ReadKey, Continue
  <2>. QED
    BY <1>14, <2>1, <2>2 DEF ReadKey, GatewayTypeOK
<1>15. ASSUME NEW c \in Calls, NEW credential \in Credentials, NEW body \in Bodies, Post(c, credential, body)
      PROVE  GatewayTypeOK'
  <2>1. [IdleCall EXCEPT !.pc = "claim", !.body = body, !.row = idem.version] \in Call
    BY CallUpdates DEF GatewayTypeOK, KeyRow, IdemRow
  <2>2. call' = [call EXCEPT ![c] = [IdleCall EXCEPT !.pc = "claim", !.body = body, !.row = idem.version]]
    BY <1>15 DEF Post, Continue
  <2>. QED
    BY <1>15, <2>1, <2>2 DEF Post, GatewayTypeOK
<1>16. ASSUME NEW k \in Keys, KeyExpires(k)
      PROVE  GatewayTypeOK'
  BY <1>16 DEF GatewayTypeOK, KeyRow, IdemRow, Call, KeyExpires
<1>17. ASSUME ChallengeExpires
      PROVE  GatewayTypeOK'
  BY <1>17 DEF GatewayTypeOK, KeyRow, IdemRow, Call, ChallengeExpires
<1>18. ASSUME LeaseLapses
      PROVE  GatewayTypeOK'
  BY <1>18 DEF GatewayTypeOK, KeyRow, IdemRow, Call, LeaseLapses, LeaseEnded, Holding,
      RowUnmoved
<1>19. ASSUME RowExpires
      PROVE  GatewayTypeOK'
  <2>1. \A c \in Calls : call[c] \in Call /\ [call[c] EXCEPT !.lapsed = TRUE] \in Call
    BY CallUpdates DEF GatewayTypeOK
  <2>2. call' \in [Calls -> Call]
    BY <1>19, <2>1 DEF RowExpires
  <2>3. idem' \in IdemRow
    BY <1>19 DEF RowExpires, GatewayTypeOK, IdemRow
  <2>. QED
    BY <1>19, <2>2, <2>3 DEF RowExpires, GatewayTypeOK
<1>20. ASSUME RowDeleted
      PROVE  GatewayTypeOK'
  BY <1>20 DEF GatewayTypeOK, KeyRow, IdemRow, Call, RowDeleted, NoRow
<1>21. CASE UNCHANGED gatewayVars
  BY <1>21 DEF GatewayTypeOK, KeyRow, IdemRow, Call, gatewayVars
<1>. QED
  BY <1>1, <1>2, <1>3, <1>4, <1>5, <1>6, <1>7, <1>8, <1>9, <1>10, <1>11, <1>12, <1>13,
      <1>14, <1>15, <1>16, <1>17, <1>18, <1>19, <1>20, <1>21 DEF GatewayNext

LEMMA SessionKeeps ==
    ASSUME GatewayTypeOK, SessionInv, [GatewayNext]_gatewayVars
    PROVE  SessionInv'
<1>. USE GatewayAssumption
<1>1. ASSUME NEW c \in Calls, ReadChallenge(c)
      PROVE  SessionInv'
  BY <1>1 DEF SessionInv, GatewayTypeOK, KeyRow, IdemRow, Call, ReadChallenge, Continue,
      IdleCall
<1>2. ASSUME NEW c \in Calls, DeleteChallenge(c)
      PROVE  SessionInv'
  BY <1>2 DEF SessionInv, GatewayTypeOK, KeyRow, IdemRow, Call, DeleteChallenge,
      StillThere, Continue, IdleCall
<1>3. ASSUME NEW c \in Calls, OpenSession(c)
      PROVE  SessionInv'
  BY <1>3 DEF SessionInv, GatewayTypeOK, KeyRow, IdemRow, Call, OpenSession, Finish,
      Continue, IdleCall
<1>4. ASSUME NEW c \in Calls, ReadFence(c)
      PROVE  SessionInv'
  BY <1>4 DEF SessionInv, GatewayTypeOK, KeyRow, IdemRow, Call, ReadFence, Continue,
      IdleCall
<1>5. ASSUME NEW c \in Calls, ListKeys(c)
      PROVE  SessionInv'
  BY <1>5 DEF SessionInv, GatewayTypeOK, KeyRow, IdemRow, Call, ListKeys, Continue,
      AtCap, ActiveKeys, Active, IdleCall
<1>6. ASSUME NEW c \in Calls, Revoke(c)
      PROVE  SessionInv'
  BY <1>6 DEF SessionInv, GatewayTypeOK, KeyRow, IdemRow, Call, Revoke, RowsUnmoved,
      Finish, Continue, IdleCall
<1>7. ASSUME NEW c \in Calls, RevokeConflict(c)
      PROVE  SessionInv'
  BY <1>7 DEF SessionInv, GatewayTypeOK, KeyRow, IdemRow, Call, RevokeConflict,
      RowsUnmoved, Answered, Finish, Continue, IdleCall
<1>8. ASSUME NEW c \in Calls, ClaimRow(c)
      PROVE  SessionInv'
  BY <1>8 DEF SessionInv, GatewayTypeOK, KeyRow, IdemRow, Call, ClaimRow, RowUnmoved,
      Continue
<1>9. ASSUME NEW c \in Calls, Run(c)
      PROVE  SessionInv'
  BY <1>9 DEF SessionInv, GatewayTypeOK, KeyRow, IdemRow, Call, Run, Continue
<1>10. ASSUME NEW c \in Calls, Record(c)
      PROVE  SessionInv'
  BY <1>10 DEF SessionInv, GatewayTypeOK, KeyRow, IdemRow, Call, Record, RowUnmoved,
      Outcome, Finish, Continue, IdleCall
<1>11. ASSUME NEW c \in Calls, Lose(c)
      PROVE  SessionInv'
  BY <1>11 DEF SessionInv, GatewayTypeOK, KeyRow, IdemRow, Call, Lose, StillThere,
      FenceUnmoved, RowUnmoved, Finish, Continue, IdleCall
<1>12. ASSUME NEW c \in Calls, CallDies(c)
      PROVE  SessionInv'
  BY <1>12 DEF SessionInv, GatewayTypeOK, KeyRow, IdemRow, Call, CallDies, Finish,
      Continue, IdleCall
<1>13. ASSUME NEW c \in Calls, NEW k \in Keys, Issue(c, k)
      PROVE  SessionInv'
  BY <1>13 DEF SessionInv, GatewayTypeOK, KeyRow, IdemRow, Call, Issue, FenceUnmoved,
      Finish, Continue, IdleCall
<1>14. ASSUME NEW c \in Calls, NEW k \in Keys, ReadKey(c, k)
      PROVE  SessionInv'
  BY <1>14 DEF SessionInv, GatewayTypeOK, KeyRow, IdemRow, Call, ReadKey, Active,
      Continue, IdleCall
<1>15. ASSUME NEW c \in Calls, NEW credential \in Credentials, NEW body \in Bodies, Post(c, credential, body)
      PROVE  SessionInv'
  BY <1>15 DEF SessionInv, GatewayTypeOK, KeyRow, IdemRow, Call, Post, Admitted, Active,
      Continue, IdleCall
<1>16. ASSUME NEW k \in Keys, KeyExpires(k)
      PROVE  SessionInv'
  BY <1>16 DEF SessionInv, GatewayTypeOK, KeyRow, IdemRow, Call, KeyExpires
<1>17. ASSUME ChallengeExpires
      PROVE  SessionInv'
  BY <1>17 DEF SessionInv, GatewayTypeOK, KeyRow, IdemRow, Call, ChallengeExpires
<1>18. ASSUME LeaseLapses
      PROVE  SessionInv'
  BY <1>18 DEF SessionInv, GatewayTypeOK, KeyRow, IdemRow, Call, LeaseLapses,
      LeaseEnded, Holding, RowUnmoved
<1>19. ASSUME RowExpires
      PROVE  SessionInv'
  BY <1>19 DEF SessionInv, GatewayTypeOK, KeyRow, IdemRow, Call, RowExpires, RowUnmoved
<1>20. ASSUME RowDeleted
      PROVE  SessionInv'
  BY <1>20 DEF SessionInv, GatewayTypeOK, KeyRow, IdemRow, Call, RowDeleted, NoRow
<1>21. CASE UNCHANGED gatewayVars
  BY <1>21 DEF SessionInv, GatewayTypeOK, KeyRow, IdemRow, Call, gatewayVars
<1>. QED
  BY <1>1, <1>2, <1>3, <1>4, <1>5, <1>6, <1>7, <1>8, <1>9, <1>10, <1>11, <1>12, <1>13,
      <1>14, <1>15, <1>16, <1>17, <1>18, <1>19, <1>20, <1>21 DEF GatewayNext

LEMMA CapKeeps ==
    ASSUME GatewayTypeOK, CapInv, [GatewayNext]_gatewayVars
    PROVE  CapInv'
<1>. USE GatewayAssumption
<1>1. ASSUME NEW c \in Calls, ReadChallenge(c)
      PROVE  CapInv'
  <2>1. ActiveKeys' = ActiveKeys
    BY <1>1 DEF ReadChallenge, ActiveKeys, Active
  <2>. QED
    BY <1>1, <2>1 DEF ReadChallenge, CapInv, GatewayTypeOK, Call, IdleCall, Continue, Finish
<1>2. ASSUME NEW c \in Calls, DeleteChallenge(c)
      PROVE  CapInv'
  <2>1. ActiveKeys' = ActiveKeys
    BY <1>2 DEF DeleteChallenge, ActiveKeys, Active
  <2>. QED
    BY <1>2, <2>1 DEF DeleteChallenge, CapInv, GatewayTypeOK, Call, IdleCall, Continue, Finish
<1>3. ASSUME NEW c \in Calls, OpenSession(c)
      PROVE  CapInv'
  <2>1. ActiveKeys' = ActiveKeys
    BY <1>3 DEF OpenSession, ActiveKeys, Active
  <2>. QED
    BY <1>3, <2>1 DEF OpenSession, CapInv, GatewayTypeOK, Call, IdleCall, Continue, Finish
<1>4. ASSUME NEW c \in Calls, ReadFence(c)
      PROVE  CapInv'
  <2>1. ActiveKeys' = ActiveKeys
    BY <1>4 DEF ReadFence, ActiveKeys, Active
  <2>. QED
    BY <1>4, <2>1 DEF ReadFence, CapInv, GatewayTypeOK, Call, IdleCall, Continue, Finish
<1>5. ASSUME NEW c \in Calls, ListKeys(c)
      PROVE  CapInv'
  <2>1. ActiveKeys' = ActiveKeys
    BY <1>5 DEF ListKeys, ActiveKeys, Active
  <2>. QED
    BY <1>5, <2>1, ActiveCounts DEF ListKeys, CapInv, GatewayTypeOK, Call, IdleCall, Continue, Finish, AtCap
<1>6. ASSUME NEW c \in Calls, Revoke(c)
      PROVE  CapInv'
  <2>1. ActiveKeys' \subseteq ActiveKeys
    BY <1>6 DEF Revoke, ActiveKeys, Active, GatewayTypeOK
  <2>2. Cardinality(ActiveKeys') <= Cardinality(ActiveKeys)
    BY <2>1, ActiveCounts
  <2>3. Cardinality(ActiveKeys') \in Nat
    BY <2>1, ActiveCounts
  <2>. QED
    BY <1>6, <2>2, <2>3, ActiveCounts DEF Revoke, CapInv, GatewayTypeOK, Call, IdleCall, Continue,
        Finish
<1>7. ASSUME NEW c \in Calls, RevokeConflict(c)
      PROVE  CapInv'
  <2>1. ActiveKeys' = ActiveKeys
    BY <1>7 DEF RevokeConflict, ActiveKeys, Active
  <2>. QED
    BY <1>7, <2>1 DEF RevokeConflict, CapInv, GatewayTypeOK, Call, IdleCall, Continue, Finish
<1>8. ASSUME NEW c \in Calls, ClaimRow(c)
      PROVE  CapInv'
  <2>1. ActiveKeys' = ActiveKeys
    BY <1>8 DEF ClaimRow, ActiveKeys, Active
  <2>. QED
    BY <1>8, <2>1 DEF ClaimRow, CapInv, GatewayTypeOK, Call, IdleCall, Continue, Finish
<1>9. ASSUME NEW c \in Calls, Run(c)
      PROVE  CapInv'
  <2>1. ActiveKeys' = ActiveKeys
    BY <1>9 DEF Run, ActiveKeys, Active
  <2>. QED
    BY <1>9, <2>1 DEF Run, CapInv, GatewayTypeOK, Call, IdleCall, Continue, Finish
<1>10. ASSUME NEW c \in Calls, Record(c)
      PROVE  CapInv'
  <2>1. ActiveKeys' = ActiveKeys
    BY <1>10 DEF Record, ActiveKeys, Active
  <2>. QED
    BY <1>10, <2>1 DEF Record, CapInv, GatewayTypeOK, Call, IdleCall, Continue, Finish
<1>11. ASSUME NEW c \in Calls, Lose(c)
      PROVE  CapInv'
  <2>1. ActiveKeys' = ActiveKeys
    BY <1>11 DEF Lose, ActiveKeys, Active
  <2>. QED
    BY <1>11, <2>1 DEF Lose, CapInv, GatewayTypeOK, Call, IdleCall, Continue, Finish
<1>12. ASSUME NEW c \in Calls, CallDies(c)
      PROVE  CapInv'
  <2>1. ActiveKeys' = ActiveKeys
    BY <1>12 DEF CallDies, ActiveKeys, Active
  <2>. QED
    BY <1>12, <2>1 DEF CallDies, CapInv, GatewayTypeOK, Call, IdleCall, Continue, Finish
<1>13. ASSUME NEW c \in Calls, NEW k \in Keys, Issue(c, k)
      PROVE  CapInv'
  <2>1. ActiveKeys' \subseteq ActiveKeys \cup {k}
    BY <1>13 DEF Issue, ActiveKeys, Active, GatewayTypeOK
  <2>2. Cardinality(ActiveKeys') <= Cardinality(ActiveKeys) + 1
    BY <2>1, ActiveCounts
  <2>3. Cardinality(ActiveKeys) < MaxActiveKeys
    BY <1>13 DEF Issue, CapInv, FenceUnmoved
  <2>4. Cardinality(ActiveKeys') \in Nat
    BY <2>1, ActiveCounts
  <2>. QED
    BY <1>13, <2>2, <2>3, <2>4, ActiveCounts DEF Issue, CapInv, GatewayTypeOK, Call, IdleCall,
        Continue, Finish
<1>14. ASSUME NEW c \in Calls, NEW k \in Keys, ReadKey(c, k)
      PROVE  CapInv'
  <2>1. ActiveKeys' = ActiveKeys
    BY <1>14 DEF ReadKey, ActiveKeys, Active
  <2>. QED
    BY <1>14, <2>1 DEF ReadKey, CapInv, GatewayTypeOK, Call, IdleCall, Continue, Finish
<1>15. ASSUME NEW c \in Calls, NEW credential \in Credentials, NEW body \in Bodies, Post(c, credential, body)
      PROVE  CapInv'
  <2>1. ActiveKeys' = ActiveKeys
    BY <1>15 DEF Post, ActiveKeys, Active
  <2>. QED
    BY <1>15, <2>1 DEF Post, CapInv, GatewayTypeOK, Call, IdleCall, Continue, Finish
<1>16. ASSUME NEW k \in Keys, KeyExpires(k)
      PROVE  CapInv'
  <2>1. ActiveKeys' \subseteq ActiveKeys
    BY <1>16 DEF KeyExpires, ActiveKeys, Active, GatewayTypeOK
  <2>2. Cardinality(ActiveKeys') <= Cardinality(ActiveKeys)
    BY <2>1, ActiveCounts
  <2>3. Cardinality(ActiveKeys') \in Nat
    BY <2>1, ActiveCounts
  <2>. QED
    BY <1>16, <2>2, <2>3, ActiveCounts DEF KeyExpires, CapInv, GatewayTypeOK, Call, IdleCall, Continue,
        Finish
<1>17. ASSUME ChallengeExpires
      PROVE  CapInv'
  <2>1. ActiveKeys' = ActiveKeys
    BY <1>17 DEF ChallengeExpires, ActiveKeys, Active
  <2>. QED
    BY <1>17, <2>1 DEF ChallengeExpires, CapInv, GatewayTypeOK, Call, IdleCall, Continue, Finish
<1>18. ASSUME LeaseLapses
      PROVE  CapInv'
  <2>1. ActiveKeys' = ActiveKeys
    BY <1>18 DEF LeaseLapses, ActiveKeys, Active
  <2>. QED
    BY <1>18, <2>1 DEF LeaseLapses, CapInv, GatewayTypeOK, Call, IdleCall, Continue, Finish
<1>19. ASSUME RowExpires
      PROVE  CapInv'
  <2>1. ActiveKeys' = ActiveKeys
    BY <1>19 DEF RowExpires, ActiveKeys, Active
  <2>. QED
    BY <1>19, <2>1 DEF RowExpires, CapInv, GatewayTypeOK, Call, IdleCall, Continue, Finish
<1>20. ASSUME RowDeleted
      PROVE  CapInv'
  <2>1. ActiveKeys' = ActiveKeys
    BY <1>20 DEF RowDeleted, ActiveKeys, Active
  <2>. QED
    BY <1>20, <2>1 DEF RowDeleted, CapInv, GatewayTypeOK, Call, IdleCall, Continue, Finish
<1>21. CASE UNCHANGED gatewayVars
  <2>1. ActiveKeys' = ActiveKeys
    BY <1>21 DEF gatewayVars, ActiveKeys, Active
  <2>. QED
    BY <1>21, <2>1 DEF gatewayVars, CapInv
<1>. QED
  BY <1>1, <1>2, <1>3, <1>4, <1>5, <1>6, <1>7, <1>8, <1>9, <1>10, <1>11, <1>12, <1>13,
      <1>14, <1>15, <1>16, <1>17, <1>18, <1>19, <1>20, <1>21 DEF GatewayNext

LEMMA RevokeKeeps ==
    ASSUME GatewayTypeOK, RevokeInv, [GatewayNext]_gatewayVars
    PROVE  RevokeInv'
<1>. USE GatewayAssumption
<1>1. ASSUME NEW c \in Calls, ReadChallenge(c)
      PROVE  RevokeInv'
  BY <1>1 DEF RevokeInv, GatewayTypeOK, KeyRow, IdemRow, Call, ReadChallenge, Continue,
      IdleCall
<1>2. ASSUME NEW c \in Calls, DeleteChallenge(c)
      PROVE  RevokeInv'
  BY <1>2 DEF RevokeInv, GatewayTypeOK, KeyRow, IdemRow, Call, DeleteChallenge,
      StillThere, Continue, IdleCall
<1>3. ASSUME NEW c \in Calls, OpenSession(c)
      PROVE  RevokeInv'
  BY <1>3 DEF RevokeInv, GatewayTypeOK, KeyRow, IdemRow, Call, OpenSession, Finish,
      Continue, IdleCall
<1>4. ASSUME NEW c \in Calls, ReadFence(c)
      PROVE  RevokeInv'
  BY <1>4 DEF RevokeInv, GatewayTypeOK, KeyRow, IdemRow, Call, ReadFence, Continue,
      IdleCall
<1>5. ASSUME NEW c \in Calls, ListKeys(c)
      PROVE  RevokeInv'
  BY <1>5 DEF RevokeInv, GatewayTypeOK, KeyRow, IdemRow, Call, ListKeys, Continue,
      AtCap, ActiveKeys, Active, IdleCall
<1>6. ASSUME NEW c \in Calls, Revoke(c)
      PROVE  RevokeInv'
  BY <1>6 DEF RevokeInv, GatewayTypeOK, KeyRow, IdemRow, Call, Revoke, RowsUnmoved,
      Finish, Continue, IdleCall
<1>7. ASSUME NEW c \in Calls, RevokeConflict(c)
      PROVE  RevokeInv'
  BY <1>7 DEF RevokeInv, GatewayTypeOK, KeyRow, IdemRow, Call, RevokeConflict,
      RowsUnmoved, Answered, Finish, Continue, IdleCall
<1>8. ASSUME NEW c \in Calls, ClaimRow(c)
      PROVE  RevokeInv'
  BY <1>8 DEF RevokeInv, GatewayTypeOK, KeyRow, IdemRow, Call, ClaimRow, RowUnmoved,
      Continue
<1>9. ASSUME NEW c \in Calls, Run(c)
      PROVE  RevokeInv'
  BY <1>9 DEF RevokeInv, GatewayTypeOK, KeyRow, IdemRow, Call, Run, Continue
<1>10. ASSUME NEW c \in Calls, Record(c)
      PROVE  RevokeInv'
  BY <1>10 DEF RevokeInv, GatewayTypeOK, KeyRow, IdemRow, Call, Record, RowUnmoved,
      Outcome, Finish, Continue, IdleCall
<1>11. ASSUME NEW c \in Calls, Lose(c)
      PROVE  RevokeInv'
  BY <1>11 DEF RevokeInv, GatewayTypeOK, KeyRow, IdemRow, Call, Lose, StillThere,
      FenceUnmoved, RowUnmoved, Finish, Continue, IdleCall
<1>12. ASSUME NEW c \in Calls, CallDies(c)
      PROVE  RevokeInv'
  BY <1>12 DEF RevokeInv, GatewayTypeOK, KeyRow, IdemRow, Call, CallDies, Finish,
      Continue, IdleCall
<1>13. ASSUME NEW c \in Calls, NEW k \in Keys, Issue(c, k)
      PROVE  RevokeInv'
  BY <1>13 DEF RevokeInv, GatewayTypeOK, KeyRow, IdemRow, Call, Issue, FenceUnmoved,
      Finish, Continue, IdleCall
<1>14. ASSUME NEW c \in Calls, NEW k \in Keys, ReadKey(c, k)
      PROVE  RevokeInv'
  BY <1>14 DEF RevokeInv, GatewayTypeOK, KeyRow, IdemRow, Call, ReadKey, Active,
      Continue, IdleCall
<1>15. ASSUME NEW c \in Calls, NEW credential \in Credentials, NEW body \in Bodies, Post(c, credential, body)
      PROVE  RevokeInv'
  BY <1>15 DEF RevokeInv, GatewayTypeOK, KeyRow, IdemRow, Call, Post, Admitted, Active,
      Continue, IdleCall
<1>16. ASSUME NEW k \in Keys, KeyExpires(k)
      PROVE  RevokeInv'
  BY <1>16 DEF RevokeInv, GatewayTypeOK, KeyRow, IdemRow, Call, KeyExpires
<1>17. ASSUME ChallengeExpires
      PROVE  RevokeInv'
  BY <1>17 DEF RevokeInv, GatewayTypeOK, KeyRow, IdemRow, Call, ChallengeExpires
<1>18. ASSUME LeaseLapses
      PROVE  RevokeInv'
  BY <1>18 DEF RevokeInv, GatewayTypeOK, KeyRow, IdemRow, Call, LeaseLapses, LeaseEnded,
      Holding, RowUnmoved
<1>19. ASSUME RowExpires
      PROVE  RevokeInv'
  BY <1>19 DEF RevokeInv, GatewayTypeOK, KeyRow, IdemRow, Call, RowExpires, RowUnmoved
<1>20. ASSUME RowDeleted
      PROVE  RevokeInv'
  BY <1>20 DEF RevokeInv, GatewayTypeOK, KeyRow, IdemRow, Call, RowDeleted, NoRow
<1>21. CASE UNCHANGED gatewayVars
  BY <1>21 DEF RevokeInv, GatewayTypeOK, KeyRow, IdemRow, Call, gatewayVars
<1>. QED
  BY <1>1, <1>2, <1>3, <1>4, <1>5, <1>6, <1>7, <1>8, <1>9, <1>10, <1>11, <1>12, <1>13,
      <1>14, <1>15, <1>16, <1>17, <1>18, <1>19, <1>20, <1>21 DEF GatewayNext

LEMMA RowKeeps ==
    ASSUME GatewayTypeOK, RowInv, [GatewayNext]_gatewayVars
    PROVE  RowInv'
<1>. USE GatewayAssumption
<1>1. ASSUME NEW c \in Calls, ReadChallenge(c)
      PROVE  RowInv'
  BY <1>1 DEF RowInv, RowUnmoved, GatewayTypeOK, KeyRow, IdemRow, Call, ReadChallenge,
      Continue, IdleCall
<1>2. ASSUME NEW c \in Calls, DeleteChallenge(c)
      PROVE  RowInv'
  BY <1>2 DEF RowInv, RowUnmoved, GatewayTypeOK, KeyRow, IdemRow, Call, DeleteChallenge,
      StillThere, Continue, IdleCall
<1>3. ASSUME NEW c \in Calls, OpenSession(c)
      PROVE  RowInv'
  BY <1>3 DEF RowInv, RowUnmoved, GatewayTypeOK, KeyRow, IdemRow, Call, OpenSession,
      Finish, Continue, IdleCall
<1>4. ASSUME NEW c \in Calls, ReadFence(c)
      PROVE  RowInv'
  BY <1>4 DEF RowInv, RowUnmoved, GatewayTypeOK, KeyRow, IdemRow, Call, ReadFence,
      Continue, IdleCall
<1>5. ASSUME NEW c \in Calls, ListKeys(c)
      PROVE  RowInv'
  BY <1>5 DEF RowInv, RowUnmoved, GatewayTypeOK, KeyRow, IdemRow, Call, ListKeys,
      Continue, AtCap, ActiveKeys, Active, IdleCall
<1>6. ASSUME NEW c \in Calls, Revoke(c)
      PROVE  RowInv'
  BY <1>6 DEF RowInv, RowUnmoved, GatewayTypeOK, KeyRow, IdemRow, Call, Revoke,
      RowsUnmoved, Finish, Continue, IdleCall
<1>7. ASSUME NEW c \in Calls, RevokeConflict(c)
      PROVE  RowInv'
  BY <1>7 DEF RowInv, RowUnmoved, GatewayTypeOK, KeyRow, IdemRow, Call, RevokeConflict,
      RowsUnmoved, Answered, Finish, Continue, IdleCall
<1>8. ASSUME NEW c \in Calls, ClaimRow(c)
      PROVE  RowInv'
  BY <1>8 DEF RowInv, RowUnmoved, GatewayTypeOK, KeyRow, IdemRow, Call, ClaimRow,
      Continue
<1>9. ASSUME NEW c \in Calls, Run(c)
      PROVE  RowInv'
  BY <1>9 DEF RowInv, RowUnmoved, GatewayTypeOK, KeyRow, IdemRow, Call, Run, Continue
<1>10. ASSUME NEW c \in Calls, Record(c)
      PROVE  RowInv'
  BY <1>10 DEF RowInv, RowUnmoved, GatewayTypeOK, KeyRow, IdemRow, Call, Record,
      Outcome, Finish, Continue, IdleCall
<1>11. ASSUME NEW c \in Calls, Lose(c)
      PROVE  RowInv'
  BY <1>11 DEF RowInv, RowUnmoved, GatewayTypeOK, KeyRow, IdemRow, Call, Lose,
      StillThere, FenceUnmoved, Finish, Continue, IdleCall
<1>12. ASSUME NEW c \in Calls, CallDies(c)
      PROVE  RowInv'
  BY <1>12 DEF RowInv, RowUnmoved, GatewayTypeOK, KeyRow, IdemRow, Call, CallDies,
      Finish, Continue, IdleCall
<1>13. ASSUME NEW c \in Calls, NEW k \in Keys, Issue(c, k)
      PROVE  RowInv'
  BY <1>13 DEF RowInv, RowUnmoved, GatewayTypeOK, KeyRow, IdemRow, Call, Issue,
      FenceUnmoved, Finish, Continue, IdleCall
<1>14. ASSUME NEW c \in Calls, NEW k \in Keys, ReadKey(c, k)
      PROVE  RowInv'
  BY <1>14 DEF RowInv, RowUnmoved, GatewayTypeOK, KeyRow, IdemRow, Call, ReadKey,
      Active, Continue, IdleCall
<1>15. ASSUME NEW c \in Calls, NEW credential \in Credentials, NEW body \in Bodies, Post(c, credential, body)
      PROVE  RowInv'
  BY <1>15 DEF RowInv, RowUnmoved, GatewayTypeOK, KeyRow, IdemRow, Call, Post, Admitted,
      Active, Continue, IdleCall
<1>16. ASSUME NEW k \in Keys, KeyExpires(k)
      PROVE  RowInv'
  BY <1>16 DEF RowInv, RowUnmoved, GatewayTypeOK, KeyRow, IdemRow, Call, KeyExpires
<1>17. ASSUME ChallengeExpires
      PROVE  RowInv'
  BY <1>17 DEF RowInv, RowUnmoved, GatewayTypeOK, KeyRow, IdemRow, Call,
      ChallengeExpires
<1>18. ASSUME LeaseLapses
      PROVE  RowInv'
  BY <1>18 DEF RowInv, RowUnmoved, GatewayTypeOK, KeyRow, IdemRow, Call, LeaseLapses,
      LeaseEnded, Holding
<1>19. ASSUME RowExpires
      PROVE  RowInv'
  BY <1>19 DEF RowInv, RowUnmoved, GatewayTypeOK, KeyRow, IdemRow, Call, RowExpires
<1>20. ASSUME RowDeleted
      PROVE  RowInv'
  BY <1>20 DEF RowInv, RowUnmoved, GatewayTypeOK, KeyRow, IdemRow, Call, RowDeleted,
      NoRow
<1>21. CASE UNCHANGED gatewayVars
  BY <1>21 DEF RowInv, RowUnmoved, GatewayTypeOK, KeyRow, IdemRow, Call, gatewayVars
<1>. QED
  BY <1>1, <1>2, <1>3, <1>4, <1>5, <1>6, <1>7, <1>8, <1>9, <1>10, <1>11, <1>12, <1>13,
      <1>14, <1>15, <1>16, <1>17, <1>18, <1>19, <1>20, <1>21 DEF GatewayNext

(***************************************************************************)
(* The invariants hold from the first state on.                            *)
(***************************************************************************)
\* The rows of the store and the requests are always of their kind.
THEOREM GatewayTypeCorrect == GatewaySpec => []GatewayTypeOK
<1>1. GatewayInit => GatewayTypeOK
  <2>. SUFFICES ASSUME GatewayInit PROVE GatewayTypeOK
    OBVIOUS
  <2>1. IdleCall \in Call
    BY DEF Call, IdleCall
  <2>2. call \in [Calls -> Call]
    BY <2>1 DEF GatewayInit
  <2>3. key \in [Keys -> KeyRow]
    BY DEF GatewayInit, KeyRow
  <2>4. idem \in IdemRow
    BY DEF GatewayInit, NoRow, IdemRow
  <2>5. challenge \in {"open", "hidden", "gone"} /\ sessions \in Nat /\ fence \in Int
    BY DEF GatewayInit
  <2>6. refused \in BOOLEAN
    BY Zenon DEF GatewayInit
  <2>. QED  BY <2>2, <2>3, <2>4, <2>5, <2>6, Zenon DEF GatewayTypeOK
<1>2. GatewayTypeOK /\ [GatewayNext]_gatewayVars => GatewayTypeOK'
  BY GatewayTypeKeeps
<1>. QED  BY <1>1, <1>2, PTL DEF GatewaySpec

\* A signed challenge opens one session, however many requests bring it.
THEOREM OneSessionOpened == GatewaySpec => []OneSession
<1>1. GatewayInit => SessionInv
  BY DEF GatewayInit, SessionInv, IdleCall
<1>2. GatewayTypeOK /\ SessionInv /\ [GatewayNext]_gatewayVars => SessionInv'
  BY SessionKeeps
<1>3. SessionInv => OneSession
  BY DEF SessionInv, OneSession
<1>. QED  BY <1>1, <1>2, <1>3, GatewayTypeCorrect, PTL DEF GatewaySpec

\* Issuances that run together keep to the cap of active keys.
THEOREM CapIsKept == GatewaySpec => []KeyCap
<1>1. GatewayInit => CapInv
  <2>. SUFFICES ASSUME GatewayInit PROVE CapInv
    OBVIOUS
  <2>1. ActiveKeys = {}
    BY DEF GatewayInit, ActiveKeys, Active
  <2>2. Cardinality(ActiveKeys) <= MaxActiveKeys
    BY <2>1, FS_EmptySet, GatewayAssumption
  <2>. QED  BY <2>2 DEF GatewayInit, CapInv, IdleCall
<1>2. GatewayTypeOK /\ CapInv /\ [GatewayNext]_gatewayVars => CapInv'
  BY CapKeeps
<1>3. CapInv => KeyCap
  BY DEF CapInv, KeyCap
<1>. QED  BY <1>1, <1>2, <1>3, GatewayTypeCorrect, PTL DEF GatewaySpec

\* A revocation that lost to another one answers as the winner did.
THEOREM RevocationAnswers == GatewaySpec => []RevokeAnswers
<1>1. GatewayInit => RevokeInv
  BY DEF GatewayInit, RevokeInv, IdleCall
<1>2. GatewayTypeOK /\ RevokeInv /\ [GatewayNext]_gatewayVars => RevokeInv'
  BY RevokeKeeps
<1>3. RevokeInv => RevokeAnswers
  BY DEF RevokeInv, RevokeAnswers
<1>. QED  BY <1>1, <1>2, <1>3, GatewayTypeCorrect, PTL DEF GatewaySpec

LEMMA AlwaysRowInv == GatewaySpec => [](GatewayTypeOK /\ RowInv)
<1>1. GatewayInit => RowInv
  BY DEF GatewayInit, RowInv, IdleCall, NoRow
<1>2. GatewayTypeOK /\ RowInv /\ [GatewayNext]_gatewayVars => RowInv'
  BY RowKeeps
<1>. QED  BY <1>1, <1>2, GatewayTypeCorrect, PTL DEF GatewaySpec

\* One handler runs under an Idempotency-Key, while the row it claimed lives.
THEOREM OneHandlerRuns == GatewaySpec => []OneRunAtATime
<1>1. RowInv => OneRunAtATime
  BY DEF RowInv, OneRunAtATime
<1>. QED  BY <1>1, AlwaysRowInv, PTL

\* A settled answer is replayed until it expires: a request that read the row before it
\* was settled fails its write.
THEOREM AnswersKept == GatewaySpec => AnswerIsKept
<1>1. GatewayTypeOK /\ RowInv /\ [GatewayNext]_gatewayVars =>
        [idem.state = "answered" => idem'.state \in {"answered", "expired"}]_gatewayVars
  <2>. SUFFICES ASSUME GatewayTypeOK, RowInv, GatewayNext, idem.state = "answered"
                PROVE  idem'.state \in {"answered", "expired"}
    OBVIOUS
  <2>1. idem' = idem \/ idem'.state = "expired"
    <3>1. ASSUME NEW c \in Calls PROVE ~ClaimRow(c) /\ ~Record(c)
      BY DEF RowInv, ClaimRow, Record, RowUnmoved
    <3>2. ~LeaseLapses /\ ~RowDeleted
      BY DEF LeaseLapses, RowDeleted
    <3>. QED
      BY <3>1, <3>2 DEF GatewayNext, ReadChallenge, DeleteChallenge, OpenSession, ReadFence,
          ListKeys, Revoke, RevokeConflict, Run, Lose, CallDies, Issue, ReadKey, Post,
          KeyExpires, ChallengeExpires, RowExpires, GatewayTypeOK, IdemRow
  <2>. QED  BY <2>1
<1>. QED  BY <1>1, AlwaysRowInv, PTL DEF GatewaySpec, AnswerIsKept
=============================================================================
