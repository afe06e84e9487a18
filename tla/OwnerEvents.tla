---------------------------- MODULE OwnerEvents -----------------------------
(***************************************************************************)
(* The owner's event log (server/owner-events.ts): units of work (requests *)
(* and ticks) change the status of one job or vault, and record an event   *)
(* for each change; a client reads the log behind a cursor.                *)
(*                                                                         *)
(* A transaction carries its event rows.  A single write only notes its    *)
(* event, which settle() writes when the unit's work is over.  Each row is *)
(* stamped just before it is sent, and is listed once it is SettleTime old.*)
(***************************************************************************)
EXTENDS Integers, FiniteSets

CONSTANTS
    Units,          \* requests and ticks that may be under way at once
    Statuses,       \* statuses of the subject that have an event type
    SettleTime,     \* EVENT_SETTLE_MS
    WriteTime,      \* the longest a stamped row may take to be written
    MaxWrites,     \* bound on the subject's writes
    MaxTime         \* bound on the clock

\* Outside a transaction a write is cancelled after RECORD_ALLOWANCE_MS; that a
\* transaction ends within WriteTime is assumed.
ASSUME EventAssumption ==
    /\ Statuses # {}
    /\ SettleTime \in Nat /\ WriteTime \in Nat
    /\ MaxWrites \in Nat /\ MaxTime \in Nat
    /\ WriteTime < SettleTime

Versions == 0..MaxWrites
Times == 0..MaxTime

\* An event is named after the subject's version it was recorded for.
Event == [version : Versions, status : Statuses]
Row == [version : Versions, status : Statuses, stamp : Times]

Unit == [pc : {"idle", "work", "transaction", "settle", "write"},
         version : Versions, status : Statuses,     \* the subject as read
         next : Statuses, stamp : Times,
         noted : SUBSET Event]

VARIABLES
    subject,    \* the status at each version written so far
    version,    \* the subject's version
    unit,
    log,        \* the EVENT# rows
    dropped,    \* versions whose event was given up, or died with its unit
    cursor,     \* the client's cursor: the key of the last row it was given
    given,      \* versions whose event the client was given
    now

eventVars == <<subject, version, unit, log, dropped, cursor, given, now>>

AnyStatus == CHOOSE s \in Statuses : TRUE
IdleUnit == [pc |-> "idle", version |-> 0, status |-> AnyStatus, next |-> AnyStatus,
         stamp |-> 0, noted |-> {}]

EventsInit ==
    /\ subject = [v \in {0} |-> AnyStatus]
    /\ version = 0
    /\ unit = [u \in Units |-> IdleUnit]
    /\ log = {} /\ dropped = {}
    /\ cursor = <<-1, 0>> /\ given = {}
    /\ now = 0

EventsTypeOK ==
    /\ version \in Versions
    /\ subject \in [0..version -> Statuses]
    /\ unit \in [Units -> Unit]
    /\ log \subseteq Row
    /\ dropped \subseteq Versions
    /\ cursor \in (Times \cup {-1}) \X Versions
    /\ given \subseteq Versions
    /\ now \in Times

Stamped(events, at) == {[version |-> e.version, status |-> e.status, stamp |-> at] : e \in events}

\* What a write over a row of the status previous records.  A status this
\* process never saw is recorded at least once.
EventIfSeen(v, status, previous, seen) ==
    IF seen /\ status # previous THEN {[version |-> v, status |-> status]} ELSE {}
EventOf(v, status, previous, seen) ==
    IF ~seen \/ status # previous THEN {[version |-> v, status |-> status]} ELSE {}

(***************************************************************************)
(* A unit's reads and writes.                                              *)
(***************************************************************************)
Read(u) ==
    /\ unit[u].pc \in {"idle", "work"}
    /\ unit' = [unit EXCEPT ![u].pc = "work", ![u].version = version,
                            ![u].status = subject[version]]
    /\ UNCHANGED <<subject, version, log, dropped, cursor, given, now>>

Written(s) == [v \in 0..(version + 1) |-> IF v = version + 1 THEN s ELSE subject[v]]

\* The version check is of what the unit read, which may have left the memory of
\* statuses since.
Put(u, s) ==
    /\ unit[u].pc = "work" /\ version < MaxWrites
    /\ unit[u].version = version
    /\ version' = version + 1 /\ subject' = Written(s)
    /\ \E seen \in BOOLEAN :
         unit' = [unit EXCEPT ![u].version = version + 1, ![u].status = s,
                    ![u].noted = @ \cup EventOf(version + 1, s, unit[u].status, seen)]
    /\ UNCHANGED <<log, dropped, cursor, given, now>>

\* The write is made and its answer lost, or refused when the client of the store
\* repeats it: the unit notes nothing.
PutLost(u, s) ==
    /\ unit[u].pc = "work" /\ version < MaxWrites
    /\ unit[u].version = version
    /\ version' = version + 1 /\ subject' = Written(s)
    /\ dropped' = dropped \cup {version + 1}
    /\ unit' = [unit EXCEPT ![u].pc = "settle"]
    /\ UNCHANGED <<log, cursor, given, now>>

\* The event row is stamped before the transaction that carries it is sent.
Transact(u, s) ==
    /\ unit[u].pc = "work" /\ version < MaxWrites
    /\ unit' = [unit EXCEPT ![u].pc = "transaction", ![u].next = s, ![u].stamp = now]
    /\ UNCHANGED <<subject, version, log, dropped, cursor, given, now>>

Commit(u) ==
    LET k == unit[u] IN
    /\ k.pc = "transaction" /\ version < MaxWrites
    /\ k.version = version
    /\ version' = version + 1 /\ subject' = Written(k.next)
    /\ \E seen \in BOOLEAN :
         log' = log \cup Stamped(EventOf(version + 1, k.next, k.status, seen), k.stamp)
    /\ unit' = [unit EXCEPT ![u].pc = "work", ![u].version = version + 1,
                            ![u].status = k.next]
    /\ UNCHANGED <<dropped, cursor, given, now>>

\* The row changed since it was read, or nothing was left to write.
Leave(u) ==
    /\ unit[u].pc \in {"work", "transaction"}
    /\ unit' = [unit EXCEPT ![u].pc = "settle"]
    /\ UNCHANGED <<subject, version, log, dropped, cursor, given, now>>

(***************************************************************************)
(* settle(): the noted rows are stamped now and written, some of them in   *)
(* vain.                                                                   *)
(***************************************************************************)
StampNoted(u) ==
    /\ unit[u].pc = "settle"
    /\ unit' = [unit EXCEPT ![u].pc = "write", ![u].stamp = now]
    /\ UNCHANGED <<subject, version, log, dropped, cursor, given, now>>

VersionsOf(events) == {e.version : e \in events}

WriteNoted(u) ==
    /\ unit[u].pc = "write"
    /\ \E written \in SUBSET unit[u].noted :
         /\ log' = log \cup Stamped(written, unit[u].stamp)
         /\ dropped' = dropped \cup VersionsOf(unit[u].noted \ written)
    /\ unit' = [unit EXCEPT ![u] = IdleUnit]
    /\ UNCHANGED <<subject, version, cursor, given, now>>

UnitDies(u) ==
    /\ unit[u].pc # "idle"
    /\ dropped' = dropped \cup VersionsOf(unit[u].noted)
    /\ unit' = [unit EXCEPT ![u] = IdleUnit]
    /\ UNCHANGED <<subject, version, log, cursor, given, now>>

(***************************************************************************)
(* The client, and the clock.                                              *)
(***************************************************************************)
Key(row) == <<row.stamp, row.version>>
Before(a, b) == a[1] < b[1] \/ (a[1] = b[1] /\ a[2] < b[2])

SettledAtOnce(row) == row.stamp <= now
Settled(row) == row.stamp + SettleTime <= now

\* A page holds the oldest rows after the cursor, and its last row is the next
\* cursor.
List ==
    /\ \E page \in SUBSET {row \in log : Settled(row) /\ Before(cursor, Key(row))} :
         /\ page # {}
         /\ \A row \in log : \A p \in page :
              Settled(row) /\ Before(cursor, Key(row)) /\ Before(Key(row), Key(p)) => row \in page
         /\ given' = given \cup VersionsOf(page)
         /\ \E last \in page :
              /\ \A p \in page : p = last \/ Before(Key(p), Key(last))
              /\ cursor' = Key(last)
    /\ UNCHANGED <<subject, version, unit, log, dropped, now>>

\* No stamped row is on its way for longer than WriteTime.
Tick ==
    /\ now < MaxTime
    /\ \A u \in Units : unit[u].pc \in {"transaction", "write"} => now < unit[u].stamp + WriteTime
    /\ now' = now + 1
    /\ UNCHANGED <<subject, version, unit, log, dropped, cursor, given>>

EventsNext ==
    \/ \E u \in Units :
         \/ Read(u) \/ Commit(u) \/ Leave(u) \/ StampNoted(u) \/ WriteNoted(u) \/ UnitDies(u)
         \/ \E s \in Statuses : Put(u, s) \/ PutLost(u, s) \/ Transact(u, s)
    \/ List \/ Tick

EventsSpec == EventsInit /\ [][EventsNext]_eventVars

(***************************************************************************)
(* What must hold.                                                         *)
(***************************************************************************)
\* No event lands behind a cursor (owner-events.ts:325): whatever is in the log
\* up to the client's cursor was given to it.
NoneBehindCursor ==
    \A row \in log : Before(cursor, Key(row)) \/ row.version \in given

\* A change of status is told unless its unit died or could not write it, or lost
\* the answer of its write (owner-events.ts:226): its event is in the log, or a living unit notes it; and
\* the log tells what happened, each version once.
ToldUnlessDropped ==
    /\ \A v \in 1..version : subject[v] # subject[v - 1] =>
         \/ v \in VersionsOf(log) \cup dropped
         \/ \E u \in Units : v \in VersionsOf(unit[u].noted)
    /\ \A row \in log :
         /\ row.version <= version /\ subject[row.version] = row.status
         /\ \A other \in log : other.version = row.version => other = row
=============================================================================
