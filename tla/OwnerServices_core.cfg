\* Two requests at once, two keys, two bodies; one webhook, three events, two rounds;
\* two units of work that change one job's status twice.
SPECIFICATION FairSpec
CONSTANTS
    None = None
    NoRound = NoRound
    Calls = {c1, c2}
    Keys = {k1, k2}
    Bodies = {b1, b2}
    MaxActiveKeys = 1
    MaxVersion = 2
    Hooks = {h1}
    EventCount = 3
    Rounds = {r1, r2}
    HookLimit = 1
    PendingLimit = 2
    RoundLimit = 1
    MaxAttempts = 2
    FailingAfter = 2
    MaxTroubles = 1
    Units = {u1, u2}
    Statuses = {"submitted", "confirmed"}
    SettleTime = 2
    WriteTime = 1
    MaxWrites = 2
    MaxTime = 3
INVARIANTS
    NoneBehindCursor
    ToldUnlessDropped
    HeldByOne
    OneSession
    
    
    OneRunAtATime
PROPERTIES
    LeavesForAReason
    
    AnswerIsKept
CHECK_DEADLOCK FALSE
