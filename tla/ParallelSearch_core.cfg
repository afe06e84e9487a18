\* Two stages of two ranges on two GPUs, three paid POSTs, one resume or
\* reconciliation, with crashes, outages and lost responses.
SPECIFICATION Spec
CONSTANTS
    StageCount = 2
    RangeSize = 2
    WorkersMax = 2
    Timeout = 900
    MaxGpuSeconds = 2700
    MaxRevision = 1
    Outcomes = {"hit", "none", "partial", "unreadable", "overflow"}
    Crashes = TRUE
    Outages = TRUE
    OwnerPauses = TRUE
INVARIANTS
    NoRangeSkipped
    NoResultLost
    MeteredOnce
CHECK_DEADLOCK FALSE
