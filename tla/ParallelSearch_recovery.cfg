\* Unknown POST outcomes, their reconciliation and resumes: up to two of them.
SPECIFICATION Spec
CONSTANTS
    StageCount = 1
    RangeSize = 2
    WorkersMax = 2
    Timeout = 900
    MaxGpuSeconds = 1800
    MaxRevision = 2
    Outcomes = {"none", "failed"}
    Crashes = TRUE
    Outages = FALSE
    OwnerPauses = TRUE
INVARIANTS
    NoOrphanedWork
    PostedOnce
    RepostOnlyAfterStop
    
PROPERTIES
    KeepsBudget
\* The search may stop for good: paused, failed, or waiting for authorization.
CHECK_DEADLOCK FALSE
