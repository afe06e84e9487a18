\* No crashes and no outages: a pause that meets a tick in progress.
SPECIFICATION Spec
CONSTANTS
    StageCount = 1
    RangeSize = 2
    WorkersMax = 2
    Timeout = 900
    MaxGpuSeconds = 1800
    MaxRevision = 0
    Outcomes = {"hit", "none", "failed"}
    Crashes = FALSE
    Outages = FALSE
    OwnerPauses = TRUE
INVARIANTS
    UserPauseCancels
CHECK_DEADLOCK FALSE
