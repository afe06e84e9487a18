\* No crashes and no outages: what fair executions and AWS Batch must reach.
SPECIFICATION FairSpec
CONSTANTS
    StageCount = 1
    RangeSize = 2
    WorkersMax = 2
    Timeout = 900
    MaxGpuSeconds = 2700
    MaxRevision = 1
    Outcomes = {"hit", "none", "failed", "invalid"}
    Crashes = FALSE
    Outages = FALSE
    OwnerPauses = TRUE
PROPERTIES
    SearchSettles
    TerminalDrains
CHECK_DEADLOCK FALSE
