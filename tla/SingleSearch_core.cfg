\* Two executions and two resumes or reconciliations: one pinning unit, a round of
\* one whole and one short unit, with crashes, outages and lost calls.
SPECIFICATION FairSpec
CONSTANTS
    SequenceTotal = 1
    SequenceChunk = 1
    SubsetTotal = 3
    SubsetChunk = 2
    MaxExecutions = 2
    MaxRevision = 2
    MaxLostStarts = 1
    Outcomes = {"hit", "none", "invalid", "overflow", "unreadable", "failed"}
    Crashes = TRUE
    Outages = TRUE
INVARIANTS
    NoCandidateSkipped
    RunsOnRecord
PROPERTIES
    KeepsBudget
    
CHECK_DEADLOCK FALSE
