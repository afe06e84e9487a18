\* Two claims race for the owner's only slot; the ticks of two withdrawals share
\* GPU time for two submissions.
SPECIFICATION Spec
CONSTANTS
    JobCount = 2
    Claims = {c1, c2}
    MaxActive = 1
    Timeout = 1
    MaxSeconds = 2
    MaxVersion = 2
SYMMETRY Symmetry
INVARIANTS
    LedgerIsSum
PROPERTIES
    SlotLimit
    KeepsQuota
CHECK_DEADLOCK FALSE
