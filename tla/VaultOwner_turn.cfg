\* Two tabs, and a user who opens a second dialog while the first waits.
SPECIFICATION OwnerSpec
CONSTANTS
    Sdk = sdk
    Tabs = {t1, t2}
    MaxDeposits = 1
    MaxIntents = 1
    Opens = {o1, o2}
    Nil = Nil
INVARIANTS
    DialogHoldsTurn
CHECK_DEADLOCK FALSE
