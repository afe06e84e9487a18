\* Two submissions and one other request, with refusals, crashes and lost answers;
\* a process of the SDK and two tabs, which sign two deposits and make two intents.
SPECIFICATION VaultSpec
CONSTANTS
    Calls = {c1, c2}
    Others = {p1}
    raw1 = raw1
    raw2 = raw2
    txid1 = txid1
    txid2 = txid2
    direct = direct
    Raws <- MCRaws
    Txids <- MCTxids
    TxidOf <- TwoDeposits
    None = None
    MaxTries = 2
    Crashes = TRUE
    Nil = Nil
    Sdk = sdk
    Tab1 = t1
    Tab2 = t2
    Tabs = {t1, t2}
    MaxDeposits = 2
    MaxIntents = 2
    Opens = {o1}
SYMMETRY Symmetry
INVARIANTS
    DepositNeverForgotten
    ExportedBytesKept
    SubmittedIsAccepted
    DepositHoldsScript
    Recoverable
    
    
PROPERTIES
    KeepsPromise
CHECK_DEADLOCK FALSE
