\* One submission and one poll, with nothing failing.
SPECIFICATION Spec
CONSTANTS
    Calls = {c1, c2}
    Polls = {p1}
    raw1 = raw1
    raw2 = raw2
    other = other
    txid1 = txid1
    txid2 = txid2
    Raws <- MCRaws
    Txids <- MCTxids
    TxidOf <- MCTxidOf
    None = None
    MaxMerge = 2
    Crashes = FALSE
INVARIANTS
    OutageKeepsConfirmation
CHECK_DEADLOCK FALSE
