\* Two submission requests with different bytes race each other and the polls,
\* while requests die and the chain and the miner are out at times.
SPECIFICATION FairSpec
CONSTANTS
    Calls = {c1, c2}
    Polls = {p1}
    raw1 = raw1
    raw2 = raw2
    other = other
    txid1 = txid1
    txid2 = txid2
    Raws <- MCRaws
    Txids <- MCTxids
    TxidOf <- MCTxidOf
    None = None
    MaxMerge = 2
    Crashes = TRUE
INVARIANTS
    OneIntentOnePost
    AckedNotUncertain
PROPERTIES
    
    KeepsPromise
    SubmissionReturns
CHECK_DEADLOCK FALSE
