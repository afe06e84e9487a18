\* Two witnesses of one deposit, with nothing failing but a refusal.
SPECIFICATION Spec
CONSTANTS
    Calls = {c1, c2}
    Others = {p1}
    raw1 = raw1
    raw2 = raw2
    txid1 = txid1
    txid2 = txid2
    direct = direct
    Raws <- MCRaws
    Txids <- MCTxids
    TxidOf <- TwoWitnesses
    None = None
    MaxTries = 2
    Crashes = FALSE
INVARIANTS
    SubmitsStoredBytes
CHECK_DEADLOCK FALSE
