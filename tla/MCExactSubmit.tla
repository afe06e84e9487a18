--------------------------- MODULE MCExactSubmit ----------------------------
(***************************************************************************)
(* ExactSubmit for TLC: two witnesses of one transaction, and another one. *)
(***************************************************************************)
EXTENDS ExactSubmit, TLC

CONSTANTS raw1, raw2, other, txid1, txid2

MCRaws == {raw1, raw2, other}
MCTxids == {txid1, txid2}
MCTxidOf == (raw1 :> txid1) @@ (raw2 :> txid1) @@ (other :> txid2)
=============================================================================
