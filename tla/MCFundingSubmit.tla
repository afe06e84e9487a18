-------------------------- MODULE MCFundingSubmit ---------------------------
(***************************************************************************)
(* FundingSubmit for TLC: two deposits, or two witnesses of one, and one   *)
(* that a wallet broadcasts by itself.                                     *)
(***************************************************************************)
EXTENDS FundingSubmit, TLC

CONSTANTS raw1, raw2, txid1, txid2, direct

MCRaws == {raw1, raw2}
MCTxids == {txid1, txid2, direct}
TwoDeposits == (raw1 :> txid1) @@ (raw2 :> txid2)
TwoWitnesses == (raw1 :> txid1) @@ (raw2 :> txid1)
Symmetry == Permutations(Calls)
=============================================================================
