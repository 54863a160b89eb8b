----------------------------- MODULE MCTxFlood ------------------------------
(* Two transactions, announced together or apart and one of them demoted and *)
(* removed, in up to two batches, which the ticker or the limit ends.        *)
EXTENDS TxFlood
=============================================================================
