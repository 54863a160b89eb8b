------------------------------ MODULE MCTxPool ------------------------------
(***************************************************************************)
(* TxPool with two accounts and a handful of transactions.                 *)
(***************************************************************************)
EXTENDS TxPool

CONSTANTS A, B, a0, a1, a1r, a1s, a2, b0, b1

MCAccounts == {A, B}
MCTxs == {a0, a1, a1r, a1s, a2, b0, b1}
MCfrom == [t \in MCTxs |-> IF t \in {b0, b1} THEN B ELSE A]
MCnonce == [t \in MCTxs |-> IF t \in {a0, b0} THEN 0 ELSE IF t = a2 THEN 2 ELSE 1]
MCprice == [t \in MCTxs |-> IF t \in {a1, b0} THEN 1 ELSE 2]
MCcost == [t \in MCTxs |-> IF t = a2 THEN 2 ELSE 1]
MCcostAll == [t \in MCTxs |-> IF t \in {a1r, a2} THEN 2 ELSE 1]
Block(S, x) == [mined |-> S, balance |-> [a \in MCAccounts |-> IF a = A THEN x ELSE 1]]
MCGenesis == Block({}, 2)
MCHeads ==
    {Block({}, 2), Block({a0}, 2), Block({a0, a1}, 2), Block({a0, b0}, 1), Block({a0, a1r}, 2)}
=============================================================================
