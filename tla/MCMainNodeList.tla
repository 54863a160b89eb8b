--------------------------- MODULE MCMainNodeList ---------------------------
(***************************************************************************)
(* MainNodeList on small instances.                                        *)
(***************************************************************************)
EXTENDS MainNodeList, TLC

CONSTANTS n1, n2, m1, m2

\* The miners differ in what they receive only.
MinerSymmetry == Permutations(Miners)

\* Bound: once there are two transactions, the lists reach one of the miners only.
OneInformed ==
    spent.tx = 2 =>
        \E miner \in Miners : cache[miner] = BootCache /\ broadcastInfoCh[miner] = <<>>
=============================================================================
