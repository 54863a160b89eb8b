----------------------------- MODULE MCElection ------------------------------
(* Five candidates: three alike, one that outweighs the others together, one  *)
(* without a deposit; lists shorter than, as long as and longer than M + P.   *)
EXTENDS Election

MCDeposit == <<10000, 10000, 10000, 40000, Nil>>
MCOnlineTime == <<100, 100, 100, 600, Nil>>
MCRequests ==
    {[kind |-> "miner", list |-> l] : l \in {<<>>, <<1, 2>>, <<4, 1, 2, 3>>}}
      \cup {[kind |-> "validator", list |-> l] :
              l \in {<<1, 2>>, <<1, 2, 3>>, <<1, 2, 3, 4>>, <<4, 1, 5, 2>>}}
MCTopology == <<1, 2>>
MCOffline == {<<>>, <<1>>, <<2, 1>>, <<3>>}
=============================================================================
