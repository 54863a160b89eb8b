--------------------------- MODULE MCVerifierRound ---------------------------
(***************************************************************************)
(* VerifierRound on small instances.                                       *)
(***************************************************************************)
EXTENDS VerifierRound, TLC

CONSTANTS v1, v2, v3

MCWealth == v1 :> 1 @@ v2 :> 2 @@ v3 :> 3
MCWealthPair == v1 :> 1 @@ v2 :> 2
=============================================================================
