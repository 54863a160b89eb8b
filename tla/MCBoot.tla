------------------------------- MODULE MCBoot -------------------------------
(***************************************************************************)
(* Boot with the three boot nodes of params.MainnetBootnodes.              *)
(***************************************************************************)
EXTENDS Boot

CONSTANTS b1, b2, b3

MCBoots == <<b1, b2, b3>>
=============================================================================
