-------------------------- MODULE MCVerifierLeader --------------------------
(***************************************************************************)
(* VerifierLeader on small instances.                                      *)
(***************************************************************************)
EXTENDS VerifierLeader, TLC

CONSTANTS v1, v2, v3

\* The local node leads one follower, or is left out of the list.
MCPair == {{v1, v2}, {v2, v3}}

\* The local node leads one follower.
MCSolo == {{v1, v2}}

\* The local node leads two followers.
MCTriple == {{v1, v2, v3}}

MCSymmetry == Permutations(Handlers)
=============================================================================
