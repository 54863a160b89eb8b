----------------------------- MODULE MCIdentity ------------------------------
(* A period of three blocks: two elections and the formal block.  Node 1 is   *)
(* this node; bucket 0 holds two of the others, bucket 1 one.                 *)
EXTENDS Identity, TLC

MCBucketOf == (1 :> 1) @@ (2 :> 0) @@ (3 :> 0) @@ (4 :> 1)
MCElects == {Empty, (1 :> RoleValidator) @@ (2 :> RoleMiner)}
MCNetTopologies ==
    {[type |-> 0, data |-> (0 :> 2)], [type |-> 0, data |-> Empty],
     [type |-> 1, data |-> (1 :> 1)], [type |-> 2, data |-> (0 :> 1)]}
MCDeposits == {{2, 3, 4}, {1, 2}, {2, 3}}
=============================================================================
