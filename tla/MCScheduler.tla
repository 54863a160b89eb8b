----------------------------- MODULE MCScheduler -----------------------------
(***************************************************************************)
(* Scheduler on a chain of three broadcast periods.                        *)
(***************************************************************************)
EXTENDS Scheduler

\* The node verifies, then mines, then verifies again.
MCRoleAt ==
    [b \in Broadcasts |-> IF b = BroadcastInterval THEN "SUPERMINER" ELSE "SUPERVERIFY"]
=============================================================================
