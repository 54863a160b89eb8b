---------------------------- MODULE BlockDecision ----------------------------
(***************************************************************************)
(* What the verifiers promise together: one sequential decider.  Block     *)
(* after block the next leader in the rotation (verify/leader.go,          *)
(* electionLeader) opens a session, and that session is decided before the *)
(* next one opens, exactly once.  Messages, followers, votes and timers do *)
(* not appear.  Module VerifierRound implements this when no message is    *)
(* lost, its rounds are faster than their timers, and no verifier learns   *)
(* of a block during a round.                                              *)
(***************************************************************************)
EXTENDS Integers, FiniteSets

CONSTANTS
    Leader(_),   \* the leader of each block
    MaxBlock     \* bound: blocks inserted

VARIABLES
    block,       \* the last block whose leader has opened its session
    decided      \* the sessions whose package went to the miners

vars == <<block, decided>>

\* A leader's sessions are numbered: one for each block it leads.
Session(b) == <<Leader(b), Cardinality({a \in 1 .. b : Leader(a) = Leader(b)})>>

Init == block = 0 /\ decided = {}

Open ==
    /\ block < MaxBlock
    /\ decided = {Session(b) : b \in 1 .. block}
    /\ block' = block + 1
    /\ UNCHANGED decided

Decide ==
    /\ Session(block) \notin decided
    /\ block > 0
    /\ decided' = decided \cup {Session(block)}
    /\ UNCHANGED block

Next == Open \/ Decide

\* What may happen, and what must.
Safety == Init /\ [][Next]_vars
Fairness == WF_vars(Open) /\ WF_vars(Decide)

Spec == Safety /\ Fairness
=============================================================================
