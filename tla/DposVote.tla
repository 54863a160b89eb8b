------------------------------ MODULE DposVote ------------------------------
(***************************************************************************)
(* The count of the votes (verify/leader.go, DposTx), as the leader and    *)
(* the miner (eth/handler.go, AddUDPMsg) do it: over the votes at hand,    *)
(* one by one, in unsigned machine words.                                  *)
(***************************************************************************)
EXTENDS Integers, Sequences, SequencesExt

CONSTANTS
    Verifiers,   \* verifierList
    Wealth,      \* the Wealth of each verifier
    WordLimit    \* 2^64 in the code: the first value a word cannot hold

ASSUME WealthAssumption ==
    /\ WordLimit \in Nat \ {0}
    /\ Wealth \in [Verifiers -> 0 .. WordLimit - 1]

\* What DposTx counts, before the first vote.
NoVotes == [validNum |-> 0, passNum |-> 0, wealthValid |-> 0, wealthTotal |-> 0]

\* A vote is added to the counts; those of strangers do not count
\* (isFromVerifyList).
CountVote(t, vote) ==
    LET Plus(wealth) == (wealth + Wealth[vote.NodeId]) % WordLimit
    IN  IF vote.NodeId \notin Verifiers THEN t
        ELSE [validNum    |-> t.validNum + 1,
              passNum     |-> IF vote.Result THEN t.passNum + 1 ELSE t.passNum,
              wealthValid |-> IF vote.Result THEN Plus(t.wealthValid) ELSE t.wealthValid,
              wealthTotal |-> Plus(t.wealthTotal)]

\* The loop over results, a list of VoteResults: who votes, and the verdict.
Tally(results) ==
    LET tally[i \in 0 .. Len(results)] ==
            IF i = 0 THEN NoVotes ELSE CountVote(tally[i - 1], results[i])
    IN  tally[Len(results)]

DposTx(results) ==
    LET t == Tally(results)
    IN  /\ t.passNum * 2 > t.validNum
        /\ (t.wealthValid * 4) % WordLimit > (3 * t.wealthTotal) % WordLimit
=============================================================================
