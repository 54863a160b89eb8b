SPECIFICATION FairSpec
CONSTANTS
    v1 = v1
    v2 = v2
    v3 = v3
    Verifiers = {v1, v2, v3}
    Wealth <- MCWealth
    WordLimit = 1024
    Indices = {1}
    MaxBlock = 4
    MaxSession = 2
    MaxLoss = 0
    MaxDup = 0
    MaxStale = 1
    Synchronous = TRUE
INVARIANTS VotesOfThisSession FollowersVoteOnce
PROPERTIES DecidesBlocksInOrder EveryBlockDecided
CHECK_DEADLOCK FALSE
