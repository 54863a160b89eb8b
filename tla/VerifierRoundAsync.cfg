SPECIFICATION Spec
CONSTANTS
    v1 = v1
    v2 = v2
    v3 = v3
    Verifiers = {v1, v2}
    Wealth <- MCWealthPair
    WordLimit = 1024
    Indices = {1}
    MaxBlock = 2
    MaxSession = 1
    MaxLoss = 1
    MaxDup = 1
    MaxStale = 1
    Synchronous = FALSE
INVARIANTS TypeOK OnlyElectedDecide
CHECK_DEADLOCK FALSE
