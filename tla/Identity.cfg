SPECIFICATION IdentitySpec
CONSTANTS
    Accounts = {1, 2, 3, 4}
    Self = 1
    BucketOf <- MCBucketOf
    Positions = {0, 1}
    MinerPositions = {1}
    ReelectionInterval = 3
    VerifyNetChangeUpTime = 2
    MinerNetChangeUpTime = 1
    MaxLink = 1
    Small = 1
    Elects <- MCElects
    NetTopologies <- MCNetTopologies
    Deposits <- MCDeposits
    MaxHeight = 3
    MaxCrashes = 1
INVARIANTS LedgerRight DialBound
PROPERTY StopsReturn
CHECK_DEADLOCK FALSE
