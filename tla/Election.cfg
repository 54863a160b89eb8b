SPECIFICATION Spec
CONSTANTS
    Nodes = {1, 2, 3, 4, 5}
    Deposit <- MCDeposit
    OnlineTime <- MCOnlineTime
    Requests <- MCRequests
    M = 2
    P = 1
    N = 2
    MaxSample = 4
    Cap = 1
    MaxRequests = 2
    Topology <- MCTopology
    Offline <- MCOffline
    MaxOnline = 2
INVARIANTS MinersComplete ValidatorsAccounted LastNeedsWeight SubstitutesFresh
PROPERTIES Answered
CHECK_DEADLOCK FALSE
