SPECIFICATION Spec
CONSTANTS
    Txs = {1, 2}
    FloodMaxTransactions = 2
    MaxTxN = 1
    Dropped = {1}
    PeerNumbers = {1}
    MaxBatches = 2
INVARIANTS NumbersFind
PROPERTIES AdderReleased Drains
CHECK_DEADLOCK FALSE
