SPECIFICATION Spec
CONSTANTS
    n1 = n1
    n2 = n2
    m1 = m1
    m2 = m2
    Miners = {m1}
    Nodes = {n1, n2}
    BootCommittee = {n1}
    BootMiners = {}
    BroadcastInterval = 4
    MaxBlock = 8
    MaxTx = 1
    MaxFaults = 0
    MaxEvents = 1
INVARIANT ExitListedOnce
CHECK_DEADLOCK FALSE
