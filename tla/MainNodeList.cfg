SPECIFICATION Spec
CONSTANTS
    n1 = n1
    n2 = n2
    m1 = m1
    m2 = m2
    Miners = {m1, m2}
    Nodes = {n1}
    BootCommittee = {}
    BootMiners = {n1}
    BroadcastInterval = 3
    MaxBlock = 9
    MaxTx = 2
    MaxFaults = 1
    MaxEvents = 2
SYMMETRY MinerSymmetry
CONSTRAINT OneInformed
INVARIANTS ListsFollowChain MembersElectedThemselves ElectionsSurvive
CHECK_DEADLOCK FALSE
