SPECIFICATION Spec
CONSTANTS
    v1 = v1
    v2 = v2
    v3 = v3
    Self = v1
    Lists <- MCPair
    MsgTypes = {2, 4, 6}
    Handlers = {h1, h2}
    MaxNotify = 2
    MaxMsgs = 3
    MaxCalls = 2
SYMMETRY MCSymmetry
INVARIANTS TypeOK NoLostWakeup NoNilDeref TimersBounded
CHECK_DEADLOCK FALSE
