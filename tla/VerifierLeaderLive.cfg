SPECIFICATION FairSpec
CONSTANTS
    v1 = v1
    v2 = v2
    v3 = v3
    Self = v1
    Lists <- MCSolo
    MsgTypes = {2, 4, 6}
    Handlers = {h1}
    MaxNotify = 2
    MaxMsgs = 2
    MaxCalls = 2
PROPERTIES SessionEnds SchedulerReleased
CHECK_DEADLOCK FALSE
