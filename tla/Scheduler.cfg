SPECIFICATION FairSpec
CONSTANTS
    BroadcastInterval = 5
    blockEffectDelay = 2
    electionNetEffterTime = 3
    RoleAt <- MCRoleAt
    StartHeights = {4, 8, 11}
    MaxBlock = 14
INVARIANTS WorkOfOneRole ListInEffect ExitsPaidOnce
PROPERTIES InserterReleased SyncTakesEffect
CHECK_DEADLOCK FALSE
