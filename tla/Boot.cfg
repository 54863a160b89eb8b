SPECIFICATION FairSpec
CONSTANTS
    b1 = b1
    b2 = b2
    b3 = b3
    Boots <- MCBoots
    MaxHeight = 1
    MaxCalls = 4
    MaxGrow = 1
    MaxFaults = 1
    MaxRaces = 1
    MaxLate = 1
INVARIANTS LateAnswersBounded OneCallLate
PROPERTY SearchEnds
CHECK_DEADLOCK FALSE
