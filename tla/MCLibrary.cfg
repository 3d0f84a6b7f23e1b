SPECIFICATION MCSpec
CONSTANTS
    Cases <- MCCases
    Starts = {0, 1}
    Lf = 1
    Hi = 7
    Lo = 8
    Pair = 10
    StackSizeMax = 3
    CaptureCountMax = 4
    Inf = 99
    U16Max = 9
    MaxChar = 10
    UINT32_MAX = 12
    UpperA = 2
    LowerA = 4
    LowerZ = 5
INVARIANTS
    
    PointsAreTheSet
    
CHECK_DEADLOCK FALSE
