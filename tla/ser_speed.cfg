SPECIFICATION FairSpec
CONSTANTS
    Low = 1
    SetTicks = 6
    Slop = 2
    TestSlop = 10
    SyncTimeOut = 10
    HiWait = 2
    LokWait = 36
    ReplyWait = 9
    StringWait = 5
    StringTicks = 1
    Skew = 1
    Lines <- MCLines
    MaxLoss = 1
    ClearsInput = TRUE
    FlagsErrors = TRUE
INVARIANTS ServerNotAlone BestSpeed
CHECK_DEADLOCK FALSE
PROPERTY SpeedEnds
