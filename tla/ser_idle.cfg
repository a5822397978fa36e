SPECIFICATION FairSpec
CONSTANTS
    Wire = 4
    UInt = 4
    MAX_ERRORS = 2
    MaxTries = 3
    MaxPut = 2
    MaxFault = 1
    MaxJunk = 1
    Noise = {}
    OneWay = FALSE
    Premature = FALSE
PROPERTY RequestReturns
CHECK_DEADLOCK FALSE
