SPECIFICATION FairSpec
CONSTANTS
    Wire = 4
    UInt = 4
    MAX_ERRORS = 2
    MaxTries = 2
    MaxPut = 4
    MaxFault = 1
    MaxJunk = 3
    Noise = {}
    OneWay = FALSE
    Premature = FALSE
PROPERTIES RequestEnds ReliableChannel
CHECK_DEADLOCK FALSE
