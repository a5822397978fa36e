SPECIFICATION Spec
CONSTANTS
    Wire = 4
    UInt = 4
    MAX_ERRORS = 1
    MaxTries = 2
    MaxPut = 3
    MaxFault = 3
    MaxJunk = 1
    Noise = {"NAK", "RLR"}
    OneWay = TRUE
    Premature = FALSE
INVARIANTS TypeOK InOrderOnce
PROPERTIES LossyChannel AnswersCurrent
CHECK_DEADLOCK FALSE
