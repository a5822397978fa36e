CONSTANTS
    Worker = {w1, w2}
    Main = main
    Null = null
    MayDetach = {w1}
SPECIFICATION Spec
PROPERTIES JoinReturns
CHECK_DEADLOCK FALSE
