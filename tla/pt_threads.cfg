CONSTANTS
    Worker = {w1, w2, w3}
    Main = main
    Null = null
    MayDetach = {w1, w2}
SPECIFICATION Spec
INVARIANTS TypeOK JoinedHasEnded CatalogExact
PROPERTIES CreateReturns JoinReturnsUndetached
CHECK_DEADLOCK FALSE
