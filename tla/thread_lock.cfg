CONSTANTS
    Thread = {t1, t2}
    Lock = {a, b}
    InitSem = init
    None = none
    Depth = 2
SPECIFICATION Spec
INVARIANTS TypeOK MadeOnce OwnerKept
PROPERTIES RecursiveLocks SomebodyGetsIt
