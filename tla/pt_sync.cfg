CONSTANTS
    t1 = t1
    t2 = t2
    t3 = t3
    Thread = {t1, t2, t3}
    Ready = ready
    Limit = 3
    Programs <- MCPrograms
SPECIFICATION Spec
INVARIANTS Exclusion NoCorrection BarrierRounds NoLeftToken
PROPERTIES AllEnd
CHECK_DEADLOCK FALSE
