SPECIFICATION IrqSpec
CONSTANTS
    Irq = {4, 6, 7}
    Handler = {"vb_irq", "hline_irq"}
    Exception = {0}
INVARIANTS IrqTypeOK VectorReady InstalledStays
PROPERTY NoStaleEvent
CHECK_DEADLOCK FALSE
