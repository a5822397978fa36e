SPECIFICATION Spec
CONSTANTS
    Bank = 4
    Meta = 1
    BegData = 1
    RomBanks = {2, 4, 8, 16}
    MaxCode = 56
    MaxData = 2
    MaxAux = 9
    Starts = {8, 9, 16}
    AtReset = {0, 255}
INVARIANTS CodeInPlace DataBanksFound RefusedOnlyIfTooBig
PROPERTY MainStartsClean
CHECK_DEADLOCK FALSE
