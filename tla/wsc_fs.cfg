SPECIFICATION Spec
CONSTANTS
    Bank = 4
    MaxFiles = 4
    MaxChange = 1
INVARIANTS FilesFound BanksAgree PackedTight
CHECK_DEADLOCK FALSE
