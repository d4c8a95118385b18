CONSTANTS
    Files <- MCFiles
    LenMod = 65536
SPECIFICATION LiveSpec
CHECK_DEADLOCK FALSE
INVARIANTS
    TypeOK
    StaysInside
    ScanExact
    BaselineAccepted
    TablesFound
PROPERTIES
    Returns
