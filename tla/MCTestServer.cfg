CONSTANTS
    Process = {p1, p2, p3}
    Main = p1
    Client = {c1, c2}
    NoClient = NoClient
    Free = Free
    Std = Std
    Listen = Listen
    FdLimits = {5, 8}
    MaxFd = 7
    FirstPort = 70
    EndPort = 74
    Foreign <- MCForeign
    MaxSetups = 2
SPECIFICATION Spec
CHECK_DEADLOCK FALSE
INVARIANTS
    TypeOK
    ServedByOne
    KeepsConnection
    AnnouncedIsBound
    NoPortLeft
PROPERTIES
    QueuedIsAccepted
    SilenceGetsImages
