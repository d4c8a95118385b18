CONSTANTS
    Session = {s1, s2}
    Requests <- MCSharedRequests
    Cuts = {2, 3}
    BufferSize = 6
    Lockstep = FALSE
    Apart = FALSE
    MaxRequests = 2
    MaxLive = 2
SPECIFICATION Spec
CHECK_DEADLOCK FALSE
SYMMETRY Symmetry
INVARIANTS
    BufferSound
    OwnCommandsOnly
    NoSurplusReply
