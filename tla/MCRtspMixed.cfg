CONSTANTS
    Session = {s1, s2}
    Requests <- MCSharedRequests
    Cuts = {3}
    BufferSize = 10
    Lockstep = TRUE
    Apart = FALSE
    MaxRequests = 2
    MaxLive = 2
SPECIFICATION Spec
CHECK_DEADLOCK FALSE
INVARIANTS
    AnswersCurrentRequest
