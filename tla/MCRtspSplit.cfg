CONSTANTS
    Session = {s1}
    Requests <- MCTwoLengths
    Cuts = {3}
    BufferSize = 10
    Lockstep = TRUE
    Apart = TRUE
    MaxRequests = 2
    MaxLive = 1
SPECIFICATION LiveSpec
CHECK_DEADLOCK FALSE
PROPERTIES
    EveryRequestAnswered
