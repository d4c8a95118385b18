CONSTANTS
    Session = {s1, s2}
    Requests <- MCDialogueRequests
    Cuts = {3}
    BufferSize = 10
    Lockstep = TRUE
    Apart = TRUE
    MaxRequests = 2
    MaxLive = 2
SPECIFICATION LiveSpec
CHECK_DEADLOCK FALSE
INVARIANTS
    AnswersCurrentRequest
PROPERTIES
    ImplementsDialogue
    EveryRequestAnswered
