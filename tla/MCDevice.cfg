CONSTANTS
    SoftAp = TRUE
    Word = 7
    MsecPerFrame = 2
    Steps <- MCSteps
    MaxRefs = 2
SPECIFICATION LiveSpec
INVARIANTS
    TypeOK
    OneBufferHeld
    SendsHeldFrame
    CrashHasCause
PROPERTIES
    Paced
    ImagesFlow
    HangUpNoticed
