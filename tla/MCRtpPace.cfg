CONSTANTS
    Session = {s1}
    ImageLen = {1}
    MaxFragment = 2
    SeqMod = 4
    Word = 64
    Units = 6
    Second = 2
    Lie = 2
    Starts = {1}
    Gaps = {1, 2}
    MaxImages = 3
SPECIFICATION Spec
CHECK_DEADLOCK FALSE
PROPERTIES PacedAsTaken
