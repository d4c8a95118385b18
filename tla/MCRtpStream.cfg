CONSTANTS
    Session = {s1, s2}
    ImageLen = {1, 2, 3, 5}
    MaxFragment = 2
    SeqMod = 4
    Word = 16
    Units = 6
    Second = 2
    Lie = 2
    Starts = {1, 14}
    Gaps = {1, 5}
    MaxImages = 2
SPECIFICATION Spec
CHECK_DEADLOCK FALSE
INVARIANTS
    PicturesWhole
    NotAhead
PROPERTIES
    ImageEnds
    ImplementsFeed
