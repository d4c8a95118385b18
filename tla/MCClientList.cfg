CONSTANTS
    Session = {s1, s2, s3}
    Sentinel = sentinel
    Freed = freed
    MaxCreated = 5
SPECIFICATION Spec
CHECK_DEADLOCK FALSE
INVARIANTS
    RingIntact
    CreationOrder
    EachVisitedOnce
PROPERTIES
    PassEnds
    ImplementsRegistry
