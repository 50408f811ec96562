SPECIFICATION Spec
CONSTANTS
    RandomSize = 2
    Times = {1, 2}
    Messages <- MCMessages
    MaxBroadcasts = 2
    Faults = TRUE
INVARIANTS
    HandshakeTypeOK
    Agreement
    HandsOverAtBoundary
    NoStandoff
PROPERTY
    BothEnd
CHECK_DEADLOCK FALSE
