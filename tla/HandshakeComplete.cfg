SPECIFICATION Spec
CONSTANTS
    RandomSize = 2
    Times = {1, 2}
    Messages <- MCMessages
    MaxBroadcasts = 0
    Faults = FALSE
INVARIANT
    CompletesUndisturbed
CHECK_DEADLOCK FALSE
