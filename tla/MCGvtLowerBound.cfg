SPECIFICATION Spec
CONSTANTS
    N = 3
    C = 1
    Towards <- OneClp
    MaxTime = 1
    MaxRequests = 1
    MaxEvents = 2
    SendAtomically = TRUE
CHECK_DEADLOCK FALSE
PROPERTIES GvtIsLowerBound
