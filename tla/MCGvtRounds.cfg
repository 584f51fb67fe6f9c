SPECIFICATION FairSpec
CONSTANTS
    N = 4
    C = 3
    Towards <- ThreeClps
    MaxTime = 0
    MaxRequests = 2
    MaxEvents = 2
    SendAtomically = FALSE
CHECK_DEADLOCK FALSE
INVARIANTS OneControlMessage 
 
