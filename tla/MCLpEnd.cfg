SPECIFICATION FairSpec
CONSTANTS
    N = 2
    C = 1
    MaxRequests = 0
    MaxRounds = 2
    Buffered = TRUE
CHECK_DEADLOCK FALSE
PROPERTIES Terminates
