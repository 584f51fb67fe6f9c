SPECIFICATION FairSpec
CONSTANTS
    N = 2
    C = 1
    MaxRequests = 2
    MaxRounds = 1
    Buffered = TRUE
CHECK_DEADLOCK FALSE
INVARIANTS TypeOK SemaphoreCountsQueue ValuesPrecedeBarrier NobodyStopsAlone
PROPERTIES Terminates QueuesDrain
