SPECIFICATION FairSpec
CONSTANTS
    C = 3
    AlpParent <- TwoAlps
    Agent <- TwoAgents
    Value = {v1}
    InitialValue = v0
    StartHost = 0
    MaxTime = 1
    MaxRequests = 3
    MaxRollbacks = 1
    MaxHops = 4
CHECK_DEADLOCK FALSE
INVARIANTS TypeOK OneCopy NothingExits PointersLeadToVariable ForgottenOnlyAtStart
PROPERTIES OvertakenOnlyAfterPassing ImplementsOneVariable EveryRequestIsExecuted
