SPECIFICATION Spec
CONSTANTS
    Agent <- TwoRanks
    Value = {v1, v2}
    InitialValue = v1
    AgentTimes <- OverlappingTimes
    MaxTime = 2
    MaxStamp = 2
    SafeGvt = FALSE
CHECK_DEADLOCK FALSE
INVARIANTS TypeOK HistoryIsTiled ReadsBelongToTheirPeriod StaleReadsAreReported HistoryReachesGvt HistoryIsAcceptedWrites
PROPERTIES FossilCollectionIsInvisible
