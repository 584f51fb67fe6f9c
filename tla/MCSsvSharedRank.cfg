SPECIFICATION Spec
CONSTANTS
    Agent <- SharedRank
    Value = {v1, v2}
    InitialValue = v1
    AgentTimes <- OneTimeEach
    MaxTime = 2
    MaxStamp = 2
    SafeGvt = TRUE
CHECK_DEADLOCK FALSE
INVARIANTS StaleReadsAreReported
