SPECIFICATION Spec
CONSTANTS
    Agent = {a1}
    MaxTime = 1
    MaxRequests = 3
    Tag = {t1}
    MaxRollbacks = 1
    GvtTimes = {}
CHECK_DEADLOCK FALSE
INVARIANTS UndoneIsRetracted
