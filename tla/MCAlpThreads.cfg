SPECIFICATION FairSpec
CONSTANTS
    Agent = {a1, a2}
    MaxTime = 1
    MaxRequests = 3
    Tag = {t1}
    MaxRollbacks = 2
    GvtTimes = {1}
CHECK_DEADLOCK FALSE
INVARIANTS TypeOK QuietDuringRollback RetractedOnce UndoneIsRetractedUnlessRaced OwnAnswerTaken
PROPERTIES EveryWaitEnds RollbackEnds
