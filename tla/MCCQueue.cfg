SPECIFICATION FairSpec
CONSTANTS
    Processors = {t1, t2, t3}
    Tasks = {x1, x2, x3}
    NoOne = NoOne
    MaxWaitNo = 4
CHECK_DEADLOCK FALSE
INVARIANT NoLostWakeup
PROPERTIES QueuedIsFetched ExitsUnlessMidWait
