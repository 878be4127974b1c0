SPECIFICATION FairSpec
CONSTANTS
    Workers = {w1, w2}
    Tasks = {t1, t2, t3}
    QueueSize = 1
    MaxAttempts = 2
    Threshold = 2
    NoTask = NoTask
PROPERTIES
    StopEnds
CHECK_DEADLOCK FALSE
