SPECIFICATION FairSpec
CONSTANTS
    BatchSize = 2
    QueueSize = 2
    MaxMessages = 7
PROPERTIES
    StopEnds
CHECK_DEADLOCK FALSE
