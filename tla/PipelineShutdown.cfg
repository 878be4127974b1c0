SPECIFICATION FairSpec
CONSTANTS
    Workers = {w1, w2}
    FetchQueueSize = 2
    ProcessQueueSize = 1
    MaxMessages = 2
PROPERTIES
    EndsAlsoOnShutdown
CHECK_DEADLOCK FALSE
