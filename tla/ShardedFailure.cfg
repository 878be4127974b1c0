SPECIFICATION FairSpec
CONSTANTS
    NWorkers = 2
    MaxId = 4
    ChunkSizes = {2, 4}
    PageSize = 2
    SplitSpan = 3
    MaxRetries = 1
    QueueSize = 1
INVARIANTS
    FailureIsRaised
