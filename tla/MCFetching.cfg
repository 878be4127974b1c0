SPECIFICATION FetchingSpec
CONSTANTS
    Queries <- MCQueries
    FirstTop = 7
    MaxId = 8
    Hidden = {1, 4, 5}
    batch_size = 2
    max_retries = 2
    MaxFailures = 3
    MaxDeletions = 2
    BatchSize = 2
    QueueSize = 2
    MaxMessages = 7
    NWorkers = 2
    NewestId = 6
    ChunkSizes = {2, 5}
    PageSize = 2
    SplitSpan = 3
    MaxRetries = 1
    MessageQueueSize = 1
    Defaults <- MCDefaults
    Datacenters = {"DC2", "DC4"}
    Ranges <- MCRanges
    ShardChunkSize = 6
    CriticalSize = 1
    HighSize = 2
    MediumSize = 3
    DensitySizes <- MCDensitySizes
    DensityLimits <- MCDensityLimits
    SampleRange = 2
    Durations = {12, 61}
    SlowThreshold = 10
    KeptChunks = 1
    MaxSlow = 2
    MaxFetches = 2
    MaxFaults = 1
INVARIANTS
    NoGap
    CompletedIsExact
    YieldsAll
    HotIsSplit
PROPERTIES
    StreamEnds
    EndsUnlessLeftEarly
    CollectionEnds
    LearnedStays
CHECK_DEADLOCK FALSE
