SPECIFICATION ExportSpec
CONSTANTS
    Targets <- MCTargets
    Contents <- MCContents
    Modes <- MCModes
    batch_size = 2
    buffer_size = 2
    SaveEvery = 2
    cache_batch_size = 2
    MaxRuns = 2
    MaxFaults = 1
    MaxTopics = 4
    ApiLimit = 2
    PageSize = 3
    MaxAttempts = 2
    MaxMenus = 2
    MaxRefusals = 2
INVARIANTS
    FinalIsExact
    ResultsTell
    
    ChoiceIsFound
PROPERTIES
    CopyStays
    SessionTriesAll
