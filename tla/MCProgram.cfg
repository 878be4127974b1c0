SPECIFICATION ProgramSpec
CONSTANTS
    Keys = {k1, k2, k3}
    TtlKeys = {k1}
    MaxSize = 2
    MaxSets = 3
    MaxFaults = 2
    LastTarget = 2
    WorkerCount = 2
    max_attempts = 2
    MaxBreaks = 1
    MaxMessages = 2
    MaxSignals = 3
    MaxFailures = 2
INVARIANTS
    CleanMeansSaved
    OneFaultRecovers
    OwnersFinish
    SessionInUseIsOpen
    NothingLeftBehind
    
PROPERTIES
    DirtyEnds
