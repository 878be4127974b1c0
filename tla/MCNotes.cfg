SPECIFICATION NotesSpec
CONSTANTS
    Workers = {w1, w2}
    FetchQueueSize = 2
    ProcessQueueSize = 1
    MaxMessages = 3
    N = 3
    Senders = {s1}
    batch_size = 2
    max_concurrent = 1
    max_queue_size = 1
    max_workers = 1
    MaxFaults = 2
INVARIANTS
    InOrderNoGaps
    CompleteOnReturn
    NoteTellsFile
PROPERTIES
    ImplementsOrderedDelivery
    PipelineSettles
    PipelineEnds
    EveryNoteWritten
CHECK_DEADLOCK FALSE
