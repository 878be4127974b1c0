SPECIFICATION TransfersSpec
CONSTANTS
    Callers = {c1, c2, c3, c4}
    InitialSizes = {1, 4}
    MinSize = 2
    MaxSize = 5
    GrowBy = 2
    max_attempts = 2
    MaxResizes = 2
    w1 = w1
    w2 = w2
    t1 = t1
    t2 = t2
    t3 = t3
    Workers <- MCWorkers
    Tasks <- MCTasks
    QueueSize = 1
    MaxAttempts = 2
    Threshold = 2
    NoTask = NoTask
    m1 = m1
    m2 = m2
    i1 = i1
    i2 = i2
    f1 = f1
    f2 = f2
    Downloads = {m1, m2}
    message_id <- MCIds
    Files = {f1, f2}
    FileChoices <- MCFiles
    expected_size <- MCSizes
    Received = {19, 20}
    MAX_PERSISTENT_ATTEMPTS = 3
    max_consecutive_failures = 2
    max_telegram_server_errors = 2
    max_retries = 2
    task_attempts = 2
    DownloadPlaces = 1
INVARIANTS
    CapacityLeft
    HeldOnce
    CompletedIsWhole
    SharedFileSurvives
PROPERTIES
    PlacesNeverComeBack
    EverySettles
    CompleteIsKept
CHECK_DEADLOCK FALSE
