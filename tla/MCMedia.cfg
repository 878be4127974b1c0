SPECIFICATION MediaSpec
CONSTANTS
    m1 = m1
    m2 = m2
    f1 = f1
    f2 = f2
    Messages = {m1, m2}
    Files = {f1, f2}
    FileChoices <- MCFiles
    Workers = {w1}
    max_attempts = 2
    required_stable_checks = 1
    max_wait = 2
    MaxKills = 1
    Tasks = {t1}
    MaxFaults = 4
    Threads = {c1, c2}
    VoiceFiles = {v1}
    MaxVersions = 2
    MaxRestarts = 1
INVARIANTS
    WrittenStays
    SuccessIsWhole
    CopiesRescue
    AnswerIsOfFile
PROPERTIES
    QueueDone
