SPECIFICATION Spec
CONSTANTS
    Keys = {k1, k2}
    TtlKeys = {k1}
    MaxSize = 2
    MaxSets = 2
    MaxFaults = 0
INVARIANTS
    ShutdownSaves
