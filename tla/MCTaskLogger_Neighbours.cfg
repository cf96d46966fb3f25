CONSTANTS
    NUM_THREADS = 4
    NUM_ENTRIES = 2
    Used = {0, 1}
    Regions = {r1}
    RegionsSpanSpawns = FALSE
    MaxCalls = 6
SPECIFICATION Spec
PROPERTY EntriesKept
