CONSTANTS
    NUM_THREADS = 4
    NUM_ENTRIES = 2
    Used = {0, 2}
    Regions = {r1}
    RegionsSpanSpawns = FALSE
    MaxCalls = 5
SPECIFICATION Spec
INVARIANTS TypeOK RegionWorkInSteps
PROPERTY KeepsEveryEntry
