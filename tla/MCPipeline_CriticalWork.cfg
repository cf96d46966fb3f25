CONSTANTS
    Main = main
    Workers = {}
    MaxTasks = 2
    SpawnSites = {1}
    RootSites = {2}
    EmptyWaits = FALSE
    SpawnsAfterRoots = FALSE
    UnjoinedReturns = FALSE
    Sites = {0, 1, 2, 3}
    ParForSites = {}
    Regions = {}
    PAR_INC_COUNT = 2
    PAR_INC_INIT = 2
    PAR_INC_FACTOR = 2
    SIZE = 256
    MaxHeavy = 1
    LIGHT = 1
    HEAVY = 5
SPECIFICATION PipelineSpec
INVARIANT
    CriticalWorkAlwaysAddsUp
