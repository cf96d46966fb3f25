CONSTANTS
    Main = main
    Workers = {w1}
    MaxTasks = 3
    SpawnSites = {0, 1}
    RootSites = {2, 3}
    EmptyWaits = FALSE
    SpawnsAfterRoots = FALSE
    UnjoinedReturns = TRUE
    Sites = {0, 1, 2, 3}
    ParForSites = {3}
    Regions = {}
    PAR_INC_COUNT = 2
    PAR_INC_INIT = 2
    PAR_INC_FACTOR = 2
    SIZE = 256
    MaxHeavy = 1
    LIGHT = 1
    HEAVY = 5
SPECIFICATION PipelineSpec
INVARIANTS
    WorkIsTotal
    SpanIsHeaviestChain
    
