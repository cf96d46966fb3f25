CONSTANTS
    Main = main
    Workers = {w1}
    MaxTasks = 3
    SpawnSites = {1}
    RootSites = {0}
    EmptyWaits = FALSE
    SpawnsAfterRoots = FALSE
    UnjoinedReturns = TRUE
    Regions = {3}
SPECIFICATION HooksFairSpec
INVARIANTS
    ThreadIds
    FilesAreComplete
PROPERTIES
    StaysSafe
    ProgramEnds
