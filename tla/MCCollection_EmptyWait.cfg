CONSTANTS
    Main = main
    Workers = {}
    MaxTasks = 3
    SpawnSites = {1}
    RootSites = {2}
    EmptyWaits = TRUE
    SpawnsAfterRoots = FALSE
    UnjoinedReturns = FALSE
SPECIFICATION Spec
INVARIANT StackMatchesTasks
CHECK_DEADLOCK FALSE
