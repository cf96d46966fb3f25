CONSTANTS
    Main = main
    Workers = {w1, w2}
    MaxTasks = 4
    SpawnSites = {1}
    RootSites = {2}
    EmptyWaits = FALSE
    SpawnsAfterRoots = FALSE
    UnjoinedReturns = TRUE
SPECIFICATION Spec
INVARIANTS
    TypeOK
    HandOver
    NodeOwnership
    StackMatchesTasks
    CountsOnlySteps
    IdsUnique
    LogComplete
    TreeIsProgramOrder
PROPERTIES
    OthersNodesUntouched
    ImplementsRuntime
SYMMETRY WorkerSymmetry
