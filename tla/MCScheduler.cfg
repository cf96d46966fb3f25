CONSTANTS
    Main = main
    Threads = {main, w1, w2}
    MinPoolSize = 1
    N = 4
    Programs <- SmallPrograms
SPECIFICATION FairSpec
INVARIANTS
    TypeOK
    EachTaskInOneCell
    Arbitration
    LeavesEmptySlot
    CountsAreRight
PROPERTIES
    ImplementsRuntime
    RunEnds
