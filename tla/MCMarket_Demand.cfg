CONSTANTS
    Main = main
    w1 = w1
    w2 = w2
    Workers = {w1, w2}
    my_thread_array <- TwoWorkers
    LateSignals = FALSE
    MaxSpawns = 2
SPECIFICATION Spec
INVARIANTS
    TypeOK
    DemandMatchesState
    
    
    WorkIsAdvertised
    NothingUsedAfterFree
