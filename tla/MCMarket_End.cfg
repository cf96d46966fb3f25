CONSTANTS
    Main = main
    w1 = w1
    w2 = w2
    Workers = {w1, w2}
    my_thread_array <- TwoWorkers
    LateSignals = TRUE
    MaxSpawns = 1
SPECIFICATION FairSpec
PROPERTY
    TakenDown
