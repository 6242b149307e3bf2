CONSTANTS
    t1 = t1  t2 = t2  t3 = t3
    w1 = w1  w2 = w2  w3 = w3  w4 = w4
    c1 = c1
    u1 = u1  u2 = u2
    none = none
    None <- none
    Tasks <- ThreeTasks
    Workers <- FourThreads
    Controllers <- OneController
    MaxWorkers = 2
    Escaping <- OneEscaping
    LongTasks = FALSE
    Updaters <- TwoUpdaters
    MaxRelease = 2
SPECIFICATION LiveSpec
CHECK_DEADLOCK FALSE
INVARIANTS PoolSize StatusSettles
PROPERTIES QueuedTasksFinish SignalCatchesUp
