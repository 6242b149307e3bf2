CONSTANTS
    t1 = t1  t2 = t2
    w1 = w1  w2 = w2  w3 = w3  w4 = w4
    c1 = c1  c2 = c2
    none = none
    None <- none
    Tasks <- TwoTasks
    Workers <- FourThreads
    Controllers <- TwoControllers
    MaxWorkers = 2
    Escaping <- OneTask
    LongTasks = TRUE
SPECIFICATION Spec
SYMMETRY Symmetry
INVARIANTS TypeOK ActiveIsHeld OnePlace
PROPERTIES ImplementsLifecycle NoOvertaking
