SPECIFICATION Spec
CONSTANTS
    t1 = t1
    t2 = t2
    Task <- TwoTasks
    MaxGeneration = 6
    MaxEvents = 2
    MaxHealthFailures = 3
SYMMETRY TaskSymmetry
INVARIANTS
    TypeOK
    RoutingOwned
    SingleSession
    WindowShowsSession
    RunningHasWorker
PROPERTIES
    StoppedOnlyFinishes
