SPECIFICATION WorkersOnly
CONSTANTS
    t1 = t1
    t2 = t2
    Task <- TwoTasks
    MaxGeneration = 5
    MaxEvents = 1
    MaxHealthFailures = 1
PROPERTIES
    StopTakesEffect
    StartTakesEffect
