SPECIFICATION FairSpec
CONSTANTS
    t1 = t1
    t2 = t2
    Task <- OneTask
    MaxGeneration = 4
    MaxEvents = 2
    MaxHealthFailures = 2
PROPERTIES
    QuitExits
    WindowLearns
