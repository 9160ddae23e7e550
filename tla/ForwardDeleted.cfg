SPECIFICATION Spec
CONSTANTS
    r1 = r1
    r2 = r2
    Rule <- OneRule
    MaxRequests = 3
    InitialDelay = 1
    MaxDelay = 1
INVARIANTS
    DeletedIsStopped
