SPECIFICATION Spec
CONSTANTS
    p1 = p1
    p2 = p2
    Process <- TwoProcesses
    MaxPipe = 2
INVARIANTS
    TypeOK
    KernelFollowsSession
    OneServing
PROPERTIES
    SuccessIsOwn
    ImplementsService
