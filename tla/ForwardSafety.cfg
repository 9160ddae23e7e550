SPECIFICATION Spec
CONSTANTS
    r1 = r1
    r2 = r2
    Rule <- TwoRules
    MaxRequests = 3
    InitialDelay = 1
    MaxDelay = 4
SYMMETRY RuleSymmetry
INVARIANTS
    TypeOK
    OneSupervisor
    LastRequestDecides
