SPECIFICATION FairCalmSpec
CONSTANTS
    x = x
    y = y
    a = a
    b = b
    Rules = {x, y}
    Apps = {a, b}
    MaxStamp = 6
INVARIANTS
    TypeOK
    RulesFollowSession
    UnchangedMeansSame
PROPERTIES
    Converges
