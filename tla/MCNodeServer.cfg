SPECIFICATION FairSpec
CONSTANTS
    Keys = {a, b}
    TotalThreads = 2
    MaxSpeed = 4
    MaxRatio = 2
    RingSize = 1
    NoKey = NoKey
    Requests <- MCRequests
INVARIANTS
    TypeOK
PROPERTIES
    TakenUp
    Stops
