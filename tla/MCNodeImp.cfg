SPECIFICATION PoolSpec
CONSTANTS
    Keys = {a, b}
    TotalThreads = 4
    MaxSpeed = 4
    MaxRatio = 2
    MaxLinks = 4
    MaxEps = 2
    NoKey = NoKey
    Requests <- MCRequests
INVARIANTS
    PoolTypeOK
    WholeTask
    RunningWorks
