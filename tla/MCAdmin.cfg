SPECIFICATION FairSpec
CONSTANTS
    Keys = {1, 2}
    Nodes = {1, 2}
    None = None
    Confs <- Wide
    TotalThreads = 2
    MaxSpeed = 2
    MaxRatio = 1
    Soon = 1
    Late = 2
    MaxHandlers = 2
    MaxRequests = 2
    MaxFaults = 1
INVARIANTS
    TypeOK
PROPERTIES
    OrphansStop
    NoWrongStop
    Progress
