SPECIFICATION FairSpec
CONSTANTS
    MaxSend = 3
    MaxInbox = 2
INVARIANTS
    TypeOK
    OwnAnswer
    OneAtATime
    CleanStart
PROPERTIES
    CountedOnce
    Ends
