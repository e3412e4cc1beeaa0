SPECIFICATION FairSpec
CONSTANTS
    Producers = {p1}
    Consumers = {c1}
    ItemSize = 3
    MaxFlush = 4
    Zero = Zero
    Old = Old
    NoRet = NoRet
INVARIANTS
    TypeOK
    RingBound
    UnreadIntact
    RingInv
PROPERTIES
    IsQueue
    Drained
