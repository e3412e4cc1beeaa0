SPECIFICATION PacedSpec
CONSTANTS
    Producers = {p1, p2}
    Consumers = {c1, c2}
    ItemSize = 3
    MaxFlush = 2
    Zero = Zero
    Old = Old
    NoRet = NoRet
INVARIANTS
    UnreadIntact
    ExactlyOnce
    PacedInv
SYMMETRY Symmetry
