SPECIFICATION Spec
CONSTANTS
    Producers = {p1}
    Consumers = {c1}
    ItemSize = 3
    MaxFlush = 2
    Zero = Zero
    Old = Old
    NoRet = NoRet
INVARIANTS
    ExactlyOnce
