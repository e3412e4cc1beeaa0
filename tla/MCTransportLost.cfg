SPECIFICATION Spec
CONSTANTS
    MaxSend = 3
    MaxInbox = 2
INVARIANTS
    Accounted
