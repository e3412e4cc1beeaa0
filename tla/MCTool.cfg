\* Two processes on a machine where the ring holds one batch; every process
\* may die, and tb may be interrupted at any time.
CONSTANTS
    Cores = 2
    Links = 2
    MaxTps = 3
    Second = 1
    Boot = 1
    Duration = 2
    Grace = 1
    Capacity = 1
    MaxClock = 2
    MaxSent = 2
    MaxCrash = 1
SPECIFICATION FairSpec
INVARIANTS TypeOK CountedOnce FinalFigures
PROPERTIES Ends ChildrenStop
\* tb ends.
CHECK_DEADLOCK FALSE
