\* One process with one connection, two requests a second, a clock of four
\* ticks a second that shows 8 when tb starts.
CONSTANTS
    Cores = 1
    Links = 1
    MaxTps = 2
    Second = 4
    Boot = 8
    Duration = 2
    Grace = 1
    Capacity = 1
    MaxClock = 4
    MaxSent = 3
    MaxCrash = 0
SPECIFICATION Spec
INVARIANT RateKept
CHECK_DEADLOCK FALSE
