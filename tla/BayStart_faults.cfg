CONSTANTS
    Orders = {o1, o2}
    MaxCycles = 3
    MaxPings = 3
    Lossy = TRUE
    Walkups = TRUE
    Nobody = Nobody
SPECIFICATION FairSpec
INVARIANTS TypeOK
PROPERTIES KeepsThePromise EveryJobEnds
CHECK_DEADLOCK FALSE
