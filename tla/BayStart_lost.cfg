CONSTANTS
    Orders = {o1}
    MaxCycles = 3
    MaxPings = 5
    Lossy = TRUE
    Walkups = FALSE
    Nobody = Nobody
SPECIFICATION Spec
INVARIANTS CompletedHasStarted
CHECK_DEADLOCK FALSE
