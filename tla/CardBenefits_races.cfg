CONSTANTS
    Requests = {r1, r2}
    UsageAmount = 2
    VacuumLimit = 1
    Parallel = 2
    MaxErrors = 1
    MaxCrashes = 1
SPECIFICATION Spec
SYMMETRY Symmetry
INVARIANTS TypeOK UsageBounded NumbersHaveNoGap DiscountsAreRecorded VacuumsBounded GrantsBounded
CHECK_DEADLOCK FALSE
