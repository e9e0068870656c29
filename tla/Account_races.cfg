CONSTANTS
    Requests = {r1, r2}
    MaxClients = 3
    MaxTokens = 3
    PromoCodes = 2
    MaxOverlaps = 2
    MaxErrors = 1
    MaxCrashes = 1
    MaxSwitches = 1
SPECIFICATION Spec
SYMMETRY Symmetry
INVARIANTS TypeOK OneAccount  WholeUndisturbed OldBalanceIsSafe
CHECK_DEADLOCK FALSE
