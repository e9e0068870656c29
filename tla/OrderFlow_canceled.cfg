CONSTANTS
    Orders = {o1}
    Calls = {c1}
    Payments = {p1}
    Hooks = {h1}
    Jobs = {j1}
    None = None
    OrderTerms <- PaidTerms
    EditStatuses = {}
    ConfirmationAlways = FALSE
    RetryCycles = 1
    JobAttempts = 1
    MaxStalls = 1
    MaxRequests = 4
    MaxParallel = 1
    MaxCrashes = 0
    MaxErrors = 0
    MaxDuplicates = 0
    MaxEdits = 0
SPECIFICATION Spec
INVARIANTS CanceledIsUnpaid
CHECK_DEADLOCK FALSE
