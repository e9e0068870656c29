CONSTANTS
    Orders = {o1}
    Calls = {c1, c2}
    Payments = {p1, p2}
    Hooks = {h1, h2}
    Jobs = {j1}
    None = None
    OrderTerms <- PlainTerms
    EditStatuses = {"created"}
    ConfirmationAlways = FALSE
    RetryCycles = 1
    JobAttempts = 1
    MaxStalls = 1
    MaxRequests = 3
    MaxParallel = 2
    MaxCrashes = 0
    MaxErrors = 0
    MaxDuplicates = 0
    MaxEdits = 1
SPECIFICATION Spec
SYMMETRY Symmetry
INVARIANTS PaidRowsAreBacked RefundsAreBacked
CHECK_DEADLOCK FALSE
