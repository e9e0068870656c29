CONSTANTS
    Orders = {o1}
    Calls = {c1}
    Payments = {p1}
    Hooks = {h1, h2}
    Jobs = {j1, j2}
    None = None
    OrderTerms <- FreeAndPaidTerms
    EditStatuses = {}
    ConfirmationAlways = TRUE
    RetryCycles = 1
    JobAttempts = 2
    MaxStalls = 1
    MaxRequests = 4
    MaxParallel = 1
    MaxCrashes = 1
    MaxErrors = 1
    MaxDuplicates = 1
    MaxEdits = 0
SPECIFICATION FairSpec
INVARIANTS TypeOK NothingDoneUnpaid CompletedWasCommanded RepeatsHaveACause
PROPERTIES PaidIsSettled
CHECK_DEADLOCK FALSE
