CONSTANTS
    Orders = {o1, o2}
    Calls = {c1}
    Payments = {p1, p2}
    Hooks = {h1, h2}
    Jobs = {j1, j2}
    None = None
    OrderTerms <- FreeAndPaidTerms
    EditStatuses = {}
    ConfirmationAlways = TRUE
    RetryCycles = 3
    JobAttempts = 3
    MaxStalls = 1
    MaxRequests = 4
    MaxParallel = 1
    MaxCrashes = 0
    MaxErrors = 0
    MaxDuplicates = 0
    MaxEdits = 0
SPECIFICATION FairSpec
INVARIANTS OncePerOrder
PROPERTIES FollowsFlow RefundEndsService OrdersAreSettled
CHECK_DEADLOCK FALSE
