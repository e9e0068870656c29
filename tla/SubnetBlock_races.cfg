CONSTANTS
    Servers = {s1, s2}
    Requests = {r1, r2}
    Addresses = {a1, a2}
    Mapped = {a2}
    Ranges = {w1}
    Threshold = 2
    OperatorLists <- RangesAndMapped
    MaxStarts = 4
    MaxUpsets = 1
SPECIFICATION Spec
INVARIANTS TypeOK PassesBounded BansAreEarned
PROPERTIES ServersConverge
CHECK_DEADLOCK FALSE
