CONSTANTS
    Clients = {c1, c2}
    CarWashes = {w1}
    NotGiven = NotGiven
    Requests = {r1, r2, r3}
    MaxRows = 2
    MaxStamps = 3
    MaxOverlaps = 2
SPECIFICATION Spec
SYMMETRY Symmetry
INVARIANTS TypeOK OneRowEach UpdatesKept
CHECK_DEADLOCK FALSE
