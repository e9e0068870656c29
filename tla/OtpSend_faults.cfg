CONSTANTS
    Requests = {r1, r2}
    Phones = {p1}
    Ips = {a1}
    Everyone = Everyone
    Settings <- OneOrTwo
    LockTtl = 1
    Cooldown = 3
    Patience = 1
    Dated = TRUE
    MaxTime = 5
    MaxFaults = 1
    MaxStarts = 3
SPECIFICATION Spec
SYMMETRY Symmetry
INVARIANTS TypeOK SpacedTexts RateBounded LatestCodeWorks
CHECK_DEADLOCK FALSE
