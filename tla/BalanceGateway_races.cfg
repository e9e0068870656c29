CONSTANTS
    Sockets = {s1, s2}
    Cards = {c1, c2}
    NoCard = NoCard
    Absent = Absent
    Messages = {m1}
    Broadcasts = {b1, b2}
    MaxChanges = 2
    MaxAsks = 2
    MaxUpsets = 1
SPECIFICATION Spec
INVARIANTS TypeOK MapsAgree LatestShown
PROPERTIES StaleIsForgotten
CHECK_DEADLOCK FALSE
