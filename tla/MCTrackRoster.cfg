CONSTANTS
    Users = {u1, u2}
    Tracks = {t1, t2}
    Applications = {a1}
    Assignments = {l1, l2}
    Requests = {r1, r2}
    None = None
    MaxCalls = 3
    FirstAssignment = l1
SPECIFICATION MCSpec
SYMMETRY Symmetry
INVARIANTS
    TypeOK
    QuietCallsSettleBadges
PROPERTIES
    SeatsAreKept
CHECK_DEADLOCK FALSE
