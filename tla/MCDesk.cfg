CONSTANTS
    Users = {u1, u2, u3}
    Consultations = {c1}
    Meetings = {m1}
    DeskRequests = {r1, r2}
    Nobody = Nobody
    Granted = {"member", "expert", "platform_admin"}
    Ready = TRUE
    MaxDeskCalls = 5
SPECIFICATION DeskSpec
SYMMETRY Symmetry
INVARIANTS
    CreatorMayRunIt
    AssignmentsAreTold
CHECK_DEADLOCK FALSE
