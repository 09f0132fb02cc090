CONSTANTS
    Emails = {e1, e2}
    Clerks = {k1, k2}
    Codes = {c1, c2}
    Sessions = {s1, s2}
    Requests = {r1, r2}
    None = None
    Admin = e1
    Limit = 2
    MaxAttempts = 2
    MaxCalls = 4
    FirstCode = c1
    FirstSession = s1
SPECIFICATION MCSpec
SYMMETRY Symmetry
INVARIANTS
    TypeOK
    CallsSettle
    AccountsAreWhole
PROPERTIES
    BindingIsKept
CHECK_DEADLOCK FALSE
