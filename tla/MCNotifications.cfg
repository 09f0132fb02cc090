CONSTANTS
    Keys = {k1, k2}
    Required = {k1}
    Services = {p1, p2}
    Workers = {p1, w1}
    Admins = {p1, p2}
    BatchLimit = 2
    MaxAttempts = 2
    None = None
    MaxRetries = 2
    MaxScheduled = 1
    Double = p1
    SecondKey = k2
SPECIFICATION MCSpec
INVARIANTS
    TypeOK
    DeliveriesCounted
    RequiredShownOnce
PROPERTIES
    EventuallySettled
\* With every notification settled there is nothing left to do.
CHECK_DEADLOCK FALSE
