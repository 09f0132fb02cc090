\* Violated: two workers claim the same row.
CONSTANTS
    Keys = {k1}
    Required = {k1}
    Services = {s1}
    Workers = {w1, w2}
    Admins = {a1}
    BatchLimit = 1
    MaxAttempts = 2
    None = None
    MaxRetries = 1
    MaxScheduled = 1
SPECIFICATION Spec
INVARIANT ClaimedByOne
CHECK_DEADLOCK FALSE
