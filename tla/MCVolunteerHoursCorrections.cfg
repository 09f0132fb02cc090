CONSTANTS
    Entries = {e1, e2}
    Hours <- OneHour
    Deltas <- Corrections
    MaxAdjustments = 2
    MaxLevel = 1
    Rules <- SomeRules
    Volunteers = {r1}
    Reviewers = {r1}
    Administrators = {r1, r2}
    None = None
SPECIFICATION Spec
INVARIANT
    TotalNeverNegative
