CONSTANTS
    SeededTypes = {t1}
    Preferences = {s1}
    Flags = {f1}
    Kinds = {b1}
    ImpactRules = {i1}
    Roles = {g1}
    Permissions = {p1}
    Tracks = {k1}
    Thresholds = {h10}
    AllThresholds = {h10, h25}
    Milestones = {m1, m2}
    Cards = {c1, c2}
    DefaultCard = c1
    CatalogRequests = {r1, r2}
    NoEntry = NoEntry
    MaxCatalogCalls = 3
    \* The hours: two processes that serve calls of several roles each.
    Entries = {m1, m2}
    Hours <- OneHour
    Deltas <- Corrections
    MaxAdjustments = 1
    MaxLevel = 1
    Rules <- SomeRules
    Volunteers = {q1}
    Reviewers = {q1, q2}
    Administrators = {q2}
    None = None
SPECIFICATION OneSpec
SYMMETRY Symmetry
INVARIANTS
    CatalogSeedsAreComplete
    CatalogEditsStand
    DecidedOnceEarnsOnce
    CorrectionsKeepTotal
    QuietCallsRefresh
PROPERTIES
    CatalogSeedingIsIdempotent
\* The calls of a behaviour are bounded.
CHECK_DEADLOCK FALSE
