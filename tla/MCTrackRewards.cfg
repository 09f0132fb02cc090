CONSTANTS
    Contributions = {c1, c2}
    TrackWork = {w1}
    Requests = {r1, r2}
    None = None
    MaxCalls = 4
    FirstContribution = c1
    Slugs = {home, terms}
    Refreshed = {home}
    Drafts = {terms}
    Edited = {e1}
    MaxContentCalls = 4
    MaxStarts = 2
    ContentRequests = {r1, r2}
    NoEntry = NoEntry
SPECIFICATION OneSpec
SYMMETRY Symmetry
INVARIANTS
    ImpactFollowsStatus
    RewardsAreBacked
    QuietCallsSettle
    SeedsAreComplete
    ConsentNamesItsText
PROPERTIES
    EditsStay
\* The starts and the calls of a behaviour are bounded.
CHECK_DEADLOCK FALSE
