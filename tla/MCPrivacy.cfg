CONSTANTS
    Members = {u1, u2}
    Sections = {badges, hours}
    Shown = {badges}
    Awards = {badges}
    Handles = {h1}
    PageRequests = {r1, r2}
    Nobody = Nobody
    MaxPageCalls = 3
    Users = {u1, u2}
    Opportunities = {o1}
    Requests = {r1, r2}
    None = None
    MaxParticipants <- OnePlace
    Unlimited = Unlimited
SPECIFICATION OneSpec
SYMMETRY Symmetry
INVARIANTS
    PagesFollowTheFlags
    QuietUpdatesStick
    TypeOK
    PlacesNeverExceeded
    AcceptedHasPlace
\* The calls on a page are bounded; an archived opportunity takes no further one.
CHECK_DEADLOCK FALSE
