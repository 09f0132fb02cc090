\* No symmetry: it is unsound for a liveness property.
CONSTANTS
    Users = {u1}
    Types = {t1}
    Memberships = {m1}
    Requests = {r1, r2}
    None = None
SPECIFICATION FairSpec
INVARIANTS
    TypeOK
    VerifiedActiveWasMember
PROPERTIES
    ActivationWasEarned
    EveryActiveMembershipIsCredentialed
