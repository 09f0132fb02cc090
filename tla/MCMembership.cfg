\* No symmetry: it is unsound for the liveness property.
CONSTANTS
    Users = {u1}
    Types = {t1}
    Applications = {a1}
    Memberships = {m1, m2}
    Requests = {r1, r2}
    None = None
    PoolSize = 3
SPECIFICATION FairSpec
INVARIANTS
    TypeOK
    OneActivePerType
    ApprovedHasMembership
PROPERTIES
    ImplementsRegistry
    EveryCallReturns
