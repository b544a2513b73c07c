SPECIFICATION Spec
CONSTANTS
    Requests = {r1, r2, r3}
    Tenants = {"t1", "t2"}
    AssetIds = {a1, a2, a3, a4, a5}
    RelIds = {x1, x2, x3, x4, x5}
    Keys = {"k1", "k2", "k3"}
    Sources = {"manual", "import"}
    Tags = {}
    MetaKeys = {"m"}
    MetaVals = {}
    MaxTime = 0
    SeedAssets <- TwoTenants
    SeedRels <- BothWays
    Nil = Nil
    Deleted = Deleted
    Calls <- IntegrityCalls
    MaxInFlight = 3
    AnswerFirst = TRUE
    Faults = {"db", "redis"}
    TempIds = {"i1", "i2"}
    Canon <- Normalized
    a1 = a1
    a2 = a2
    a3 = a3
    a4 = a4
    a5 = a5
    x1 = x1
    x2 = x2
    x3 = x3
    x4 = x4
    x5 = x5
SYMMETRY SymIds
INVARIANT TypeOK
INVARIANT NoDuplicateRows
INVARIANT EdgesStayInTenant
INVARIANT LinkEndpointsHeld
INVARIANT GraphStaysInTenant
INVARIANT OnlyDeletedIsMissing
