SPECIFICATION ListSpec
CONSTANTS
    Requests = {r1}
    Tenants = {"t1"}
    AssetIds = {a1, a2}
    RelIds = {x1, x2}
    Keys = {"k1", "K1", "k2"}
    Sources = {"manual", "import"}
    Tags = {}
    MetaKeys = {"m"}
    MetaVals = {}
    MaxTime = 0
    SeedAssets <- NoAssets
    SeedRels <- NoRels
    Nil = Nil
    Deleted = Deleted
    Calls <- Pair
    MaxInFlight = 1
    AnswerFirst = FALSE
    Faults = {}
    TempIds = {"i1", "i2", "i3"}
    Canon <- Normalized
    a1 = a1
    a2 = a2
    a3 = a3
    a4 = a4
    a5 = a5
    x1 = x1
    x2 = x2
    x3 = x3
    x4 = x4
    x5 = x5
    Queries <- ListedAnyway
    PageSize = 1
INVARIANT NoOverlap
