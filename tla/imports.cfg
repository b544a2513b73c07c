SPECIFICATION Spec
CONSTANTS
    Requests = {r1, r2, r3}
    Tenants = {"t1"}
    AssetIds = {a1, a2, a3}
    RelIds = {x1, x2, x3}
    Keys = {"k1", "K1", "k2"}
    Sources = {"manual", "import"}
    Tags = {"g1", "g2"}
    MetaKeys = {"m"}
    MetaVals = {"v1", "v2"}
    MaxTime = 0
    SeedAssets <- NoAssets
    SeedRels <- NoRels
    Nil = Nil
    Deleted = Deleted
    Calls <- ImportCalls
    MaxInFlight = 3
    AnswerFirst = FALSE
    Faults = {"db"}
    TempIds = {"i1", "i2"}
    Canon <- Normalized
    a1 = a1
    a2 = a2
    a3 = a3
    a4 = a4
    a5 = a5
    x1 = x1
    x2 = x2
    x3 = x3
    x4 = x4
    x5 = x5
SYMMETRY SymRows
INVARIANT OneAssetPerSpelling
INVARIANT CountersMatchTables
INVARIANT LinksAreWritten
INVARIANT ImportIsAtomic
PROPERTY ImportIsIdempotent
PROPERTY ImplementsInventory
