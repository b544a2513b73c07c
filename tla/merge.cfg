SPECIFICATION ListSpec
CONSTANTS
    Requests = {r1, r2, r3}
    Tenants = {"t1"}
    AssetIds = {a1, a2, a3, a4}
    RelIds = {x1}
    Keys = {"k1", "k2"}
    Sources = {"manual", "import"}
    Tags = {"g1", "g2"}
    MetaKeys = {"m"}
    MetaVals = {"v1", "v2"}
    MaxTime = 2
    SeedAssets <- SeenApart
    SeedRels <- NoRels
    Nil = Nil
    Deleted = Deleted
    Calls <- MergeCalls
    MaxInFlight = 3
    AnswerFirst = FALSE
    Faults = {}
    TempIds = {"i1"}
    Canon <- Normalized
    a1 = a1
    a2 = a2
    a3 = a3
    a4 = a4
    a5 = a5
    x1 = x1
    x2 = x2
    x3 = x3
    x4 = x4
    x5 = x5
    Queries <- Listed
    PageSize = 1
SYMMETRY SymIds
INVARIANT SeenInOrder
INVARIANT NothingSkipped
PROPERTY UpdateChangesOnlyItsColumns
PROPERTY ImplementsInventory
