------------------------------- MODULE Schema -------------------------------
(***************************************************************************)
(* The vocabulary of the service: the rows of its tables (app/models), the *)
(* payloads of its calls (app/schemas), and the instance: who asks for     *)
(* what, in which tables.                                                  *)
(***************************************************************************)
EXTENDS Naturals, FiniteSets, Sequences

CONSTANTS
    Requests,    \* the HTTP requests of the instance, each with its session
    Calls,       \* the API calls the clients of the instance may make
    Tenants,     \* values of tenant_id
    AssetIds,    \* values of assets.id (uuid4 primary keys)
    RelIds,      \* values of relationships.id
    Keys,        \* (type, value) pairs an asset is known by
    Sources,     \* values of assets.source
    Tags,        \* members of assets.tags
    MetaKeys,    \* keys of the JSON object assets.metadata
    MetaVals,    \* values stored under a metadata key
    TempIds,     \* the identifiers that items of an import give themselves
    Canon,       \* Canon[k]: the key of an import's item after _normalize
    MaxTime,     \* bound on the clock of the instance
    SeedAssets,  \* the assets table when the instance starts
    SeedRels,    \* the relationships table when the instance starts
    Nil,         \* no row, no value, no write
    Deleted      \* a row that was deleted: its id is never used again

Statuses == {"active", "stale", "archived"}
RelTypes == {"SUBDOMAIN_OF", "RESOLVES_TO", "USES", "RUNS_ON", "COVERS"}
Times    == 0 .. MaxTime

AssetRow ==
    [tenant : Tenants, key : Keys, status : Statuses, source : Sources,
     tags : SUBSET Tags, meta : [MetaKeys -> MetaVals \cup {Nil}],
     first_seen : Times, last_seen : Times]

RelRow == [tenant : Tenants, src : AssetIds, dst : AssetIds, type : RelTypes]

AssetCell == AssetRow \cup {Nil, Deleted}
RelCell   == RelRow \cup {Nil, Deleted}

IsRow(cell) == cell \notin {Nil, Deleted}

Touches(rel, a) == rel.src = a \/ rel.dst = a

-----------------------------------------------------------------------------
(* What the tables must satisfy: the two unique constraints, and that an   *)
(* edge joins assets of its own tenant.                                    *)

SameKey(row1, row2)  == row1.tenant = row2.tenant /\ row1.key = row2.key
SameEdge(rel1, rel2) == /\ rel1.tenant = rel2.tenant
                        /\ rel1.src = rel2.src
                        /\ rel1.dst = rel2.dst
                        /\ rel1.type = rel2.type

UniqueRows(assetTable, relTable) ==
    /\ \A a, b \in AssetIds :
           IsRow(assetTable[a]) /\ IsRow(assetTable[b])
           /\ SameKey(assetTable[a], assetTable[b]) => a = b
    /\ \A x, y \in RelIds :
           IsRow(relTable[x]) /\ IsRow(relTable[y])
           /\ SameEdge(relTable[x], relTable[y]) => x = y

EdgesInTenant(assetTable, relTable) ==
    \A x \in RelIds : IsRow(relTable[x]) =>
        \A a \in {relTable[x].src, relTable[x].dst} :
            IsRow(assetTable[a]) /\ assetTable[a].tenant = relTable[x].tenant

-----------------------------------------------------------------------------
(* The payloads the schemas of app/schemas/asset.py let through.           *)
CreateCall ==
    [op : {"create_asset"}, tenant : Tenants, key : Keys, status : Statuses,
     source : Sources, tags : SUBSET Tags, meta : [MetaKeys -> MetaVals \cup {Nil}]]
UpdateCall ==
    [op : {"update_asset"}, tenant : Tenants, asset : AssetIds,
     tags : (SUBSET Tags) \cup {Nil},
     meta : [MetaKeys -> MetaVals \cup {Nil}] \cup {Nil},
     source : Sources \cup {Nil}]
StatusCall ==
    [op : {"update_status"}, tenant : Tenants, asset : AssetIds, status : Statuses]
DeleteCall == [op : {"delete_asset"}, tenant : Tenants, asset : AssetIds]
GraphCall == [op : {"get_graph"}, tenant : Tenants, asset : AssetIds]
RelateCall ==
    {c \in [op : {"create_relationship"}, tenant : Tenants,
            src : AssetIds, dst : AssetIds, type : RelTypes] : c.src # c.dst}
UnrelateCall == [op : {"delete_relationship"}, tenant : Tenants, rel : RelIds]

(* The linkage keys parent, resolves_to, covers, runs_on, uses, in the     *)
(* order LINKAGE_MAP lists them, with the type each maps to.               *)
LinkTypes == <<"SUBDOMAIN_OF", "RESOLVES_TO", "COVERS", "RUNS_ON", "USES">>
Links     == 1 .. 5

(* An item fails validation in two ways: its error can be recorded, or     *)
(* recording it raises, when its `id` or `value` is not a string.          *)
Item ==
    [form : {"valid", "invalid", "unreportable"}, id : TempIds, key : Keys,
     status : Statuses, source : Sources, tags : SUBSET Tags,
     meta : [MetaKeys -> MetaVals \cup {Nil}], link : [Links -> TempIds \cup {Nil}]]

ImportCall == [op : {"import_assets"}, tenant : Tenants, items : Seq(Item)]

ApiCalls ==
    CreateCall \cup UpdateCall \cup StatusCall \cup DeleteCall \cup GraphCall
    \cup RelateCall \cup UnrelateCall \cup ImportCall

(* The key an item of an import is stored under.                           *)
KeyOf(item) == Canon[item.key]

-----------------------------------------------------------------------------
ASSUME NilAssumption ==
    /\ Nil # Deleted
    /\ Nil \notin AssetRow \cup RelRow \cup AssetIds \cup MetaVals \cup TempIds
    /\ Deleted \notin AssetRow \cup RelRow

ASSUME TimeAssumption == MaxTime \in Nat

ASSUME CanonAssumption == Canon \in [Keys -> Keys]

ASSUME CallAssumption == Calls \subseteq ApiCalls /\ Nil \notin Calls

(* The instance starts in tables that any sequence of API calls may leave. *)
ASSUME SeedAssumption ==
    /\ SeedAssets \in [AssetIds -> AssetRow \cup {Nil}]
    /\ SeedRels \in [RelIds -> RelRow \cup {Nil}]
    /\ UniqueRows(SeedAssets, SeedRels)
    /\ EdgesInTenant(SeedAssets, SeedRels)
    /\ \A a \in AssetIds : IsRow(SeedAssets[a]) =>
           SeedAssets[a].first_seen <= SeedAssets[a].last_seen
=============================================================================
