------------------------------- MODULE Store -------------------------------
(***************************************************************************)
(* The two tables of the inventory, `assets` and `relationships`, and the  *)
(* uncommitted writes of the requests that hold a database transaction.    *)
(*                                                                         *)
(* A transaction runs at PostgreSQL's default level, READ COMMITTED: every *)
(* statement reads the rows committed when it runs, overlaid with what its *)
(* own transaction has written.  A statement that meets a row, a unique    *)
(* key or a foreign key on which another transaction has an unfinished     *)
(* write waits for that transaction: the *Holders operators name whom.     *)
(* The tables come from app/models and the repositories from               *)
(* app/repositories; the waiting is PostgreSQL's.                          *)
(***************************************************************************)
EXTENDS Schema

VARIABLES
    assets,      \* committed rows of assets, by id
    rels,        \* committed rows of relationships, by id
    wa,          \* wa[r][a]: what request r wrote to asset a and has not committed
    wr           \* wr[r][x]: the same for relationships

storeVars == <<assets, rels, wa, wr>>

StoreInit ==
    /\ assets = SeedAssets
    /\ rels = SeedRels
    /\ wa = [r \in Requests |-> [a \in AssetIds |-> Nil]]
    /\ wr = [r \in Requests |-> [x \in RelIds |-> Nil]]

-----------------------------------------------------------------------------
(* What a statement of request r reads.                                    *)

Asset(r, a) == IF wa[r][a] = Nil THEN assets[a] ELSE wa[r][a]
Rel(r, x)   == IF wr[r][x] = Nil THEN rels[x] ELSE wr[r][x]

AssetRows(r) == {a \in AssetIds : IsRow(Asset(r, a))}
RelRows(r)   == {x \in RelIds : IsRow(Rel(r, x))}

(* Mutant: get_by_id without the tenant filter.                            *)
HasAssetUnscoped(r, t, a) == a \in AssetRows(r)

(* BaseRepository.get_by_id on either table: by id, within the tenant.     *)
HasAsset(r, t, a) == a \in AssetRows(r) /\ Asset(r, a).tenant = t
HasRel(r, t, x)   == x \in RelRows(r) /\ Rel(r, x).tenant = t

(* Mutant: the duplicate lookup sees active assets only.                   *)
ActiveAssetsByKey(r, t, keys) ==
    {a \in AssetIds : HasAsset(r, t, a) /\ Asset(r, a).key \in keys
                      /\ Asset(r, a).status = "active"}

(* AssetRepository.get_existing_by_type_value_pairs.                       *)
AssetsByKey(r, t, keys) ==
    {a \in AssetIds : HasAsset(r, t, a) /\ Asset(r, a).key \in keys}

(* RelationshipRepository.get_existing_by_edge_tuples, for one tuple.      *)
EdgeExists(r, rel) == \E x \in RelRows(r) : SameEdge(Rel(r, x), rel)

(* RelationshipRepository.get_adjacent.                                    *)
AdjacentRels(r, t, a) == {x \in RelIds : HasRel(r, t, x) /\ Touches(Rel(r, x), a)}

-----------------------------------------------------------------------------
(* Whom a statement of request r waits for.                                *)

Others(r) == Requests \ {r}

(* The row version an unfinished write of s on asset a concerns.           *)
Image(s, a)    == IF IsRow(wa[s][a]) THEN wa[s][a] ELSE assets[a]
RelImage(s, x) == IF IsRow(wr[s][x]) THEN wr[s][x] ELSE rels[x]

RowHolders(r, a)    == {s \in Others(r) : wa[s][a] # Nil}
RelHolders(r, x)    == {s \in Others(r) : wr[s][x] # Nil}
DeleteHolders(r, a) == {s \in Others(r) : wa[s][a] = Deleted}

(* An INSERT waits for whoever is inserting, changing or deleting a row    *)
(* with the same unique key.                                               *)
KeyHolders(r, row) ==
    {s \in Others(r) : \E a \in AssetIds :
        wa[s][a] # Nil /\ IsRow(Image(s, a)) /\ SameKey(Image(s, a), row)}

EdgeHolders(r, rel) ==
    {s \in Others(r) : \E x \in RelIds :
        wr[s][x] # Nil /\ IsRow(RelImage(s, x)) /\ SameEdge(RelImage(s, x), rel)}

(* The foreign keys lock both endpoints (FOR KEY SHARE): only a deletion   *)
(* of an endpoint conflicts with that.                                     *)
RelInsertHolders(r, rel) ==
    EdgeHolders(r, rel) \cup DeleteHolders(r, rel.src) \cup DeleteHolders(r, rel.dst)

(* A DELETE of an asset waits for its row, for the foreign keys of rows    *)
(* being inserted on it, and for the rows its cascade removes.             *)
AssetDeleteHolders(r, a) ==
    RowHolders(r, a)
    \cup {s \in Others(r) : \E x \in RelIds :
              wr[s][x] # Nil /\ IsRow(RelImage(s, x)) /\ Touches(RelImage(s, x), a)}

(* Mutant: the table has no unique constraint.                             *)
KeyNeverTaken(r, row) == FALSE

KeyTaken(r, row) == \E a \in AssetRows(r) : SameKey(Asset(r, a), row)

FreshAssets ==
    {a \in AssetIds : assets[a] = Nil /\ \A r \in Requests : wa[r][a] = Nil}
FreshRels ==
    {x \in RelIds : rels[x] = Nil /\ \A r \in Requests : wr[r][x] = Nil}

-----------------------------------------------------------------------------
(* Statements that write.  Each is one INSERT, UPDATE or DELETE with the   *)
(* constraint checks PostgreSQL makes before it returns.                   *)

InsertAsset(r, a, row) ==
    /\ KeyHolders(r, row) = {}
    /\ ~ KeyTaken(r, row)
    /\ a \in FreshAssets
    /\ wa' = [wa EXCEPT ![r][a] = row]
    /\ UNCHANGED <<assets, rels, wr>>

(* An UPDATE never touches tenant_id, type or value.                       *)
UpdateAsset(r, a, row) ==
    /\ RowHolders(r, a) = {}
    /\ a \in AssetRows(r)
    /\ wa' = [wa EXCEPT ![r][a] = row]
    /\ UNCHANGED <<assets, rels, wr>>

(* Mutant: only relationships that end at the asset go with it.            *)
CascadeFromTarget(r, a) ==
    [x \in RelIds |-> IF x \in RelRows(r) /\ Rel(r, x).dst = a THEN Deleted ELSE wr[r][x]]

(* The deleted asset takes its relationships with it: ON DELETE CASCADE.   *)
Cascade(r, a) ==
    [x \in RelIds |-> IF x \in RelRows(r) /\ Touches(Rel(r, x), a)
                      THEN Deleted ELSE wr[r][x]]

DeleteAsset(r, a) ==
    /\ AssetDeleteHolders(r, a) = {}
    /\ a \in AssetRows(r)
    /\ wa' = [wa EXCEPT ![r][a] = Deleted]
    /\ wr' = [wr EXCEPT ![r] = Cascade(r, a)]
    /\ UNCHANGED <<assets, rels>>

(* The assets can be arranged in circles, each joined to the next by a     *)
(* relationship of its own: their cascades may each remove one of these    *)
(* and wait for the other, whatever the number of assets.                  *)
CascadesCross(r, doomed) ==
    \E next \in [doomed -> doomed], via \in [doomed -> RelRows(r)] :
        /\ \A a, b \in doomed : a # b => next[a] # next[b] /\ via[a] # via[b]
        /\ \A a \in doomed : next[a] # a /\ \A b \in {a, next[a]} : Touches(Rel(r, via[a]), b)

EndpointsExist(r, rel) == rel.src \in AssetRows(r) /\ rel.dst \in AssetRows(r)

InsertRel(r, x, rel) ==
    /\ RelInsertHolders(r, rel) = {}
    /\ ~ EdgeExists(r, rel)
    /\ EndpointsExist(r, rel)
    /\ x \in FreshRels
    /\ wr' = [wr EXCEPT ![r][x] = rel]
    /\ UNCHANGED <<assets, rels, wa>>

DeleteRel(r, x) ==
    /\ RelHolders(r, x) = {}
    /\ x \in RelRows(r)
    /\ wr' = [wr EXCEPT ![r][x] = Deleted]
    /\ UNCHANGED <<assets, rels, wa>>

-----------------------------------------------------------------------------
(* The two ends of a transaction.                                          *)

ForgetWrites(r) ==
    /\ wa' = [wa EXCEPT ![r] = [a \in AssetIds |-> Nil]]
    /\ wr' = [wr EXCEPT ![r] = [x \in RelIds |-> Nil]]

CommitWrites(r) ==
    /\ assets' = [a \in AssetIds |-> Asset(r, a)]
    /\ rels' = [x \in RelIds |-> Rel(r, x)]
    /\ ForgetWrites(r)

RollbackWrites(r) == ForgetWrites(r) /\ UNCHANGED <<assets, rels>>

-----------------------------------------------------------------------------
(* What the tables must satisfy whatever the requests do.                  *)

StoreTypeOK ==
    /\ assets \in [AssetIds -> AssetCell]
    /\ rels \in [RelIds -> RelCell]
    /\ wa \in [Requests -> [AssetIds -> AssetCell]]
    /\ wr \in [Requests -> [RelIds -> RelCell]]

(* uq_asset_tenant_type_value and uq_relationship_details: no tenant ever  *)
(* has two assets with one (type, value), nor two edges with one source,   *)
(* target and type, whichever requests inserted them and however their     *)
(* transactions overlapped (app/models/asset.py:36, relationship.py:30).   *)
NoDuplicateRows == UniqueRows(assets, rels)

(* Every edge joins two existing assets of the edge's own tenant.  The     *)
(* schema only asks that the assets exist; that they belong to the tenant  *)
(* rests on the checks the services make several statements before the     *)
(* INSERT, while other requests delete and create assets                   *)
(* (relationship_service.py:38-51, import_pipeline.py:133-160).            *)
EdgesStayInTenant == EdgesInTenant(assets, rels)

-----------------------------------------------------------------------------
(* Why they do: what the waiting of the statements guarantees about the    *)
(* uncommitted writes.                                                     *)

(* A row is written by one unfinished transaction at most.                 *)
LocksExclusive ==
    \A r, s \in Requests : r # s =>
        /\ \A a \in AssetIds : wa[r][a] = Nil \/ wa[s][a] = Nil
        /\ \A x \in RelIds : wr[r][x] = Nil \/ wr[s][x] = Nil

(* Only rows that exist are rewritten, and a rewritten asset keeps its     *)
(* tenant and key; relationships are never rewritten.                      *)
WritesFit ==
    \A r \in Requests :
        /\ \A a \in AssetIds : wa[r][a] # Nil =>
              /\ assets[a] # Deleted
              /\ IsRow(wa[r][a]) /\ IsRow(assets[a]) => SameKey(wa[r][a], assets[a])
        /\ \A x \in RelIds : IsRow(wr[r][x]) => rels[x] = Nil

(* A row waiting to be committed has no twin, committed or not, unless its *)
(* own transaction deletes that twin.                                      *)
KeysApart ==
    \A r \in Requests, a, b \in AssetIds : IsRow(wa[r][a]) /\ a # b =>
        /\ IsRow(assets[b]) /\ SameKey(wa[r][a], assets[b]) => wa[r][b] = Deleted
        /\ \A s \in Requests : IsRow(wa[s][b]) => ~ SameKey(wa[r][a], wa[s][b])

EdgesApart ==
    \A r \in Requests, x, y \in RelIds : IsRow(wr[r][x]) /\ x # y =>
        /\ IsRow(rels[y]) /\ SameEdge(wr[r][x], rels[y]) => wr[r][y] = Deleted
        /\ \A s \in Requests : IsRow(wr[s][y]) => ~ SameEdge(wr[r][x], wr[s][y])

(* The endpoints of an edge waiting to be committed are rows of its tenant *)
(* that nobody else is deleting.                                           *)
EndpointsLocked ==
    \A r \in Requests, x \in RelIds : IsRow(wr[r][x]) =>
        \A a \in {wr[r][x].src, wr[r][x].dst} :
            /\ IsRow(Asset(r, a)) /\ Asset(r, a).tenant = wr[r][x].tenant
            /\ \A s \in Others(r) : wa[s][a] # Deleted

(* Whoever deletes an asset deletes every committed edge on it.            *)
CascadeComplete ==
    \A r \in Requests, a \in AssetIds, x \in RelIds :
        wa[r][a] = Deleted /\ IsRow(rels[x]) /\ Touches(rels[x], a)
            => wr[r][x] = Deleted

(* Asset a was seen in tenant t: it is there still, or it was deleted.     *)
Sound(r, a, t) ==
    Asset(r, a) = Deleted \/ (IsRow(Asset(r, a)) /\ Asset(r, a).tenant = t)

StoreInv ==
    /\ StoreTypeOK
    /\ NoDuplicateRows /\ EdgesStayInTenant
    /\ LocksExclusive /\ WritesFit
    /\ KeysApart /\ EdgesApart
    /\ EndpointsLocked /\ CascadeComplete
=============================================================================
