-------------------------------- MODULE Api --------------------------------
(***************************************************************************)
(* The service: every request of the instance runs one handler against the *)
(* shared tables and the shared cache.                                     *)
(***************************************************************************)
EXTENDS AssetService, AssetGraph, RelationshipService, ImportPipeline

vars == <<storeVars, sessionVars, cache, graphVars, inval, imp>>

Init ==
    StoreInit /\ SessionInit /\ CacheInit /\ GraphInit /\ RelInit /\ ImportInit

Arrive(r) == Begin(r) /\ UNCHANGED <<cache, graphVars, inval, imp>>

(* One step of the handler of request r, or the commit after it.           *)
Serve(r) ==
    \/ Commit(r) /\ UNCHANGED <<cache, graphVars, inval, imp>>
    \/ AssetStep(r) /\ UNCHANGED <<cache, graphVars, inval, imp>>
    \/ GraphStep(r) /\ UNCHANGED <<inval, imp>>
    \/ RelStep(r) /\ UNCHANGED <<graphVars, imp>>
    \/ ImportStep(r) /\ UNCHANGED <<cache, graphVars, inval>>

BreakDeadlock(r) == DeadlockAbort(r) /\ UNCHANGED <<cache, graphVars, inval>>

LoseConnection(r) == Fail(r) /\ UNCHANGED <<cache, graphVars, inval, imp>>

PassTime == Tick /\ UNCHANGED <<cache, graphVars, inval, imp>>

ExpireGraph(k) == Expire(k) /\ UNCHANGED <<graphVars, inval, imp>>

(* Every request of the instance was answered: the server is idle.         *)
Idle == (\A r \in Requests : pc[r] = "done") /\ UNCHANGED vars

Next ==
    \/ \E r \in Requests :
          Arrive(r) \/ Serve(r) \/ BreakDeadlock(r) \/ LoseConnection(r)
    \/ \E k \in GraphKeys : ExpireGraph(k)
    \/ PassTime
    \/ Idle

Spec == Init /\ [][Next]_vars

(* The event loop resumes every handler whose await has completed; the     *)
(* database completes every statement that need not wait and breaks        *)
(* deadlocks; Redis answers or fails, and expires every entry that stays.  *)
(* Clients owe nothing.                                                    *)
FairSpec ==
    /\ Spec
    /\ \A r \in Requests :
          WF_vars(Serve(r)) /\ WF_vars(BreakDeadlock(r))
    /\ \A k \in GraphKeys : WF_vars(ExpireGraph(k))

TypeOK ==
    /\ StoreTypeOK
    /\ SessionTypeOK
    /\ CacheTypeOK
    /\ GraphTypeOK
    /\ RelTypeOK
    /\ ImportTypeOK

-----------------------------------------------------------------------------
(* The service implements the abstract inventory: seen from outside, every *)
(* request takes effect at once when it is answered, whole or not at all,  *)
(* and is refused only for what is true when it is refused, although its   *)
(* handler looked at the tables several awaits ago (database.py:23-32).    *)
(* With the response sent before the commit this is not so: a commit may   *)
(* still fail.                                                             *)
Abstract == INSTANCE Inventory WITH
    asked  <- call,
    answer <- [r \in Requests |-> IF pc[r] = "done" THEN resp[r] ELSE Nil]

ImplementsInventory == Abstract!Spec

-----------------------------------------------------------------------------
(* What the handlers rely on from one await to the next.                   *)

(* The handler of r stands at an await of the operation its call names,    *)
(* with the locals that await needs.                                       *)
HandlerInOrder(r) ==
    /\ pc[r] \in {"create_asset", "insert_asset"} => call[r] \in CreateCall
    /\ pc[r] \in {"update_asset", "flush_asset"} => call[r] \in UpdateCall
    /\ pc[r] = "update_status" => call[r] \in StatusCall
    /\ pc[r] = "delete_asset" => call[r] \in DeleteCall
    /\ pc[r] \in {"get_graph", "graph_root", "graph_rels", "graph_nodes", "graph_cache"}
           => call[r] \in GraphCall
    /\ pc[r] \in {"create_relationship", "rel_target", "rel_lookup", "insert_rel",
                  "invalidate"} => call[r] \in RelateCall
    /\ pc[r] = "delete_relationship" => call[r] \in UnrelateCall
    /\ pc[r] \in {"import_assets", "import_item", "import_edges", "import_link"}
           => call[r] \in ImportCall
    /\ pc[r] = "flush_asset" => orm[r][call[r].asset] # Nil
    /\ pc[r] \in {"graph_rels", "graph_nodes", "graph_cache"} => graph[r] # Nil
    /\ pc[r] = "import_link" => imp[r].edges \subseteq LinkSet(r)

(* What the handler of r has looked up stays true of the tenant, though    *)
(* the row may change or go: the endpoints a relationship was verified     *)
(* with, the rows and temporary ids an import works from.                  *)
LookupsSound(r) ==
    /\ pc[r] \in {"rel_target", "rel_lookup", "insert_rel"} =>
           Sound(r, call[r].src, call[r].tenant)
    /\ pc[r] \in {"rel_lookup", "insert_rel"} =>
           Sound(r, call[r].dst, call[r].tenant)
    /\ pc[r] \in {"import_item", "import_edges", "import_link"} =>
           /\ \A a \in AssetIds : orm[r][a] # Nil => Sound(r, a, call[r].tenant)
           /\ \A t \in TempIds : imp[r].tmp[t] # Nil =>
                  Sound(r, imp[r].tmp[t], call[r].tenant)

ApiInv ==
    TypeOK /\ StoreInv /\ \A r \in Requests : HandlerInOrder(r) /\ LookupsSound(r)

-----------------------------------------------------------------------------
(* Properties of requests and rows.                                        *)

Op(r)         == IF call[r] = Nil THEN Nil ELSE call[r].op
Committing(r) == pc[r] = "commit" /\ pc'[r] = "done" /\ resp'[r] = resp[r]
Importing(r)  == Op(r) = "import_assets"

(* Served one at a time, well-formed requests are answered with the codes  *)
(* the routes declare: no exception of the database or of the unit of work *)
(* reaches a client (app/core/exceptions.py, api/v1/assets.py:71-135).     *)
OnlyDeclaredAnswers ==
    \A r \in Requests : pc[r] = "done" => resp[r] \in Declared

(* new is old but for the columns the payload of c names, and last_seen.   *)
ChangesOnly(c, old, new) ==
    /\ new.status = old.status
    /\ c.tags = Nil => new.tags = old.tags
    /\ c.meta = Nil => new.meta = old.meta
    /\ c.source = Nil => new.source = old.source

(* A PUT changes the columns its payload names and last_seen, nothing      *)
(* else, however stale the row it loaded has become by the time it is      *)
(* flushed: a status patched, or tags merged by an import, meanwhile stay  *)
(* (asset_service.py:91-109).                                              *)
UpdateChangesOnlyItsColumns ==
    [][\A r \in Requests : Committing(r) /\ Op(r) = "update_asset" =>
          ChangesOnly(call[r], assets[call[r].asset], assets'[call[r].asset])]_vars

(* Why: the flush copies the other columns from the row as it is when it   *)
(* runs, the first write of the request, and the row stays locked.         *)
ColumnsInOrder(r) ==
    /\ pc[r] \in {"idle", "update_asset", "flush_asset"} =>
           \A a \in AssetIds : wa[r][a] = Nil
    /\ pc[r] = "commit" /\ Op(r) = "update_asset" =>
           /\ wa[r][call[r].asset] # Nil
           /\ ChangesOnly(call[r], assets[call[r].asset], wa[r][call[r].asset])
    /\ call[r] = Nil => pc[r] \in {"idle", "done"}

ColumnsInv == ApiInv /\ \A r \in Requests : ColumnsInOrder(r)

(* Metadata k of asset a, now stored as row, is what the call c sends.     *)
Gives(c, a, row, k) ==
    /\ row.meta[k] # Nil
    /\ \/ c.op = "update_asset" /\ c.asset = a /\ c.meta # Nil /\ c.meta[k] = row.meta[k]
       \/ /\ c.op = "import_assets" /\ c.tenant = row.tenant
          /\ \E i \in DOMAIN c.items :
                /\ c.items[i].form = "valid" /\ KeyOf(c.items[i]) = row.key
                /\ c.items[i].meta[k] = row.meta[k]

(* PUT and import merge: while an asset exists, it loses no tag, and each  *)
(* metadata entry stays as it is until a request that sends another value  *)
(* commits: nobody drops one, or sets it back to what it read earlier      *)
(* ("merges instead of overwrites", README.md:94; "without wiping original *)
(* data", tests/test_assets.py:73).                                        *)
NothingForgotten ==
    [][\A a \in AssetIds : IsRow(assets[a]) /\ IsRow(assets'[a]) =>
          /\ assets[a].tags \subseteq assets'[a].tags
          /\ \A k \in MetaKeys :
                \/ assets'[a].meta[k] = assets[a].meta[k]
                \/ \E r \in Requests : Committing(r) /\ Gives(call[r], a, assets'[a], k)]_vars

(* An asset was first seen no later than it was last seen, although both   *)
(* times are read before the statement that writes them has waited its     *)
(* turn (asset_service.py:77,106, import_pipeline.py:80).                  *)
SeenInOrder ==
    \A a \in AssetIds : IsRow(assets[a]) => assets[a].first_seen <= assets[a].last_seen

(* Why: no asset is first seen in the future, first_seen is never written  *)
(* again, and whoever is about to write the time it has read has, before   *)
(* that, seen an asset that was there already.                             *)
TimesInOrder ==
    /\ \A a \in AssetIds : IsRow(assets[a]) =>
           assets[a].first_seen <= assets[a].last_seen /\ assets[a].first_seen <= clock
    /\ \A r \in Requests, a \in AssetIds : IsRow(wa[r][a]) =>
           /\ wa[r][a].first_seen <= wa[r][a].last_seen /\ wa[r][a].first_seen <= clock
           /\ IsRow(assets[a]) => wa[r][a].first_seen = assets[a].first_seen

SeenBefore(r, a, t) ==
    Asset(r, a) = Deleted \/ (IsRow(Asset(r, a)) /\ Asset(r, a).first_seen <= t)

ReadInOrder(r) ==
    /\ now[r] <= clock
    /\ pc[r] = "flush_asset" => SeenBefore(r, call[r].asset, now[r])
    /\ pc[r] = "import_item" =>
           \A a \in AssetIds : orm[r][a] # Nil => SeenBefore(r, a, now[r])

SeenInv == ApiInv /\ TimesInOrder /\ \A r \in Requests : ReadInOrder(r)

(* An answered import leaves no stale or archived asset among those it     *)
(* merged into (import_pipeline.py:88; "should have its status set back to *)
(* active", tests/test_import.py:185).                                     *)
ReimportedIsActive ==
    \A r \in Requests : pc[r] = "commit" /\ Importing(r) =>
        \A i \in Valid(r) : \A a \in AssetsByKey(r, call[r].tenant, {KeyOf(Items(r)[i])}) :
            IsRow(assets[a]) => Asset(r, a).status = "active"

(* Two clients that create one asset, or one relationship, at the same     *)
(* time: the second is told of the conflict ("409 Conflict if duplicate",  *)
(* README.md:91; api/v1/relationships.py:45).                              *)
DuplicateIsConflict ==
    \A r \in Requests :
        Op(r) \in {"create_asset", "create_relationship"} => resp[r] # "IntegrityError"

-----------------------------------------------------------------------------
(* Properties of the import.                                               *)

(* Imports alone never know one asset under two spellings, within a batch, *)
(* between batches or while batches overlap ("resolves normalization       *)
(* duplicates", README.md:78; import_pipeline.py:64-74,118).               *)
OneAssetPerSpelling ==
    \A a, b \in AssetIds :
        /\ IsRow(assets[a]) /\ IsRow(assets[b])
        /\ assets[a].tenant = assets[b].tenant
        /\ Canon[assets[a].key] = Canon[assets[b].key]
        => a = b

SeenAlike(row1, row2) == [row1 EXCEPT !.last_seen = 0] = [row2 EXCEPT !.last_seen = 0]

(* The pipeline is idempotent: a batch of active items whose twin was      *)
(* answered before, or even while it was served, leaves the tables as they *)
(* are, save last_seen (import_pipeline.py:29).                            *)
ImportIsIdempotent ==
    [][\A r, s \in Requests :
          /\ Committing(r) /\ Importing(r)
          /\ s # r /\ call[s] = call[r] /\ pc[s] = "done" /\ resp[s] = "200"
          /\ \A i \in Valid(r) : Items(r)[i].status = "active"
          => /\ rels' = rels
             /\ \A a \in AssetIds :
                   IF IsRow(assets[a]) THEN SeenAlike(assets[a], assets'[a])
                                       ELSE assets'[a] = assets[a]]_vars

AnsweredWith(op, code) ==
    {r \in Requests : pc[r] = "done" /\ resp[r] = code /\ Op(r) = op}

NewAssets == {a \in AssetIds : IsRow(assets[a]) /\ SeedAssets[a] = Nil}
NewRels   == {x \in RelIds : IsRow(rels[x]) /\ SeedRels[x] = Nil}

(* What the requests of S have counted together, unit by unit.             *)
Units(S, n) == UNION {{r} \X (1 .. n[r]) : r \in S}

(* When nothing is deleted, the counters of the answered imports and the   *)
(* 201s account for every row of the tables: no row is counted twice or by *)
(* two requests, and none is missing (import_pipeline.py:126,179,183-192). *)
CountersMatchTables ==
    LET imports == AnsweredWith("import_assets", "200") IN
    /\ Cardinality(NewAssets) =
           Cardinality(AnsweredWith("create_asset", "201"))
           + Cardinality(Units(imports, [r \in Requests |-> imp[r].created]))
    /\ Cardinality(NewRels) =
           Cardinality(AnsweredWith("create_relationship", "201"))
           + Cardinality(Units(imports, [r \in Requests |-> imp[r].linked]))

(* Every link between two valid items of an answered import is an edge     *)
(* between the assets the two items stand for after normalization, whether *)
(* the import wrote it or found it (import_pipeline.py:128-181).           *)
LinksAreWritten ==
    \A r \in Requests : pc[r] = "commit" /\ Importing(r) =>
        \A i, j \in Valid(r), l \in Links :
            Items(r)[i].link[l] = Items(r)[j].id =>
                \E x \in RelRows(r) :
                    /\ Rel(r, x).type = LinkTypes[l]
                    /\ Asset(r, Rel(r, x).src).key = KeyOf(Items(r)[i])
                    /\ Asset(r, Rel(r, x).dst).key = KeyOf(Items(r)[j])

(* From the mapping of the links to the flush of the edges, every endpoint *)
(* still exists: the UPDATE or INSERT of stage 4 locked it, so no deletion *)
(* can make the batch fail on a foreign key (import_pipeline.py:101,168).  *)
LinkEndpointsHeld ==
    \A r \in Requests : pc[r] = "import_link" =>
        \A p \in imp[r].edges : EndpointsExist(r, EdgeAt(r, p))

(* Why: stage 4 has flushed what the temporary ids stand for, and it stays *)
(* locked; it is through when stage 5 begins; a link that is mapped has    *)
(* both of its ends.                                                       *)
ImportInOrder(r) ==
    pc[r] \in {"import_item", "import_edges", "import_link"} =>
        /\ \A t \in TempIds : imp[r].tmp[t] # Nil => IsRow(wa[r][imp[r].tmp[t]])
        /\ \A i \in Valid(r) \ imp[r].left : imp[r].tmp[Items(r)[i].id] # Nil
        /\ pc[r] # "import_item" => imp[r].left = {}
        /\ pc[r] = "import_link" => imp[r].edges \subseteq Candidates(r)

ImportInv == ApiInv /\ \A r \in Requests : ImportInOrder(r)

(* An import is all or nothing, whatever fails while it runs: its valid    *)
(* items are all in the tables, or none is (database.py:25-30).            *)
ImportIsAtomic ==
    \A c \in Calls : c.op = "import_assets" =>
        LET valid == {i \in DOMAIN c.items : c.items[i].form = "valid"}
            there == {i \in valid : \E a \in AssetIds :
                         IsRow(assets[a]) /\ assets[a].tenant = c.tenant
                         /\ assets[a].key = KeyOf(c.items[i])}
        IN there \in {{}, valid}

(* Edges of a batch that already exist, or that it names twice, are        *)
(* skipped "without triggering unique constraint errors"                   *)
(* (relationship_repository.py:41-42).                                     *)
DuplicateLinkIsSkipped ==
    \A r \in Requests : Importing(r) => resp[r] # "IntegrityError"

-----------------------------------------------------------------------------
(* Why the service implements the inventory: at its commit, what a request *)
(* has written is the effect of its call on the tables as they are by      *)
(* then.  The rows it wrote are locked, so they are also those it replaces.*)

WritesOnly(r, as, xs) ==
    /\ \A a \in AssetIds \ as : wa[r][a] = Nil
    /\ \A x \in RelIds \ xs : wr[r][x] = Nil

NothingWritten(r) == WritesOnly(r, {}, {})

CreateWritten(r, c) ==
    \E a \in AssetIds, t \in Times :
        /\ WritesOnly(r, {a}, {})
        /\ assets[a] = Nil /\ wa[r][a] = NewAsset(c, t)

UpdateWritten(r, c) ==
    /\ WritesOnly(r, {c.asset}, {})
    /\ wa[r][c.asset] # Nil
    /\ Abstract!Has(c.tenant, c.asset)
    /\ Abstract!Updated(c, assets[c.asset], wa[r][c.asset])

StatusWritten(r, c) ==
    /\ WritesOnly(r, {c.asset}, {})
    /\ wa[r][c.asset] = [assets[c.asset] EXCEPT !.status = c.status]
    /\ wa[r][c.asset] # Nil
    /\ Abstract!Has(c.tenant, c.asset)

DeleteWritten(r, c) ==
    /\ \A a \in AssetIds \ {c.asset} : wa[r][a] = Nil
    /\ wa[r][c.asset] = Deleted
    /\ Abstract!Has(c.tenant, c.asset)
    /\ \A x \in RelIds : wr[r][x] # Nil =>
           wr[r][x] = Deleted /\ IsRow(rels[x]) /\ Touches(rels[x], c.asset)

RelateWritten(r, c) ==
    \E x \in RelIds :
        /\ WritesOnly(r, {}, {x})
        /\ rels[x] = Nil /\ wr[r][x] = NewRel(c)

UnrelateWritten(r, c) ==
    /\ WritesOnly(r, {}, {c.rel})
    /\ wr[r][c.rel] = Deleted
    /\ Abstract!HasRel(c.tenant, c.rel)

(* Of an import, the items that stage 4 has flushed, and the edges.        *)
ItemsWritten(r, c, flushed) ==
    /\ \A a \in AssetIds : wa[r][a] # Nil => Abstract!Imported(c, assets[a], wa[r][a])
    /\ \A i \in flushed : \E a \in AssetIds :
           IsRow(wa[r][a]) /\ wa[r][a].key = KeyOf(c.items[i])

LinksWritten(r, c) ==
    \A x \in RelIds : wr[r][x] # Nil =>
        LET rel == wr[r][x] IN
        /\ rels[x] = Nil /\ IsRow(rel) /\ rel.tenant = c.tenant
        /\ wa[r][rel.src] # Nil /\ wa[r][rel.dst] # Nil
        /\ Abstract!LinkedInBatch(c, rel.type, wa[r][rel.src].key, wa[r][rel.dst].key)

EffectWritten(r, c) ==
    \/ c.op = "create_asset" /\ CreateWritten(r, c)
    \/ c.op = "update_asset" /\ UpdateWritten(r, c)
    \/ c.op = "update_status" /\ StatusWritten(r, c)
    \/ c.op = "delete_asset" /\ DeleteWritten(r, c)
    \/ c.op = "create_relationship" /\ RelateWritten(r, c)
    \/ c.op = "delete_relationship" /\ UnrelateWritten(r, c)
    \/ c.op = "get_graph" /\ NothingWritten(r)
    \/ /\ c.op = "import_assets" /\ Abstract!Reportable(c)
       /\ ItemsWritten(r, c, Abstract!ValidItems(c)) /\ LinksWritten(r, c)

(* Between its statements an import knows the assets of its batch by their *)
(* keys: those it loaded, which may be gone by now, and those it flushed.  *)
Remains(r, a, row) ==
    Asset(r, a) = Deleted \/ (IsRow(Asset(r, a)) /\ SameKey(Asset(r, a), row))

BatchInOrder(r) ==
    /\ Abstract!Reportable(call[r])
    /\ ItemsWritten(r, call[r], Valid(r) \ imp[r].left)
    /\ LinksWritten(r, call[r])
    /\ \A a \in AssetIds : wa[r][a] # Nil => wa[r][a].last_seen = now[r]
    /\ \A a \in AssetIds : orm[r][a] # Nil => Remains(r, a, orm[r][a])
    /\ \A t \in TempIds : imp[r].tmp[t] # Nil =>
           /\ wa[r][imp[r].tmp[t]] # Nil
           /\ \E i \in Valid(r) :
                 Items(r)[i].id = t /\ wa[r][imp[r].tmp[t]].key = KeyOf(Items(r)[i])

EffectInOrder(r) ==
    /\ call[r] = Nil <=> pc[r] = "idle"
    /\ resp[r] = Nil <=> pc[r] \notin {"commit", "done"}
    /\ \/ pc[r] \in {"commit", "done", "invalidate", "import_item", "import_edges", "import_link"}
       \/ NothingWritten(r)
    /\ pc[r] = "flush_asset" => Sound(r, call[r].asset, call[r].tenant)
    /\ pc[r] = "invalidate" => RelateWritten(r, call[r])
    /\ pc[r] \in {"import_item", "import_edges", "import_link"} => BatchInOrder(r)
    /\ pc[r] = "commit" => EffectWritten(r, call[r]) /\ resp[r] = Abstract!Success(call[r])

EffectInv == ImportInv /\ \A r \in Requests : EffectInOrder(r)

-----------------------------------------------------------------------------
(* Properties of the graph and its cache.                                  *)

NodeIds(g) == {g.root.id} \cup {n.id : n \in g.nodes}
EdgeEnds(g) == UNION {{e.src, e.dst} : e \in g.edges}

GraphAnswer(r) == Op(r) = "get_graph" /\ resp[r] = "200"

(* A tenant is answered with its own graph only, also from the cache and   *)
(* while other tenants ask for the same id (cache.py:30,                   *)
(* base_repository.py:24-32; "scoped strictly", README.md:66).             *)
GraphStaysInTenant ==
    \A r \in Requests : GraphAnswer(r) =>
        \A a \in NodeIds(graph[r]) \cup EdgeEnds(graph[r]) :
            IsRow(assets[a]) => assets[a].tenant = call[r].tenant

(* Why: a handler that assembles a graph has written nothing, so what it   *)
(* reads is committed, and a committed asset keeps its tenant until it is  *)
(* deleted; a cached graph was assembled for the tenant of its key.        *)
Known(a, t) == assets[a] = Deleted \/ (IsRow(assets[a]) /\ assets[a].tenant = t)

OfTenant(g, t) == \A a \in NodeIds(g) \cup EdgeEnds(g) : Known(a, t)

Reading == {"idle", "get_graph", "graph_root", "graph_rels", "graph_nodes", "graph_cache"}

GraphInOrder(r) ==
    /\ pc[r] \in Reading =>
           /\ \A a \in AssetIds : wa[r][a] = Nil
           /\ \A x \in RelIds : wr[r][x] = Nil
    /\ pc[r] = "idle" => graph[r] = Nil /\ resp[r] = Nil
    /\ graph[r] # Nil => call[r] \in GraphCall /\ OfTenant(graph[r], call[r].tenant)
    /\ call[r] \in GraphCall /\ resp[r] = "200" => graph[r] # Nil
    /\ call[r] = Nil => pc[r] = "idle"

CacheInOrder == \A k \in GraphKeys : cache[k] # Nil => OfTenant(cache[k], k[1])

GraphInv == ApiInv /\ CacheInOrder /\ \A r \in Requests : GraphInOrder(r)

MissingNodes(g) == EdgeEnds(g) \ NodeIds(g)

(* A neighbour that an answered graph has an edge to and no node of was    *)
(* deleted, between the reading of the edges and its own or later: nobody  *)
(* who is still there is left out, whatever commits between the reads and  *)
(* however old the cached graph (asset_service.py:145-169).                *)
OnlyDeletedIsMissing ==
    \A r \in Requests : GraphAnswer(r) =>
        \A a \in MissingNodes(graph[r]) : assets[a] = Deleted

(* Why: an end is read, or still to be read, or was not found, which for   *)
(* an asset of the tenant means deleted.                                   *)
MissingInOrder(r) ==
    /\ graph[r] # Nil =>
           \A a \in MissingNodes(graph[r]) : a \in todo[r] \/ assets[a] = Deleted
    /\ pc[r] \in {"graph_rels", "graph_nodes", "graph_cache"} =>
           graph[r].root.id = call[r].asset
    /\ todo[r] # {} => pc[r] = "graph_nodes" \/ (pc[r] = "done" /\ resp[r] # "200")
    /\ pc[r] \in Reading => resp[r] = Nil

NothingCachedIsMissing ==
    \A k \in GraphKeys : cache[k] # Nil => \A a \in MissingNodes(cache[k]) : assets[a] = Deleted

MissingInv ==
    GraphInv /\ NothingCachedIsMissing /\ \A r \in Requests : MissingInOrder(r)

(* "all adjacent assets as nodes, and all relationships as edges"          *)
(* (asset_service.py:131-132): every edge of an answer joins nodes of it.  *)
GraphIsClosed ==
    \A r \in Requests : GraphAnswer(r) => EdgeEnds(graph[r]) \subseteq NodeIds(graph[r])

Adjacent(a) == {EdgeOf(rels[x]) : x \in {y \in RelIds : IsRow(rels[y]) /\ Touches(rels[y], a)}}

Misses(k) == cache[k] # Nil /\ ~ (Adjacent(k[2]) \subseteq cache[k].edges)

(* Between requests, no cached graph misses a relationship that was        *)
(* created: "/graph must NOT serve stale cached data after a new           *)
(* relationship is added" (tests/test_relationships.py:254).               *)
NewEdgesAreServed == InFlight = {} => \A k \in GraphKeys : ~ Misses(k)

(* What a graph of an asset would be, read from the tables now.            *)
GraphNow(a) ==
    [root  |-> NodeOf(a, assets[a]),
     nodes |-> {NodeOf(b, assets[b]) : b \in Neighbours(Adjacent(a), a)},
     edges |-> Adjacent(a)]

Fresh(k) == cache[k] = Nil \/ (IsRow(assets[k[2]]) /\ cache[k] = GraphNow(k[2]))

(* Whatever leaves an outdated graph in the cache (a read that raced a     *)
(* write, an invalidation that was lost, a deletion or a new status, which *)
(* invalidate nothing: asset_service.py:113,122, relationship_service.py:98*)
(* ), it does not stay: "TTL defaults to 60 s as a safety net even when    *)
(* invalidation misses an edge" (cache.py:8).                              *)
NoGraphStaysStale == []<>(\A k \in GraphKeys : Fresh(k))

-----------------------------------------------------------------------------
(* Every request that arrived is answered: no lock outlives the request    *)
(* that holds it, and no cycle of waiting imports lasts (database.py:23-32)*)
EveryRequestAnswered ==
    \A r \in Requests : (pc[r] # "idle") ~> (pc[r] = "done")
=============================================================================
