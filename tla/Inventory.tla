----------------------------- MODULE Inventory -----------------------------
(***************************************************************************)
(* What the service promises its clients.  There are two tables and no     *)
(* transactions: a call takes its whole effect in the step that answers    *)
(* it, or it is refused, for a reason that holds at that very step, and    *)
(* leaves no trace.  Api is shown to implement this module.                *)
(***************************************************************************)
EXTENDS Schema

VARIABLES
    assets, rels,   \* the tables
    asked,          \* asked[r]: the call of request r, Nil before it arrives
    answer          \* answer[r]: its answer, Nil until then

inventoryVars == <<assets, rels, asked, answer>>

Init ==
    /\ assets = SeedAssets
    /\ rels = SeedRels
    /\ asked = [r \in Requests |-> Nil]
    /\ answer = [r \in Requests |-> Nil]

Has(t, a)    == IsRow(assets[a]) /\ assets[a].tenant = t
HasRel(t, x) == IsRow(rels[x]) /\ rels[x].tenant = t

OnlyAsset(a) == \A b \in AssetIds \ {a} : assets'[b] = assets[b]

-----------------------------------------------------------------------------
(* The effects of the calls that succeed.                                  *)

Create(c) ==
    /\ \E a \in AssetIds, t \in Times :
          /\ assets[a] = Nil
          /\ assets' = [assets EXCEPT ![a] =
                 [tenant |-> c.tenant, key |-> c.key, status |-> c.status,
                  source |-> c.source, tags |-> c.tags, meta |-> c.meta,
                  first_seen |-> t, last_seen |-> t]]
    /\ rels' = rels

(* Only the columns the payload names change.  They hold what it says, or  *)
(* what they held: the merge is with a row read some time ago.             *)
Updated(c, old, new) ==
    /\ IsRow(new)
    /\ new = [old EXCEPT !.tags = new.tags, !.meta = new.meta,
                         !.source = new.source, !.last_seen = new.last_seen]
    /\ new.tags # old.tags => c.tags # Nil /\ c.tags \subseteq new.tags
    /\ new.meta # old.meta =>
           c.meta # Nil /\ \A k \in MetaKeys : c.meta[k] \in {Nil, new.meta[k]}
    /\ new.source # old.source => new.source = c.source

Update(c) ==
    /\ Has(c.tenant, c.asset)
    /\ OnlyAsset(c.asset)
    /\ Updated(c, assets[c.asset], assets'[c.asset])
    /\ rels' = rels

Patch(c) ==
    /\ Has(c.tenant, c.asset)
    /\ assets' = [assets EXCEPT ![c.asset].status = c.status]
    /\ rels' = rels

Delete(c) ==
    /\ Has(c.tenant, c.asset)
    /\ assets' = [assets EXCEPT ![c.asset] = Deleted]
    /\ rels' = [x \in RelIds |-> IF IsRow(rels[x]) /\ Touches(rels[x], c.asset)
                                 THEN Deleted ELSE rels[x]]

Relate(c) ==
    /\ \E x \in RelIds :
          /\ rels[x] = Nil
          /\ rels' = [rels EXCEPT ![x] =
                 [tenant |-> c.tenant, src |-> c.src, dst |-> c.dst, type |-> c.type]]
    /\ assets' = assets

Unrelate(c) ==
    /\ HasRel(c.tenant, c.rel)
    /\ rels' = [rels EXCEPT ![c.rel] = Deleted]
    /\ assets' = assets

(* Every valid item has its asset afterwards: one that was there, which    *)
(* keeps its key, source and first_seen and is not made less than active,  *)
(* or a new one.                                                           *)
ValidItems(c) == {i \in DOMAIN c.items : c.items[i].form = "valid"}

Imported(c, old, new) ==
    /\ IsRow(new) /\ new.tenant = c.tenant
    /\ \E i \in ValidItems(c) : new.key = KeyOf(c.items[i])
    /\ \/ old = Nil /\ new.first_seen = new.last_seen
       \/ /\ IsRow(old)
          /\ new = [old EXCEPT !.tags = new.tags, !.meta = new.meta,
                               !.status = new.status, !.last_seen = new.last_seen]
          /\ new.status \in {old.status, "active"}

(* The error of every item that is not valid can be reported.              *)
Reportable(c) == \A i \in DOMAIN c.items : c.items[i].form # "unreportable"

(* A new edge joins the assets of two items, of which one links the other. *)
LinkedInBatch(c, type, srcKey, dstKey) ==
    \E i, j, k \in ValidItems(c), l \in Links :
        /\ c.items[i].link[l] = c.items[j].id
        /\ c.items[k].id = c.items[i].id
        /\ type = LinkTypes[l]
        /\ srcKey = KeyOf(c.items[k])
        /\ dstKey = KeyOf(c.items[j])

Import(c) ==
    /\ Reportable(c)
    /\ \A a \in AssetIds : assets'[a] = assets[a] \/ Imported(c, assets[a], assets'[a])
    /\ \A i \in ValidItems(c) : \E a \in AssetIds :
           Has(c.tenant, a)' /\ assets'[a].key = KeyOf(c.items[i])
    /\ \A x \in RelIds : rels'[x] = rels[x] \/
           LET rel == rels'[x] IN
           /\ rels[x] = Nil
           /\ IsRow(rel) /\ rel.tenant = c.tenant
           /\ LinkedInBatch(c, rel.type, assets'[rel.src].key, assets'[rel.dst].key)

Effect(c) ==
    \/ c.op = "create_asset" /\ Create(c)
    \/ c.op = "update_asset" /\ Update(c)
    \/ c.op = "update_status" /\ Patch(c)
    \/ c.op = "delete_asset" /\ Delete(c)
    \/ c.op = "create_relationship" /\ Relate(c)
    \/ c.op = "delete_relationship" /\ Unrelate(c)
    \/ c.op = "import_assets" /\ Import(c)
    \/ c.op = "get_graph" /\ UNCHANGED <<assets, rels>>

Success(c) ==
    IF c.op \in {"create_asset", "create_relationship"} THEN "201"
    ELSE IF c.op \in {"delete_asset", "delete_relationship"} THEN "204"
    ELSE "200"

-----------------------------------------------------------------------------
(* The reasons of a refusal.                                               *)

Missing(c) ==
    \/ /\ c.op \in {"update_asset", "update_status", "delete_asset", "get_graph"}
       /\ ~ Has(c.tenant, c.asset)
    \/ c.op = "create_relationship" /\ ~ (Has(c.tenant, c.src) /\ Has(c.tenant, c.dst))
    \/ c.op = "delete_relationship" /\ ~ HasRel(c.tenant, c.rel)

Taken(c) ==
    \/ c.op = "create_asset" /\ \E a \in AssetIds : IsRow(assets[a]) /\ SameKey(assets[a], c)
    \/ c.op = "create_relationship"
       /\ \E x \in RelIds : IsRow(rels[x]) /\ SameEdge(rels[x], c)

Justifies(c, code) ==
    \/ code = "404" /\ Missing(c)
    \/ code = "409" /\ Taken(c)
    \/ code = "IntegrityError" /\ (Missing(c) \/ Taken(c) \/ c.op = "import_assets")
    \/ code = "StaleDataError" /\ (Missing(c) \/ c.op = "import_assets")
    \/ code = "DeadlockDetected" /\ c.op \in {"delete_asset", "import_assets"}
    \/ code = "ValidationError" /\ c.op = "import_assets" /\ ~ Reportable(c)
    \/ code = "OperationalError"

-----------------------------------------------------------------------------
Ask(r) ==
    /\ asked[r] = Nil
    /\ \E c \in Calls : asked' = [asked EXCEPT ![r] = c]
    /\ UNCHANGED <<assets, rels, answer>>

Pending(r) == asked[r] # Nil /\ answer[r] = Nil

Succeed(r) ==
    /\ Pending(r)
    /\ answer' = [answer EXCEPT ![r] = Success(asked[r])]
    /\ Effect(asked[r])
    /\ UniqueRows(assets', rels') /\ EdgesInTenant(assets', rels')
    /\ UNCHANGED asked

Refuse(r) ==
    /\ Pending(r)
    /\ \E code \in {"404", "409", "IntegrityError", "StaleDataError",
                    "DeadlockDetected", "ValidationError", "OperationalError"} :
          /\ Justifies(asked[r], code)
          /\ answer' = [answer EXCEPT ![r] = code]
    /\ UNCHANGED <<assets, rels, asked>>

Next == \E r \in Requests : Ask(r) \/ Succeed(r) \/ Refuse(r)

Spec == Init /\ [][Next]_inventoryVars
=============================================================================
