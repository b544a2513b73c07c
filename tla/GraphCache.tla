----------------------------- MODULE GraphCache -----------------------------
(***************************************************************************)
(* The Redis cache of graph responses (app/core/cache.py): one entry per   *)
(* tenant and asset, with a time to live, and best effort: a Redis failure *)
(* reads as a miss and loses a write or an invalidation without a word.    *)
(***************************************************************************)
EXTENDS Sessions

VARIABLE cache   \* cache[k]: the graph stored under key k, or Nil

Node  == [id : AssetIds, key : Keys, status : Statuses]
Edge  == [src : AssetIds, dst : AssetIds, type : RelTypes]
Graph == [root : Node, nodes : SUBSET Node, edges : SUBSET Edge]

NodeOf(a, row) == [id |-> a, key |-> row.key, status |-> row.status]
EdgeOf(rel)    == [src |-> rel.src, dst |-> rel.dst, type |-> rel.type]

ASSUME GraphAssumption == Nil \notin Graph /\ Nil \notin Node

(* Mutant: the key leaves the tenant out.                                  *)
GraphKeyOfAsset(t, a) == <<CHOOSE u \in Tenants : TRUE, a>>

(* The key "graph:{tenant_id}:{asset_id}".                                 *)
GraphKeys      == Tenants \X AssetIds
GraphKey(t, a) == <<t, a>>

CacheInit == cache = [k \in GraphKeys |-> Nil]

RedisDown == "redis" \in Faults

Cached(t, a)    == cache[GraphKey(t, a)]
CacheHit(t, a)  == Cached(t, a) # Nil
CacheMiss(t, a) == Cached(t, a) = Nil \/ RedisDown

SetCached(t, a, g) ==
    \/ cache' = [cache EXCEPT ![GraphKey(t, a)] = g]
    \/ RedisDown /\ UNCHANGED cache

Invalidate(t, a) ==
    \/ cache' = [cache EXCEPT ![GraphKey(t, a)] = Nil]
    \/ RedisDown /\ UNCHANGED cache

(* Mutant: entries are stored without a time to live.                      *)
NeverExpire(k) == FALSE /\ UNCHANGED cache

(* The time to live of an entry (60 s) runs out.                           *)
Expire(k) ==
    /\ cache[k] # Nil
    /\ cache' = [cache EXCEPT ![k] = Nil]
    /\ UNCHANGED <<storeVars, sessionVars>>

CacheTypeOK == cache \in [GraphKeys -> Graph \cup {Nil}]
=============================================================================
