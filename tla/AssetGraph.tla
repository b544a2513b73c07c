----------------------------- MODULE AssetGraph -----------------------------
(***************************************************************************)
(* GET /assets/{id}/graph (AssetService.get_graph): a cached answer is     *)
(* returned as it is; otherwise the root, its relationships and then each  *)
(* neighbour are read by statements of their own, and the assembled graph  *)
(* is stored in the cache.                                                 *)
(***************************************************************************)
EXTENDS GraphCache

VARIABLES
    graph,   \* graph[r]: the response being assembled
    todo     \* todo[r]: the neighbours still to be read

graphVars == <<graph, todo>>

GraphInit ==
    /\ graph = [r \in Requests |-> Nil]
    /\ todo = [r \in Requests |-> {}]

-----------------------------------------------------------------------------
ReadCache(r) ==
    LET c == call[r] IN
    /\ pc[r] = "get_graph"
    /\ \/ /\ CacheHit(c.tenant, c.asset)
          /\ graph' = [graph EXCEPT ![r] = Cached(c.tenant, c.asset)]
          /\ Reply(r, "200")
       \/ /\ CacheMiss(c.tenant, c.asset)
          /\ Goto(r, "graph_root")
          /\ UNCHANGED graph
    /\ UNCHANGED <<storeVars, call, orm, now, clock, cache, todo>>

ReadRoot(r) ==
    LET c == call[r] IN
    /\ pc[r] = "graph_root"
    /\ \/ /\ ~ HasAsset(r, c.tenant, c.asset)
          /\ Raise(r, "404")
          /\ UNCHANGED graph
       \/ /\ HasAsset(r, c.tenant, c.asset)
          /\ graph' = [graph EXCEPT ![r] =
                 [root |-> NodeOf(c.asset, Asset(r, c.asset)), nodes |-> {}, edges |-> {}]]
          /\ Goto(r, "graph_rels")
          /\ UNCHANGED storeVars
    /\ UNCHANGED <<call, orm, now, clock, cache, todo>>

(* Mutant: incoming edges are forgotten.                                   *)
OutNeighbours(edges, a) == {e.dst : e \in edges} \ {a}

Neighbours(edges, a) == (UNION {{e.src, e.dst} : e \in edges}) \ {a}

ReadRels(r) ==
    LET c     == call[r]
        edges == {EdgeOf(Rel(r, x)) : x \in AdjacentRels(r, c.tenant, c.asset)}
    IN
    /\ pc[r] = "graph_rels"
    /\ graph' = [graph EXCEPT ![r].edges = edges]
    /\ todo' = [todo EXCEPT ![r] = Neighbours(edges, c.asset)]
    /\ Goto(r, IF todo'[r] = {} THEN "graph_cache" ELSE "graph_nodes")
    /\ UNCHANGED <<storeVars, call, orm, now, clock, cache>>

(* A neighbour that is not found is left out of the nodes; its edges stay. *)
ReadNode(r) ==
    /\ pc[r] = "graph_nodes"
    /\ \E a \in todo[r] :
          /\ todo' = [todo EXCEPT ![r] = @ \ {a}]
          /\ graph' = [graph EXCEPT ![r].nodes =
                 IF HasAsset(r, call[r].tenant, a)
                 THEN @ \cup {NodeOf(a, Asset(r, a))} ELSE @]
          /\ Goto(r, IF todo[r] = {a} THEN "graph_cache" ELSE "graph_nodes")
    /\ UNCHANGED <<storeVars, call, orm, now, clock, cache>>

WriteCache(r) ==
    /\ pc[r] = "graph_cache"
    /\ SetCached(call[r].tenant, call[r].asset, graph[r])
    /\ Reply(r, "200")
    /\ UNCHANGED <<storeVars, call, orm, now, clock, graph, todo>>

GraphStep(r) ==
    ReadCache(r) \/ ReadRoot(r) \/ ReadRels(r) \/ ReadNode(r) \/ WriteCache(r)

GraphTypeOK ==
    /\ graph \in [Requests -> Graph \cup {Nil}]
    /\ todo \in [Requests -> SUBSET AssetIds]
=============================================================================
