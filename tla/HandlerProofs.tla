---------------------------- MODULE HandlerProofs ----------------------------
(***************************************************************************)
(* What the handlers of one kind promise, whatever the others do between   *)
(* their awaits, each from an inductive invariant of its own over ApiInv:  *)
(* no graph leaves its tenant (GraphInv) or leaves out an asset that was   *)
(* not deleted (MissingInv); the times of a row stay in order (SeenInv); a *)
(* PUT leaves alone what its payload does not name (ColumnsInv); the edges *)
(* of an import keep their endpoints (ImportInv).                          *)
(***************************************************************************)
EXTENDS ApiProofs

(***************************************************************************)
(* Graphs.  GraphInv: a graph is assembled from committed rows of one      *)
(* tenant, and what is committed changes its tenant never.                 *)
(***************************************************************************)

(* A committed asset keeps its tenant, or goes for good.                   *)
LEMMA KnownStays ==
    ASSUME StoreInv, NEW r \in Requests, StoreStep(r),
           NEW a \in AssetIds, NEW t, Known(a, t)
    PROVE  Known(a, t)'
  <1>1. CASE CommitWrites(r)
    <2>1. assets'[a] = IF wa[r][a] = Nil THEN assets[a] ELSE wa[r][a]
          BY <1>1 DEF CommitWrites, Asset
    <2>2. wa[r][a] # Nil =>
             /\ assets[a] # Deleted
             /\ IsRow(wa[r][a]) /\ IsRow(assets[a]) => wa[r][a].tenant = assets[a].tenant
          BY DEF StoreInv, WritesFit, SameKey
    <2> QED BY <2>1, <2>2 DEF Known, IsRow
  <1>2. CASE ~ CommitWrites(r)
    <2>1. assets' = assets
          BY <1>2 DEF StoreStep, storeVars, InsertAsset, UpdateAsset, DeleteAsset, InsertRel,
             DeleteRel, RollbackWrites
    <2> QED BY <2>1 DEF Known
  <1> QED BY <1>1, <1>2

(* A graph of a tenant stays one.                                          *)
LEMMA GraphOfTenantStays ==
    ASSUME StoreInv, NEW r \in Requests, StoreStep(r),
           NEW g \in Graph, NEW t, OfTenant(g, t)
    PROVE  OfTenant(g, t)'
  <1>1. NodeIds(g) \cup EdgeEnds(g) \subseteq AssetIds
        BY DEF NodeIds, EdgeEnds, Graph, Node, Edge
  <1>2. \A a \in NodeIds(g) \cup EdgeEnds(g) : Known(a, t)'
        BY <1>1, KnownStays DEF OfTenant
  <1> QED BY <1>2 DEF OfTenant, NodeIds, EdgeEnds

(* A step writes what its own request writes.                              *)
LEMMA OthersWrite ==
    ASSUME StoreInv, NEW r \in Requests, StoreStep(r), NEW s \in Requests, s # r
    PROVE  wa'[s] = wa[s] /\ wr'[s] = wr[s]
  BY DEF StoreInv, StoreTypeOK, StoreStep, storeVars, InsertAsset, UpdateAsset, DeleteAsset,
     InsertRel, DeleteRel, CommitWrites, RollbackWrites, ForgetWrites

OthersKeepAnswers(r) == \A s \in Requests \ {r} : resp'[s] = resp[s]

(* A step of one request leaves the graphs of the others in order.         *)
LEMMA OthersInOrder ==
    ASSUME GraphInv, NEW r \in Requests, GoodStep(r), OthersKeepAnswers(r),
           NEW s \in Requests, s # r
    PROVE  GraphInOrder(s)'
  <1>1. /\ pc'[s] = pc[s] /\ call'[s] = call[s] /\ graph'[s] = graph[s] /\ resp'[s] = resp[s]
        BY DEF GoodStep, OthersStay, OthersKeepAnswers
  <1>2. wa'[s] = wa[s] /\ wr'[s] = wr[s]
        BY OthersWrite DEF GraphInv, ApiInv, GoodStep
  <1>3. GraphInOrder(s)
        BY DEF GraphInv
  <1>4. graph'[s] # Nil => call'[s] \in GraphCall /\ OfTenant(graph[s], call[s].tenant)'
    <2>1. graph[s] \in Graph \cup {Nil}
          BY DEF GraphInv, ApiInv, TypeOK, GraphTypeOK
    <2>2. PICK g, t : g = graph[s] /\ t = call[s].tenant
          OBVIOUS
    <2>3. g # Nil => OfTenant(g, t)'
          BY <1>3, <2>1, <2>2, GraphOfTenantStays DEF GraphInOrder, GraphInv, ApiInv, GoodStep
    <2>4. graph'[s] = g /\ call'[s].tenant = t
          BY <1>1, <2>2
    <2> QED BY <1>1, <1>3, <2>2, <2>3, <2>4 DEF GraphInOrder, OfTenant, NodeIds, EdgeEnds
  <1> QED BY <1>1, <1>2, <1>3, <1>4 DEF GraphInOrder

(* Invalidation and expiry leave the cache in order.                       *)
LEMMA CacheStaysInOrder ==
    ASSUME GraphInv, NEW r \in Requests, StoreStep(r),
           \A k \in GraphKeys : cache'[k] \in {cache[k], Nil}
    PROVE  CacheInOrder'
  <1> SUFFICES ASSUME NEW k \in GraphKeys, cache'[k] # Nil
               PROVE  OfTenant(cache[k], k[1])'
      BY DEF CacheInOrder
  <1>1. PICK g : g = cache[k]
        OBVIOUS
  <1>2. g \in Graph /\ OfTenant(g, k[1]) /\ cache'[k] = g
        BY <1>1 DEF GraphInv, CacheInOrder, ApiInv, TypeOK, CacheTypeOK
  <1>3. OfTenant(g, k[1])'
        BY <1>2, GraphOfTenantStays DEF GraphInv, ApiInv
  <1> QED BY <1>2, <1>3 DEF OfTenant, NodeIds, EdgeEnds

-----------------------------------------------------------------------------
(* The steps that assemble no graph.                                       *)
Elsewhere(r) ==
    /\ pc[r] # "idle" /\ pc'[r] \notin Reading
    /\ UNCHANGED <<graph, call>>
    /\ resp'[r] = "200" => resp[r] = "200" \/ call[r] \notin GraphCall
    /\ OthersKeepAnswers(r)
    /\ \A k \in GraphKeys : cache'[k] \in {cache[k], Nil}

LEMMA ElsewhereGood ==
    ASSUME GraphInv, NEW r \in Requests, GoodStep(r), Elsewhere(r)
    PROVE  GraphInv'
  <1>1. ApiInv'
        BY GoodStepInv DEF GraphInv
  <1>2. CacheInOrder'
        BY CacheStaysInOrder DEF GoodStep, Elsewhere
  <1>3. \A s \in Requests \ {r} : GraphInOrder(s)'
        BY OthersInOrder DEF Elsewhere
  <1>4. GraphInOrder(r)'
    <2>1. GraphInOrder(r) /\ graph[r] \in Graph \cup {Nil}
          BY DEF GraphInv, ApiInv, TypeOK, GraphTypeOK
    <2>2. PICK g, t : g = graph[r] /\ t = call[r].tenant
          OBVIOUS
    <2>3. g # Nil => OfTenant(g, t)'
          BY <2>1, <2>2, GraphOfTenantStays DEF GraphInOrder, GraphInv, ApiInv, GoodStep
    <2>4. graph'[r] = g /\ call'[r] = call[r] /\ call'[r].tenant = t
          BY <2>2 DEF Elsewhere
    <2>5. graph'[r] # Nil => call'[r] \in GraphCall /\ OfTenant(graph[r], call[r].tenant)'
          BY <2>1, <2>2, <2>3, <2>4 DEF GraphInOrder, OfTenant, NodeIds, EdgeEnds
    <2>6. pc'[r] \notin Reading /\ pc'[r] # "idle"
          BY DEF Elsewhere, Reading
    <2>7. call'[r] \in GraphCall /\ resp'[r] = "200" => graph'[r] # Nil
          BY <2>1, <2>2, <2>4 DEF Elsewhere, GraphInOrder
    <2>8. call'[r] # Nil
          BY <2>1, <2>4 DEF Elsewhere, GraphInOrder
    <2> QED BY <2>5, <2>6, <2>7, <2>8 DEF GraphInOrder
  <1> QED BY <1>1, <1>2, <1>3, <1>4 DEF GraphInv

(* The code of an exception is no answer of get_graph.                     *)
LEMMA RaiseElsewhere ==
    ASSUME ApiInv, NEW r \in Requests, NEW code, code # "200" \/ code = resp[r],
           Raise(r, code), pc[r] # "idle", UNCHANGED <<call, graph>>,
           \A k \in GraphKeys : cache'[k] \in {cache[k], Nil}
    PROVE  Elsewhere(r)
  BY DEF Elsewhere, Raise, Reading, OthersKeepAnswers, ApiInv, TypeOK, SessionTypeOK

(* A handler of another operation moves on, or returns.                    *)
LEMMA MoveElsewhere ==
    ASSUME ApiInv, NEW r \in Requests, call[r] \notin GraphCall, pc[r] # "idle",
           UNCHANGED <<call, graph>>,
           \A k \in GraphKeys : cache'[k] \in {cache[k], Nil},
           \/ \E label \in Labels \ Reading : Goto(r, label)
           \/ \E code \in Codes : Reply(r, code)
    PROVE  Elsewhere(r)
  BY DEF Elsewhere, Goto, Reply, Reading, OthersKeepAnswers, ApiInv, TypeOK, SessionTypeOK

(* The operations on assets and relationships, and the import.             *)
LEMMA AssetStepElsewhere ==
    ASSUME ApiInv, NEW r \in Requests, AssetStep(r), UNCHANGED <<cache, graphVars, inval, imp>>
    PROVE  Elsewhere(r)
  <1>1. HandlerInOrder(r)
        BY DEF ApiInv
  <1>2. /\ pc[r] # "idle" /\ UNCHANGED <<call, graph>> /\ call[r] \notin GraphCall
        /\ \A k \in GraphKeys : cache'[k] \in {cache[k], Nil}
        BY <1>1 DEF AssetStep, CreateAsset, InsertNewAsset, GetAsset, FlushUpdate, UpdateStatus,
           RemoveAsset, AbortCascade, HandlerInOrder, CreateCall, UpdateCall, StatusCall,
           DeleteCall, GraphCall, graphVars
  <1>3. \/ \E code \in Codes : code # "200" /\ Raise(r, code)
        \/ \E label \in Labels \ Reading : Goto(r, label)
        \/ \E code \in Codes : Reply(r, code)
    <2>1. /\ {"200", "201", "204", "404", "409", "IntegrityError", "StaleDataError",
              "DeadlockDetected"} \subseteq Codes
          /\ {"insert_asset", "flush_asset"} \subseteq Labels \ Reading
          BY DEF Codes, Declared, Errors, Labels, Reading
    <2> QED BY <2>1 DEF AssetStep, CreateAsset, InsertNewAsset, GetAsset, FlushUpdate,
           UpdateStatus, RemoveAsset, AbortCascade, FlushFails
  <1> QED BY <1>2, <1>3, RaiseElsewhere, MoveElsewhere

LEMMA RelStepElsewhere ==
    ASSUME ApiInv, NEW r \in Requests, RelStep(r), UNCHANGED <<graphVars, imp>>
    PROVE  Elsewhere(r)
  <1>1. HandlerInOrder(r) /\ CacheTypeOK
        BY DEF ApiInv, TypeOK
  <1>2. pc[r] # "idle" /\ UNCHANGED <<call, graph>> /\ call[r] \notin GraphCall
        BY <1>1 DEF RelStep, VerifySource, VerifyTarget, Verify, LookupEdge, InsertNewRel,
           InvalidateGraphs, RemoveRel, HandlerInOrder, RelateCall, UnrelateCall, GraphCall,
           graphVars
  <1>3. \A k \in GraphKeys : cache'[k] \in {cache[k], Nil}
        BY <1>1 DEF RelStep, VerifySource, VerifyTarget, Verify, LookupEdge, InsertNewRel,
           InvalidateGraphs, RemoveRel, Invalidate, CacheTypeOK
  <1>4. \/ \E code \in Codes : code # "200" /\ Raise(r, code)
        \/ \E label \in Labels \ Reading : Goto(r, label)
        \/ \E code \in Codes : Reply(r, code)
    <2>1. /\ {"201", "204", "404", "409", "IntegrityError"} \subseteq Codes
          /\ {"rel_target", "rel_lookup", "insert_rel", "invalidate"} \subseteq Labels \ Reading
          BY DEF Codes, Declared, Errors, Labels, Reading
    <2> QED BY <2>1 DEF RelStep, VerifySource, VerifyTarget, Verify, LookupEdge, InsertNewRel,
           RelInsertFails, InvalidateGraphs, RemoveRel
  <1> QED BY <1>2, <1>3, <1>4, RaiseElsewhere, MoveElsewhere

LEMMA ImportStepElsewhere ==
    ASSUME ApiInv, NEW r \in Requests, ImportStep(r), UNCHANGED <<cache, graphVars, inval>>
    PROVE  Elsewhere(r)
  <1>1. HandlerInOrder(r)
        BY DEF ApiInv
  <1>2. /\ pc[r] # "idle" /\ UNCHANGED <<call, graph>> /\ call[r] \notin GraphCall
        /\ \A k \in GraphKeys : cache'[k] \in {cache[k], Nil}
        BY <1>1 DEF ImportStep, LookupItems, MergeItem, CreateItem, MapEdges, InsertLink,
           HandlerInOrder, ImportCall, GraphCall, graphVars
  <1>3. \/ \E code \in Codes : code # "200" /\ Raise(r, code)
        \/ \E label \in Labels \ Reading : Goto(r, label)
        \/ \E code \in Codes : Reply(r, code)
    <2>1. /\ {"200", "ValidationError", "StaleDataError", "IntegrityError"} \subseteq Codes
          /\ {"import_item", "import_edges", "import_link"} \subseteq Labels \ Reading
          BY DEF Codes, Declared, Errors, Labels, Reading
    <2> QED BY <2>1 DEF ImportStep, LookupItems, MergeItem, CreateItem, MapEdges, InsertLink,
           Flushed, FlushFails
  <1> QED BY <1>2, <1>3, RaiseElsewhere, MoveElsewhere

-----------------------------------------------------------------------------
(* The steps of get_graph.                                                 *)

(* The response of r becomes g, or stays what it was.                      *)
LEMMA AssembledGood ==
    ASSUME GraphInv, NEW r \in Requests, GoodStep(r), OthersKeepAnswers(r),
           UNCHANGED <<storeVars, call>>, call[r] \in GraphCall, call[r] # Nil,
           NEW g \in Graph \cup {Nil}, graph' = [graph EXCEPT ![r] = g],
           NEW t, t = call[r].tenant, g # Nil => OfTenant(g, t),
           pc'[r] # "idle", resp'[r] = "200" => g # Nil,
           pc[r] \in Reading, CacheInOrder'
    PROVE  GraphInv'
  <1>1. ApiInv'
        BY GoodStepInv DEF GraphInv
  <1>2. \A s \in Requests \ {r} : GraphInOrder(s)'
        BY OthersInOrder
  <1>3. graph'[r] = g /\ call'[r] = call[r] /\ call'[r].tenant = t
        BY DEF GraphInv, ApiInv, TypeOK, GraphTypeOK
  <1>4. g # Nil => OfTenant(g, t)'
        BY GraphOfTenantStays DEF GraphInv, ApiInv, GoodStep
  <1>5. graph'[r] # Nil => call'[r] \in GraphCall /\ OfTenant(graph[r], call[r].tenant)'
        BY <1>3, <1>4 DEF OfTenant, NodeIds, EdgeEnds
  <1>6. /\ \A a \in AssetIds : wa'[r][a] = Nil
        /\ \A x \in RelIds : wr'[r][x] = Nil
        BY DEF GraphInv, GraphInOrder, storeVars
  <1>7. GraphInOrder(r)'
        BY <1>3, <1>5, <1>6 DEF GraphInOrder
  <1> QED BY <1>1, <1>2, <1>7 DEF GraphInv

(* What a handler reads that has written nothing is committed.             *)
LEMMA ReadsCommitted ==
    ASSUME GraphInv, NEW r \in Requests, pc[r] \in Reading
    PROVE  /\ \A a \in AssetIds : Asset(r, a) = assets[a]
           /\ \A x \in RelIds : Rel(r, x) = rels[x]
  BY DEF GraphInv, GraphInOrder, Asset, Rel

LEMMA GraphStepInOrder ==
    ASSUME GraphInv, NEW r \in Requests, GraphStep(r), UNCHANGED <<inval, imp>>
    PROVE  GraphInv'
  <1>1. GoodStep(r)
        BY GraphStepGood DEF GraphInv
  <1>2. /\ ApiInv /\ HandlerInOrder(r) /\ GraphInOrder(r) /\ CacheInOrder /\ EdgesStayInTenant
        /\ StoreTypeOK /\ SessionTypeOK /\ CacheTypeOK /\ GraphTypeOK
        BY DEF GraphInv, ApiInv, TypeOK, StoreInv
  <1>3. /\ call[r] \in GraphCall /\ pc[r] \in Reading /\ pc[r] # "idle" /\ call[r] # Nil
        /\ UNCHANGED call /\ OthersKeepAnswers(r)
        BY <1>2 DEF GraphStep, ReadCache, ReadRoot, ReadRels, ReadNode, WriteCache, HandlerInOrder,
           Reading, Goto, Reply, Raise, OthersKeepAnswers, SessionTypeOK, GraphInOrder
  <1>4. PICK t, c : t = call[r].tenant /\ c = call[r].asset /\ t \in Tenants /\ c \in AssetIds
        BY <1>3 DEF GraphCall
  <1>5. PICK old \in Graph \cup {Nil} : old = graph[r]
        BY <1>2 DEF GraphTypeOK
  <1>6. old # Nil => OfTenant(old, t)
        BY <1>2, <1>4, <1>5 DEF GraphInOrder
  <1>7. ASSUME NEW a \in AssetIds, HasAsset(r, t, a)
        PROVE  Known(a, t) /\ NodeOf(a, Asset(r, a)) \in Node /\ NodeOf(a, Asset(r, a)).id = a
    <2>1. Asset(r, a) = assets[a] /\ assets[a] \in AssetRow /\ assets[a].tenant = t
          BY <1>2, <1>3, <1>7, ReadsCommitted DEF HasAsset, AssetRows, IsRow, StoreTypeOK, AssetCell
    <2>2. IsRow(assets[a])
          BY <2>1, NilAssumption DEF IsRow
    <2> QED BY <2>1, <2>2 DEF Known, NodeOf, Node, AssetRow
  <1>8. (\A k \in GraphKeys : cache'[k] \in {cache[k], Nil}) => CacheInOrder'
        BY <1>1, CacheStaysInOrder DEF GoodStep
  <1>9. resp[r] = "200" => old # Nil
        BY <1>2, <1>3, <1>5 DEF GraphInOrder
  <1>10. CASE ReadCache(r)
    <2>1. UNCHANGED <<storeVars, cache>> /\ pc'[r] # "idle"
          BY <1>2, <1>10 DEF ReadCache, Goto, Reply, SessionTypeOK
    <2>2. CASE CacheHit(t, c) /\ graph' = [graph EXCEPT ![r] = Cached(t, c)]
      <3>1. <<t, c>> \in GraphKeys /\ <<t, c>>[1] = t
            BY <1>4 DEF GraphKeys
      <3>2. PICK g : g = cache[<<t, c>>]
            OBVIOUS
      <3>3. g \in Graph /\ g # Nil /\ OfTenant(g, t) /\ graph' = [graph EXCEPT ![r] = g]
            BY <1>2, <2>2, <3>1, <3>2 DEF CacheHit, Cached, GraphKey, CacheTypeOK, CacheInOrder
      <3> QED BY <1>1, <1>3, <1>4, <1>8, <2>1, <3>3, AssembledGood
    <2>3. CASE Goto(r, "graph_root") /\ UNCHANGED graph
      <3>1. graph' = [graph EXCEPT ![r] = old] /\ resp' = resp
            BY <1>2, <1>5, <2>3 DEF Goto, GraphTypeOK
      <3> QED BY <1>1, <1>3, <1>4, <1>6, <1>8, <1>9, <2>1, <3>1, AssembledGood
    <2> QED BY <1>4, <1>10, <2>2, <2>3 DEF ReadCache
  <1>11. CASE ReadRoot(r)
    <2>1. CASE Raise(r, "404") /\ UNCHANGED graph
          BY <1>1, <1>2, <1>3, <1>11, <2>1, RaiseElsewhere, ElsewhereGood DEF ReadRoot
    <2>2. CASE /\ HasAsset(r, t, c) /\ UNCHANGED storeVars
               /\ graph' = [graph EXCEPT ![r] =
                      [root |-> NodeOf(c, Asset(r, c)), nodes |-> {}, edges |-> {}]]
               /\ Goto(r, "graph_rels")
      <3>1. PICK n : n = NodeOf(c, Asset(r, c))
            OBVIOUS
      <3>2. n \in Node /\ n.id = c /\ Known(c, t)
            BY <1>4, <1>7, <2>2, <3>1
      <3> DEFINE g == [root |-> n, nodes |-> {}, edges |-> {}]
      <3>3. g \in Graph /\ g # Nil /\ OfTenant(g, t)
            BY <3>2, GraphAssumption DEF Graph, OfTenant, NodeIds, EdgeEnds
      <3>4. graph' = [graph EXCEPT ![r] = g]
            BY <2>2, <3>1
      <3> HIDE DEF g
      <3>5. pc'[r] # "idle" /\ UNCHANGED cache
            BY <1>2, <1>11, <2>2 DEF ReadRoot, Goto, SessionTypeOK
      <3> QED BY <1>1, <1>3, <1>4, <1>8, <2>2, <3>3, <3>4, <3>5, AssembledGood
    <2> QED BY <1>4, <1>11, <2>1, <2>2 DEF ReadRoot
  <1>12. CASE ReadRels(r)
    <2>1. PICK edges : edges = {EdgeOf(Rel(r, x)) : x \in AdjacentRels(r, t, c)}
          OBVIOUS
    <2>2. ASSUME NEW e \in edges
          PROVE  e \in Edge /\ Known(e.src, t) /\ Known(e.dst, t)
      <3>1. PICK x \in AdjacentRels(r, t, c) : e = EdgeOf(Rel(r, x))
            BY <2>1
      <3>2. x \in RelIds /\ IsRow(Rel(r, x)) /\ Rel(r, x).tenant = t
            BY <3>1 DEF AdjacentRels, HasRel, RelRows
      <3>3. Rel(r, x) = rels[x] /\ rels[x] \in RelRow
            BY <1>2, <1>3, <3>2, ReadsCommitted DEF StoreTypeOK, RelCell, IsRow
      <3>4. Known(rels[x].src, t) /\ Known(rels[x].dst, t)
            BY <1>2, <3>2, <3>3 DEF EdgesStayInTenant, EdgesInTenant, Known
      <3> QED BY <3>1, <3>3, <3>4 DEF EdgeOf, Edge, RelRow
    <2>3. old \in Graph /\ old # Nil
          BY <1>2, <1>5, <1>12 DEF ReadRels, HandlerInOrder
    <2> DEFINE g == [old EXCEPT !.edges = edges]
    <2>4. g \in Graph /\ NodeIds(g) = NodeIds(old) /\ g.edges = edges
          BY <2>2, <2>3 DEF Graph, NodeIds
    <2>5. g # Nil /\ OfTenant(g, t)
          BY <1>6, <2>2, <2>3, <2>4, GraphAssumption DEF OfTenant, EdgeEnds
    <2>6. graph' = [graph EXCEPT ![r] = g]
          BY <1>2, <1>4, <1>5, <1>12, <2>1 DEF ReadRels, GraphTypeOK
    <2> HIDE DEF g
    <2>7. UNCHANGED <<storeVars, cache>> /\ pc'[r] # "idle"
          BY <1>2, <1>12 DEF ReadRels, Goto, SessionTypeOK
    <2> QED BY <1>1, <1>3, <1>4, <1>8, <2>4, <2>5, <2>6, <2>7, AssembledGood
  <1>13. CASE ReadNode(r)
    <2>1. old \in Graph /\ old # Nil
          BY <1>2, <1>5, <1>13 DEF ReadNode, HandlerInOrder
    <2>2. PICK a \in todo[r] :
             graph' = [graph EXCEPT ![r].nodes =
                 IF HasAsset(r, t, a) THEN @ \cup {NodeOf(a, Asset(r, a))} ELSE @]
          BY <1>4, <1>13 DEF ReadNode
    <2>3. a \in AssetIds
          BY <1>2, <2>2 DEF GraphTypeOK
    <2>4. PICK nodes : nodes = IF HasAsset(r, t, a) THEN old.nodes \cup {NodeOf(a, Asset(r, a))}
                                                    ELSE old.nodes
          OBVIOUS
    <2> DEFINE g == [old EXCEPT !.nodes = nodes]
    <2>5. graph' = [graph EXCEPT ![r] = g]
          BY <1>2, <1>5, <2>1, <2>2, <2>4 DEF GraphTypeOK, Graph
    <2>6. nodes \subseteq Node /\ \A n \in nodes : n \in old.nodes \/ Known(n.id, t)
          BY <1>7, <2>1, <2>3, <2>4 DEF Graph
    <2>7. /\ g \in Graph /\ g.root = old.root /\ g.nodes = nodes
          /\ g.edges = old.edges
          BY <2>1, <2>6 DEF Graph
    <2> HIDE DEF g
    <2>8. g # Nil /\ OfTenant(g, t)
          BY <1>6, <2>1, <2>6, <2>7, GraphAssumption DEF OfTenant, NodeIds, EdgeEnds
    <2>9. UNCHANGED <<storeVars, cache>> /\ pc'[r] # "idle"
          BY <1>2, <1>13 DEF ReadNode, Goto, SessionTypeOK
    <2> QED BY <1>1, <1>3, <1>4, <1>8, <2>5, <2>7, <2>8, <2>9, AssembledGood
  <1>14. CASE WriteCache(r)
    <2>1. old \in Graph /\ old # Nil
          BY <1>2, <1>5, <1>14 DEF WriteCache, HandlerInOrder
    <2>2. UNCHANGED storeVars /\ pc'[r] # "idle" /\ graph' = [graph EXCEPT ![r] = old]
          BY <1>2, <1>5, <1>14 DEF WriteCache, Reply, SessionTypeOK, GraphTypeOK
    <2>3. OfTenant(old, t)'
          BY <1>1, <1>2, <1>6, <2>1, GraphOfTenantStays DEF ApiInv, GoodStep
    <2>4. CacheInOrder'
      <3>1. CASE UNCHANGED cache
            BY <1>8, <3>1
      <3>2. CASE cache' = [cache EXCEPT ![<<t, c>>] = old]
        <4> SUFFICES ASSUME NEW k \in GraphKeys, cache'[k] # Nil
                     PROVE  OfTenant(cache[k], k[1])'
            BY DEF CacheInOrder
        <4>1. PICK g : g = cache'[k]
              OBVIOUS
        <4>2. CASE k = <<t, c>>
          <5>1. g = old /\ k[1] = t
                BY <1>2, <3>2, <4>1, <4>2 DEF CacheTypeOK
          <5> QED BY <2>3, <4>1, <5>1 DEF OfTenant, NodeIds, EdgeEnds
        <4>3. CASE k # <<t, c>>
          <5>1. g = cache[k] /\ g \in Graph /\ OfTenant(g, k[1])
                BY <1>2, <3>2, <4>1, <4>3 DEF CacheTypeOK, CacheInOrder
          <5>2. OfTenant(g, k[1])'
                BY <1>1, <1>2, <5>1, GraphOfTenantStays DEF ApiInv, GoodStep
          <5> QED BY <4>1, <5>2 DEF OfTenant, NodeIds, EdgeEnds
        <4> QED BY <4>2, <4>3
      <3> QED BY <1>4, <1>5, <1>14, <3>1, <3>2 DEF WriteCache, SetCached, GraphKey
    <2> QED BY <1>1, <1>3, <1>4, <1>6, <2>1, <2>2, <2>4, AssembledGood
  <1> QED BY <1>10, <1>11, <1>12, <1>13, <1>14 DEF GraphStep

-----------------------------------------------------------------------------
(* The service.                                                            *)

LEMMA GraphInitInv == Init => GraphInv
  <1> SUFFICES ASSUME Init PROVE GraphInv
      OBVIOUS
  <1>1. ApiInv
        BY InitInv
  <1>2. CacheInOrder
        BY DEF Init, CacheInit, CacheInOrder
  <1>3. ASSUME NEW r \in Requests
        PROVE  GraphInOrder(r)
    <2>1. /\ pc[r] = "idle" /\ call[r] = Nil /\ resp[r] = Nil /\ graph[r] = Nil
          /\ \A a \in AssetIds : wa[r][a] = Nil
          /\ \A x \in RelIds : wr[r][x] = Nil
          BY DEF Init, StoreInit, SessionInit, GraphInit
    <2> QED BY <2>1, SessionAssumption DEF GraphInOrder, Codes, Declared
  <1> QED BY <1>1, <1>2, <1>3 DEF GraphInv

(* A request arrives with no graph and no answer.                          *)
LEMMA ArriveInOrder ==
    ASSUME GraphInv, NEW r \in Requests, Arrive(r)
    PROVE  GraphInv'
  <1>1. GoodStep(r) /\ OthersKeepAnswers(r)
        BY ArriveGood DEF GraphInv, Arrive, Begin, OthersKeepAnswers
  <1>2. /\ UNCHANGED <<storeVars, graph, cache, resp>> /\ call'[r] \in Calls
        /\ pc[r] = "idle"
        BY DEF Arrive, Begin, graphVars, GraphInv, ApiInv, TypeOK, SessionTypeOK
  <1>3. /\ graph'[r] = Nil /\ resp'[r] = Nil /\ call'[r] # Nil
        /\ \A a \in AssetIds : wa'[r][a] = Nil
        /\ \A x \in RelIds : wr'[r][x] = Nil
        BY <1>2, CallAssumption DEF GraphInv, GraphInOrder, Reading, storeVars
  <1>4. GraphInOrder(r)'
        BY <1>3, SessionAssumption DEF GraphInOrder, Codes, Declared
  <1>5. CacheInOrder'
        BY <1>1, <1>2, CacheStaysInOrder DEF GoodStep
  <1> QED BY <1>1, <1>4, <1>5, OthersInOrder, GoodStepInv DEF GraphInv

(* A step in which no request moves.                                       *)
LEMMA QuietInOrder ==
    ASSUME GraphInv, ApiInv', UNCHANGED <<storeVars, call, pc, resp, graph>>,
           \A k \in GraphKeys : cache'[k] \in {cache[k], Nil}
    PROVE  GraphInv'
  <1>1. \A r \in Requests : GraphInOrder(r)'
        BY DEF GraphInv, GraphInOrder, OfTenant, NodeIds, EdgeEnds, Known, storeVars
  <1>2. CacheInOrder'
    <2> SUFFICES ASSUME NEW k \in GraphKeys, cache'[k] # Nil
                 PROVE  OfTenant(cache[k], k[1])'
        BY DEF CacheInOrder
    <2>1. cache'[k] = cache[k] /\ OfTenant(cache[k], k[1]) /\ assets' = assets
          BY DEF GraphInv, CacheInOrder, storeVars
    <2> QED BY <2>1 DEF OfTenant, NodeIds, EdgeEnds, Known
  <1> QED BY <1>1, <1>2 DEF GraphInv

LEMMA GraphNextInv == GraphInv /\ [Next]_vars => GraphInv'
  <1> SUFFICES ASSUME GraphInv, [Next]_vars PROVE GraphInv'
      OBVIOUS
  <1>1. ApiInv /\ ApiInv'
        BY NextInv DEF GraphInv
  <1>2. ASSUME NEW r \in Requests, Serve(r)
        PROVE  GraphInv'
    <2>1. CASE Commit(r) /\ UNCHANGED <<cache, graphVars, inval, imp>>
      <3>1. GoodStep(r)
            BY <1>1, <2>1, CommitGood
      <3>2. Elsewhere(r)
            BY <1>1, <2>1 DEF Elsewhere, Commit, Reading, OthersKeepAnswers, graphVars, ApiInv,
               TypeOK, SessionTypeOK
      <3> QED BY <3>1, <3>2, ElsewhereGood
    <2>2. CASE AssetStep(r) /\ UNCHANGED <<cache, graphVars, inval, imp>>
          BY <1>1, <2>2, AssetStepGood, AssetStepElsewhere, ElsewhereGood
    <2>3. CASE GraphStep(r) /\ UNCHANGED <<inval, imp>>
          BY <2>3, GraphStepInOrder
    <2>4. CASE RelStep(r) /\ UNCHANGED <<graphVars, imp>>
          BY <1>1, <2>4, RelStepGood, RelStepElsewhere, ElsewhereGood
    <2>5. CASE ImportStep(r) /\ UNCHANGED <<cache, graphVars, inval>>
          BY <1>1, <2>5, ImportStepGood, ImportStepElsewhere, ElsewhereGood
    <2> QED BY <1>2, <2>1, <2>2, <2>3, <2>4, <2>5 DEF Serve
  <1>3. ASSUME NEW r \in Requests, BreakDeadlock(r)
        PROVE  GraphInv'
    <2>1. "DeadlockDetected" \in Codes
          BY DEF Codes, Errors
    <2>2. pc[r] # "idle"
          BY <1>3 DEF BreakDeadlock, DeadlockAbort, Deadlocked, Blockers
    <2>3. GoodStep(r)
          BY <1>1, <1>3, <2>1, RaiseGood DEF BreakDeadlock, DeadlockAbort
    <2>4. Elsewhere(r)
          BY <1>1, <1>3, <2>2, RaiseElsewhere DEF BreakDeadlock, DeadlockAbort, graphVars
    <2> QED BY <2>3, <2>4, ElsewhereGood
  <1>4. ASSUME NEW r \in Requests, LoseConnection(r)
        PROVE  GraphInv'
    <2>1. PICK code : code = IF Answered(r) THEN resp[r] ELSE "OperationalError"
          OBVIOUS
    <2>2. code \in Codes \cup {Nil} /\ (code # "200" \/ code = resp[r])
          BY <1>1, <2>1 DEF Codes, Errors, ApiInv, TypeOK, SessionTypeOK
    <2>3. /\ Raise(r, code) /\ pc[r] # "idle"
          /\ UNCHANGED <<call, clock, cache, graphVars, inval, imp, orm, now>>
          BY <1>4, <2>1 DEF LoseConnection, Fail, InFlight
    <2>4. GoodStep(r) /\ Elsewhere(r)
          BY <1>1, <2>2, <2>3, RaiseGood, RaiseElsewhere DEF graphVars
    <2> QED BY <2>4, ElsewhereGood
  <1>5. ASSUME NEW k \in GraphKeys, ExpireGraph(k)
        PROVE  GraphInv'
    <2>1. \A j \in GraphKeys : cache'[j] \in {cache[j], Nil}
          BY <1>1, <1>5 DEF ExpireGraph, Expire, ApiInv, TypeOK, CacheTypeOK
    <2> QED BY <1>1, <1>5, <2>1, QuietInOrder DEF ExpireGraph, Expire, sessionVars, graphVars
  <1>6. CASE PassTime
        BY <1>1, <1>6, QuietInOrder DEF PassTime, Tick, graphVars
  <1>7. CASE UNCHANGED vars
        BY <1>1, <1>7, QuietInOrder DEF vars, sessionVars, graphVars
  <1> QED BY <1>2, <1>3, <1>4, <1>5, <1>6, <1>7, ArriveInOrder DEF Next, Idle

(* A tenant is answered with its own graph only: from the tables, however  *)
(* its reads interleave with writers, and from the cache, whatever other   *)
(* tenants ask and Redis loses (cache.py:30, base_repository.py:24-32).    *)
THEOREM GraphIsolation == Spec => []GraphStaysInTenant
  <1>1. GraphInv => GraphStaysInTenant
    <2> SUFFICES ASSUME GraphInv, NEW r \in Requests, GraphAnswer(r),
                        NEW a \in NodeIds(graph[r]) \cup EdgeEnds(graph[r]), IsRow(assets[a])
                 PROVE  assets[a].tenant = call[r].tenant
        BY DEF GraphStaysInTenant
    <2>1. GraphInOrder(r) /\ ApiInv
          BY DEF GraphInv
    <2>2. call[r] # Nil
          BY <2>1, SessionAssumption DEF GraphAnswer, GraphInOrder, Codes, Declared
    <2>3. call[r] \in ApiCalls /\ call[r].op = "get_graph"
          BY <2>1, <2>2, CallAssumption DEF GraphAnswer, Op, ApiInv, TypeOK, SessionTypeOK
    <2>4. call[r] \in GraphCall
          BY <2>3 DEF ApiCalls, CreateCall, UpdateCall, StatusCall, DeleteCall, RelateCall,
             UnrelateCall, ImportCall
    <2>5. OfTenant(graph[r], call[r].tenant)
          BY <2>1, <2>4 DEF GraphAnswer, GraphInOrder
    <2> QED BY <2>5 DEF OfTenant, Known, IsRow
  <1> QED BY <1>1, GraphInitInv, GraphNextInv, PTL DEF Spec

-----------------------------------------------------------------------------
(* Nodes.  MissingInv: whoever a graph has an edge to and no node of is    *)
(* still to be read, or was deleted.                                       *)

LEMMA DeletedStays ==
    ASSUME ApiInv, [Next]_vars, NEW a \in AssetIds, assets[a] = Deleted
    PROVE  assets'[a] = Deleted
  <1>1. ASSUME NEW r \in Requests, Arrive(r) \/ Serve(r) \/ BreakDeadlock(r) \/ LoseConnection(r)
        PROVE  assets'[a] = Deleted
    <2>1. CASE Arrive(r) \/ BreakDeadlock(r) \/ LoseConnection(r)
          BY <2>1 DEF Arrive, Begin, BreakDeadlock, DeadlockAbort, LoseConnection, Fail, Raise,
             RollbackWrites, storeVars
    <2>2. CASE Commit(r)
      <3>1. wa[r][a] = Nil
            BY DEF ApiInv, StoreInv, WritesFit
      <3> QED BY <2>2, <3>1 DEF Commit, CommitWrites, Asset
    <2>3. CASE AssetStep(r) \/ GraphStep(r) \/ RelStep(r) \/ ImportStep(r)
          BY <2>3 DEF AssetStep, CreateAsset, InsertNewAsset, GetAsset, FlushUpdate, FlushAsset,
             FlushFails, UpdateStatus, RemoveAsset, AbortCascade, GraphStep, ReadCache, ReadRoot,
             ReadRels, ReadNode, WriteCache, RelStep, VerifySource, VerifyTarget, Verify,
             LookupEdge, InsertNewRel, RelInsertFails, InvalidateGraphs, RemoveRel, ImportStep,
             LookupItems, MergeItem, CreateItem, MapEdges, InsertLink, Raise, RollbackWrites,
             InsertAsset, UpdateAsset, DeleteAsset, InsertRel, DeleteRel, storeVars
    <2> QED BY <1>1, <2>1, <2>2, <2>3 DEF Serve
  <1>2. CASE (\E k \in GraphKeys : ExpireGraph(k)) \/ PassTime \/ UNCHANGED vars
        BY <1>2 DEF ExpireGraph, Expire, PassTime, Tick, vars, storeVars
  <1> QED BY <1>1, <1>2 DEF Next, Idle

LEMMA MissingAreAssets ==
    ASSUME NEW g \in Graph
    PROVE  MissingNodes(g) \subseteq AssetIds
  BY DEF MissingNodes, EdgeEnds, Graph, Edge

Assembling == {"graph_rels", "graph_nodes", "graph_cache"}

(* A request whose graph does not change.                                  *)
LEMMA MissingKept ==
    ASSUME MissingInv, [Next]_vars, NEW s \in Requests,
           graph'[s] = graph[s], todo'[s] = todo[s],
           pc'[s] \in Assembling => pc'[s] = pc[s] /\ call'[s] = call[s],
           pc'[s] \in Reading => pc[s] \in Reading /\ resp'[s] = resp[s],
           \/ todo[s] = {}
           \/ pc'[s] = pc[s] /\ resp'[s] = resp[s]
           \/ pc'[s] = "done" /\ resp'[s] # "200"
    PROVE  MissingInOrder(s)'
  <1>1. /\ ApiInv /\ MissingInOrder(s) /\ graph[s] \in Graph \cup {Nil}
        BY DEF MissingInv, GraphInv, ApiInv, TypeOK, GraphTypeOK
  <1>2. PICK g : g = graph[s] /\ g = graph'[s]
        OBVIOUS
  <1>3. ASSUME g # Nil, NEW a \in MissingNodes(g)
        PROVE  a \in todo'[s] \/ assets'[a] = Deleted
    <2>1. a \in AssetIds /\ (a \in todo[s] \/ assets[a] = Deleted)
          BY <1>1, <1>2, <1>3, MissingAreAssets DEF MissingInOrder
    <2> QED BY <1>1, <2>1, DeletedStays
  <1>4. graph'[s] # Nil =>
            \A a \in MissingNodes(graph'[s]) : a \in todo'[s] \/ assets'[a] = Deleted
        BY <1>2, <1>3
  <1>5. pc'[s] \in Assembling => graph'[s].root.id = call'[s].asset
        BY <1>1 DEF MissingInOrder, Assembling
  <1>6. todo'[s] # {} => pc'[s] = "graph_nodes" \/ (pc'[s] = "done" /\ resp'[s] # "200")
        BY <1>1 DEF MissingInOrder
  <1>7. pc'[s] \in Reading => resp'[s] = Nil
        BY <1>1 DEF MissingInOrder
  <1> QED BY <1>4, <1>5, <1>6, <1>7 DEF MissingInOrder, Assembling, Reading, MissingNodes, NodeIds, EdgeEnds

(* Invalidation and expiry miss nothing.                                   *)
LEMMA CacheMissesNothing ==
    ASSUME MissingInv, [Next]_vars, \A k \in GraphKeys : cache'[k] \in {cache[k], Nil}
    PROVE  NothingCachedIsMissing'
  <1> SUFFICES ASSUME NEW k \in GraphKeys, NEW g \in Graph, g = cache[k], g = cache'[k],
                      NEW a \in MissingNodes(g)
               PROVE  assets'[a] = Deleted
    <2>1. \A k \in GraphKeys : cache[k] \in Graph \cup {Nil}
          BY DEF MissingInv, GraphInv, ApiInv, TypeOK, CacheTypeOK
    <2> QED BY <2>1 DEF NothingCachedIsMissing, MissingNodes, NodeIds, EdgeEnds
  <1>1. assets[a] = Deleted /\ a \in AssetIds
        BY MissingAreAssets, GraphAssumption DEF MissingInv, NothingCachedIsMissing
  <1> QED BY <1>1, DeletedStays DEF MissingInv, GraphInv

(* A step of r leaves the graphs of the others as they are.                *)
LEMMA OthersMissNothing ==
    ASSUME MissingInv, [Next]_vars, NEW r \in Requests, GoodStep(r), OthersKeepAnswers(r),
           \A s \in Requests \ {r} : todo'[s] = todo[s],
           MissingInOrder(r)', NothingCachedIsMissing'
    PROVE  MissingInv'
  <1>1. \A s \in Requests \ {r} : MissingInOrder(s)'
        BY MissingKept DEF GoodStep, OthersStay, OthersKeepAnswers
  <1>2. GraphInv'
        BY GraphNextInv DEF MissingInv
  <1> QED BY <1>1, <1>2 DEF MissingInv

(* A step that assembles no graph.                                         *)
LEMMA MissingElsewhere ==
    ASSUME MissingInv, [Next]_vars, NEW r \in Requests, GoodStep(r), Elsewhere(r),
           UNCHANGED graphVars,
           pc[r] \notin {"graph_nodes", "done"} \/ (pc'[r] = "done" /\ resp'[r] # "200")
    PROVE  MissingInv'
  <1>1. MissingInOrder(r)
        BY DEF MissingInv
  <1>2. todo[r] = {} \/ (pc'[r] = "done" /\ resp'[r] # "200")
        BY <1>1 DEF MissingInOrder
  <1>3. /\ pc'[r] \notin Assembling /\ pc'[r] \notin Reading
        /\ OthersKeepAnswers(r)
        BY DEF Elsewhere, Reading, Assembling
  <1>4. MissingInOrder(r)'
        BY <1>2, <1>3, MissingKept DEF graphVars
  <1>5. NothingCachedIsMissing'
        BY CacheMissesNothing DEF Elsewhere
  <1> QED BY <1>3, <1>4, <1>5, OthersMissNothing DEF graphVars

LEMMA GraphStepMisses ==
    ASSUME MissingInv, [Next]_vars, NEW r \in Requests, GraphStep(r), UNCHANGED <<inval, imp>>
    PROVE  MissingInv'
  <1>1. /\ GraphInv /\ ApiInv /\ MissingInOrder(r) /\ GraphInOrder(r) /\ HandlerInOrder(r)
        /\ NothingCachedIsMissing
        /\ StoreTypeOK /\ SessionTypeOK /\ CacheTypeOK /\ GraphTypeOK
        BY DEF MissingInv, GraphInv, ApiInv, TypeOK
  <1>2. /\ GoodStep(r) /\ OthersKeepAnswers(r)
        /\ \A s \in Requests \ {r} : todo'[s] = todo[s]
        BY <1>1, GraphStepGood DEF GraphStep, ReadCache, ReadRoot, ReadRels, ReadNode, WriteCache,
           Goto, Reply, Raise, OthersKeepAnswers, SessionTypeOK, GraphTypeOK
  <1>3. /\ UNCHANGED <<assets, call>> /\ call[r] \in GraphCall
        /\ pc[r] \in Reading /\ (pc'[r] \in Reading => resp'[r] = resp[r])
        BY <1>1 DEF GraphStep, ReadCache, ReadRoot, ReadRels, ReadNode, WriteCache, HandlerInOrder,
           Goto, Reply, Raise, RollbackWrites, storeVars, Reading, SessionTypeOK
  <1>4. PICK t, c : t = call[r].tenant /\ c = call[r].asset /\ t \in Tenants /\ c \in AssetIds
        BY <1>3 DEF GraphCall
  <1>5. PICK old \in Graph \cup {Nil} : old = graph[r]
        BY <1>1 DEF GraphTypeOK
  <1>6. UNCHANGED cache => NothingCachedIsMissing'
        BY CacheMissesNothing
  <1>7. pc[r] # "graph_nodes" => todo[r] = {}
        BY <1>1, <1>3 DEF MissingInOrder, Reading
  <1>8. ASSUME NEW g \in Graph, g = graph'[r],
               \A a \in MissingNodes(g) : a \in todo'[r] \/ assets[a] = Deleted,
               pc'[r] \in Assembling => g.root.id = c,
               todo'[r] = {} \/ pc'[r] = "graph_nodes"
        PROVE  MissingInOrder(r)'
    <2>1. \A a \in MissingNodes(graph'[r]) : a \in todo'[r] \/ assets'[a] = Deleted
          BY <1>3, <1>8
    <2>2. pc'[r] \in Assembling => graph'[r].root.id = call'[r].asset
          BY <1>3, <1>4, <1>8
    <2>3. pc'[r] \in Reading => resp'[r] = Nil
          BY <1>1, <1>3 DEF MissingInOrder
    <2> QED BY <1>8, <2>1, <2>2, <2>3 DEF MissingInOrder, Assembling, Reading, MissingNodes, NodeIds, EdgeEnds
  <1>9. CASE ReadCache(r)
    <2>1. UNCHANGED <<cache, todo>> /\ todo[r] = {}
          BY <1>7, <1>9 DEF ReadCache
    <2>2. CASE CacheHit(t, c) /\ graph' = [graph EXCEPT ![r] = Cached(t, c)] /\ Reply(r, "200")
      <3>1. <<t, c>> \in GraphKeys
            BY <1>4 DEF GraphKeys
      <3>2. PICK g : g = cache[<<t, c>>]
            OBVIOUS
      <3>3. g \in Graph /\ g # Nil /\ graph'[r] = g
            BY <1>1, <2>2, <3>1, <3>2 DEF CacheHit, Cached, GraphKey, CacheTypeOK, GraphTypeOK
      <3>4. \A a \in MissingNodes(g) : assets[a] = Deleted
            BY <1>1, <3>1, <3>2, <3>3 DEF NothingCachedIsMissing
      <3>5. pc'[r] \notin Assembling /\ todo'[r] = {}
            BY <1>1, <2>1, <2>2 DEF Reply, Assembling, SessionTypeOK
      <3> QED BY <1>2, <1>6, <1>8, <2>1, <3>3, <3>4, <3>5, OthersMissNothing
    <2>3. CASE Goto(r, "graph_root") /\ UNCHANGED graph
      <3>1. pc'[r] \notin Assembling
            BY <1>1, <2>3 DEF Goto, Assembling, SessionTypeOK
      <3>2. MissingInOrder(r)'
            BY <1>3, <2>1, <2>3, <3>1, MissingKept
      <3> QED BY <1>2, <1>6, <2>1, <3>2, OthersMissNothing
    <2> QED BY <1>4, <1>9, <2>2, <2>3 DEF ReadCache
  <1>10. CASE ReadRoot(r)
    <2>1. UNCHANGED <<cache, todo>> /\ todo[r] = {}
          BY <1>7, <1>10 DEF ReadRoot
    <2>2. CASE Raise(r, "404") /\ UNCHANGED graph
      <3>1. pc'[r] \notin Assembling
            BY <1>1, <2>2 DEF Raise, Assembling, SessionTypeOK
      <3>2. MissingInOrder(r)'
            BY <1>3, <2>1, <2>2, <3>1, MissingKept
      <3> QED BY <1>2, <1>6, <2>1, <3>2, OthersMissNothing
    <2>3. CASE /\ HasAsset(r, t, c)
               /\ graph' = [graph EXCEPT ![r] =
                      [root |-> NodeOf(c, Asset(r, c)), nodes |-> {}, edges |-> {}]]
      <3>1. PICK n : n = NodeOf(c, Asset(r, c))
            OBVIOUS
      <3> DEFINE g == [root |-> n, nodes |-> {}, edges |-> {}]
      <3>2. graph'[r] = g
            BY <1>1, <2>3, <3>1 DEF GraphTypeOK
      <3>3. n.id = c /\ g \in Graph
        <4>1. Asset(r, c) \in AssetRow
              BY <1>1, <1>4, <2>3 DEF HasAsset, AssetRows, Asset, IsRow, StoreTypeOK, AssetCell
        <4> QED BY <1>4, <3>1, <4>1 DEF NodeOf, Graph, Node, AssetRow
      <3>4. MissingNodes(g) = {} /\ g.root = n
            BY DEF MissingNodes, EdgeEnds
      <3> HIDE DEF g
      <3> QED BY <1>2, <1>6, <1>8, <2>1, <3>2, <3>3, <3>4, OthersMissNothing
    <2> QED BY <1>4, <1>10, <2>2, <2>3 DEF ReadRoot
  <1>11. CASE ReadRels(r)
    <2>1. PICK edges : edges = {EdgeOf(Rel(r, x)) : x \in AdjacentRels(r, t, c)}
          OBVIOUS
    <2>2. old \in Graph /\ old # Nil /\ old.root.id = c
          BY <1>1, <1>4, <1>5, <1>11 DEF ReadRels, HandlerInOrder, MissingInOrder
    <2> DEFINE g == [old EXCEPT !.edges = edges]
    <2>3. g = graph'[r] /\ g \in Graph
      <3>1. graph' = [graph EXCEPT ![r] = g]
            BY <1>1, <1>4, <1>5, <1>11, <2>1 DEF ReadRels, GraphTypeOK
      <3>2. graph'[r] = g
            BY <1>1, <3>1 DEF GraphTypeOK
      <3>3. graph'[r] \in Graph \cup {Nil}
            BY <1>1, <1>2, GoodStepInv DEF ApiInv, TypeOK, GraphTypeOK
      <3>4. graph'[r] # Nil
        <4>1. pc'[r] \in {"graph_nodes", "graph_cache"}
              BY <1>1, <1>11 DEF ReadRels, Goto, SessionTypeOK
        <4> QED BY <1>1, <1>2, <4>1 DEF GoodStep, HandlerInOrder
      <3> QED BY <3>2, <3>3, <3>4
    <2>4. g.root.id = c /\ g.edges = edges
          BY <2>2 DEF Graph
    <2> HIDE DEF g
    <2>5. /\ todo'[r] = Neighbours(edges, c)
          /\ todo'[r] = {} \/ pc'[r] = "graph_nodes"
          BY <1>1, <1>4, <1>11, <2>1 DEF ReadRels, Goto, GraphTypeOK, SessionTypeOK
    <2>6. MissingNodes(g) \subseteq Neighbours(edges, c)
          BY <2>4 DEF MissingNodes, NodeIds, EdgeEnds, Neighbours
    <2>7. UNCHANGED cache
          BY <1>11 DEF ReadRels
    <2> QED BY <1>2, <1>6, <1>8, <2>3, <2>4, <2>5, <2>6, <2>7, OthersMissNothing
  <1>12. CASE ReadNode(r)
    <2>1. old \in Graph /\ old # Nil /\ old.root.id = c /\ OfTenant(old, t)
          BY <1>1, <1>4, <1>5, <1>12 DEF ReadNode, HandlerInOrder, MissingInOrder, GraphInOrder
    <2>2. PICK a \in todo[r] :
             /\ graph' = [graph EXCEPT ![r].nodes =
                    IF HasAsset(r, t, a) THEN @ \cup {NodeOf(a, Asset(r, a))} ELSE @]
             /\ todo' = [todo EXCEPT ![r] = @ \ {a}]
             /\ Goto(r, IF todo[r] = {a} THEN "graph_cache" ELSE "graph_nodes")
          BY <1>4, <1>12 DEF ReadNode
    <2>3. PICK nodes : nodes = IF HasAsset(r, t, a) THEN old.nodes \cup {NodeOf(a, Asset(r, a))}
                                                    ELSE old.nodes
          OBVIOUS
    <2> DEFINE g == [old EXCEPT !.nodes = nodes]
    <2>4. g = graph'[r] /\ g \in Graph
      <3>1. graph' = [graph EXCEPT ![r] = g]
            BY <1>1, <1>5, <2>1, <2>2, <2>3 DEF GraphTypeOK, Graph
      <3>2. graph'[r] = g
            BY <1>1, <3>1 DEF GraphTypeOK
      <3>3. graph'[r] \in Graph \cup {Nil}
            BY <1>1, <1>2, GoodStepInv DEF ApiInv, TypeOK, GraphTypeOK
      <3>4. graph'[r] # Nil
        <4>1. pc'[r] \in {"graph_nodes", "graph_cache"}
              BY <1>1, <2>2 DEF Goto, SessionTypeOK
        <4> QED BY <1>1, <1>2, <4>1 DEF GoodStep, HandlerInOrder
      <3> QED BY <3>2, <3>3, <3>4
    <2>5. g.root = old.root /\ g.edges = old.edges /\ g.nodes = nodes
          BY <2>1 DEF Graph
    <2> HIDE DEF g
    <2>6. todo'[r] = todo[r] \ {a} /\ (todo'[r] = {} \/ pc'[r] = "graph_nodes")
          BY <1>1, <2>2 DEF Goto, GraphTypeOK, SessionTypeOK
    <2>7. MissingNodes(g) \subseteq MissingNodes(old)
          BY <2>3, <2>5 DEF MissingNodes, NodeIds, EdgeEnds
    <2>8. a \in MissingNodes(g) => assets[a] = Deleted
      <3> SUFFICES ASSUME a \in MissingNodes(g)
                   PROVE  assets[a] = Deleted
          OBVIOUS
      <3>1. ~ HasAsset(r, t, a)
        <4> SUFFICES ASSUME HasAsset(r, t, a)
                     PROVE  a \in NodeIds(g)
            BY DEF MissingNodes
        <4>1. NodeOf(a, Asset(r, a)) \in g.nodes /\ NodeOf(a, Asset(r, a)).id = a
              BY <2>3, <2>5 DEF NodeOf
        <4> QED BY <4>1 DEF NodeIds
      <3>2. Known(a, t) /\ a \in AssetIds
            BY <1>1, <2>1, <2>2, <2>7 DEF OfTenant, MissingNodes, GraphTypeOK
      <3>3. Asset(r, a) = assets[a]
            BY <1>1, <1>3, <3>2, ReadsCommitted
      <3> QED BY <3>1, <3>2, <3>3 DEF Known, HasAsset, AssetRows
    <2>9. \A b \in MissingNodes(g) : b \in todo'[r] \/ assets[b] = Deleted
          BY <1>1, <1>5, <2>1, <2>6, <2>7, <2>8 DEF MissingInOrder
    <2>10. UNCHANGED cache
           BY <1>12 DEF ReadNode
    <2> QED BY <1>2, <1>6, <1>8, <2>1, <2>4, <2>5, <2>6, <2>9, <2>10, OthersMissNothing
  <1>13. CASE WriteCache(r)
    <2>1. /\ old \in Graph /\ old # Nil /\ UNCHANGED <<graph, todo>> /\ todo[r] = {}
          /\ pc'[r] \notin Assembling
          BY <1>1, <1>5, <1>7, <1>13 DEF WriteCache, Reply, HandlerInOrder, Assembling, SessionTypeOK
    <2>2. \A a \in MissingNodes(old) : assets'[a] = Deleted
          BY <1>1, <1>3, <1>5, <2>1 DEF MissingInOrder
    <2>3. MissingInOrder(r)'
          BY <1>3, <2>1, MissingKept
    <2>4. CASE UNCHANGED cache
          BY <1>2, <1>6, <2>1, <2>3, <2>4, OthersMissNothing
    <2>5. CASE cache' = [cache EXCEPT ![<<t, c>>] = old]
      <3>1. ASSUME NEW k \in GraphKeys, NEW g, g = cache'[k], g # Nil, NEW a \in MissingNodes(g)
            PROVE  assets'[a] = Deleted
            BY <1>1, <1>3, <2>2, <2>5, <3>1 DEF CacheTypeOK, NothingCachedIsMissing
      <3>2. NothingCachedIsMissing'
            BY <3>1 DEF NothingCachedIsMissing, MissingNodes, NodeIds, EdgeEnds
      <3> QED BY <1>2, <2>1, <2>3, <3>2, OthersMissNothing
    <2> QED BY <1>4, <1>5, <1>13, <2>4, <2>5 DEF WriteCache, SetCached, GraphKey
  <1> QED BY <1>9, <1>10, <1>11, <1>12, <1>13 DEF GraphStep

LEMMA MissingNext == MissingInv /\ [Next]_vars => MissingInv'
  <1> SUFFICES ASSUME MissingInv, [Next]_vars PROVE MissingInv'
      OBVIOUS
  <1>1. /\ GraphInv /\ ApiInv /\ SessionTypeOK /\ GraphInv'
        BY GraphNextInv DEF MissingInv, GraphInv, ApiInv, TypeOK
  <1>2. ASSUME NEW r \in Requests, Serve(r)
        PROVE  MissingInv'
    <2>1. CASE Commit(r) /\ UNCHANGED <<cache, graphVars, inval, imp>>
      <3>1. GoodStep(r)
            BY <1>1, <2>1, CommitGood
      <3>2. Elsewhere(r) /\ pc[r] = "commit"
            BY <1>1, <2>1 DEF Elsewhere, Commit, Reading, OthersKeepAnswers, graphVars, SessionTypeOK
      <3> QED BY <2>1, <3>1, <3>2, MissingElsewhere
    <2>2. CASE AssetStep(r) /\ UNCHANGED <<cache, graphVars, inval, imp>>
      <3>1. pc[r] \notin {"graph_nodes", "done"}
            BY <2>2 DEF AssetStep, CreateAsset, InsertNewAsset, GetAsset, FlushUpdate, UpdateStatus,
               RemoveAsset, AbortCascade
      <3> QED BY <1>1, <2>2, <3>1, AssetStepGood, AssetStepElsewhere, MissingElsewhere
    <2>3. CASE GraphStep(r) /\ UNCHANGED <<inval, imp>>
          BY <2>3, GraphStepMisses
    <2>4. CASE RelStep(r) /\ UNCHANGED <<graphVars, imp>>
      <3>1. pc[r] \notin {"graph_nodes", "done"}
            BY <2>4 DEF RelStep, VerifySource, VerifyTarget, Verify, LookupEdge, InsertNewRel,
               InvalidateGraphs, RemoveRel
      <3> QED BY <1>1, <2>4, <3>1, RelStepGood, RelStepElsewhere, MissingElsewhere
    <2>5. CASE ImportStep(r) /\ UNCHANGED <<cache, graphVars, inval>>
      <3>1. pc[r] \notin {"graph_nodes", "done"}
            BY <2>5 DEF ImportStep, LookupItems, MergeItem, CreateItem, MapEdges, InsertLink
      <3> QED BY <1>1, <2>5, <3>1, ImportStepGood, ImportStepElsewhere, MissingElsewhere
    <2> QED BY <1>2, <2>1, <2>2, <2>3, <2>4, <2>5 DEF Serve
  <1>3. ASSUME NEW r \in Requests, BreakDeadlock(r)
        PROVE  MissingInv'
    <2>1. "DeadlockDetected" \in Codes
          BY DEF Codes, Errors
    <2>2. pc[r] \notin {"idle", "graph_nodes", "done"}
          BY <1>3 DEF BreakDeadlock, DeadlockAbort, Deadlocked, Blockers
    <2>3. GoodStep(r)
          BY <1>1, <1>3, <2>1, RaiseGood DEF BreakDeadlock, DeadlockAbort
    <2>4. Elsewhere(r) /\ UNCHANGED graphVars
          BY <1>1, <1>3, <2>2, RaiseElsewhere DEF BreakDeadlock, DeadlockAbort, graphVars
    <2> QED BY <2>2, <2>3, <2>4, MissingElsewhere
  <1>4. ASSUME NEW r \in Requests, LoseConnection(r)
        PROVE  MissingInv'
    <2>1. PICK code : code = IF Answered(r) THEN resp[r] ELSE "OperationalError"
          OBVIOUS
    <2>2. code \in Codes \cup {Nil} /\ (code # "200" \/ code = resp[r])
          BY <1>1, <2>1 DEF Codes, Errors, SessionTypeOK
    <2>3. /\ Raise(r, code) /\ pc[r] \notin {"idle", "done"}
          /\ UNCHANGED <<call, clock, cache, graphVars, inval, imp, orm, now>>
          BY <1>4, <2>1 DEF LoseConnection, Fail, InFlight
    <2>4. GoodStep(r) /\ Elsewhere(r)
          BY <1>1, <2>2, <2>3, RaiseGood, RaiseElsewhere DEF graphVars
    <2>5. pc[r] = "graph_nodes" => pc'[r] = "done" /\ resp'[r] # "200"
          BY <1>1, <2>1, <2>3 DEF Answered, Raise, SessionTypeOK
    <2> QED BY <2>3, <2>4, <2>5, MissingElsewhere
  <1>5. ASSUME NEW r \in Requests, Arrive(r)
        PROVE  MissingInv'
    <2>1. GoodStep(r) /\ OthersKeepAnswers(r)
          BY <1>1, <1>5, ArriveGood DEF Arrive, Begin, OthersKeepAnswers
    <2>2. /\ UNCHANGED <<graph, todo, cache, resp>> /\ pc[r] = "idle"
          /\ \E c \in Calls : pc' = [pc EXCEPT ![r] = c.op]
          BY <1>5 DEF Arrive, Begin, graphVars
    <2>3. pc'[r] \notin Assembling /\ todo[r] = {}
      <3>1. PICK c \in Calls : pc'[r] = c.op
            BY <1>1, <2>2 DEF SessionTypeOK
      <3>2. c.op \notin Assembling
            BY CallAssumption DEF Assembling, ApiCalls, CreateCall, UpdateCall, StatusCall,
               DeleteCall, GraphCall, RelateCall, UnrelateCall, ImportCall
      <3> QED BY <2>2, <3>1, <3>2 DEF MissingInv, MissingInOrder
    <2>4. MissingInOrder(r)'
          BY <2>2, <2>3, MissingKept DEF Reading
    <2>5. NothingCachedIsMissing'
          BY <2>2, CacheMissesNothing
    <2> QED BY <2>1, <2>2, <2>4, <2>5, OthersMissNothing
  <1>6. ASSUME UNCHANGED <<call, pc, resp, graph, todo>>,
               \A k \in GraphKeys : cache'[k] \in {cache[k], Nil}
        PROVE  MissingInv'
        BY <1>1, <1>6, MissingKept, CacheMissesNothing DEF MissingInv, Reading
  <1>7. ASSUME NEW k \in GraphKeys, ExpireGraph(k)
        PROVE  MissingInv'
    <2>1. \A j \in GraphKeys : cache'[j] \in {cache[j], Nil}
          BY <1>1, <1>7 DEF ExpireGraph, Expire, ApiInv, TypeOK, CacheTypeOK
    <2> QED BY <1>6, <1>7, <2>1 DEF ExpireGraph, Expire, sessionVars, graphVars
  <1>8. CASE PassTime \/ UNCHANGED vars
        BY <1>6, <1>8 DEF PassTime, Tick, vars, sessionVars, graphVars
  <1> QED BY <1>2, <1>3, <1>4, <1>5, <1>7, <1>8 DEF Next, Idle

(* A graph leaves out no neighbour but the deleted: whatever commits       *)
(* between the reading of its edges and that of its nodes, and whenever it *)
(* is served from the cache (asset_service.py:138-169).                    *)
THEOREM NodesAreComplete == Spec => []OnlyDeletedIsMissing
  <1>1. Init => MissingInv
    <2> SUFFICES ASSUME Init PROVE MissingInv
        OBVIOUS
    <2>1. \A r \in Requests : MissingInOrder(r)
          BY DEF Init, SessionInit, GraphInit, MissingInOrder
    <2>2. NothingCachedIsMissing
          BY DEF Init, CacheInit, NothingCachedIsMissing
    <2> QED BY <2>1, <2>2, GraphInitInv DEF MissingInv
  <1>2. MissingInv => OnlyDeletedIsMissing
    <2> SUFFICES ASSUME MissingInv, NEW r \in Requests, GraphAnswer(r),
                        NEW a \in MissingNodes(graph[r])
                 PROVE  assets[a] = Deleted
        BY DEF OnlyDeletedIsMissing
    <2>1. GraphInOrder(r) /\ ApiInv /\ MissingInOrder(r)
          BY DEF MissingInv, GraphInv
    <2>2. call[r] # Nil
          BY <2>1, SessionAssumption DEF GraphAnswer, GraphInOrder, Codes, Declared
    <2>3. call[r] \in ApiCalls /\ call[r].op = "get_graph"
          BY <2>1, <2>2, CallAssumption DEF GraphAnswer, Op, ApiInv, TypeOK, SessionTypeOK
    <2>4. call[r] \in GraphCall
          BY <2>3 DEF ApiCalls, CreateCall, UpdateCall, StatusCall, DeleteCall, RelateCall,
             UnrelateCall, ImportCall
    <2>5. graph[r] # Nil
          BY <2>1, <2>4 DEF GraphAnswer, GraphInOrder
    <2>6. todo[r] = {}
          BY <2>1, SessionAssumption DEF GraphAnswer, MissingInOrder, Reading, Codes, Declared
    <2>7. \A b \in MissingNodes(graph[r]) : b \in todo[r] \/ assets[b] = Deleted
          BY <2>1, <2>5 DEF MissingInOrder
    <2> QED BY <2>6, <2>7
  <1> QED BY <1>1, <1>2, MissingNext, PTL DEF Spec

-----------------------------------------------------------------------------
(* The times of a row.                                                     *)

(* What a step of r does to the times: it writes one row whose times are   *)
(* in order and whose first_seen is that of the row before, or it writes   *)
(* none, or it publishes what it wrote earlier.                            *)
Stamps(r) ==
    \E a \in AssetIds, row \in AssetRow :
        /\ wa' = [wa EXCEPT ![r][a] = row] /\ assets' = assets
        /\ row.first_seen <= row.last_seen /\ row.first_seen <= clock
        /\ IsRow(assets[a]) => row.first_seen = assets[a].first_seen

StampsNone(r) ==
    /\ assets' = assets
    /\ \A a \in AssetIds : wa'[r][a] = wa[r][a] \/ ~ IsRow(wa'[r][a])

OthersKeepTime(r) == clock' = clock /\ \A s \in Requests \ {r} : now'[s] = now[s]

(* The steps that leave the times in order.                                *)
LEMMA TimesKept ==
    ASSUME SeenInv, NEW r \in Requests, GoodStep(r), clock' = clock,
           Stamps(r) \/ StampsNone(r) \/ CommitWrites(r)
    PROVE  TimesInOrder'
  <1>1. /\ StoreInv /\ StoreTypeOK /\ TimesInOrder
        /\ \A s \in Requests \ {r} : wa'[s] = wa[s]
        BY OthersWrite DEF SeenInv, ApiInv, TypeOK, GoodStep
  <1>2. CASE Stamps(r)
    <2>1. PICK a \in AssetIds, row \in AssetRow :
             /\ wa' = [wa EXCEPT ![r][a] = row] /\ assets' = assets
             /\ row.first_seen <= row.last_seen /\ row.first_seen <= clock
             /\ IsRow(assets[a]) => row.first_seen = assets[a].first_seen
          BY <1>2 DEF Stamps
    <2>2. wa'[r][a] = row /\ \A b \in AssetIds \ {a} : wa'[r][b] = wa[r][b]
          BY <1>1, <2>1 DEF StoreTypeOK
    <2> QED BY <1>1, <2>1, <2>2 DEF TimesInOrder
  <1>3. CASE StampsNone(r)
        BY <1>1, <1>3 DEF TimesInOrder, StampsNone
  <1>4. CASE CommitWrites(r)
    <2>1. \A a \in AssetIds : assets'[a] = Asset(r, a) /\ wa'[r][a] = Nil
          BY <1>1, <1>4 DEF CommitWrites, ForgetWrites, StoreTypeOK
    <2>2. ASSUME NEW a \in AssetIds, IsRow(assets'[a])
          PROVE  assets'[a].first_seen <= assets'[a].last_seen /\ assets'[a].first_seen <= clock
          BY <1>1, <2>1, <2>2 DEF TimesInOrder, Asset
    <2>3. ASSUME NEW s \in Requests, NEW a \in AssetIds, IsRow(wa'[s][a]), IsRow(assets'[a])
          PROVE  wa'[s][a].first_seen = assets'[a].first_seen
      <3>1. s # r /\ wa[s][a] = wa'[s][a] /\ wa[s][a] # Nil
            BY <1>1, <2>1, <2>3 DEF IsRow
      <3>2. wa[r][a] = Nil
            BY <1>1, <3>1 DEF StoreInv, LocksExclusive
      <3> QED BY <1>1, <2>1, <2>3, <3>1, <3>2 DEF TimesInOrder, Asset
    <2>4. ASSUME NEW s \in Requests, NEW a \in AssetIds, IsRow(wa'[s][a])
          PROVE  wa'[s][a].first_seen <= wa'[s][a].last_seen /\ wa'[s][a].first_seen <= clock
      <3>1. wa[s][a] = wa'[s][a]
            BY <1>1, <2>1, <2>4 DEF IsRow
      <3> QED BY <1>1, <2>4, <3>1 DEF TimesInOrder
    <2> QED BY <2>2, <2>3, <2>4 DEF TimesInOrder
  <1> QED BY <1>2, <1>3, <1>4

(* Who has seen an asset before some time has so whatever others do: its   *)
(* first_seen is not written again, nor is its id.                         *)
LEMMA SeenBeforeStays ==
    ASSUME SeenInv, NEW r \in Requests, GoodStep(r), NEW s \in Requests, s # r,
           Stamps(r) \/ StampsNone(r) \/ CommitWrites(r),
           NEW a \in AssetIds, NEW t, SeenBefore(s, a, t)
    PROVE  SeenBefore(s, a, t)'
  <1>1. /\ StoreInv /\ StoreTypeOK /\ TimesInOrder
        /\ wa'[s] = wa[s]
        BY OthersWrite DEF SeenInv, ApiInv, TypeOK, GoodStep
  <1>2. CASE assets'[a] = assets[a]
        BY <1>1, <1>2 DEF SeenBefore, Asset
  <1>3. CASE CommitWrites(r) /\ wa[r][a] # Nil
    <2>1. assets'[a] = wa[r][a] /\ wa[s][a] = Nil
          BY <1>1, <1>3 DEF CommitWrites, Asset, StoreInv, LocksExclusive
    <2>2. assets[a] # Deleted
          BY <1>1, <1>3 DEF StoreInv, WritesFit
    <2>3. IsRow(assets[a]) /\ assets[a].first_seen <= t
          BY <1>1, <2>1, <2>2 DEF SeenBefore, Asset
    <2>4. IsRow(wa[r][a]) => wa[r][a].first_seen = assets[a].first_seen
          BY <1>1, <2>3 DEF TimesInOrder
    <2> QED BY <1>1, <1>3, <2>1, <2>3, <2>4 DEF SeenBefore, Asset, IsRow
  <1>4. CommitWrites(r) /\ wa[r][a] = Nil => assets'[a] = assets[a]
        BY DEF CommitWrites, Asset
  <1> QED BY <1>2, <1>3, <1>4 DEF Stamps, StampsNone

(* What is left to show of a step of r.                                    *)
LEMMA SeenStep ==
    ASSUME SeenInv, NEW r \in Requests, GoodStep(r), OthersKeepTime(r),
           Stamps(r) \/ StampsNone(r) \/ CommitWrites(r), ReadInOrder(r)'
    PROVE  SeenInv'
  <1>1. ApiInv' /\ TimesInOrder'
        BY GoodStepInv, TimesKept DEF SeenInv, OthersKeepTime
  <1>2. ASSUME NEW s \in Requests, s # r
        PROVE  ReadInOrder(s)'
    <2>1. /\ pc'[s] = pc[s] /\ call'[s] = call[s] /\ orm'[s] = orm[s]
          /\ now'[s] = now[s] /\ clock' = clock
          BY <1>2 DEF GoodStep, OthersStay, OthersKeepTime
    <2>2. ReadInOrder(s) /\ HandlerInOrder(s)
          BY DEF SeenInv, ApiInv
    <2>3. ASSUME NEW a \in AssetIds, NEW t, SeenBefore(s, a, t)
          PROVE  SeenBefore(s, a, t)'
          BY <1>2, <2>3, SeenBeforeStays
    <2>4. pc[s] = "flush_asset" => call[s].asset \in AssetIds
          BY <2>2 DEF HandlerInOrder, UpdateCall
    <2>5. PICK t : t = now[s]
          OBVIOUS
    <2>6. PICK a : a = call[s].asset
          OBVIOUS
    <2>7. pc[s] = "flush_asset" => SeenBefore(s, a, t)'
          BY <2>2, <2>3, <2>4, <2>5, <2>6 DEF ReadInOrder
    <2>8. pc[s] = "import_item" =>
              \A b \in AssetIds : orm[s][b] # Nil => SeenBefore(s, b, t)'
          BY <2>2, <2>3, <2>5 DEF ReadInOrder
    <2> QED BY <2>1, <2>2, <2>5, <2>6, <2>7, <2>8 DEF ReadInOrder, SeenBefore
  <1> QED BY <1>1, <1>2 DEF SeenInv

(* A step after which r is not about to write a time it has read.          *)
Unhurried(r) ==
    /\ pc'[r] \notin {"flush_asset", "import_item"}
    /\ now' = now \/ now' = [now EXCEPT ![r] = clock]
    /\ clock' = clock

LEMMA UnhurriedStep ==
    ASSUME SeenInv, NEW r \in Requests, GoodStep(r), Unhurried(r),
           Stamps(r) \/ StampsNone(r) \/ CommitWrites(r)
    PROVE  SeenInv'
  <1>1. now \in [Requests -> Times] /\ clock \in Nat /\ now[r] <= clock
        BY TimeAssumption DEF SeenInv, ApiInv, TypeOK, SessionTypeOK, Times, ReadInOrder
  <1>2. OthersKeepTime(r) /\ now'[r] <= clock'
        BY <1>1 DEF Unhurried, OthersKeepTime
  <1>3. ReadInOrder(r)'
        BY <1>2 DEF Unhurried, ReadInOrder
  <1> QED BY <1>2, <1>3, SeenStep

(* The statements.                                                         *)
LEMMA QuietStamp ==
    ASSUME StoreTypeOK, NEW r \in Requests,
           \/ RollbackWrites(r) \/ UNCHANGED <<assets, wa>>
           \/ \E a \in AssetIds : DeleteAsset(r, a)
    PROVE  StampsNone(r)
  BY DEF StampsNone, RollbackWrites, ForgetWrites, DeleteAsset, StoreTypeOK, IsRow

LEMMA InsertStamp ==
    ASSUME NEW r \in Requests, NEW a \in AssetIds, NEW row \in AssetRow,
           InsertAsset(r, a, row), row.first_seen <= row.last_seen, row.first_seen <= clock
    PROVE  Stamps(r)
  BY DEF Stamps, InsertAsset, FreshAssets, IsRow

LEMMA UpdateStamp ==
    ASSUME SeenInv, NEW r \in Requests, NEW a \in AssetIds, NEW row \in AssetRow,
           UpdateAsset(r, a, row), row.first_seen <= row.last_seen,
           row.first_seen = Asset(r, a).first_seen
    PROVE  Stamps(r)
  <1>1. TimesInOrder /\ IsRow(Asset(r, a))
        BY DEF SeenInv, UpdateAsset, AssetRows
  <1>2. /\ row.first_seen <= clock
        /\ IsRow(assets[a]) => row.first_seen = assets[a].first_seen
        BY <1>1 DEF TimesInOrder, Asset
  <1> QED BY <1>2 DEF Stamps, UpdateAsset

LEMMA FlushStamp ==
    ASSUME SeenInv, NEW r \in Requests, NEW a \in AssetIds, NEW new \in AssetRow,
           orm[r][a] # Nil, FlushAsset(r, a, new), SeenBefore(r, a, new.last_seen)
    PROVE  Stamps(r)
  <1>1. orm[r][a] \in AssetRow /\ Asset(r, a) \in AssetRow /\ IsRow(Asset(r, a))
        BY DEF SeenInv, ApiInv, TypeOK, SessionTypeOK, StoreTypeOK, FlushAsset, UpdateAsset,
           AssetRows, IsRow, Asset, AssetCell
  <1> DEFINE row == DirtyColumns(new, orm[r][a], Asset(r, a))
  <1>2. row \in AssetRow /\ UpdateAsset(r, a, row)
        BY <1>1, DirtyColumnsFit DEF FlushAsset
  <1>3. row.first_seen = Asset(r, a).first_seen /\ row.last_seen = new.last_seen
        BY <1>1 DEF DirtyColumns, AssetRow
  <1>4. row.first_seen <= row.last_seen
        BY <1>1, <1>3 DEF SeenBefore, IsRow
  <1> HIDE DEF row
  <1> QED BY <1>2, <1>3, <1>4, UpdateStamp

-----------------------------------------------------------------------------
(* The handlers.                                                           *)

LEMMA SeenAfterRaise ==
    ASSUME SeenInv, NEW r \in Requests, NEW code, Raise(r, code), GoodStep(r),
           UNCHANGED <<now, clock>>
    PROVE  SeenInv'
  <1>1. Unhurried(r)
        BY DEF Raise, Unhurried, SeenInv, ApiInv, TypeOK, SessionTypeOK
  <1>2. StampsNone(r)
        BY QuietStamp DEF Raise, SeenInv, ApiInv, TypeOK
  <1> QED BY <1>1, <1>2, UnhurriedStep

LEMMA SeenAssetStep ==
    ASSUME SeenInv, NEW r \in Requests, AssetStep(r),
           UNCHANGED <<cache, graphVars, inval, imp>>
    PROVE  SeenInv'
  <1>1. /\ ApiInv /\ HandlerInOrder(r) /\ ReadInOrder(r) /\ TimesInOrder
        /\ TypeOK /\ SessionTypeOK /\ StoreTypeOK /\ GoodStep(r)
        BY AssetStepGood DEF SeenInv, ApiInv, TypeOK
  <1>2. clock \in Nat /\ now[r] \in Nat /\ now[r] \in Times
        BY <1>1, TimeAssumption DEF SessionTypeOK, Times
  <1>3. clock' = clock
        BY DEF AssetStep, CreateAsset, InsertNewAsset, GetAsset, FlushUpdate, UpdateStatus,
           RemoveAsset, AbortCascade
  <1>4. \A code : Reply(r, code) /\ now' = now => Unhurried(r)
        BY <1>1, <1>3 DEF Reply, Unhurried, SessionTypeOK
  <1>5. CASE CreateAsset(r)
    <2>1. CASE Raise(r, "409") /\ UNCHANGED now
          BY <1>1, <1>3, <2>1, SeenAfterRaise
    <2>2. CASE Goto(r, "insert_asset") /\ UNCHANGED storeVars
               /\ now' = [now EXCEPT ![r] = clock]
      <3>1. Unhurried(r) /\ StampsNone(r)
            BY <1>1, <1>3, <2>2, QuietStamp DEF Unhurried, Goto, SessionTypeOK, storeVars
      <3> QED BY <1>1, <3>1, UnhurriedStep
    <2> QED BY <1>5, <2>1, <2>2 DEF CreateAsset
  <1>6. CASE InsertNewAsset(r)
    <2> DEFINE row == NewAsset(call[r], now[r])
    <2>1. CASE \E a \in AssetIds : InsertAsset(r, a, row) /\ Reply(r, "201")
      <3>1. row \in AssetRow /\ row.first_seen = now[r] /\ row.last_seen = now[r]
            BY <1>1, <1>6 DEF InsertNewAsset, HandlerInOrder, CreateCall, NewAsset,
               AssetRow, SessionTypeOK
      <3> HIDE DEF row
      <3>2. Stamps(r)
            BY <1>1, <1>2, <2>1, <3>1, InsertStamp DEF ReadInOrder
      <3> QED BY <1>1, <1>4, <1>6, <2>1, <3>2, UnhurriedStep DEF InsertNewAsset
    <2>2. CASE Raise(r, "IntegrityError")
          BY <1>1, <1>6, <2>2, SeenAfterRaise DEF InsertNewAsset
    <2> QED BY <1>6, <2>1, <2>2 DEF InsertNewAsset
  <1>7. CASE GetAsset(r)
    <2> DEFINE a == call[r].asset
    <2>1. CASE Raise(r, "404") /\ UNCHANGED <<orm, now>>
          BY <1>1, <1>3, <2>1, SeenAfterRaise
    <2>2. CASE /\ HasAsset(r, call[r].tenant, a) /\ now' = [now EXCEPT ![r] = clock]
               /\ Goto(r, "flush_asset") /\ UNCHANGED storeVars
      <3>1. OthersKeepTime(r) /\ StampsNone(r)
            BY <1>1, <1>3, <2>2, QuietStamp DEF OthersKeepTime, SessionTypeOK, storeVars
      <3>2. SeenBefore(r, a, clock)
            BY <1>1, <2>2 DEF HasAsset, AssetRows, Asset, SeenBefore, TimesInOrder
      <3>3. /\ now'[r] = clock /\ clock' = clock /\ call' = call /\ pc'[r] = "flush_asset"
            /\ assets' = assets /\ wa' = wa
            BY <1>1, <1>3, <1>7, <2>2 DEF GetAsset, Goto, SessionTypeOK, storeVars
      <3>4. ReadInOrder(r)'
            BY <1>2, <3>2, <3>3 DEF ReadInOrder, SeenBefore, Asset
      <3> QED BY <1>1, <3>1, <3>4, SeenStep
    <2> QED BY <1>7, <2>1, <2>2 DEF GetAsset
  <1>8. CASE FlushUpdate(r)
    <2> DEFINE a   == call[r].asset
               row == UpdatedAsset(call[r], orm[r][a], now[r])
    <2>1. call[r] \in UpdateCall /\ a \in AssetIds /\ orm[r][a] # Nil /\ SeenBefore(r, a, now[r])
          BY <1>1, <1>8 DEF FlushUpdate, HandlerInOrder, UpdateCall, ReadInOrder
    <2>2. row \in AssetRow /\ orm[r][a] \in AssetRow
          BY <1>1, <1>2, <2>1, UpdatedAssetType DEF SessionTypeOK
    <2>3. row.last_seen = now[r]
          BY <2>2 DEF UpdatedAsset, AssetRow
    <2>4. CASE FlushAsset(r, a, row) /\ Reply(r, "200")
      <3> HIDE DEF row
      <3>1. Stamps(r)
            BY <2>1, <2>2, <2>3, <2>4, FlushStamp
      <3> QED BY <1>1, <1>4, <1>8, <2>4, <3>1, UnhurriedStep DEF FlushUpdate
    <2>5. CASE FlushFails(r, a)
          BY <1>1, <1>8, <2>5, SeenAfterRaise DEF FlushUpdate, FlushFails
    <2> QED BY <1>8, <2>4, <2>5 DEF FlushUpdate
  <1>9. CASE UpdateStatus(r)
    <2> DEFINE a   == call[r].asset
               row == [Asset(r, a) EXCEPT !.status = call[r].status]
    <2>1. CASE UpdateAsset(r, a, row) /\ Reply(r, "200")
      <3>1. /\ call[r] \in StatusCall /\ a \in AssetIds
            /\ Asset(r, a) \in AssetRow /\ IsRow(Asset(r, a))
            BY <1>1, <1>9, <2>1 DEF UpdateStatus, HandlerInOrder, StatusCall, UpdateAsset,
               AssetRows, Asset, IsRow, StoreTypeOK, AssetCell
      <3>2. /\ row \in AssetRow /\ row.first_seen = Asset(r, a).first_seen
            /\ row.last_seen = Asset(r, a).last_seen
            BY <3>1 DEF StatusCall, AssetRow
      <3>3. Asset(r, a).first_seen <= Asset(r, a).last_seen
            BY <1>1, <3>1 DEF TimesInOrder, Asset
      <3> HIDE DEF row
      <3>4. Stamps(r)
            BY <2>1, <3>1, <3>2, <3>3, UpdateStamp
      <3> QED BY <1>1, <1>4, <1>9, <2>1, <3>4, UnhurriedStep DEF UpdateStatus
    <2>2. CASE Raise(r, "404")
          BY <1>1, <1>9, <2>2, SeenAfterRaise DEF UpdateStatus
    <2> QED BY <1>9, <2>1, <2>2 DEF UpdateStatus
  <1>10. CASE RemoveAsset(r)
    <2>1. CASE DeleteAsset(r, call[r].asset) /\ Reply(r, "204")
      <3>1. StampsNone(r)
            BY <1>1, <2>1, QuietStamp DEF DeleteAsset, AssetRows
      <3> QED BY <1>1, <1>4, <1>10, <2>1, <3>1, UnhurriedStep DEF RemoveAsset
    <2>2. CASE Raise(r, "404")
          BY <1>1, <1>10, <2>2, SeenAfterRaise DEF RemoveAsset
    <2> QED BY <1>10, <2>1, <2>2 DEF RemoveAsset
  <1>11. CASE AbortCascade(r)
        BY <1>1, <1>11, SeenAfterRaise DEF AbortCascade
  <1> QED BY <1>5, <1>6, <1>7, <1>8, <1>9, <1>10, <1>11 DEF AssetStep

(* The handlers of graphs and relationships write no asset.                *)
LEMMA SeenElsewhere ==
    ASSUME SeenInv, NEW r \in Requests, GoodStep(r), GraphStep(r) \/ RelStep(r)
    PROVE  SeenInv'
  <1>1. /\ StoreTypeOK /\ pc \in [Requests -> Labels]
        BY DEF SeenInv, ApiInv, TypeOK, SessionTypeOK
  <1>2. UNCHANGED <<now, clock>>
        BY DEF GraphStep, ReadCache, ReadRoot, ReadRels, ReadNode, WriteCache, RelStep,
           VerifySource, VerifyTarget, Verify, LookupEdge, InsertNewRel, InvalidateGraphs, RemoveRel
  <1>3. CASE \E code : Raise(r, code)
        BY <1>2, <1>3, SeenAfterRaise
  <1>4. CASE /\ UNCHANGED <<assets, wa>>
             /\ \/ \E code : Reply(r, code)
                \/ \E label \in {"graph_root", "graph_rels", "graph_nodes", "graph_cache",
                                 "rel_target", "rel_lookup", "insert_rel", "invalidate"} :
                       Goto(r, label)
    <2>1. pc'[r] \notin {"flush_asset", "import_item"}
          BY <1>1, <1>4 DEF Reply, Goto
    <2> QED BY <1>1, <1>2, <1>4, <2>1, QuietStamp, UnhurriedStep DEF Unhurried
  <1> QED BY <1>3, <1>4 DEF GraphStep, ReadCache, ReadRoot, ReadRels, ReadNode, WriteCache, RelStep,
             VerifySource, VerifyTarget, Verify, LookupEdge, InsertNewRel, RelInsertFails,
             InvalidateGraphs, RemoveRel, InsertRel, DeleteRel, storeVars

(* Stage 4: the rows of the items to come were seen before, too; the item  *)
(* at hand is written with the time that was read.                         *)
LEMMA SeenFlushed ==
    ASSUME SeenInv, NEW r \in Requests, GoodStep(r), pc[r] = "import_item",
           UNCHANGED <<call, now, clock>>, NEW i, NEW a \in AssetIds, NEW row \in AssetRow,
           NEW written \in AssetRow, Flushed(r, i, a, row), Stamps(r),
           wa' = [wa EXCEPT ![r][a] = written], assets' = assets, written.first_seen <= now[r]
    PROVE  SeenInv'
  <1>1. /\ ReadInOrder(r) /\ wa \in [Requests -> [AssetIds -> AssetCell]]
        /\ orm \in [Requests -> [AssetIds -> AssetRow \cup {Nil}]] /\ pc \in [Requests -> Labels]
        BY DEF SeenInv, ApiInv, TypeOK, StoreTypeOK, SessionTypeOK
  <1>2. /\ orm'[r][a] = row /\ \A b \in AssetIds \ {a} : orm'[r][b] = orm[r][b]
        /\ wa'[r][a] = written /\ \A b \in AssetIds \ {a} : wa'[r][b] = wa[r][b]
        BY <1>1 DEF Flushed
  <1>3. PICK t : t = now[r]
        OBVIOUS
  <1>4. SeenBefore(r, a, t)'
        BY <1>2, <1>3, NilAssumption DEF SeenBefore, Asset, IsRow
  <1>5. ASSUME NEW b \in AssetIds, b # a, orm'[r][b] # Nil
        PROVE  SeenBefore(r, b, t)'
        BY <1>1, <1>2, <1>3, <1>5 DEF ReadInOrder, SeenBefore, Asset
  <1>6. pc'[r] # "flush_asset"
        BY <1>1 DEF Flushed, Goto
  <1>7. ReadInOrder(r)'
        BY <1>1, <1>3, <1>4, <1>5, <1>6 DEF ReadInOrder, SeenBefore
  <1> QED BY <1>7, SeenStep DEF OthersKeepTime

LEMMA SeenImportStep ==
    ASSUME SeenInv, NEW r \in Requests, ImportStep(r), UNCHANGED <<cache, graphVars, inval>>
    PROVE  SeenInv'
  <1>1. /\ ApiInv /\ HandlerInOrder(r) /\ ReadInOrder(r) /\ TimesInOrder
        /\ TypeOK /\ SessionTypeOK /\ StoreTypeOK /\ GoodStep(r)
        BY ImportStepGood DEF SeenInv, ApiInv, TypeOK
  <1>2. clock \in Nat /\ now[r] \in Nat /\ now[r] \in Times
        BY <1>1, TimeAssumption DEF SessionTypeOK, Times
  <1>3. call[r] \in ImportCall /\ call' = call /\ clock' = clock
        BY <1>1 DEF ImportStep, LookupItems, MergeItem, CreateItem, MapEdges, InsertLink,
           HandlerInOrder
  <1>4. CASE LookupItems(r)
    <2> DEFINE found == AssetsByKey(r, call[r].tenant, {KeyOf(Items(r)[i]) : i \in Valid(r)})
               rows  == [a \in AssetIds |-> IF a \in found THEN Asset(r, a) ELSE Nil]
    <2>1. CASE Raise(r, "ValidationError") /\ UNCHANGED now
          BY <1>1, <1>3, <2>1, SeenAfterRaise
    <2>2. CASE /\ orm' = [orm EXCEPT ![r] = rows] /\ now' = [now EXCEPT ![r] = clock]
               /\ Reply(r, "200") \/ Goto(r, "import_item")
               /\ UNCHANGED storeVars
      <3>1. \A a \in found : SeenBefore(r, a, clock)
            BY <1>1 DEF AssetsByKey, HasAsset, AssetRows, Asset, SeenBefore, TimesInOrder
      <3> HIDE DEF found
      <3>2. \A a \in AssetIds : rows[a] # Nil => SeenBefore(r, a, clock)
            BY <3>1
      <3> HIDE DEF rows
      <3>3. /\ orm'[r] = rows /\ now'[r] = clock /\ pc'[r] # "flush_asset"
            /\ assets' = assets /\ wa' = wa
            BY <1>1, <2>2 DEF Reply, Goto, SessionTypeOK, storeVars
      <3>4. ReadInOrder(r)'
            BY <1>2, <1>3, <3>2, <3>3 DEF ReadInOrder, SeenBefore, Asset
      <3>5. OthersKeepTime(r) /\ StampsNone(r)
            BY <1>1, <1>3, <2>2, <3>3, QuietStamp DEF OthersKeepTime, SessionTypeOK
      <3> QED BY <1>1, <3>4, <3>5, SeenStep
    <2> QED BY <1>4, <2>1, <2>2 DEF LookupItems
  <1>5. CASE MergeItem(r)
    <2>1. PICK i \in Valid(r), a \in AssetIds :
             /\ a \in Existing(r, KeyOf(Items(r)[i]))
             /\ \/ /\ FlushAsset(r, a, Merged(Items(r)[i], orm[r][a], now[r]))
                   /\ Flushed(r, i, a, Merged(Items(r)[i], orm[r][a], now[r]))
                \/ FlushFails(r, a)
          BY <1>5 DEF MergeItem, Existing
    <2>2. pc[r] = "import_item" /\ UNCHANGED <<call, now, clock>>
          BY <1>5 DEF MergeItem
    <2>3. CASE FlushFails(r, a)
          BY <1>1, <2>2, <2>3, SeenAfterRaise DEF FlushFails
    <2> DEFINE row     == Merged(Items(r)[i], orm[r][a], now[r])
               written == DirtyColumns(row, orm[r][a], Asset(r, a))
    <2>4. CASE FlushAsset(r, a, row) /\ Flushed(r, i, a, row)
      <3>1. orm[r][a] \in AssetRow /\ orm[r][a] # Nil
            BY <1>1, <2>1 DEF Existing, SessionTypeOK
      <3>2. row \in AssetRow /\ row.last_seen = now[r]
        <4>1. Items(r)[i] \in Item
              BY <1>3, BatchFacts
        <4>2. row \in AssetRow
              BY <1>2, <3>1, <4>1, MergedRow
        <4>3. row.last_seen = now[r]
              BY <3>1 DEF Merged, AssetRow
        <4> QED BY <4>2, <4>3
      <3>3. Asset(r, a) \in AssetRow /\ IsRow(Asset(r, a)) /\ UpdateAsset(r, a, written)
            BY <1>1, <2>4 DEF FlushAsset, UpdateAsset, AssetRows, IsRow, Asset, AssetCell,
               StoreTypeOK
      <3>4. SeenBefore(r, a, now[r])
            BY <1>1, <2>2, <3>1 DEF ReadInOrder
      <3> HIDE DEF row
      <3>5. Stamps(r)
            BY <2>4, <3>1, <3>2, <3>4, FlushStamp
      <3>6. written \in AssetRow /\ written.first_seen = Asset(r, a).first_seen
            BY <3>1, <3>2, <3>3, DirtyColumnsFit DEF DirtyColumns, AssetRow
      <3>7. written.first_seen <= now[r]
            BY <3>3, <3>4, <3>6 DEF SeenBefore, IsRow
      <3> HIDE DEF written
      <3>8. wa' = [wa EXCEPT ![r][a] = written] /\ assets' = assets
            BY <3>3 DEF UpdateAsset
      <3> QED BY <1>1, <2>2, <2>4, <3>2, <3>5, <3>6, <3>7, <3>8, SeenFlushed
    <2> QED BY <2>1, <2>3, <2>4
  <1>6. CASE CreateItem(r)
    <2>1. PICK i \in Valid(r) :
             LET row == Created(call[r].tenant, Items(r)[i], now[r]) IN
             \/ \E a \in AssetIds : InsertAsset(r, a, row) /\ Flushed(r, i, a, row)
             \/ Raise(r, "IntegrityError")
          BY <1>6 DEF CreateItem
    <2>2. pc[r] = "import_item" /\ UNCHANGED <<call, now, clock>>
          BY <1>6 DEF CreateItem
    <2>3. CASE Raise(r, "IntegrityError")
          BY <1>1, <2>2, <2>3, SeenAfterRaise
    <2> DEFINE row == Created(call[r].tenant, Items(r)[i], now[r])
    <2>4. ASSUME NEW a \in AssetIds, InsertAsset(r, a, row), Flushed(r, i, a, row)
          PROVE  SeenInv'
      <3>1. row \in AssetRow /\ row.first_seen = now[r] /\ row.last_seen = now[r]
        <4>1. row \in AssetRow
              BY <1>2, <1>3, BatchFacts, CreatedRow
        <4>2. row.first_seen = now[r] /\ row.last_seen = now[r]
              BY DEF Created
        <4> QED BY <4>1, <4>2
      <3> HIDE DEF row
      <3>2. Stamps(r)
            BY <1>1, <1>2, <2>4, <3>1, InsertStamp DEF ReadInOrder
      <3>3. wa' = [wa EXCEPT ![r][a] = row] /\ assets' = assets /\ row.first_seen <= now[r]
            BY <1>2, <2>4, <3>1 DEF InsertAsset
      <3> QED BY <1>1, <2>2, <2>4, <3>1, <3>2, <3>3, SeenFlushed
    <2> QED BY <2>1, <2>3, <2>4
  <1>7. CASE MapEdges(r) \/ InsertLink(r)
    <2>1. UNCHANGED <<now, clock>>
          BY <1>7 DEF MapEdges, InsertLink
    <2>2. CASE \E code : Raise(r, code)
          BY <1>1, <2>1, <2>2, SeenAfterRaise
    <2>3. CASE UNCHANGED <<assets, wa>> /\ (Reply(r, "200") \/ Goto(r, "import_link"))
      <3>1. Unhurried(r)
            BY <1>1, <2>1, <2>3 DEF Unhurried, Reply, Goto, SessionTypeOK
      <3> QED BY <1>1, <2>3, <3>1, QuietStamp, UnhurriedStep
    <2> QED BY <1>7, <2>2, <2>3 DEF MapEdges, InsertLink, InsertRel, storeVars
  <1> QED BY <1>4, <1>5, <1>6, <1>7 DEF ImportStep

-----------------------------------------------------------------------------
(* The service.                                                            *)

LEMMA SeenInit == Init => SeenInv
  <1> SUFFICES ASSUME Init PROVE SeenInv
      OBVIOUS
  <1>1. ApiInv /\ clock \in Nat
        BY InitInv, TimeAssumption DEF ApiInv, TypeOK, SessionTypeOK, Times
  <1>2. \A a \in AssetIds : IsRow(SeedAssets[a]) =>
            /\ SeedAssets[a].first_seen \in Nat /\ SeedAssets[a].last_seen \in Nat
            /\ SeedAssets[a].first_seen <= SeedAssets[a].last_seen
            /\ SeedAssets[a].last_seen <= clock
        BY SeedAssumption, TimeAssumption DEF Init, SessionInit, IsRow, AssetRow, Times
  <1>3. TimesInOrder
        BY <1>1, <1>2 DEF Init, StoreInit, TimesInOrder, IsRow
  <1>4. \A r \in Requests : ReadInOrder(r)
        BY <1>1 DEF Init, SessionInit, ReadInOrder
  <1> QED BY <1>1, <1>3, <1>4 DEF SeenInv

(* Time passes, or nothing moves at all.                                   *)
LEMMA SeenQuiet ==
    ASSUME SeenInv, ApiInv', UNCHANGED <<storeVars, call, pc, orm, now>>,
           clock' \in {clock, clock + 1}
    PROVE  SeenInv'
  <1>1. /\ clock \in Nat /\ clock <= clock' /\ clock' \in Nat
        /\ StoreTypeOK /\ now \in [Requests -> Times] /\ TimesInOrder
        BY TimeAssumption DEF SeenInv, ApiInv, TypeOK, SessionTypeOK, Times
  <1>2. /\ \A a \in AssetIds : IsRow(assets[a]) => assets[a].first_seen \in Nat
        /\ \A r \in Requests, a \in AssetIds : IsRow(wa[r][a]) => wa[r][a].first_seen \in Nat
        /\ \A r \in Requests : now[r] \in Nat
        BY <1>1, TimeAssumption DEF StoreTypeOK, AssetCell, AssetRow, IsRow, Times
  <1>3. TimesInOrder'
        BY <1>1, <1>2 DEF TimesInOrder, storeVars
  <1>4. ASSUME NEW r \in Requests
        PROVE  ReadInOrder(r)'
    <2>1. ReadInOrder(r)
          BY DEF SeenInv
    <2> QED BY <1>1, <1>2, <2>1 DEF ReadInOrder, SeenBefore, Asset, storeVars
  <1> QED BY <1>3, <1>4 DEF SeenInv

LEMMA SeenNext == SeenInv /\ [Next]_vars => SeenInv'
  <1> SUFFICES ASSUME SeenInv, [Next]_vars PROVE SeenInv'
      OBVIOUS
  <1>1. ApiInv /\ ApiInv' /\ SessionTypeOK /\ StoreTypeOK
        BY NextInv DEF SeenInv, ApiInv, TypeOK
  <1>2. ASSUME NEW r \in Requests, Arrive(r)
        PROVE  SeenInv'
    <2>1. PICK c \in Calls : pc'[r] = c.op
          BY <1>1, <1>2 DEF Arrive, Begin, SessionTypeOK
    <2>2. c.op \notin {"flush_asset", "import_item"}
          BY CallAssumption DEF ApiCalls, CreateCall, UpdateCall, StatusCall, DeleteCall,
             GraphCall, RelateCall, UnrelateCall, ImportCall
    <2>3. Unhurried(r) /\ StampsNone(r)
          BY <1>1, <1>2, <2>1, <2>2, QuietStamp DEF Unhurried, Arrive, Begin, storeVars
    <2> QED BY <1>1, <1>2, <2>3, ArriveGood, UnhurriedStep
  <1>3. ASSUME NEW r \in Requests, Serve(r)
        PROVE  SeenInv'
    <2>1. CASE Commit(r) /\ UNCHANGED <<cache, graphVars, inval, imp>>
      <3>1. Unhurried(r)
            BY <1>1, <2>1 DEF Commit, Unhurried, SessionTypeOK
      <3> QED BY <1>1, <2>1, <3>1, CommitGood, UnhurriedStep DEF Commit
    <2>2. CASE AssetStep(r) /\ UNCHANGED <<cache, graphVars, inval, imp>>
          BY <2>2, SeenAssetStep
    <2>3. CASE GraphStep(r) /\ UNCHANGED <<inval, imp>>
          BY <1>1, <2>3, GraphStepGood, SeenElsewhere
    <2>4. CASE RelStep(r) /\ UNCHANGED <<graphVars, imp>>
          BY <1>1, <2>4, RelStepGood, SeenElsewhere
    <2>5. CASE ImportStep(r) /\ UNCHANGED <<cache, graphVars, inval>>
          BY <2>5, SeenImportStep
    <2> QED BY <1>3, <2>1, <2>2, <2>3, <2>4, <2>5 DEF Serve
  <1>4. ASSUME NEW r \in Requests, BreakDeadlock(r)
        PROVE  SeenInv'
    <2>1. "DeadlockDetected" \in Codes
          BY DEF Codes, Errors
    <2> QED BY <1>1, <1>4, <2>1, RaiseGood, SeenAfterRaise DEF BreakDeadlock, DeadlockAbort
  <1>5. ASSUME NEW r \in Requests, LoseConnection(r)
        PROVE  SeenInv'
    <2>1. PICK code \in Codes \cup {Nil} : Raise(r, code)
          BY <1>1, <1>5 DEF LoseConnection, Fail, Codes, Errors, SessionTypeOK
    <2> QED BY <1>1, <1>5, <2>1, RaiseGood, SeenAfterRaise DEF LoseConnection, Fail
  <1>6. CASE \/ \E k \in GraphKeys : ExpireGraph(k)
             \/ PassTime \/ UNCHANGED vars
        BY <1>1, <1>6, SeenQuiet DEF ExpireGraph, Expire, PassTime, Tick, vars, sessionVars
  <1> QED BY <1>2, <1>3, <1>4, <1>5, <1>6 DEF Next, Idle

(* No asset is first seen after it was last seen, although the time a      *)
(* handler writes was read before its statement waited for others to write *)
(* theirs.                                                                 *)
THEOREM TimesStayInOrder == Spec => []SeenInOrder
  <1>1. SeenInv => SeenInOrder
        BY DEF SeenInv, TimesInOrder, SeenInOrder
  <1> QED BY <1>1, SeenInit, SeenNext, PTL DEF Spec

-----------------------------------------------------------------------------
(* The columns of a PUT.                                                   *)

(* What a request that has returned from a PUT has written stays a change  *)
(* of its own columns to what is committed: nobody else writes the row.    *)
LEMMA OthersColumns ==
    ASSUME ColumnsInv, NEW r \in Requests, GoodStep(r), NEW s \in Requests, s # r
    PROVE  ColumnsInOrder(s)'
  <1>1. /\ StoreInv /\ StoreTypeOK /\ SessionTypeOK /\ ColumnsInOrder(s)
        /\ pc'[s] = pc[s] /\ call'[s] = call[s] /\ wa'[s] = wa[s]
        BY OthersWrite DEF ColumnsInv, ApiInv, TypeOK, GoodStep, OthersStay
  <1>2. ASSUME NEW a \in AssetIds, wa[s][a] # Nil
        PROVE  assets'[a] = assets[a]
    <2>1. wa[r][a] = Nil
          BY <1>1, <1>2 DEF StoreInv, LocksExclusive
    <2> QED BY <2>1 DEF GoodStep, StoreStep, storeVars, InsertAsset, UpdateAsset, DeleteAsset,
               InsertRel, DeleteRel, CommitWrites, RollbackWrites, Asset
  <1>3. ASSUME pc[s] = "commit", Op(s) = "update_asset"
        PROVE  call[s].asset \in AssetIds
    <2>1. call[s] \in ApiCalls /\ call[s].op = "update_asset"
          BY <1>1, <1>3, CallAssumption DEF Op, SessionTypeOK, ColumnsInOrder
    <2> QED BY <2>1 DEF ApiCalls, CreateCall, UpdateCall, StatusCall, DeleteCall, GraphCall,
               RelateCall, UnrelateCall, ImportCall
  <1>4. Op(s)' = Op(s)
        BY <1>1 DEF Op
  <1>5. PICK c : c = call[s]
        OBVIOUS
  <1>6. pc[s] = "commit" /\ Op(s) = "update_asset" =>
            wa'[s][c.asset] # Nil /\ ChangesOnly(c, assets'[c.asset], wa'[s][c.asset])
        BY <1>1, <1>2, <1>3, <1>5 DEF ColumnsInOrder
  <1>7. pc[s] \in {"idle", "update_asset", "flush_asset"} => \A a \in AssetIds : wa'[s][a] = Nil
        BY <1>1 DEF ColumnsInOrder
  <1> QED BY <1>1, <1>4, <1>5, <1>6, <1>7 DEF ColumnsInOrder, ChangesOnly

LEMMA ColumnsStep ==
    ASSUME ColumnsInv, NEW r \in Requests, GoodStep(r), ColumnsInOrder(r)'
    PROVE  ColumnsInv'
  BY OthersColumns, GoodStepInv DEF ColumnsInv

(* The steps that neither lead into a PUT nor return from one.             *)
LEMMA ColumnsElsewhere ==
    ASSUME ColumnsInv, NEW r \in Requests, GoodStep(r),
           pc'[r] \notin {"idle", "update_asset", "flush_asset"},
           call[r] # Nil \/ pc'[r] = "done",
           pc'[r] = "commit" => call[r].op # "update_asset", call' = call
    PROVE  ColumnsInv'
  <1>1. ColumnsInOrder(r)'
        BY DEF ColumnsInOrder, Op
  <1> QED BY <1>1, ColumnsStep

LEMMA ColumnsAfterRaise ==
    ASSUME ColumnsInv, NEW r \in Requests, NEW code, Raise(r, code), GoodStep(r), call' = call
    PROVE  ColumnsInv'
  <1>1. pc'[r] = "done"
        BY DEF Raise, ColumnsInv, ApiInv, TypeOK, SessionTypeOK
  <1> QED BY <1>1, ColumnsElsewhere

(* The flush of a PUT: a column the payload does not name is not dirty.    *)
LEMMA FlushColumns ==
    ASSUME NEW c, NEW loaded \in AssetRow, NEW current \in AssetRow, NEW t
    PROVE  ChangesOnly(c, current, DirtyColumns(UpdatedAsset(c, loaded, t), loaded, current))
  BY DEF ChangesOnly, DirtyColumns, Dirty, UpdatedAsset, AssetRow

LEMMA ColumnsAssetStep ==
    ASSUME ColumnsInv, NEW r \in Requests, AssetStep(r),
           UNCHANGED <<cache, graphVars, inval, imp>>
    PROVE  ColumnsInv'
  <1>1. /\ ApiInv /\ HandlerInOrder(r) /\ ColumnsInOrder(r)
        /\ TypeOK /\ SessionTypeOK /\ StoreTypeOK /\ GoodStep(r)
        BY AssetStepGood DEF ColumnsInv, ApiInv, TypeOK
  <1>2. call' = call
        BY DEF AssetStep, CreateAsset, InsertNewAsset, GetAsset, FlushUpdate, UpdateStatus,
           RemoveAsset, AbortCascade
  <1>3. call[r] # Nil
        BY <1>1 DEF AssetStep, CreateAsset, InsertNewAsset, GetAsset, FlushUpdate, UpdateStatus,
           RemoveAsset, AbortCascade, ColumnsInOrder
  <1>4. CASE \E code : Raise(r, code)
        BY <1>1, <1>2, <1>4, ColumnsAfterRaise
  <1>5. CASE /\ InsertNewAsset(r) \/ UpdateStatus(r) \/ RemoveAsset(r)
             /\ \E code : Reply(r, code)
    <2>1. pc'[r] = "commit"
          BY <1>1, <1>5 DEF Reply, SessionTypeOK
    <2>2. call[r] \in CreateCall \cup StatusCall \cup DeleteCall
          BY <1>1, <1>5 DEF InsertNewAsset, UpdateStatus, RemoveAsset, HandlerInOrder
    <2> QED BY <1>1, <1>2, <1>3, <2>1, <2>2, ColumnsElsewhere DEF CreateCall, StatusCall, DeleteCall
  <1>6. CASE CreateAsset(r) /\ Goto(r, "insert_asset")
    <2>1. pc'[r] = "insert_asset"
          BY <1>1, <1>6 DEF Goto, SessionTypeOK
    <2> QED BY <1>1, <1>2, <1>3, <2>1, ColumnsElsewhere
  <1>7. CASE GetAsset(r) /\ Goto(r, "flush_asset") /\ UNCHANGED storeVars
    <2>1. pc[r] = "update_asset" /\ pc'[r] = "flush_asset" /\ wa' = wa
          BY <1>1, <1>7 DEF GetAsset, Goto, SessionTypeOK, storeVars
    <2>2. ColumnsInOrder(r)'
          BY <1>1, <1>2, <1>3, <2>1 DEF ColumnsInOrder
    <2> QED BY <1>1, <2>2, ColumnsStep
  <1>8. CASE FlushUpdate(r) /\ Reply(r, "200")
             /\ FlushAsset(r, call[r].asset, UpdatedAsset(call[r], orm[r][call[r].asset], now[r]))
    <2> DEFINE a       == call[r].asset
               written == DirtyColumns(UpdatedAsset(call[r], orm[r][a], now[r]),
                                       orm[r][a], Asset(r, a))
    <2>1. call[r] \in UpdateCall /\ a \in AssetIds /\ orm[r][a] \in AssetRow /\ wa[r][a] = Nil
          BY <1>1, <1>8 DEF FlushUpdate, HandlerInOrder, UpdateCall, ColumnsInOrder, SessionTypeOK
    <2>2. Asset(r, a) = assets[a] /\ assets[a] \in AssetRow
          BY <1>1, <1>8, <2>1 DEF FlushAsset, UpdateAsset, AssetRows, IsRow, Asset, AssetCell,
             StoreTypeOK
    <2>3. written \in AssetRow
          BY <1>1, <2>1, <2>2, UpdatedAssetType, DirtyColumnsFit DEF SessionTypeOK
    <2>4. ChangesOnly(call[r], assets[a], written)
          BY <2>1, <2>2, FlushColumns
    <2>5. wa' = [wa EXCEPT ![r][a] = written] /\ assets' = assets
          BY <1>8 DEF FlushAsset, UpdateAsset
    <2> HIDE DEF written
    <2>6. wa'[r][a] = written /\ written # Nil /\ pc'[r] = "commit"
          BY <1>1, <1>8, <2>1, <2>3, <2>5, NilAssumption DEF StoreTypeOK, Reply, SessionTypeOK
    <2>7. PICK c : c = call[r]
          OBVIOUS
    <2>8. wa'[r][c.asset] # Nil /\ ChangesOnly(c, assets'[c.asset], wa'[r][c.asset])
          BY <2>4, <2>5, <2>6, <2>7
    <2>9. ColumnsInOrder(r)'
          BY <1>2, <1>3, <2>6, <2>7, <2>8 DEF ColumnsInOrder, ChangesOnly
    <2> QED BY <1>1, <2>9, ColumnsStep
  <1> QED BY <1>4, <1>5, <1>6, <1>7, <1>8 DEF AssetStep, CreateAsset, InsertNewAsset, GetAsset,
             FlushUpdate, FlushFails, UpdateStatus, RemoveAsset, AbortCascade

LEMMA ColumnsOtherStep ==
    ASSUME ColumnsInv, NEW r \in Requests, GoodStep(r),
           GraphStep(r) \/ RelStep(r) \/ ImportStep(r)
    PROVE  ColumnsInv'
  <1>1. /\ HandlerInOrder(r) /\ SessionTypeOK
        BY DEF ColumnsInv, ApiInv, TypeOK
  <1>2. call' = call
        BY DEF GraphStep, ReadCache, ReadRoot, ReadRels, ReadNode, WriteCache, RelStep,
           VerifySource, VerifyTarget, Verify, LookupEdge, InsertNewRel, InvalidateGraphs,
           RemoveRel, ImportStep, LookupItems, MergeItem, CreateItem, MapEdges, InsertLink
  <1>3. call[r] \in GraphCall \cup RelateCall \cup UnrelateCall \cup ImportCall
        BY <1>1 DEF GraphStep, ReadCache, ReadRoot, ReadRels, ReadNode, WriteCache, RelStep,
           VerifySource, VerifyTarget, Verify, LookupEdge, InsertNewRel, InvalidateGraphs,
           RemoveRel, ImportStep, LookupItems, MergeItem, CreateItem, MapEdges, InsertLink,
           HandlerInOrder
  <1>4. call[r].op # "update_asset" /\ call[r] # Nil
    <2>1. pc[r] \notin {"idle", "done"} /\ ColumnsInOrder(r)
          BY DEF GraphStep, ReadCache, ReadRoot, ReadRels, ReadNode, WriteCache, RelStep,
             VerifySource, VerifyTarget, Verify, LookupEdge, InsertNewRel, InvalidateGraphs,
             RemoveRel, ImportStep, LookupItems, MergeItem, CreateItem, MapEdges, InsertLink,
             ColumnsInv
    <2> QED BY <1>3, <2>1 DEF GraphCall, RelateCall, UnrelateCall, ImportCall, ColumnsInOrder
  <1>5. CASE \E code : Raise(r, code)
        BY <1>2, <1>5, ColumnsAfterRaise
  <1>6. CASE \/ \E code : Reply(r, code)
             \/ \E label \in {"graph_root", "graph_rels", "graph_nodes", "graph_cache",
                              "rel_target", "rel_lookup", "insert_rel", "invalidate",
                              "import_item", "import_edges", "import_link"} : Goto(r, label)
    <2>1. pc'[r] \notin {"idle", "update_asset", "flush_asset"}
          BY <1>1, <1>6 DEF Reply, Goto, SessionTypeOK
    <2> QED BY <1>2, <1>4, <2>1, ColumnsElsewhere
  <1> QED BY <1>5, <1>6 DEF GraphStep, ReadCache, ReadRoot, ReadRels, ReadNode, WriteCache, RelStep,
             VerifySource, VerifyTarget, Verify, LookupEdge, InsertNewRel, RelInsertFails,
             InvalidateGraphs, RemoveRel, ImportStep, LookupItems, MergeItem, CreateItem, Flushed,
             FlushFails, MapEdges, InsertLink

LEMMA ColumnsNext == ColumnsInv /\ [Next]_vars => ColumnsInv'
  <1> SUFFICES ASSUME ColumnsInv, [Next]_vars PROVE ColumnsInv'
      OBVIOUS
  <1>1. ApiInv /\ ApiInv' /\ SessionTypeOK /\ StoreTypeOK
        BY NextInv DEF ColumnsInv, ApiInv, TypeOK
  <1>2. ASSUME NEW r \in Requests, Arrive(r)
        PROVE  ColumnsInv'
    <2>1. PICK c \in Calls : call'[r] = c /\ pc'[r] = c.op /\ wa' = wa /\ pc[r] = "idle"
          BY <1>1, <1>2 DEF Arrive, Begin, SessionTypeOK, storeVars
    <2>2. c # Nil /\ c.op # "commit"
          BY CallAssumption DEF ApiCalls, CreateCall, UpdateCall, StatusCall, DeleteCall,
             GraphCall, RelateCall, UnrelateCall, ImportCall
    <2>3. ColumnsInOrder(r)'
          BY <2>1, <2>2 DEF ColumnsInOrder, ColumnsInv
    <2> QED BY <1>1, <1>2, <2>3, ArriveGood, ColumnsStep
  <1>3. ASSUME NEW r \in Requests, Serve(r)
        PROVE  ColumnsInv'
    <2>1. CASE Commit(r) /\ UNCHANGED <<cache, graphVars, inval, imp>>
      <3>1. pc'[r] = "done" /\ call' = call
            BY <1>1, <2>1 DEF Commit, SessionTypeOK
      <3> QED BY <1>1, <2>1, <3>1, CommitGood, ColumnsElsewhere
    <2>2. CASE AssetStep(r) /\ UNCHANGED <<cache, graphVars, inval, imp>>
          BY <2>2, ColumnsAssetStep
    <2>3. CASE GraphStep(r) /\ UNCHANGED <<inval, imp>>
          BY <1>1, <2>3, GraphStepGood, ColumnsOtherStep
    <2>4. CASE RelStep(r) /\ UNCHANGED <<graphVars, imp>>
          BY <1>1, <2>4, RelStepGood, ColumnsOtherStep
    <2>5. CASE ImportStep(r) /\ UNCHANGED <<cache, graphVars, inval>>
          BY <1>1, <2>5, ImportStepGood, ColumnsOtherStep
    <2> QED BY <1>3, <2>1, <2>2, <2>3, <2>4, <2>5 DEF Serve
  <1>4. ASSUME NEW r \in Requests, BreakDeadlock(r)
        PROVE  ColumnsInv'
    <2>1. "DeadlockDetected" \in Codes
          BY DEF Codes, Errors
    <2> QED BY <1>1, <1>4, <2>1, RaiseGood, ColumnsAfterRaise DEF BreakDeadlock, DeadlockAbort
  <1>5. ASSUME NEW r \in Requests, LoseConnection(r)
        PROVE  ColumnsInv'
    <2>1. PICK code \in Codes \cup {Nil} : Raise(r, code)
          BY <1>1, <1>5 DEF LoseConnection, Fail, Codes, Errors, SessionTypeOK
    <2> QED BY <1>1, <1>5, <2>1, RaiseGood, ColumnsAfterRaise DEF LoseConnection, Fail
  <1>6. CASE UNCHANGED <<storeVars, call, pc>>
    <2>1. \A r \in Requests : ColumnsInOrder(r)'
          BY <1>6 DEF ColumnsInv, ColumnsInOrder, Op, ChangesOnly, storeVars
    <2> QED BY <1>1, <2>1 DEF ColumnsInv
  <1>7. CASE \/ \E k \in GraphKeys : ExpireGraph(k)
             \/ PassTime \/ UNCHANGED vars
        BY <1>6, <1>7 DEF ExpireGraph, Expire, PassTime, Tick, vars, sessionVars
  <1> QED BY <1>2, <1>3, <1>4, <1>5, <1>7 DEF Next, Idle

(* The commit publishes what was flushed; every other end of a request     *)
(* publishes nothing.                                                      *)
LEMMA CommitPublishes ==
    ASSUME ApiInv, [Next]_vars, NEW r \in Requests, Committing(r)
    PROVE  Commit(r) \/ assets' = assets
  <1>1. SessionTypeOK /\ ApiInv'
        BY NextInv DEF ApiInv, TypeOK
  <1>2. pc'[r] # pc[r] /\ pc[r] = "commit"
        BY DEF Committing
  <1>3. ASSUME NEW s \in Requests, Arrive(s) \/ Serve(s) \/ BreakDeadlock(s) \/ LoseConnection(s)
        PROVE  Commit(r) \/ assets' = assets
    <2>1. CASE Arrive(s) \/ BreakDeadlock(s) \/ LoseConnection(s)
          BY <2>1 DEF Arrive, Begin, BreakDeadlock, DeadlockAbort, LoseConnection, Fail, Raise,
             RollbackWrites, storeVars
    <2>2. CASE Commit(s)
          BY <1>1, <1>2, <2>2 DEF Commit, SessionTypeOK
    <2>3. CASE AssetStep(s) \/ GraphStep(s) \/ RelStep(s) \/ ImportStep(s)
          BY <2>3 DEF AssetStep, CreateAsset, InsertNewAsset, GetAsset, FlushUpdate, FlushAsset,
             FlushFails, UpdateStatus, RemoveAsset, AbortCascade, GraphStep, ReadCache, ReadRoot,
             ReadRels, ReadNode, WriteCache, RelStep, VerifySource, VerifyTarget, Verify,
             LookupEdge, InsertNewRel, RelInsertFails, InvalidateGraphs, RemoveRel, ImportStep,
             LookupItems, MergeItem, CreateItem, MapEdges, InsertLink, Raise, RollbackWrites,
             InsertAsset, UpdateAsset, DeleteAsset, InsertRel, DeleteRel, storeVars
    <2> QED BY <1>3, <2>1, <2>2, <2>3 DEF Serve
  <1>4. CASE (\E k \in GraphKeys : ExpireGraph(k)) \/ PassTime \/ UNCHANGED vars
        BY <1>4 DEF ExpireGraph, Expire, PassTime, Tick, vars, storeVars
  <1> QED BY <1>3, <1>4 DEF Next, Idle

(* However stale the row that a PUT loaded, and whoever commits before it  *)
(* does, the columns its payload does not name are those it replaces.      *)
THEOREM OtherColumnsStay == Spec => UpdateChangesOnlyItsColumns
  <1>1. Init => ColumnsInv
    <2> SUFFICES ASSUME Init PROVE ColumnsInv
        OBVIOUS
    <2>1. \A r \in Requests : ColumnsInOrder(r)
          BY DEF Init, StoreInit, SessionInit, ColumnsInOrder
    <2> QED BY <2>1, InitInv DEF ColumnsInv
  <1>2. ASSUME ColumnsInv, [Next]_vars, NEW r \in Requests, Committing(r), Op(r) = "update_asset"
        PROVE  ChangesOnly(call[r], assets[call[r].asset], assets'[call[r].asset])
    <2>1. ApiInv /\ SessionTypeOK /\ ColumnsInOrder(r) /\ pc[r] = "commit"
          BY <1>2 DEF ColumnsInv, ApiInv, TypeOK, Committing
    <2>2. call[r] \in ApiCalls /\ call[r].op = "update_asset"
          BY <1>2, <2>1, CallAssumption DEF Op, SessionTypeOK, ColumnsInOrder
    <2>3. call[r].asset \in AssetIds
          BY <2>2 DEF ApiCalls, CreateCall, UpdateCall, StatusCall, DeleteCall, GraphCall,
             RelateCall, UnrelateCall, ImportCall
    <2>4. CASE Commit(r)
      <3>1. assets'[call[r].asset] = wa[r][call[r].asset]
            BY <1>2, <2>1, <2>3, <2>4 DEF Commit, CommitWrites, Asset, ColumnsInOrder
      <3> QED BY <1>2, <2>1, <3>1 DEF ColumnsInOrder
    <2>5. CASE assets' = assets
          BY <2>5 DEF ChangesOnly
    <2> QED BY <1>2, <2>1, <2>4, <2>5, CommitPublishes
  <1>3. ColumnsInv /\ [Next]_vars =>
          [\A r \in Requests : Committing(r) /\ Op(r) = "update_asset" =>
              ChangesOnly(call[r], assets[call[r].asset], assets'[call[r].asset])]_vars
        BY <1>2
  <1> QED BY <1>1, <1>3, ColumnsNext, PTL DEF Spec, UpdateChangesOnlyItsColumns

-----------------------------------------------------------------------------
(***************************************************************************)
(* Imports.  Between stage 4, which flushes the assets, and the last row   *)
(* of stage 5 no edge loses an endpoint: what the temporary ids stand for  *)
(* was written by the import itself and is locked until it commits.        *)
(***************************************************************************)

Stages == {"import_item", "import_edges", "import_link"}

(* A step of one request leaves the imports of the others in order.        *)
LEMMA OtherImportsInOrder ==
    ASSUME ImportInv, NEW r \in Requests, GoodStep(r), NEW s \in Requests, s # r
    PROVE  ImportInOrder(s)'
  <1>1. pc'[s] = pc[s] /\ call'[s] = call[s] /\ imp'[s] = imp[s]
        BY DEF GoodStep, OthersStay
  <1>2. wa'[s] = wa[s]
        BY OthersWrite DEF ImportInv, ApiInv, GoodStep
  <1>3. ImportInOrder(s)
        BY DEF ImportInv
  <1>4. Items(s)' = Items(s)
        BY <1>1 DEF Items
  <1>5. \A p : Target(s, p)' = Target(s, p)
        BY <1>4 DEF Target
  <1>6. Valid(s)' = Valid(s)
        BY <1>4 DEF Valid
  <1>7. Candidates(s)' = Candidates(s)
        BY <1>1, <1>5, <1>6 DEF Candidates, LinkSet
  <1> QED BY <1>1, <1>2, <1>3, <1>4, <1>6, <1>7 DEF ImportInOrder

(* A step that leads to no await of stages 4 and 5.                        *)
LEMMA NoStage ==
    ASSUME ImportInv, NEW r \in Requests, GoodStep(r), pc'[r] \notin Stages
    PROVE  ImportInv'
  <1>1. ImportInOrder(r)'
        BY DEF ImportInOrder, Stages
  <1> QED BY <1>1, OtherImportsInOrder, GoodStepInv DEF ImportInv

(* A handler that raises or returns leads to none.                         *)
LEMMA EndsNoStage ==
    ASSUME ApiInv, NEW r \in Requests, NEW code, Raise(r, code) \/ Reply(r, code)
    PROVE  pc'[r] \notin Stages
  BY DEF Raise, Reply, Stages, ApiInv, TypeOK, SessionTypeOK

LEMMA AssetStepNoStage ==
    ASSUME ApiInv, NEW r \in Requests, AssetStep(r)
    PROVE  pc'[r] \notin Stages
  <1>1. \/ \E code : Raise(r, code) \/ Reply(r, code)
        \/ Goto(r, "insert_asset") \/ Goto(r, "flush_asset")
        BY DEF AssetStep, CreateAsset, InsertNewAsset, GetAsset, FlushUpdate, UpdateStatus,
           RemoveAsset, AbortCascade, FlushFails
  <1> QED BY <1>1, EndsNoStage DEF Goto, Stages, ApiInv, TypeOK, SessionTypeOK

LEMMA RelStepNoStage ==
    ASSUME ApiInv, NEW r \in Requests, RelStep(r)
    PROVE  pc'[r] \notin Stages
  <1>1. \/ \E code : Raise(r, code) \/ Reply(r, code)
        \/ \E label \in {"rel_target", "rel_lookup", "insert_rel", "invalidate"} : Goto(r, label)
        BY DEF RelStep, VerifySource, VerifyTarget, Verify, LookupEdge, InsertNewRel,
           RelInsertFails, InvalidateGraphs, RemoveRel
  <1> QED BY <1>1, EndsNoStage DEF Goto, Stages, ApiInv, TypeOK, SessionTypeOK

LEMMA GraphStepNoStage ==
    ASSUME ApiInv, NEW r \in Requests, GraphStep(r)
    PROVE  pc'[r] \notin Stages
  <1>1. \/ \E code : Raise(r, code) \/ Reply(r, code)
        \/ \E label \in {"graph_root", "graph_rels", "graph_nodes", "graph_cache"} : Goto(r, label)
        BY DEF GraphStep, ReadCache, ReadRoot, ReadRels, ReadNode, WriteCache
  <1> QED BY <1>1, EndsNoStage DEF Goto, Stages, ApiInv, TypeOK, SessionTypeOK

-----------------------------------------------------------------------------
(* The steps of the import.                                                *)

(* Stage 4 flushes item i as asset a: its temporary id stands for a row    *)
(* that the import wrote, as those of the items before it do.              *)
LEMMA FlushedInOrder ==
    ASSUME ImportInv, NEW r \in Requests, pc[r] = "import_item", call[r] \in ImportCall,
           UNCHANGED call, NEW i \in Valid(r), NEW a \in AssetIds, NEW row,
           NEW written \in AssetRow, wa' = [wa EXCEPT ![r][a] = written],
           Flushed(r, i, a, row)
    PROVE  ImportInOrder(r)'
  <1> DEFINE id  == Items(r)[i].id
             tmp == [imp[r].tmp EXCEPT ![id] = a]
  <1>1. /\ ImportInOrder(r) /\ imp[r] \in Locals /\ imp \in [Requests -> Locals]
        /\ wa[r] \in [AssetIds -> AssetCell] /\ wa \in [Requests -> [AssetIds -> AssetCell]]
        /\ pc \in [Requests -> Labels]
        BY DEF ImportInv, ApiInv, TypeOK, ImportTypeOK, StoreTypeOK, SessionTypeOK
  <1>2. id \in TempIds /\ \A j \in Valid(r) : Items(r)[j].id \in TempIds
        BY BatchFacts DEF Item
  <1>3. imp'[r].tmp = tmp /\ imp'[r].left = imp[r].left \ {i}
        BY <1>1 DEF Flushed, Locals
  <1>4. tmp[id] = a /\ \A t \in TempIds \ {id} : tmp[t] = imp[r].tmp[t]
        BY <1>1, <1>2 DEF Locals
  <1>5. wa'[r][a] = written /\ \A b \in AssetIds \ {a} : wa'[r][b] = wa[r][b]
        BY <1>1
  <1>6. IsRow(written) /\ a # Nil
        BY NilAssumption DEF IsRow
  <1> HIDE DEF tmp, id
  <1>7. ASSUME NEW t \in TempIds, tmp[t] # Nil
        PROVE  IsRow(wa'[r][tmp[t]])
    <2>1. CASE tmp[t] = a
          BY <1>5, <1>6, <2>1
    <2>2. CASE tmp[t] # a
      <3>1. tmp[t] = imp[r].tmp[t] /\ tmp[t] \in AssetIds
            BY <1>1, <1>4, <1>7, <2>2 DEF Locals
      <3> QED BY <1>1, <1>5, <1>7, <2>2, <3>1 DEF ImportInOrder
    <2> QED BY <2>1, <2>2
  <1>8. ASSUME NEW j \in Valid(r) \ imp'[r].left
        PROVE  tmp[Items(r)[j].id] # Nil
    <2>1. CASE Items(r)[j].id = id
          BY <1>4, <1>6, <2>1
    <2>2. CASE Items(r)[j].id # id
      <3>1. j # i
            BY <2>2 DEF id
      <3>2. tmp[Items(r)[j].id] = imp[r].tmp[Items(r)[j].id]
            BY <1>2, <1>4, <2>2
      <3> QED BY <1>1, <1>3, <3>1, <3>2 DEF ImportInOrder
    <2> QED BY <2>1, <2>2
  <1>9. pc'[r] = IF imp[r].left = {i} THEN "import_edges" ELSE "import_item"
        BY <1>1 DEF Flushed, Goto
  <1>10. pc'[r] # "import_item" => imp'[r].left = {}
        BY <1>3, <1>9
  <1>11. call'[r] = call[r] /\ Valid(r)' = Valid(r) /\ Items(r)' = Items(r)
        BY DEF Valid, Items
  <1> QED BY <1>3, <1>7, <1>8, <1>9, <1>10, <1>11 DEF ImportInOrder

LEMMA ImportStepInOrder ==
    ASSUME ImportInv, NEW r \in Requests, ImportStep(r), UNCHANGED <<cache, graphVars, inval>>
    PROVE  ImportInv'
  <1>1. GoodStep(r)
        BY ImportStepGood DEF ImportInv
  <1>2. /\ ApiInv /\ HandlerInOrder(r) /\ ImportInOrder(r)
        /\ StoreTypeOK /\ SessionTypeOK /\ ImportTypeOK
        BY DEF ImportInv, ApiInv, TypeOK
  <1>3. call[r] \in ImportCall /\ UNCHANGED call
        BY <1>2 DEF ImportStep, LookupItems, MergeItem, CreateItem, MapEdges, InsertLink,
           HandlerInOrder
  <1>4. ImportInOrder(r)' => ImportInv'
        BY <1>1, OtherImportsInOrder, GoodStepInv DEF ImportInv
  <1>5. /\ LinkSet(r)' = LinkSet(r) /\ Valid(r)' = Valid(r) /\ Items(r)' = Items(r)
        /\ imp'[r].tmp = imp[r].tmp => Candidates(r)' = Candidates(r)
        BY <1>3 DEF Candidates, LinkSet, Valid, Items, Target
  <1>6. CASE \E code : Raise(r, code) \/ Reply(r, code)
        BY <1>1, <1>2, <1>6, EndsNoStage, NoStage
  <1>7. CASE LookupItems(r)
    <2>1. SUFFICES ASSUME imp' = [imp EXCEPT ![r] = StartOf(Valid(r))], Goto(r, "import_item")
                   PROVE  ImportInOrder(r)'
          BY <1>4, <1>6, <1>7 DEF LookupItems
    <2>2. imp'[r] = StartOf(Valid(r)) /\ pc'[r] = "import_item"
          BY <1>2, <2>1 DEF Goto, SessionTypeOK, ImportTypeOK
    <2> QED BY <1>5, <2>2 DEF ImportInOrder, StartOf
  <1>8. CASE MergeItem(r)
    <2>1. PICK i \in Valid(r), a \in AssetIds :
             /\ a \in Existing(r, KeyOf(Items(r)[i]))
             /\ \/ /\ FlushAsset(r, a, Merged(Items(r)[i], orm[r][a], now[r]))
                   /\ Flushed(r, i, a, Merged(Items(r)[i], orm[r][a], now[r]))
                \/ FlushFails(r, a)
          BY <1>8 DEF MergeItem, Existing
    <2>2. CASE FlushFails(r, a)
          BY <1>6, <2>2 DEF FlushFails
    <2> DEFINE row     == Merged(Items(r)[i], orm[r][a], now[r])
               written == DirtyColumns(row, orm[r][a], Asset(r, a))
    <2>3. CASE FlushAsset(r, a, row) /\ Flushed(r, i, a, row)
      <3>1. orm[r][a] \in AssetRow
            BY <1>2, <2>1 DEF Existing, SessionTypeOK
      <3>2. row \in AssetRow
            BY <1>2, <1>3, <3>1, BatchFacts, MergedRow DEF SessionTypeOK
      <3>3. Asset(r, a) \in AssetRow
            BY <1>2, <2>3 DEF FlushAsset, UpdateAsset, AssetRows, IsRow, Asset, AssetCell,
               StoreTypeOK
      <3>4. wa' = [wa EXCEPT ![r][a] = written]
            BY <2>3 DEF FlushAsset, UpdateAsset
      <3>5. pc[r] = "import_item"
            BY <1>8 DEF MergeItem
      <3> HIDE DEF row
      <3>6. written \in AssetRow
            BY <3>1, <3>2, <3>3, DirtyColumnsFit
      <3> HIDE DEF written
      <3> QED BY <1>3, <1>4, <2>3, <3>4, <3>5, <3>6, FlushedInOrder
    <2> QED BY <2>1, <2>2, <2>3
  <1>9. CASE CreateItem(r)
    <2>1. PICK i \in Valid(r) :
             LET row == Created(call[r].tenant, Items(r)[i], now[r]) IN
             \/ \E a \in AssetIds : InsertAsset(r, a, row) /\ Flushed(r, i, a, row)
             \/ Raise(r, "IntegrityError")
          BY <1>9 DEF CreateItem
    <2>2. CASE Raise(r, "IntegrityError")
          BY <1>6, <2>2
    <2> DEFINE row == Created(call[r].tenant, Items(r)[i], now[r])
    <2>3. ASSUME NEW a \in AssetIds, InsertAsset(r, a, row), Flushed(r, i, a, row)
          PROVE  ImportInv'
      <3>1. row \in AssetRow
            BY <1>2, <1>3, BatchFacts, CreatedRow DEF SessionTypeOK
      <3>2. wa' = [wa EXCEPT ![r][a] = row] /\ pc[r] = "import_item"
            BY <1>9, <2>3 DEF InsertAsset, CreateItem
      <3> HIDE DEF row
      <3> QED BY <1>3, <1>4, <2>3, <3>1, <3>2, FlushedInOrder
    <2> QED BY <2>1, <2>2, <2>3
  <1>10. CASE MapEdges(r)
    <2> DEFINE new == {p \in Candidates(r) : ~ EdgeExists(r, EdgeAt(r, p))}
    <2>1. SUFFICES ASSUME Goto(r, "import_link") PROVE ImportInOrder(r)'
          BY <1>4, <1>6, <1>10 DEF MapEdges
    <2>2. /\ imp'[r].tmp = imp[r].tmp /\ imp'[r].left = imp[r].left /\ imp'[r].edges = new
          /\ wa' = wa /\ pc[r] = "import_edges" /\ pc'[r] = "import_link"
          BY <1>2, <1>10, <2>1 DEF MapEdges, Goto, ImportTypeOK, SessionTypeOK, Locals, storeVars
    <2> HIDE DEF new
    <2>3. new \subseteq Candidates(r)
          BY DEF new
    <2> QED BY <1>2, <1>5, <2>2, <2>3 DEF ImportInOrder
  <1>11. CASE InsertLink(r)
    <2>1. SUFFICES ASSUME NEW p, imp' = [imp EXCEPT ![r].edges = @ \ {p}],
                          NEW x \in RelIds, InsertRel(r, x, EdgeAt(r, p)),
                          Goto(r, "import_link")
                   PROVE  ImportInOrder(r)'
          BY <1>4, <1>6, <1>11 DEF InsertLink
    <2>2. /\ imp'[r].tmp = imp[r].tmp /\ imp'[r].left = imp[r].left
          /\ imp'[r].edges \subseteq imp[r].edges
          /\ wa' = wa /\ pc[r] = "import_link" /\ pc'[r] = "import_link"
          BY <1>2, <1>11, <2>1 DEF InsertLink, InsertRel, Goto, ImportTypeOK, SessionTypeOK, Locals
    <2> QED BY <1>2, <1>5, <2>2 DEF ImportInOrder
  <1> QED BY <1>7, <1>8, <1>9, <1>10, <1>11 DEF ImportStep

-----------------------------------------------------------------------------
(* The service.                                                            *)

(* A step in which no request moves.                                       *)
LEMMA QuietImports ==
    ASSUME ImportInv, ApiInv', UNCHANGED <<storeVars, call, pc, imp>>
    PROVE  ImportInv'
  <1>1. SUFFICES ASSUME NEW r \in Requests
                 PROVE  ImportInOrder(r)'
        BY DEF ImportInv
  <1>2. /\ pc' = pc /\ call' = call /\ imp' = imp /\ wa' = wa
        /\ ImportInOrder(r)
        BY DEF ImportInv, storeVars
  <1>3. Items(r)' = Items(r)
        BY <1>2 DEF Items
  <1>4. \A p : Target(r, p)' = Target(r, p)
        BY <1>3 DEF Target
  <1>5. Valid(r)' = Valid(r)
        BY <1>3 DEF Valid
  <1>6. Candidates(r)' = Candidates(r)
        BY <1>2, <1>4, <1>5 DEF Candidates, LinkSet
  <1> QED BY <1>2, <1>3, <1>5, <1>6 DEF ImportInOrder

LEMMA ImportNextInv == ImportInv /\ [Next]_vars => ImportInv'
  <1> SUFFICES ASSUME ImportInv, [Next]_vars PROVE ImportInv'
      OBVIOUS
  <1>1. ApiInv /\ ApiInv' /\ SessionTypeOK
        BY NextInv DEF ImportInv, ApiInv, TypeOK
  <1>2. ASSUME NEW r \in Requests, Arrive(r)
        PROVE  ImportInv'
    <2>1. PICK c \in Calls : pc'[r] = c.op
          BY <1>1, <1>2 DEF Arrive, Begin, SessionTypeOK
    <2>2. c.op \notin Stages
          BY CallAssumption DEF Stages, ApiCalls, CreateCall, UpdateCall, StatusCall, DeleteCall,
             GraphCall, RelateCall, UnrelateCall, ImportCall
    <2> QED BY <1>1, <1>2, <2>1, <2>2, ArriveGood, NoStage
  <1>3. ASSUME NEW r \in Requests, Serve(r)
        PROVE  ImportInv'
    <2>1. CASE Commit(r) /\ UNCHANGED <<cache, graphVars, inval, imp>>
      <3>1. pc'[r] \notin Stages
            BY <1>1, <2>1 DEF Commit, Stages, SessionTypeOK
      <3> QED BY <1>1, <2>1, <3>1, CommitGood, NoStage
    <2>2. CASE AssetStep(r) /\ UNCHANGED <<cache, graphVars, inval, imp>>
          BY <1>1, <2>2, AssetStepGood, AssetStepNoStage, NoStage
    <2>3. CASE GraphStep(r) /\ UNCHANGED <<inval, imp>>
          BY <1>1, <2>3, GraphStepGood, GraphStepNoStage, NoStage
    <2>4. CASE RelStep(r) /\ UNCHANGED <<graphVars, imp>>
          BY <1>1, <2>4, RelStepGood, RelStepNoStage, NoStage
    <2>5. CASE ImportStep(r) /\ UNCHANGED <<cache, graphVars, inval>>
          BY <2>5, ImportStepInOrder
    <2> QED BY <1>3, <2>1, <2>2, <2>3, <2>4, <2>5 DEF Serve
  <1>4. ASSUME NEW r \in Requests, BreakDeadlock(r)
        PROVE  ImportInv'
    <2>1. "DeadlockDetected" \in Codes
          BY DEF Codes, Errors
    <2> QED BY <1>1, <1>4, <2>1, RaiseGood, EndsNoStage, NoStage DEF BreakDeadlock, DeadlockAbort
  <1>5. ASSUME NEW r \in Requests, LoseConnection(r)
        PROVE  ImportInv'
    <2>1. PICK code : code = IF Answered(r) THEN resp[r] ELSE "OperationalError"
          OBVIOUS
    <2>2. code \in Codes \cup {Nil}
          BY <1>1, <2>1 DEF Codes, Errors, SessionTypeOK
    <2>3. Raise(r, code) /\ UNCHANGED <<call, clock, cache, graphVars, inval, imp, orm, now>>
          BY <1>5, <2>1 DEF LoseConnection, Fail
    <2> QED BY <1>1, <2>2, <2>3, RaiseGood, EndsNoStage, NoStage
  <1>6. ASSUME NEW k \in GraphKeys, ExpireGraph(k)
        PROVE  ImportInv'
        BY <1>1, <1>6, QuietImports DEF ExpireGraph, Expire, sessionVars
  <1>7. CASE PassTime
        BY <1>1, <1>7, QuietImports DEF PassTime, Tick
  <1>8. CASE UNCHANGED vars
        BY <1>1, <1>8, QuietImports DEF vars, sessionVars
  <1> QED BY <1>2, <1>3, <1>4, <1>5, <1>6, <1>7, <1>8 DEF Next, Idle

(* From the mapping of the links to the flush of the last edge, no         *)
(* deletion can take an endpoint away, so no edge of an import fails on a  *)
(* foreign key (import_pipeline.py:101,168).                               *)
THEOREM EndpointsAreHeld == Spec => []LinkEndpointsHeld
  <1>1. Init => ImportInv
    <2> SUFFICES ASSUME Init PROVE ImportInv
        OBVIOUS
    <2>1. \A r \in Requests : ImportInOrder(r)
          BY DEF Init, SessionInit, ImportInOrder
    <2> QED BY <2>1, InitInv DEF ImportInv
  <1>2. ImportInv => LinkEndpointsHeld
    <2> SUFFICES ASSUME ImportInv, NEW r \in Requests, pc[r] = "import_link",
                        NEW p \in imp[r].edges
                 PROVE  EndpointsExist(r, EdgeAt(r, p))
        BY DEF LinkEndpointsHeld
    <2>1. ImportInOrder(r) /\ call[r] \in ImportCall /\ imp[r] \in Locals
          BY DEF ImportInv, ApiInv, HandlerInOrder, TypeOK, ImportTypeOK
    <2>2. p \in LinkSet(r) /\ imp[r].tmp[Target(r, p)] # Nil
          BY <2>1 DEF ImportInOrder, Candidates
    <2>3. /\ p[1] \in Valid(r) /\ Target(r, p) \in TempIds
          /\ Items(r)[p[1]].id \in TempIds
          BY <2>1, <2>2, BatchFacts DEF Item
    <2>4. imp[r].tmp[Items(r)[p[1]].id] # Nil
          BY <2>1, <2>3 DEF ImportInOrder
    <2>5. \A t \in TempIds : imp[r].tmp[t] # Nil =>
              imp[r].tmp[t] \in AssetIds /\ IsRow(Asset(r, imp[r].tmp[t]))
          BY <2>1 DEF ImportInOrder, Locals, Asset, IsRow
    <2> QED BY <2>2, <2>3, <2>4, <2>5 DEF EndpointsExist, EdgeAt, AssetRows
  <1> QED BY <1>1, <1>2, ImportNextInv, PTL DEF Spec

=============================================================================
