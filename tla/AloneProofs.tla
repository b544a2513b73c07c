----------------------------- MODULE AloneProofs -----------------------------
(***************************************************************************)
(* What the service promises a client that is served alone.  No other      *)
(* request writes or holds anything then, so what a handler has looked up  *)
(* is still so when it acts on it, however many awaits later.              *)
(***************************************************************************)
EXTENDS PromiseProofs

(* Requests are served one after the other.                                *)
OneClient == MaxInFlight = 1 /\ AnswerFirst = FALSE

OnlyOne == \A r, s \in InFlight : r = s

Quiet == \A r \in Requests : pc[r] \in {"idle", "done"} => NothingWritten(r)

AloneInv == EffectInv /\ OnlyOne /\ Quiet

(* A step that the request in flight takes no notice of.                   *)
Still(r) ==
    /\ pc'[r] = pc[r] /\ call'[r] = call[r] /\ resp'[r] = resp[r]
    /\ UNCHANGED <<storeVars, orm, now, graphVars, inval, imp>>

LEMMA AloneFacts ==
    ASSUME AloneInv
    PROVE  /\ ApiInv /\ StoreInv /\ StoreTypeOK /\ SessionTypeOK /\ ImportTypeOK
           /\ \A r \in Requests : HandlerInOrder(r) /\ EffectInOrder(r) /\ ImportInOrder(r)
  BY DEF AloneInv, EffectInv, ImportInv, ApiInv, TypeOK

(* A request arrives when no other is in flight.                           *)
LEMMA ArrivesAlone ==
    ASSUME OneClient, OnlyOne, NEW r \in Requests, Arrive(r)
    PROVE  InFlight = {}
  <1> SUFFICES ASSUME NEW s \in InFlight
               PROVE  FALSE
      OBVIOUS
  <1>1. Waiting = {s}
        BY DEF OneClient, OnlyOne, Waiting, Answered, InFlight
  <1>2. Cardinality(Waiting) = 1
        BY <1>1, FS_Singleton
  <1> QED BY <1>2 DEF OneClient, Arrive, Begin

(* Stage 5 works on edges between assets.                                  *)
LEMMA EdgesAreTyped ==
    ASSUME EffectInv, NEW r \in Requests, pc[r] = "import_link", NEW p \in imp[r].edges,
           NEW rel, rel = EdgeAt(r, p)
    PROVE  /\ p \in Candidates(r) /\ p[1] \in Valid(r) /\ p[2] \in Links
           /\ rel.src \in AssetIds /\ IsRow(wa[r][rel.src])
           /\ rel.dst \in AssetIds /\ IsRow(wa[r][rel.dst])
  <1>1. /\ ImportInOrder(r) /\ imp[r] \in Locals /\ call[r] \in ImportCall
        BY DEF EffectInv, ImportInv, ApiInv, TypeOK, ImportTypeOK, HandlerInOrder
  <1>2. p \in Candidates(r) /\ imp[r].left = {}
        BY <1>1 DEF ImportInOrder
  <1>3. PICK i, from, to : i = p[1] /\ from = Items(r)[i].id /\ to = Target(r, p)
        OBVIOUS
  <1>4. /\ rel.src = imp[r].tmp[from] /\ rel.dst = imp[r].tmp[to]
        BY <1>3 DEF EdgeAt
  <1>5. /\ i \in Valid(r) /\ p[2] \in Links /\ to \in TempIds /\ imp[r].tmp[to] # Nil
        BY <1>1, <1>2, <1>3, BatchFacts DEF Candidates
  <1>6. from \in TempIds
        BY <1>1, <1>3, <1>5, BatchFacts DEF Item
  <1>7. imp[r].tmp[from] # Nil
        BY <1>1, <1>2, <1>3, <1>5 DEF ImportInOrder
  <1>8. imp[r].tmp[from] \in AssetIds /\ imp[r].tmp[to] \in AssetIds
        BY <1>1, <1>5, <1>6, <1>7 DEF Locals
  <1> QED BY <1>1, <1>2, <1>3, <1>4, <1>5, <1>6, <1>7, <1>8 DEF ImportInOrder

(* Nobody waits for anybody.                                               *)
LEMMA NoDeadlock ==
    ASSUME AloneInv, NEW r \in Requests
    PROVE  ~ Deadlocked(r)
  <1> SUFFICES ASSUME Deadlocked(r)
               PROVE  FALSE
      OBVIOUS
  <1>1. PICK S \in SUBSET Requests : r \in S /\ \E t \in S : r \in Blockers(t)
        BY DEF Deadlocked
  <1>2. PICK t \in S : r \in Blockers(t)
        BY <1>1
  <1>3. pc[t] \in {"import_item", "import_link"}
        BY <1>2 DEF Blockers
  <1>4. r # t /\ ~ NothingWritten(r)
    <2>1. CASE pc[t] = "import_item" /\ r \in ItemBlockers(t)
          BY <2>1 DEF ItemBlockers, KeyHolders, RowHolders, Existing, Others, NothingWritten, WritesOnly
    <2>2. CASE pc[t] = "import_link" /\ r \in LinkBlockers(t)
      <3>1. PICK p \in imp[t].edges : r \in RelInsertHolders(t, EdgeAt(t, p))
            BY <2>2 DEF LinkBlockers
      <3>2. PICK rel : rel = EdgeAt(t, p)
            OBVIOUS
      <3>3. rel.src \in AssetIds /\ rel.dst \in AssetIds
            BY <1>1, <2>2, <3>2, EdgesAreTyped DEF AloneInv
      <3> QED BY <3>1, <3>2, <3>3, NilAssumption DEF RelInsertHolders, EdgeHolders, DeleteHolders,
             Others, NothingWritten, WritesOnly
    <2> QED BY <1>2, <1>3, <2>1, <2>2 DEF Blockers
  <1>5. t \in InFlight /\ r \in InFlight
        BY <1>1, <1>3, <1>4 DEF AloneInv, Quiet, InFlight
  <1> QED BY <1>4, <1>5 DEF AloneInv, OnlyOne

(* The request in flight steps, or nothing happens to it; a request that   *)
(* is not in flight stays out of it or arrives.                            *)
LEMMA AloneStep ==
    ASSUME OneClient, AloneInv, [Next]_vars, NEW s \in Requests
    PROVE  \/ s \in InFlight /\ (Handles(s) \/ Still(s))
           \/ s \in InFlight /\ UNCHANGED call /\ (Commit(s) \/ LoseConnection(s))
           \/ /\ s \notin InFlight /\ Arrive(s)
              /\ \E c \in Calls : pc' = [pc EXCEPT ![s] = c.op]
           \/ s \notin InFlight /\ pc'[s] = pc[s] /\ resp'[s] = resp[s] /\ Held(s)
  <1>1. SessionTypeOK /\ StoreInv /\ ApiInv /\ EffectInv /\ OnlyOne
        BY AloneFacts DEF AloneInv
  <1>2. ASSUME NEW r \in Requests, Arrive(r)
        PROVE  \/ s \notin InFlight /\ Arrive(s) /\ \E c \in Calls : pc' = [pc EXCEPT ![s] = c.op]
               \/ s \notin InFlight /\ pc'[s] = pc[s] /\ resp'[s] = resp[s] /\ Held(s)
    <2>1. InFlight = {}
          BY <1>1, <1>2, ArrivesAlone
    <2>2. PICK c \in Calls : pc' = [pc EXCEPT ![r] = c.op]
          BY <1>2 DEF Arrive, Begin
    <2>3. resp' = resp /\ Held(s)
          BY <1>2 DEF Arrive, Begin, storeVars, Held
    <2> QED BY <1>1, <1>2, <2>1, <2>2, <2>3 DEF SessionTypeOK, InFlight
  <1>3. ASSUME NEW r \in Requests, r \in InFlight, r # s,
               StoreStep(r), pc'[s] = pc[s] /\ resp'[s] = resp[s]
        PROVE  s \notin InFlight /\ pc'[s] = pc[s] /\ resp'[s] = resp[s] /\ Held(s)
    <2>1. s \notin InFlight
          BY <1>1, <1>3 DEF OnlyOne
    <2> QED BY <1>1, <1>3, <2>1, OthersHeld DEF InFlight
  <1>4. ASSUME NEW r \in Requests, Handles(r)
        PROVE  /\ r \in InFlight /\ StoreStep(r)
               /\ r # s => pc'[s] = pc[s] /\ resp'[s] = resp[s]
    <2>1. GoodStep(r) /\ Advances(r)
          BY <1>1, <1>4, HandlesGood
    <2> QED BY <2>1 DEF GoodStep, OthersStay, Advances, Alone, InFlight
  <1>5. ASSUME NEW r \in Requests, Commit(r)
        PROVE  /\ r \in InFlight /\ UNCHANGED call /\ StoreStep(r)
               /\ r # s => pc'[s] = pc[s] /\ resp'[s] = resp[s]
        BY <1>1, <1>5 DEF Commit, InFlight, SessionTypeOK, StoreStep
  <1>6. ASSUME NEW r \in Requests, LoseConnection(r)
        PROVE  /\ r \in InFlight /\ UNCHANGED call /\ StoreStep(r)
               /\ r # s => pc'[s] = pc[s] /\ resp'[s] = resp[s]
    <2>1. /\ r \in InFlight /\ UNCHANGED call
          /\ \E code : Raise(r, code)
          BY <1>6 DEF LoseConnection, Fail
    <2> QED BY <1>1, <2>1 DEF Raise, SessionTypeOK, StoreStep
  <1>7. ASSUME Still(s)
        PROVE  \/ s \in InFlight /\ Still(s)
               \/ s \notin InFlight /\ pc'[s] = pc[s] /\ resp'[s] = resp[s] /\ Held(s)
        BY <1>7 DEF Still, InFlight, storeVars, Held
  <1>8. ASSUME NEW k \in GraphKeys, ExpireGraph(k)
        PROVE  Still(s)
        BY <1>8 DEF ExpireGraph, Expire, Still, sessionVars
  <1>9. CASE PassTime
        BY <1>7, <1>9 DEF PassTime, Tick, Still
  <1>10. CASE UNCHANGED vars
         BY <1>7, <1>10 DEF vars, sessionVars, Still
  <1> QED BY <1>2, <1>3, <1>4, <1>5, <1>6, <1>7, <1>8, <1>9, <1>10 DEF Next, Idle, Serve, Handles

(* Served one after the other, the requests stay so.                       *)
LEMMA AloneNextInv ==
    ASSUME OneClient, AloneInv, EffectInv', [Next]_vars
    PROVE  AloneInv'
  <1>1. /\ SessionTypeOK /\ StoreInv /\ ApiInv /\ EffectInv /\ OnlyOne /\ Quiet
        BY AloneFacts DEF AloneInv
  <1>2. OnlyOne'
    <2> SUFFICES ASSUME NEW r \in Requests, NEW s \in Requests, r # s,
                        pc'[r] \notin {"idle", "done"}, pc'[s] \notin {"idle", "done"}
                 PROVE  FALSE
        BY DEF OnlyOne, InFlight
    <2>1. ASSUME NEW t \in Requests, NEW u \in Requests, t # u, Arrive(t),
                 pc'[u] \notin {"idle", "done"}
          PROVE  FALSE
      <3>1. u \notin InFlight
            BY <1>1, <2>1, ArrivesAlone
      <3>2. pc'[u] = pc[u]
            BY <1>1, <2>1 DEF Arrive, Begin, SessionTypeOK
      <3> QED BY <2>1, <3>1, <3>2 DEF InFlight
    <2>2. r \in InFlight /\ s \in InFlight
          BY <2>1, AloneStep DEF InFlight
    <2> QED BY <1>1, <2>2 DEF OnlyOne
  <1>3. ASSUME NEW s \in Requests, pc'[s] \in {"idle", "done"}
        PROVE  NothingWritten(s)'
    <2>1. ASSUME RollbackWrites(s) \/ CommitWrites(s)
          PROVE  NothingWritten(s)'
          BY <1>1, <2>1 DEF RollbackWrites, CommitWrites, ForgetWrites, StoreInv, StoreTypeOK,
             NothingWritten, WritesOnly
    <2>2. CASE Handles(s)
      <3>1. Refuses(s) \/ Proceeds(s)
            BY <1>1, <2>2, HandlesGood DEF Advances
      <3> QED BY <1>3, <2>1, <3>1 DEF Refuses, Proceeds, Raise
    <2>3. CASE LoseConnection(s) \/ Commit(s)
          BY <2>1, <2>3 DEF LoseConnection, Fail, Raise, Commit
    <2>4. CASE s \in InFlight /\ Still(s)
          BY <1>3, <2>4 DEF Still, InFlight
    <2>5. CASE Arrive(s)
          BY <1>1, <2>5 DEF Arrive, Begin, storeVars, Quiet, NothingWritten, WritesOnly
    <2>6. CASE s \notin InFlight /\ Held(s)
          BY <1>1, <2>6 DEF InFlight, Quiet, Held, NothingWritten, WritesOnly
    <2> QED BY <2>2, <2>3, <2>4, <2>5, <2>6, AloneStep
  <1> QED BY <1>2, <1>3 DEF AloneInv, Quiet

LEMMA AloneInitInv == Init => AloneInv
  BY EffectInitInv DEF Init, SessionInit, StoreInit, AloneInv, OnlyOne, Quiet, InFlight,
     NothingWritten, WritesOnly

(* Served one at a time, the requests stay one at a time.                  *)
LEMMA ServedAlone ==
    ASSUME OneClient
    PROVE  Spec => []AloneInv
  <1>1. OneClient
        OBVIOUS
  <1>2. AloneInv /\ EffectInv' /\ [Next]_vars => AloneInv'
        BY <1>1, AloneNextInv
  <1> QED BY <1>2, AloneInitInv, EffectsAreWritten, PTL DEF Spec

-----------------------------------------------------------------------------
(* What a handler has looked up is still so.                               *)

LookupsHold(r) ==
    /\ pc[r] = "insert_asset" => AssetsByKey(r, call[r].tenant, {call[r].key}) = {}
    /\ pc[r] = "flush_asset" =>
           /\ HasAsset(r, call[r].tenant, call[r].asset)
           /\ orm[r][call[r].asset] = Asset(r, call[r].asset)
    /\ pc[r] \in {"rel_target", "rel_lookup", "insert_rel"} =>
           HasAsset(r, call[r].tenant, call[r].src)
    /\ pc[r] \in {"rel_lookup", "insert_rel"} => HasAsset(r, call[r].tenant, call[r].dst)
    /\ pc[r] = "insert_rel" => ~ EdgeExists(r, NewRel(call[r]))
    /\ pc[r] = "import_item" =>
           /\ \A a \in AssetIds : orm[r][a] # Nil =>
                  a \in AssetRows(r) /\ orm[r][a] = Asset(r, a)
           /\ \A a \in AssetIds, i \in Valid(r) :
                  HasAsset(r, call[r].tenant, a) /\ Asset(r, a).key = KeyOf(Items(r)[i])
                  => orm[r][a] # Nil

LookedUp ==
    {"insert_asset", "flush_asset", "rel_target", "rel_lookup", "insert_rel", "import_item"}

LEMMA NotLookedUp ==
    ASSUME NEW r \in Requests, pc'[r] \notin LookedUp
    PROVE  LookupsHold(r)'
  BY DEF LookupsHold, LookedUp

LEMMA StillHolds ==
    ASSUME NEW r \in Requests, LookupsHold(r), Still(r)
    PROVE  LookupsHold(r)'
  BY DEF LookupsHold, Still, storeVars, AssetsByKey, HasAsset, AssetRows, Asset, EdgeExists,
     RelRows, Rel, NewRel, Valid, Items

LEMMA AssetStepHolds ==
    ASSUME AloneInv, NEW r \in Requests, AssetStep(r)
    PROVE  LookupsHold(r)'
  <1>1. SessionTypeOK /\ UNCHANGED call
        BY AloneFacts, AssetStepFacts DEF AloneInv
  <1>2. ASSUME NEW code, Reply(r, code) \/ Raise(r, code)
        PROVE  LookupsHold(r)'
        BY <1>1, <1>2, NotLookedUp DEF Reply, Raise, SessionTypeOK, LookedUp
  <1>3. ASSUME Goto(r, "insert_asset"), CreateAsset(r)
        PROVE  LookupsHold(r)'
    <2>1. pc'[r] = "insert_asset"
          BY <1>1, <1>3 DEF Goto, SessionTypeOK
    <2>2. /\ UNCHANGED storeVars
          /\ AssetsByKey(r, call[r].tenant, {call[r].key}) = {}
          BY <1>1, <1>3, <2>1 DEF CreateAsset, Raise, SessionTypeOK
    <2>3. AssetsByKey(r, call[r].tenant, {call[r].key})' = {}
          BY <1>1, <2>2 DEF AssetsByKey, HasAsset, AssetRows, Asset, storeVars
    <2> QED BY <2>1, <2>3 DEF LookupsHold
  <1>4. ASSUME Goto(r, "flush_asset"), GetAsset(r)
        PROVE  LookupsHold(r)'
    <2>1. pc'[r] = "flush_asset"
          BY <1>1, <1>4 DEF Goto, SessionTypeOK
    <2>2. PICK a, t : a = call[r].asset /\ t = call[r].tenant
          OBVIOUS
    <2>3. /\ UNCHANGED storeVars /\ HasAsset(r, t, a)
          /\ orm' = [orm EXCEPT ![r][a] = Asset(r, a)]
          BY <1>1, <1>4, <2>1, <2>2 DEF GetAsset, Raise, SessionTypeOK
    <2>4. a \in AssetIds
          BY <2>3 DEF HasAsset, AssetRows
    <2>5. orm'[r][a] = Asset(r, a)
          BY <1>1, <2>3, <2>4 DEF SessionTypeOK
    <2>6. Asset(r, a)' = Asset(r, a) /\ HasAsset(r, t, a)'
          BY <2>3 DEF HasAsset, AssetRows, Asset, storeVars
    <2>7. call'[r].asset = a /\ call'[r].tenant = t
          BY <1>1, <2>2
    <2> QED BY <2>1, <2>5, <2>6, <2>7 DEF LookupsHold
  <1> QED BY <1>2, <1>3, <1>4 DEF AssetStep, CreateAsset, InsertNewAsset, GetAsset, FlushUpdate,
         UpdateStatus, RemoveAsset, AbortCascade, FlushFails

LEMMA GraphStepHolds ==
    ASSUME AloneInv, NEW r \in Requests, GraphStep(r)
    PROVE  LookupsHold(r)'
  <1>1. SessionTypeOK
        BY AloneFacts
  <1> QED BY <1>1, NotLookedUp DEF GraphStep, ReadCache, ReadRoot, ReadRels, ReadNode, WriteCache,
         Goto, Reply, Raise, SessionTypeOK, LookedUp

LEMMA RelStepHolds ==
    ASSUME AloneInv, NEW r \in Requests, RelStep(r), LookupsHold(r)
    PROVE  LookupsHold(r)'
  <1>1. SessionTypeOK /\ UNCHANGED call
        BY AloneFacts DEF RelStep, VerifySource, VerifyTarget, Verify, LookupEdge, InsertNewRel,
           InvalidateGraphs, RemoveRel
  <1>2. ASSUME NEW code, Reply(r, code) \/ Raise(r, code) \/ Goto(r, "invalidate")
        PROVE  LookupsHold(r)'
        BY <1>1, <1>2, NotLookedUp DEF Reply, Raise, Goto, SessionTypeOK, LookedUp
  <1>3. PICK c : c = call[r]
        OBVIOUS
  <1>4. call'[r] = c
        BY <1>1, <1>3
  <1>5. ASSUME NEW label \in {"rel_target", "rel_lookup", "insert_rel"}, Goto(r, label),
               UNCHANGED storeVars,
               HasAsset(r, c.tenant, c.src),
               label # "rel_target" => HasAsset(r, c.tenant, c.dst),
               label = "insert_rel" => ~ EdgeExists(r, NewRel(c))
        PROVE  LookupsHold(r)'
    <2>1. pc'[r] = label
          BY <1>1, <1>5 DEF Goto, SessionTypeOK
    <2>2. \A a : HasAsset(r, c.tenant, a)' <=> HasAsset(r, c.tenant, a)
          BY <1>5 DEF HasAsset, AssetRows, Asset, storeVars
    <2>3. EdgeExists(r, NewRel(c))' <=> EdgeExists(r, NewRel(c))
          BY <1>5 DEF EdgeExists, RelRows, Rel, storeVars
    <2> QED BY <1>4, <1>5, <2>1, <2>2, <2>3 DEF LookupsHold
  <1>6. CASE VerifySource(r)
        BY <1>2, <1>3, <1>5, <1>6 DEF VerifySource, Verify
  <1>7. CASE VerifyTarget(r)
        BY <1>2, <1>3, <1>5, <1>7 DEF VerifyTarget, Verify, LookupsHold
  <1>8. CASE LookupEdge(r)
        BY <1>2, <1>3, <1>5, <1>8 DEF LookupEdge, LookupsHold
  <1> QED BY <1>2, <1>6, <1>7, <1>8 DEF RelStep, InsertNewRel, InvalidateGraphs, RemoveRel,
         RelInsertFails

(* A flush of a row that is as it was loaded writes it as it was computed. *)
LEMMA CleanMerge ==
    ASSUME NEW item \in Item, NEW row \in AssetRow, NEW t \in Times
    PROVE  DirtyColumns(Merged(item, row, t), row, row) = Merged(item, row, t)
  BY DEF DirtyColumns, Dirty, Merged, AssetRow

(* Stage 4 flushed row as asset a, and knows it as it is.                  *)
LEMMA FlushHolds ==
    ASSUME AloneInv, NEW r \in Requests, pc[r] = "import_item", call[r] \in ImportCall,
           UNCHANGED <<call, assets>>, LookupsHold(r),
           NEW i \in Valid(r), NEW a \in AssetIds, NEW row \in AssetRow,
           wa' = [wa EXCEPT ![r][a] = row], Flushed(r, i, a, row)
    PROVE  LookupsHold(r)'
  <1>1. StoreTypeOK /\ SessionTypeOK
        BY AloneFacts
  <1>2. pc'[r] \in {"import_item", "import_edges"}
        BY <1>1 DEF Flushed, Goto, SessionTypeOK
  <1>3. orm'[r] = [orm[r] EXCEPT ![a] = row] /\ row # Nil /\ IsRow(row)
        BY <1>1, NilAssumption DEF Flushed, SessionTypeOK, IsRow
  <1>4. /\ orm'[r][a] = row /\ Asset(r, a)' = row
        /\ \A b \in AssetIds \ {a} : orm'[r][b] = orm[r][b] /\ Asset(r, b)' = Asset(r, b)
        BY <1>1, <1>3 DEF SessionTypeOK, StoreTypeOK, Asset
  <1>5. /\ \A b \in AssetIds : orm[r][b] # Nil => b \in AssetRows(r) /\ orm[r][b] = Asset(r, b)
        /\ \A b \in AssetIds, j \in Valid(r) :
               HasAsset(r, call[r].tenant, b) /\ Asset(r, b).key = KeyOf(Items(r)[j])
               => orm[r][b] # Nil
        BY DEF LookupsHold
  <1>6. PICK tenant, items : tenant = call[r].tenant /\ items = Items(r)
        OBVIOUS
  <1>7. call'[r].tenant = tenant /\ Items(r)' = items /\ Valid(r)' = Valid(r)
        BY <1>6 DEF Items, Valid
  <1>8. ASSUME NEW b \in AssetIds, orm'[r][b] # Nil
        PROVE  b \in AssetRows(r)' /\ orm'[r][b] = Asset(r, b)'
        BY <1>3, <1>4, <1>5, <1>8 DEF AssetRows
  <1>9. ASSUME NEW b \in AssetIds, NEW j \in Valid(r),
               HasAsset(r, tenant, b)', Asset(r, b)'.key = KeyOf(items[j])
        PROVE  orm'[r][b] # Nil
    <2>1. CASE b = a
          BY <1>3, <1>4, <2>1
    <2>2. CASE b # a
      <3>1. HasAsset(r, tenant, b) /\ Asset(r, b).key = KeyOf(items[j])
            BY <1>4, <1>9, <2>2 DEF HasAsset, AssetRows
      <3> QED BY <1>4, <1>5, <1>6, <2>2, <3>1
    <2> QED BY <2>1, <2>2
  <1> QED BY <1>2, <1>7, <1>8, <1>9 DEF LookupsHold

LEMMA ImportStepHolds ==
    ASSUME AloneInv, NEW r \in Requests, ImportStep(r), LookupsHold(r)
    PROVE  LookupsHold(r)'
  <1>1. /\ SessionTypeOK /\ StoreTypeOK /\ UNCHANGED call /\ call[r] \in ImportCall
        BY ImportStepFacts DEF AloneInv
  <1>2. ASSUME NEW code, Reply(r, code) \/ Raise(r, code) \/ Goto(r, "import_link")
        PROVE  LookupsHold(r)'
        BY <1>1, <1>2, NotLookedUp DEF Reply, Raise, Goto, SessionTypeOK, LookedUp
  <1>3. CASE LookupItems(r)
    <2> SUFFICES ASSUME Goto(r, "import_item"), UNCHANGED storeVars,
                        orm' = [orm EXCEPT ![r] = [a \in AssetIds |->
                            IF a \in AssetsByKey(r, call[r].tenant, {KeyOf(Items(r)[i]) : i \in Valid(r)})
                            THEN Asset(r, a) ELSE Nil]]
                 PROVE  LookupsHold(r)'
        BY <1>2, <1>3 DEF LookupItems
    <2>1. PICK c, items, valid : c = call[r] /\ items = Items(r) /\ valid = Valid(r)
          OBVIOUS
    <2>2. pc'[r] = "import_item" /\ call'[r] = c /\ Items(r)' = items /\ Valid(r)' = valid
          BY <1>1, <2>1 DEF Goto, SessionTypeOK, Items, Valid
    <2>3. \A a : /\ Asset(r, a)' = Asset(r, a)
                 /\ HasAsset(r, c.tenant, a)' <=> HasAsset(r, c.tenant, a)
                 /\ a \in AssetRows(r)' <=> a \in AssetRows(r)
          BY DEF Asset, HasAsset, AssetRows, storeVars
    <2>4. \A a \in AssetIds : orm'[r][a] =
              IF a \in AssetsByKey(r, c.tenant, {KeyOf(items[i]) : i \in valid})
              THEN Asset(r, a) ELSE Nil
          BY <1>1, <2>1 DEF SessionTypeOK
    <2>5. \A a \in AssetIds : orm'[r][a] # Nil => a \in AssetRows(r) /\ orm'[r][a] = Asset(r, a)
          BY <2>4 DEF AssetsByKey, HasAsset
    <2>6. ASSUME NEW a \in AssetIds, NEW i \in valid, HasAsset(r, c.tenant, a),
                 Asset(r, a).key = KeyOf(items[i])
          PROVE  orm'[r][a] # Nil
      <3>1. a \in AssetsByKey(r, c.tenant, {KeyOf(items[j]) : j \in valid})
            BY <2>6 DEF AssetsByKey
      <3>2. Asset(r, a) # Nil
            BY <2>6 DEF HasAsset, AssetRows, IsRow
      <3> QED BY <2>4, <3>1, <3>2
    <2> QED BY <2>2, <2>3, <2>5, <2>6 DEF LookupsHold
  <1>4. CASE MergeItem(r)
    <2>1. pc[r] = "import_item"
          BY <1>4 DEF MergeItem
    <2>2. PICK i \in Valid(r), a \in AssetIds :
             /\ orm[r][a] # Nil
             /\ \/ /\ FlushAsset(r, a, Merged(Items(r)[i], orm[r][a], now[r]))
                   /\ Flushed(r, i, a, Merged(Items(r)[i], orm[r][a], now[r]))
                \/ FlushFails(r, a)
          BY <1>4 DEF MergeItem, Existing
    <2>3. CASE FlushFails(r, a)
          BY <1>2, <2>3 DEF FlushFails
    <2>4. CASE ~ FlushFails(r, a)
      <3>1. PICK item, row, t : item = Items(r)[i] /\ row = orm[r][a] /\ t = now[r]
            OBVIOUS
      <3>2. /\ Asset(r, a) = row /\ row \in AssetRow /\ item \in Item /\ t \in Times
            BY <1>1, <2>1, <2>2, <3>1, BatchFacts DEF LookupsHold, SessionTypeOK
      <3>3. /\ FlushAsset(r, a, Merged(item, row, t)) /\ Flushed(r, i, a, Merged(item, row, t))
            BY <2>2, <2>4, <3>1
      <3>4. /\ wa' = [wa EXCEPT ![r][a] = DirtyColumns(Merged(item, row, t), row, row)]
            /\ UNCHANGED assets
            BY <3>1, <3>2, <3>3 DEF FlushAsset, UpdateAsset
      <3>5. PICK merged \in AssetRow : merged = Merged(item, row, t)
            BY <3>2, MergedRow
      <3>6. wa' = [wa EXCEPT ![r][a] = merged] /\ Flushed(r, i, a, merged)
            BY <3>2, <3>3, <3>4, <3>5, CleanMerge
      <3> QED BY <1>1, <2>1, <3>4, <3>5, <3>6, FlushHolds
    <2> QED BY <2>3, <2>4
  <1>5. CASE CreateItem(r)
    <2>1. pc[r] = "import_item"
          BY <1>5 DEF CreateItem
    <2>2. PICK i \in Valid(r) : LET row == Created(call[r].tenant, Items(r)[i], now[r]) IN
             \/ \E a \in AssetIds : InsertAsset(r, a, row) /\ Flushed(r, i, a, row)
             \/ Raise(r, "IntegrityError")
          BY <1>5 DEF CreateItem
    <2>3. PICK row \in AssetRow : row = Created(call[r].tenant, Items(r)[i], now[r])
          BY <1>1, BatchFacts, CreatedRow DEF SessionTypeOK
    <2>4. ASSUME NEW a \in AssetIds, InsertAsset(r, a, row), Flushed(r, i, a, row)
          PROVE  LookupsHold(r)'
      <3>1. wa' = [wa EXCEPT ![r][a] = row] /\ UNCHANGED assets
            BY <2>4 DEF InsertAsset
      <3> QED BY <1>1, <2>1, <2>4, <3>1, FlushHolds
    <2> QED BY <1>2, <2>2, <2>3, <2>4
  <1>6. CASE MapEdges(r) \/ InsertLink(r)
        BY <1>2, <1>6 DEF MapEdges, InsertLink
  <1> QED BY <1>3, <1>4, <1>5, <1>6 DEF ImportStep

HoldInv == AloneInv /\ \A r \in Requests : LookupsHold(r)

LEMMA HoldNextInv ==
    ASSUME OneClient, HoldInv, EffectInv', [Next]_vars
    PROVE  HoldInv'
  <1>1. AloneInv /\ SessionTypeOK
        BY AloneFacts DEF HoldInv
  <1>2. ASSUME NEW s \in Requests
        PROVE  LookupsHold(s)'
    <2>1. CASE Handles(s)
      <3>1. CASE BreakDeadlock(s)
            BY <1>1, <3>1, NoDeadlock DEF BreakDeadlock, DeadlockAbort
      <3> QED BY <1>1, <2>1, <3>1, AssetStepHolds, GraphStepHolds, RelStepHolds, ImportStepHolds
             DEF Handles, HoldInv
    <2>2. CASE Still(s)
          BY <2>2, StillHolds DEF HoldInv
    <2>3. CASE Commit(s) \/ LoseConnection(s)
          BY <1>1, <2>3, NotLookedUp DEF Commit, LoseConnection, Fail, Raise, SessionTypeOK, LookedUp
    <2>4. ASSUME NEW c \in Calls, pc' = [pc EXCEPT ![s] = c.op]
          PROVE  LookupsHold(s)'
      <3>1. c.op \notin LookedUp
            BY CallAssumption, CallsByOp DEF LookedUp
      <3> QED BY <1>1, <2>4, <3>1, NotLookedUp DEF SessionTypeOK
    <2>5. CASE s \notin InFlight /\ pc'[s] = pc[s]
          BY <2>5, NotLookedUp DEF InFlight, LookedUp
    <2> QED BY <1>1, <2>1, <2>2, <2>3, <2>4, <2>5, AloneStep
  <1> QED BY <1>1, <1>2, AloneNextInv DEF HoldInv

LEMMA HoldInvariance ==
    ASSUME OneClient
    PROVE  Spec => []HoldInv
  <1>1. OneClient
        OBVIOUS
  <1>2. Init => HoldInv
        BY AloneInitInv DEF Init, SessionInit, LookupsHold, HoldInv
  <1>3. HoldInv /\ EffectInv' /\ [Next]_vars => HoldInv'
        BY <1>1, HoldNextInv
  <1> QED BY <1>2, <1>3, EffectsAreWritten, PTL DEF Spec

-----------------------------------------------------------------------------
(* Nothing is forgotten.                                                   *)

(* Serving the call c, asset a went from old to new.                       *)
KeepsData(c, a, old, new) ==
    /\ SameKey(old, new)
    /\ old.tags \subseteq new.tags
    /\ \A k \in MetaKeys : new.meta[k] = old.meta[k] \/ Gives(c, a, new, k)

(* What a request has written over a row has all that the row has.         *)
NothingLost(r) ==
    \A a \in AssetIds : IsRow(wa[r][a]) /\ IsRow(assets[a]) =>
        KeepsData(call[r], a, assets[a], wa[r][a])

LEMMA MergeMetaKeeps ==
    ASSUME NEW old, NEW new, NEW k \in MetaKeys
    PROVE  \/ MergeMeta(old, new)[k] = old[k]
           \/ MergeMeta(old, new)[k] = new[k] /\ new[k] # Nil
  BY DEF MergeMeta

LEMMA KeepsOnKeeping ==
    ASSUME NEW c, NEW a, NEW old, NEW mid, NEW new,
           KeepsData(c, a, old, mid), KeepsData(c, a, mid, new)
    PROVE  KeepsData(c, a, old, new)
  <1>1. ASSUME NEW k \in MetaKeys, new.meta[k] = mid.meta[k], Gives(c, a, mid, k)
        PROVE  Gives(c, a, new, k)
        BY <1>1 DEF KeepsData, SameKey, Gives
  <1> QED BY <1>1 DEF KeepsData, SameKey

LEMMA MergedKeeps ==
    ASSUME NEW r \in Requests, call[r] \in ImportCall, NEW i \in Valid(r), NEW a \in AssetIds,
           NEW row \in AssetRow, NEW t \in Times,
           row.key = KeyOf(Items(r)[i]), row.tenant = call[r].tenant
    PROVE  KeepsData(call[r], a, row, Merged(Items(r)[i], row, t))
  <1>1. PICK item \in Item : item = Items(r)[i]
        BY BatchFacts
  <1>2. PICK merged \in AssetRow : merged = Merged(item, row, t)
        BY MergedRow
  <1>3. /\ merged.tags = row.tags \cup item.tags /\ merged.meta = MergeMeta(row.meta, item.meta)
        /\ SameKey(row, merged)
        BY <1>2 DEF Merged, AssetRow, SameKey
  <1>4. ASSUME NEW k \in MetaKeys, merged.meta[k] = item.meta[k], item.meta[k] # Nil
        PROVE  Gives(call[r], a, merged, k)
    <2>1. /\ call[r].op = "import_assets" /\ i \in DOMAIN call[r].items
          /\ call[r].items[i] = item /\ item.form = "valid"
          BY <1>1 DEF ImportCall, Valid, Items
    <2> QED BY <1>1, <1>3, <1>4, <2>1 DEF Gives, SameKey
  <1> QED BY <1>1, <1>2, <1>3, <1>4, MergeMetaKeeps DEF KeepsData

LEMMA UpdatedKeeps ==
    ASSUME NEW c \in UpdateCall, NEW row \in AssetRow, NEW t \in Times
    PROVE  /\ UpdatedAsset(c, row, t) \in AssetRow
           /\ KeepsData(c, c.asset, row, UpdatedAsset(c, row, t))
           /\ DirtyColumns(UpdatedAsset(c, row, t), row, row) = UpdatedAsset(c, row, t)
  <1>1. PICK new \in AssetRow : new = UpdatedAsset(c, row, t)
        BY UpdatedAssetType
  <1>2. /\ new.tags = row.tags \/ new.tags = row.tags \cup c.tags
        /\ new.meta = row.meta \/ (c.meta # Nil /\ new.meta = MergeMeta(row.meta, c.meta))
        /\ SameKey(row, new) /\ c.op = "update_asset"
        BY <1>1 DEF UpdatedAsset, AssetRow, SameKey, UpdateCall
  <1>3. DirtyColumns(new, row, row) = new
        BY <1>1 DEF DirtyColumns, Dirty, UpdatedAsset, AssetRow
  <1>4. ASSUME NEW k \in MetaKeys
        PROVE  new.meta[k] = row.meta[k] \/ Gives(c, c.asset, new, k)
        BY <1>2, MergeMetaKeeps DEF Gives
  <1> QED BY <1>1, <1>2, <1>3, <1>4 DEF KeepsData

LEMMA WriteKeeps ==
    ASSUME StoreTypeOK, NEW r \in Requests, NothingLost(r), NEW a \in AssetIds, NEW row \in AssetRow,
           UpdateAsset(r, a, row), KeepsData(call[r], a, Asset(r, a), row),
           UNCHANGED call
    PROVE  NothingLost(r)'
  <1>1. /\ UNCHANGED assets /\ wa'[r][a] = row
        /\ \A b \in AssetIds \ {a} : wa'[r][b] = wa[r][b]
        BY DEF UpdateAsset, StoreTypeOK
  <1>2. ASSUME IsRow(assets[a])
        PROVE  KeepsData(call[r], a, assets[a], row)
    <2>1. CASE wa[r][a] = Nil
          BY <2>1 DEF Asset
    <2>2. CASE wa[r][a] # Nil
      <3>1. IsRow(wa[r][a]) /\ Asset(r, a) = wa[r][a]
            BY <2>2 DEF UpdateAsset, AssetRows, Asset
      <3>2. KeepsData(call[r], a, assets[a], Asset(r, a))
            BY <1>2, <3>1 DEF NothingLost
      <3> QED BY <3>2, KeepsOnKeeping
    <2> QED BY <2>1, <2>2
  <1> QED BY <1>1, <1>2 DEF NothingLost

LEMMA InsertKeeps ==
    ASSUME StoreTypeOK, NEW r \in Requests, NothingLost(r), NEW a \in AssetIds, NEW row,
           InsertAsset(r, a, row), UNCHANGED call
    PROVE  NothingLost(r)'
  <1>1. /\ UNCHANGED assets /\ assets[a] = Nil
        /\ \A b \in AssetIds \ {a} : wa'[r][b] = wa[r][b]
        BY DEF InsertAsset, FreshAssets, StoreTypeOK
  <1> QED BY <1>1 DEF NothingLost, IsRow

LEMMA EndKeeps ==
    ASSUME StoreTypeOK, NEW r \in Requests, ForgetWrites(r)
    PROVE  NothingLost(r)'
  BY DEF ForgetWrites, StoreTypeOK, NothingLost, IsRow

LEMMA ReadKeeps ==
    ASSUME NEW r \in Requests, NothingLost(r), UNCHANGED <<assets, wa>>, call'[r] = call[r]
    PROVE  NothingLost(r)'
  BY DEF NothingLost

LEMMA AssetStepKeeps ==
    ASSUME HoldInv, NEW r \in Requests, AssetStep(r), NothingLost(r)
    PROVE  NothingLost(r)'
  <1>1. /\ StoreTypeOK /\ SessionTypeOK /\ HandlerInOrder(r) /\ LookupsHold(r) /\ UNCHANGED call
        BY AssetStepFacts DEF HoldInv, AloneInv
  <1>2. ASSUME NEW code, Raise(r, code)
        PROVE  NothingLost(r)'
        BY <1>1, <1>2, EndKeeps DEF Raise, RollbackWrites
  <1>3. CASE UNCHANGED storeVars
        BY <1>1, <1>3, ReadKeeps DEF storeVars
  <1>4. CASE CreateAsset(r) \/ GetAsset(r) \/ AbortCascade(r)
        BY <1>2, <1>3, <1>4 DEF CreateAsset, GetAsset, AbortCascade
  <1>5. CASE InsertNewAsset(r)
        BY <1>1, <1>2, <1>5, InsertKeeps DEF InsertNewAsset
  <1>6. CASE FlushUpdate(r)
    <2>1. CASE FlushFails(r, call[r].asset)
          BY <1>2, <2>1 DEF FlushFails
    <2>2. CASE FlushAsset(r, call[r].asset, UpdatedAsset(call[r], orm[r][call[r].asset], now[r]))
      <3>1. PICK c, a, row, t : c = call[r] /\ a = c.asset /\ row = orm[r][a] /\ t = now[r]
            OBVIOUS
      <3>2. c \in UpdateCall /\ a \in AssetIds /\ t \in Times /\ row = Asset(r, a)
            BY <1>1, <1>6, <3>1 DEF FlushUpdate, HandlerInOrder, UpdateCall, SessionTypeOK, LookupsHold
      <3>3. row \in AssetRow
        <4>1. pc[r] = "flush_asset"
              BY <1>6 DEF FlushUpdate
        <4>2. row # Nil
              BY <1>1, <3>1, <4>1 DEF HandlerInOrder
        <4>3. orm[r][a] \in AssetRow \cup {Nil}
              BY <1>1, <3>2 DEF SessionTypeOK
        <4> QED BY <3>1, <4>2, <4>3
      <3>4. UpdateAsset(r, a, DirtyColumns(UpdatedAsset(c, row, t), row, row))
            BY <2>2, <3>1, <3>2 DEF FlushAsset
      <3>5. PICK new \in AssetRow : new = UpdatedAsset(c, row, t)
            BY <3>2, <3>3, UpdatedAssetType
      <3>6. UpdateAsset(r, a, new) /\ KeepsData(call[r], a, Asset(r, a), new)
            BY <3>1, <3>2, <3>3, <3>4, <3>5, UpdatedKeeps
      <3> QED BY <1>1, <3>2, <3>6, WriteKeeps
    <2> QED BY <1>6, <2>1, <2>2 DEF FlushUpdate
  <1>7. CASE UpdateStatus(r)
    <2>1. PICK c, a : c = call[r] /\ a = c.asset
          OBVIOUS
    <2>2. c \in StatusCall /\ a \in AssetIds /\ c.status \in Statuses
          BY <1>1, <1>7, <2>1 DEF UpdateStatus, HandlerInOrder, StatusCall
    <2>3. CASE HasAsset(r, c.tenant, a) /\ UpdateAsset(r, a, [Asset(r, a) EXCEPT !.status = c.status])
      <3>1. Asset(r, a) \in AssetRow
            BY <1>1, <2>2, <2>3 DEF HasAsset, AssetRows, IsRow, Asset, StoreTypeOK, AssetCell
      <3>2. PICK new : new = [Asset(r, a) EXCEPT !.status = c.status]
            OBVIOUS
      <3>3. new \in AssetRow /\ KeepsData(call[r], a, Asset(r, a), new)
            BY <2>2, <3>1, <3>2 DEF AssetRow, KeepsData, SameKey
      <3> QED BY <1>1, <2>2, <2>3, <3>2, <3>3, WriteKeeps
    <2> QED BY <1>2, <1>7, <2>1, <2>3 DEF UpdateStatus
  <1>8. CASE RemoveAsset(r)
    <2>1. PICK a : a = call[r].asset
          OBVIOUS
    <2>2. CASE DeleteAsset(r, a)
      <3>1. /\ UNCHANGED assets /\ a \in AssetIds /\ wa'[r][a] = Deleted
            /\ \A b \in AssetIds \ {a} : wa'[r][b] = wa[r][b]
            BY <1>1, <2>2 DEF DeleteAsset, AssetRows, StoreTypeOK
      <3> QED BY <1>1, <3>1 DEF NothingLost, IsRow
    <2> QED BY <1>2, <1>8, <2>1, <2>2 DEF RemoveAsset
  <1> QED BY <1>4, <1>5, <1>6, <1>7, <1>8 DEF AssetStep

LEMMA ImportStepKeeps ==
    ASSUME HoldInv, NEW r \in Requests, ImportStep(r), NothingLost(r)
    PROVE  NothingLost(r)'
  <1>1. /\ StoreTypeOK /\ SessionTypeOK /\ call[r] \in ImportCall /\ LookupsHold(r)
        /\ LookupsSound(r) /\ UNCHANGED call
        BY ImportStepFacts DEF HoldInv, AloneInv
  <1>2. ASSUME NEW code, Raise(r, code)
        PROVE  NothingLost(r)'
        BY <1>1, <1>2, EndKeeps DEF Raise, RollbackWrites
  <1>3. CASE UNCHANGED <<assets, wa>>
        BY <1>1, <1>3, ReadKeeps
  <1>4. CASE LookupItems(r) \/ MapEdges(r) \/ InsertLink(r)
        BY <1>2, <1>3, <1>4 DEF LookupItems, MapEdges, InsertLink, InsertRel, storeVars
  <1>5. CASE CreateItem(r)
        BY <1>1, <1>2, <1>5, InsertKeeps DEF CreateItem
  <1>6. CASE MergeItem(r)
    <2>1. PICK i \in Valid(r), a \in AssetIds :
             /\ orm[r][a] # Nil /\ orm[r][a].key = KeyOf(Items(r)[i])
             /\ \/ FlushAsset(r, a, Merged(Items(r)[i], orm[r][a], now[r]))
                \/ FlushFails(r, a)
          BY <1>6 DEF MergeItem, Existing
    <2>2. CASE FlushFails(r, a)
          BY <1>2, <2>2 DEF FlushFails
    <2>3. CASE FlushAsset(r, a, Merged(Items(r)[i], orm[r][a], now[r]))
      <3>1. PICK item, row, t : item = Items(r)[i] /\ row = orm[r][a] /\ t = now[r]
            OBVIOUS
      <3>2. /\ Asset(r, a) = row /\ row \in AssetRow /\ item \in Item /\ t \in Times
            BY <1>1, <1>6, <2>1, <3>1, BatchFacts DEF LookupsHold, MergeItem, SessionTypeOK
      <3>3. UpdateAsset(r, a, DirtyColumns(Merged(item, row, t), row, row))
            BY <2>3, <3>1, <3>2 DEF FlushAsset
      <3>4. PICK merged \in AssetRow : merged = Merged(item, row, t)
            BY <3>2, MergedRow
      <3>5. row.key = KeyOf(Items(r)[i]) /\ row.tenant = call[r].tenant
            BY <1>1, <1>6, <2>1, <3>1, <3>2, NilAssumption DEF MergeItem, LookupsSound, Sound
      <3>6. KeepsData(call[r], a, row, Merged(Items(r)[i], row, t))
            BY <1>1, <3>2, <3>5, MergedKeeps
      <3>7. UpdateAsset(r, a, merged) /\ KeepsData(call[r], a, Asset(r, a), merged)
            BY <3>1, <3>2, <3>3, <3>4, <3>6, CleanMerge
      <3> QED BY <1>1, <3>7, WriteKeeps
    <2> QED BY <2>1, <2>2, <2>3
  <1> QED BY <1>4, <1>5, <1>6 DEF ImportStep

LostInv == HoldInv /\ \A r \in Requests : NothingLost(r)

LEMMA LostNextInv ==
    ASSUME OneClient, LostInv, HoldInv', [Next]_vars
    PROVE  LostInv'
  <1>1. HoldInv /\ AloneInv /\ SessionTypeOK /\ StoreTypeOK
        BY AloneFacts DEF HoldInv, LostInv
  <1>2. ASSUME NEW s \in Requests
        PROVE  NothingLost(s)'
    <2>1. NothingLost(s)
          BY DEF LostInv
    <2>2. ASSUME NEW code, Raise(s, code)
          PROVE  NothingLost(s)'
          BY <1>1, <2>2, EndKeeps DEF Raise, RollbackWrites
    <2>3. CASE Handles(s)
      <3>1. CASE BreakDeadlock(s)
            BY <2>2, <3>1 DEF BreakDeadlock, DeadlockAbort
      <3>2. CASE GraphStep(s)
            BY <1>1, <2>1, <2>2, <3>2, ReadKeeps DEF GraphStep, ReadCache, ReadRoot, ReadRels, ReadNode,
               WriteCache, storeVars
      <3>3. CASE RelStep(s)
            BY <2>1, <2>2, <3>3, ReadKeeps DEF RelStep, VerifySource, VerifyTarget, Verify, LookupEdge,
               InsertNewRel, InsertRel, RelInsertFails, InvalidateGraphs, RemoveRel, DeleteRel, storeVars
      <3> QED BY <1>1, <2>1, <2>3, <3>1, <3>2, <3>3, AssetStepKeeps, ImportStepKeeps DEF Handles
    <2>4. CASE Still(s)
          BY <2>1, <2>4, ReadKeeps DEF Still, storeVars
    <2>5. CASE Commit(s)
          BY <1>1, <2>5, EndKeeps DEF Commit, CommitWrites
    <2>6. CASE LoseConnection(s)
          BY <2>2, <2>6 DEF LoseConnection, Fail
    <2>7. CASE s \notin InFlight /\ (Arrive(s) \/ Held(s))
      <3>1. wa'[s] = wa[s] /\ \A a \in AssetIds : wa[s][a] = Nil
            BY <1>1, <2>7 DEF Arrive, Begin, storeVars, Held, AloneInv, Quiet, NothingWritten,
               WritesOnly, InFlight
      <3> QED BY <3>1 DEF NothingLost, IsRow
    <2> QED BY <1>1, <2>3, <2>4, <2>5, <2>6, <2>7, AloneStep
  <1> QED BY <1>2 DEF LostInv

(* Served one after the other, requests drop no tag of an asset, and an    *)
(* entry of its metadata changes only to what the committing request sends *)
(* (asset_service.py:91-109, import_pipeline.py:85-99).                    *)
THEOREM NothingForgottenAlone ==
    ASSUME OneClient
    PROVE  Spec => NothingForgotten
  <1>1. OneClient
        OBVIOUS
  <1>2. Init => LostInv
    <2> SUFFICES ASSUME Init PROVE \A r \in Requests : NothingLost(r)
        BY AloneInitInv DEF Init, SessionInit, LookupsHold, HoldInv, LostInv
    <2> QED BY DEF Init, StoreInit, NothingLost, IsRow
  <1>3. LostInv /\ HoldInv' /\ [Next]_vars => LostInv'
        BY <1>1, LostNextInv
  <1>4. ASSUME LostInv, [Next]_vars, NEW a \in AssetIds, IsRow(assets[a]), IsRow(assets'[a])
        PROVE  /\ assets[a].tags \subseteq assets'[a].tags
               /\ \A k \in MetaKeys :
                     \/ assets'[a].meta[k] = assets[a].meta[k]
                     \/ \E r \in Requests : Committing(r) /\ Gives(call[r], a, assets'[a], k)
    <2>1. EffectInv /\ StoreTypeOK /\ SessionTypeOK
          BY <1>4, AloneFacts DEF LostInv, HoldInv, AloneInv
    <2>2. CASE assets' = assets
          BY <2>2
    <2>3. ASSUME NEW r \in Requests, Commit(r)
          PROVE  \/ assets'[a] = assets[a]
                 \/ Committing(r) /\ KeepsData(call[r], a, assets[a], assets'[a])
      <3>1. assets'[a] = Asset(r, a) /\ Committing(r)
            BY <2>1, <2>3 DEF Commit, CommitWrites, Committing, SessionTypeOK
      <3> QED BY <1>4, <3>1 DEF Asset, LostInv, NothingLost
    <2> QED BY <1>4, <2>1, <2>2, <2>3, StepCommits DEF KeepsData
  <1>5. LostInv /\ [Next]_vars =>
          [\A a \in AssetIds : IsRow(assets[a]) /\ IsRow(assets'[a]) =>
              /\ assets[a].tags \subseteq assets'[a].tags
              /\ \A k \in MetaKeys :
                    \/ assets'[a].meta[k] = assets[a].meta[k]
                    \/ \E r \in Requests :
                          Committing(r) /\ Gives(call[r], a, assets'[a], k)]_vars
        BY <1>4
  <1>6. Spec => []HoldInv
        BY <1>1, HoldInvariance
  <1> QED BY <1>2, <1>3, <1>5, <1>6, PTL DEF Spec, NothingForgotten
-----------------------------------------------------------------------------
(* An import that nobody interferes with leaves its batch active.          *)

LEMMA ActiveAlone ==
    ASSUME OneClient, AloneInv, EffectInv', [Next]_vars, NEW s \in Requests, ActiveInOrder(s)
    PROVE  ActiveInOrder(s)'
  <1>1. SessionTypeOK /\ StoreInv /\ EffectInv
        BY AloneFacts DEF AloneInv
  <1>2. SUFFICES ASSUME UnderWay(s)' PROVE ActiveInOrder(s)'
        BY DEF ActiveInOrder, UnderWay
  <1>3. ASSUME UNCHANGED assets, pc'[s] = pc[s], call'[s] = call[s], orm'[s] = orm[s], wa'[s] = wa[s]
        PROVE  ActiveInOrder(s)'
        BY <1>3 DEF ActiveInOrder, UnderWay, Importing, Op, LoadedActive, WrittenActive, Asset
  <1>4. pc'[s] \notin {"idle", "done"}
        BY <1>2 DEF UnderWay, Stages
  <1>5. CASE Handles(s)
    <2>1. UNCHANGED assets
          BY <1>1, <1>5, HandlesGood DEF Advances, Refuses, Proceeds, Raise, RollbackWrites
    <2>2. CASE Keeps(s)
          BY <1>3, <2>1, <2>2 DEF Keeps, Held
    <2> QED BY <1>1, <1>2, <2>2, StepSeen, ActiveStep
  <1>6. CASE Still(s)
        BY <1>3, <1>6 DEF Still, storeVars
  <1>7. ~ Commit(s) /\ ~ LoseConnection(s)
        BY <1>1, <1>4 DEF Commit, LoseConnection, Fail, Raise, SessionTypeOK
  <1>8. ~ (s \notin InFlight /\ pc'[s] = pc[s])
        BY <1>4 DEF InFlight
  <1>9. ASSUME NEW c \in Calls, pc' = [pc EXCEPT ![s] = c.op]
        PROVE  FALSE
    <2>1. pc'[s] = c.op /\ c.op \notin Stages \cup {"commit"}
          BY <1>1, <1>9, CallAssumption, CallsByOp DEF SessionTypeOK, Stages
    <2> QED BY <1>2, <2>1 DEF UnderWay
  <1> QED BY <1>5, <1>6, <1>7, <1>8, <1>9, AloneStep

(* Served one after the other, every import leaves active what it merged   *)
(* into, whatever clients do between the imports (import_pipeline.py:88).  *)
THEOREM ReactivateAlone ==
    ASSUME OneClient
    PROVE  Spec => []ReimportedIsActive
  <1>1. OneClient
        OBVIOUS
  <1> DEFINE J == \A r \in Requests : ActiveInOrder(r)
  <1>2. Init => J
        BY DEF Init, SessionInit, ActiveInOrder, UnderWay, Stages
  <1>3. AloneInv /\ EffectInv' /\ J /\ [Next]_vars => J'
        BY <1>1, ActiveAlone
  <1>4. EffectInv /\ J => ReimportedIsActive
        BY WrittenIsReimported
  <1>5. Spec => []AloneInv
        BY <1>1, ServedAlone
  <1> QED BY <1>2, <1>3, <1>4, <1>5, EffectsAreWritten, PTL DEF Spec

-----------------------------------------------------------------------------
(* Only the codes of the routes are answered.                              *)

(* The keys of the assets that a temporary id of a batch may stand for: of *)
(* its items that share it, the last one flushed counts.                   *)
StandsFor(c, t) ==
    {KeyOf(c.items[k]) : k \in {j \in Abstract!ValidItems(c) : c.items[j].id = t}}

(* No two items of a batch link the same two assets in one way.            *)
LinksApart(c) ==
    \A i, j \in Abstract!ValidItems(c), l \in Links :
        \/ i = j
        \/ StandsFor(c, c.items[i].id) \cap StandsFor(c, c.items[j].id) = {}
        \/ StandsFor(c, c.items[i].link[l]) \cap StandsFor(c, c.items[j].link[l]) = {}

(* What the routes expect of a batch: no item has an `id` or a `value` of  *)
(* another type than string, and no link is given twice.                   *)
WellFormed ==
    \A c \in Calls : c.op = "import_assets" => Abstract!Reportable(c) /\ LinksApart(c)

(* The database answers.                                                   *)
DatabaseUp == "db" \notin Faults

AnswersDeclared(r) == pc'[r] = "done" => resp'[r] \in Declared

LEMMA DeclaredRaise ==
    ASSUME SessionTypeOK, NEW r \in Requests,
           \/ \E code \in Declared : Raise(r, code)
           \/ \E code : Reply(r, code)
           \/ \E label : Goto(r, label) /\ label # "done"
    PROVE  AnswersDeclared(r)
  BY DEF Raise, Reply, Goto, SessionTypeOK, AnswersDeclared

LEMMA AssetStepDeclared ==
    ASSUME HoldInv, NEW r \in Requests, AssetStep(r)
    PROVE  AnswersDeclared(r)
  <1>1. /\ SessionTypeOK /\ HandlerInOrder(r) /\ LookupsHold(r) /\ OnlyOne
        BY AssetStepFacts DEF HoldInv, AloneInv
  <1>2. "404" \in Declared /\ "409" \in Declared
        BY DEF Declared
  <1>3. CASE CreateAsset(r) \/ GetAsset(r) \/ UpdateStatus(r) \/ RemoveAsset(r)
        BY <1>1, <1>2, <1>3, DeclaredRaise DEF CreateAsset, GetAsset, UpdateStatus, RemoveAsset
  <1>4. CASE InsertNewAsset(r)
    <2>1. ~ KeyTaken(r, NewAsset(call[r], now[r]))
          BY <1>1, <1>4 DEF InsertNewAsset, LookupsHold, KeyTaken, SameKey, NewAsset, AssetsByKey,
             HasAsset, AssetRows
    <2> QED BY <1>1, <1>4, <2>1, DeclaredRaise DEF InsertNewAsset
  <1>5. CASE FlushUpdate(r)
    <2>1. ~ FlushFails(r, call[r].asset)
          BY <1>1, <1>5 DEF FlushUpdate, FlushFails, LookupsHold, HasAsset
    <2> QED BY <1>1, <1>5, <2>1, DeclaredRaise DEF FlushUpdate
  <1>6. ~ AbortCascade(r)
    <2> SUFFICES ASSUME AbortCascade(r)
                 PROVE  FALSE
        OBVIOUS
    <2>1. PICK S \in SUBSET Others(r) : S # {} /\ \A s \in S : pc[s] = "delete_asset"
          BY DEF AbortCascade
    <2>2. PICK s \in Others(r) : pc[s] = "delete_asset" /\ pc[r] = "delete_asset"
          BY <2>1 DEF AbortCascade
    <2> QED BY <1>1, <2>2 DEF OnlyOne, InFlight, Others
  <1> QED BY <1>3, <1>4, <1>5, <1>6 DEF AssetStep

LEMMA GraphStepDeclared ==
    ASSUME SessionTypeOK, NEW r \in Requests, GraphStep(r)
    PROVE  AnswersDeclared(r)
  <1>1. "404" \in Declared
        BY DEF Declared
  <1> QED BY <1>1, DeclaredRaise DEF GraphStep, ReadCache, ReadRoot, ReadRels, ReadNode, WriteCache

LEMMA RelStepDeclared ==
    ASSUME HoldInv, NEW r \in Requests, RelStep(r)
    PROVE  AnswersDeclared(r)
  <1>1. /\ SessionTypeOK /\ LookupsHold(r)
        BY AloneFacts DEF HoldInv
  <1>2. "404" \in Declared /\ "409" \in Declared
        BY DEF Declared
  <1>3. CASE VerifySource(r) \/ VerifyTarget(r) \/ LookupEdge(r) \/ InvalidateGraphs(r) \/ RemoveRel(r)
        BY <1>1, <1>2, <1>3, DeclaredRaise DEF VerifySource, VerifyTarget, Verify, LookupEdge,
           InvalidateGraphs, RemoveRel
  <1>4. CASE InsertNewRel(r)
    <2>1. ~ RelInsertFails(r, NewRel(call[r]))
          BY <1>1, <1>4 DEF InsertNewRel, RelInsertFails, LookupsHold, EndpointsExist, HasAsset, NewRel
    <2> QED BY <1>1, <1>4, <2>1, DeclaredRaise DEF InsertNewRel
  <1> QED BY <1>3, <1>4 DEF RelStep

(* The edges stage 5 has yet to insert are not there.                      *)
LinksHold(r) ==
    pc[r] = "import_link" => \A p \in imp[r].edges : ~ EdgeExists(r, EdgeAt(r, p))

LEMMA ImportStepDeclared ==
    ASSUME WellFormed, HoldInv, NEW r \in Requests, ImportStep(r), LinksHold(r)
    PROVE  AnswersDeclared(r)
  <1>1. /\ SessionTypeOK /\ EffectInv /\ LookupsHold(r) /\ call[r] \in ImportCall
        /\ call[r] \in Calls /\ call[r].op = "import_assets"
        BY ImportStepFacts DEF HoldInv, AloneInv, SessionTypeOK
  <1>2. CASE LookupItems(r)
    <2>1. \A i \in DOMAIN Items(r) : Items(r)[i].form # "unreportable"
          BY <1>1 DEF WellFormed, Abstract!Reportable, Items
    <2> QED BY <1>1, <1>2, <2>1, DeclaredRaise DEF LookupItems
  <1>3. CASE MergeItem(r)
    <2>1. PICK i \in Valid(r), a \in AssetIds :
             /\ orm[r][a] # Nil
             /\ \/ Flushed(r, i, a, Merged(Items(r)[i], orm[r][a], now[r]))
                \/ FlushFails(r, a)
          BY <1>3 DEF MergeItem, Existing
    <2>2. a \in AssetRows(r)
          BY <1>1, <1>3, <2>1 DEF MergeItem, LookupsHold
    <2>3. ~ FlushFails(r, a)
          BY <2>2 DEF FlushFails
    <2> QED BY <1>1, <2>1, <2>3, DeclaredRaise DEF Flushed
  <1>4. CASE CreateItem(r)
    <2>1. PICK i \in Valid(r) : LET row == Created(call[r].tenant, Items(r)[i], now[r]) IN
             /\ Existing(r, row.key) = {}
             /\ \/ \E a \in AssetIds : Flushed(r, i, a, row)
                \/ KeyTaken(r, row)
          BY <1>4 DEF CreateItem
    <2>2. PICK row : row = Created(call[r].tenant, Items(r)[i], now[r])
          OBVIOUS
    <2>3. row.tenant = call[r].tenant /\ row.key = KeyOf(Items(r)[i])
          BY <2>2 DEF Created
    <2>4. ~ KeyTaken(r, row)
      <3> SUFFICES ASSUME NEW a \in AssetRows(r), SameKey(Asset(r, a), row)
                   PROVE  FALSE
          BY DEF KeyTaken
      <3>1. a \in AssetIds /\ HasAsset(r, call[r].tenant, a) /\ Asset(r, a).key = KeyOf(Items(r)[i])
            BY <2>3 DEF AssetRows, HasAsset, SameKey
      <3>2. orm[r][a] # Nil /\ orm[r][a] = Asset(r, a)
            BY <1>1, <1>4, <3>1 DEF CreateItem, LookupsHold
      <3>3. a \in Existing(r, row.key)
            BY <2>3, <3>1, <3>2 DEF Existing
      <3> QED BY <2>1, <2>2, <3>3
    <2>5. PICK a \in AssetIds : Flushed(r, i, a, row)
          BY <2>1, <2>2, <2>4
    <2> QED BY <1>1, <2>5, DeclaredRaise DEF Flushed
  <1>5. CASE MapEdges(r)
    <2>1. Reply(r, "200") \/ Goto(r, "import_link")
          BY <1>5 DEF MapEdges
    <2> QED BY <1>1, <2>1, DeclaredRaise
  <1>6. CASE InsertLink(r)
    <2>1. PICK p \in imp[r].edges :
             \/ Reply(r, "200") \/ Goto(r, "import_link")
             \/ EdgeExists(r, EdgeAt(r, p)) \/ ~ EndpointsExist(r, EdgeAt(r, p))
          BY <1>6 DEF InsertLink
    <2>2. pc[r] = "import_link"
          BY <1>6 DEF InsertLink
    <2>3. PICK rel : rel = EdgeAt(r, p)
          OBVIOUS
    <2>4. EndpointsExist(r, rel)
          BY <1>1, <2>2, <2>3, EdgesAreTyped DEF EndpointsExist, AssetRows, Asset, IsRow
    <2>5. Reply(r, "200") \/ Goto(r, "import_link")
          BY <2>1, <2>2, <2>3, <2>4 DEF LinksHold
    <2> QED BY <1>1, <2>5, DeclaredRaise
  <1> QED BY <1>2, <1>3, <1>4, <1>5, <1>6 DEF ImportStep

(* Two links of a batch are two edges.                                     *)
LEMMA EdgesOfBatchApart ==
    ASSUME WellFormed, EffectInv, NEW r \in Requests, pc[r] = "import_link",
           NEW p \in imp[r].edges, NEW q \in imp[r].edges,
           SameEdge(EdgeAt(r, p), EdgeAt(r, q))
    PROVE  p = q
  <1>1. /\ BatchInOrder(r) /\ imp[r] \in Locals /\ call[r] \in ImportCall /\ call[r] \in Calls
        /\ EffectInOrder(r) /\ SessionTypeOK /\ ImportInOrder(r)
        BY NilAssumption DEF EffectInv, EffectInOrder, ImportInv, ApiInv, TypeOK, SessionTypeOK, ImportTypeOK,
           HandlerInOrder
  <1>2. PICK c : c = call[r]
        OBVIOUS
  <1>3. /\ c \in Calls /\ c.op = "import_assets" /\ LinksApart(c)
        /\ Items(r) = c.items /\ Valid(r) = Abstract!ValidItems(c)
        BY <1>1, <1>2 DEF WellFormed, ImportCall, Items, Valid, Abstract!ValidItems
  <1>4. ASSUME NEW o \in imp[r].edges
        PROVE  /\ o \in Nat \X Links /\ o[1] \in Valid(r) /\ o[2] \in Links
               /\ EdgeAt(r, o).type = LinkTypes[o[2]]
               /\ wa[r][EdgeAt(r, o).src].key \in StandsFor(c, c.items[o[1]].id)
               /\ wa[r][EdgeAt(r, o).dst].key \in StandsFor(c, c.items[o[1]].link[o[2]])
    <2>1. PICK i, from, to : i = o[1] /\ from = Items(r)[i].id /\ to = Target(r, o)
          OBVIOUS
    <2>2. o \in LinkSet(r) /\ imp[r].tmp[to] # Nil /\ imp[r].left = {}
          BY <1>1, <2>1 DEF ImportInOrder, Candidates
    <2>3. o \in Nat \X Links /\ i \in Valid(r) /\ o[2] \in Links /\ to \in TempIds
          BY <1>1, <2>1, <2>2, BatchFacts
    <2>4. from \in TempIds /\ imp[r].tmp[from] # Nil
          BY <1>1, <2>1, <2>2, <2>3, BatchFacts DEF Item, ImportInOrder
    <2>5. PICK k \in Valid(r) : Items(r)[k].id = from /\ wa[r][imp[r].tmp[from]].key = KeyOf(Items(r)[k])
          BY <1>1, <2>4 DEF BatchInOrder
    <2>6. PICK m \in Valid(r) : Items(r)[m].id = to /\ wa[r][imp[r].tmp[to]].key = KeyOf(Items(r)[m])
          BY <1>1, <2>2, <2>3 DEF BatchInOrder
    <2>7. to = c.items[i].link[o[2]] /\ from = c.items[i].id
          BY <1>3, <2>1 DEF Target
    <2>8. /\ wa[r][imp[r].tmp[from]].key \in StandsFor(c, from)
          /\ wa[r][imp[r].tmp[to]].key \in StandsFor(c, to)
          BY <1>3, <2>5, <2>6 DEF StandsFor
    <2>9. /\ EdgeAt(r, o).src = imp[r].tmp[from] /\ EdgeAt(r, o).dst = imp[r].tmp[to]
          /\ EdgeAt(r, o).type = LinkTypes[o[2]]
          BY <2>1 DEF EdgeAt
    <2> QED BY <2>1, <2>3, <2>7, <2>8, <2>9
  <1>5. p[2] = q[2]
    <2>1. LinkTypes[p[2]] = LinkTypes[q[2]]
          BY <1>4 DEF SameEdge
    <2> QED BY <1>4, <2>1 DEF Links, LinkTypes
  <1>6. EdgeAt(r, p).src = EdgeAt(r, q).src /\ EdgeAt(r, p).dst = EdgeAt(r, q).dst
        BY DEF SameEdge
  <1>7. p[1] = q[1]
    <2>1. PICK i, j, l : i = p[1] /\ j = q[1] /\ l = p[2]
          OBVIOUS
    <2>2. StandsFor(c, c.items[i].id) \cap StandsFor(c, c.items[j].id) # {}
          BY <1>4, <1>6, <2>1
    <2>3. StandsFor(c, c.items[i].link[l]) \cap StandsFor(c, c.items[j].link[l]) # {}
          BY <1>4, <1>5, <1>6, <2>1
    <2>4. i \in Abstract!ValidItems(c) /\ j \in Abstract!ValidItems(c) /\ l \in Links
          BY <1>3, <1>4, <2>1
    <2> QED BY <1>3, <2>1, <2>2, <2>3, <2>4 DEF LinksApart
  <1> QED BY <1>4, <1>5, <1>7

LEMMA InsertLinkHolds ==
    ASSUME WellFormed, EffectInv, NEW r \in Requests, InsertLink(r), LinksHold(r)
    PROVE  LinksHold(r)'
  <1>1. ImportStep(r) /\ pc[r] = "import_link" /\ UNCHANGED call
        BY DEF ImportStep, InsertLink
  <1>2. /\ StoreTypeOK /\ SessionTypeOK /\ imp[r] \in Locals /\ imp \in [Requests -> Locals]
        BY <1>1, ImportStepFacts DEF ImportTypeOK
  <1> SUFFICES ASSUME pc'[r] = "import_link"
               PROVE  \A q \in imp'[r].edges : ~ EdgeExists(r, EdgeAt(r, q))'
      BY DEF LinksHold
  <1>3. ~ Raise(r, "IntegrityError")
        BY <1>2 DEF Raise, SessionTypeOK
  <1>4. PICK p \in imp[r].edges, x \in RelIds :
           /\ InsertRel(r, x, EdgeAt(r, p))
           /\ imp' = [imp EXCEPT ![r].edges = @ \ {p}]
        BY <1>3 DEF InsertLink
  <1>5. imp'[r].edges = imp[r].edges \ {p} /\ imp'[r].tmp = imp[r].tmp
        BY <1>2, <1>4 DEF Locals
  <1>6. PICK rel : rel = EdgeAt(r, p)
        OBVIOUS
  <1>7. rel \in RelRow /\ rel # Nil
        BY <1>1, <1>6, LinkedItems, NilAssumption
  <1>8. /\ wr' = [wr EXCEPT ![r][x] = rel] /\ UNCHANGED rels
        BY <1>4, <1>6 DEF InsertRel
  <1>9. Rel(r, x)' = rel /\ \A y \in RelIds \ {x} : Rel(r, y)' = Rel(r, y)
        BY <1>2, <1>7, <1>8 DEF Rel, StoreTypeOK
  <1>10. ASSUME NEW q \in imp'[r].edges
         PROVE  ~ EdgeExists(r, EdgeAt(r, q))'
    <2>1. q \in imp[r].edges /\ q # p
          BY <1>5
    <2>2. PICK new : new = EdgeAt(r, q)
          OBVIOUS
    <2>3. EdgeAt(r, q)' = new
          BY <1>1, <1>5, <2>2 DEF EdgeAt, Target, Items
    <2>4. ~ EdgeExists(r, new) /\ ~ SameEdge(rel, new)
      <3>1. ~ SameEdge(EdgeAt(r, p), EdgeAt(r, q))
            BY <1>1, <2>1, EdgesOfBatchApart
      <3> QED BY <1>1, <1>6, <2>1, <2>2, <3>1 DEF LinksHold
    <2>5. ASSUME NEW y \in RelIds, IsRow(Rel(r, y)')
          PROVE  ~ SameEdge(Rel(r, y)', new)
      <3>1. CASE y = x
            BY <1>9, <2>4, <3>1
      <3>2. CASE y # x
            BY <1>9, <2>4, <2>5, <3>2 DEF EdgeExists, RelRows
      <3> QED BY <3>1, <3>2
    <2> QED BY <2>3, <2>5 DEF EdgeExists, RelRows
  <1> QED BY <1>10

LEMMA MapEdgesHolds ==
    ASSUME EffectInv, NEW r \in Requests, MapEdges(r)
    PROVE  LinksHold(r)'
  <1>1. ImportStep(r)
        BY DEF ImportStep
  <1>2. imp[r] \in Locals /\ imp \in [Requests -> Locals] /\ UNCHANGED call
        BY <1>1, ImportStepFacts DEF ImportTypeOK
  <1> DEFINE new == {p \in Candidates(r) : ~ EdgeExists(r, EdgeAt(r, p))}
  <1>3. imp' = [imp EXCEPT ![r].edges = new, ![r].linked = Linked(r, new), ![r].unlinked = Unlinked(r)]
        BY DEF MapEdges
  <1>4. ASSUME NEW q \in new
        PROVE  EdgeAt(r, q)' = EdgeAt(r, q) /\ ~ EdgeExists(r, EdgeAt(r, q))
    <2>1. ~ EdgeExists(r, EdgeAt(r, q))
          OBVIOUS
    <2>2. imp'[r].tmp = imp[r].tmp
      <3> HIDE DEF new
      <3> QED BY <1>2, <1>3 DEF Locals
    <2> QED BY <1>2, <2>1, <2>2 DEF EdgeAt, Target, Items
  <1>5. imp'[r].edges = new
    <2> HIDE DEF new
    <2> QED BY <1>2, <1>3 DEF Locals
  <1>6. UNCHANGED storeVars
        BY DEF MapEdges
  <1>7. ASSUME NEW rel, ~ EdgeExists(r, rel)
        PROVE  ~ \E x \in RelRows(r)' : SameEdge(Rel(r, x)', rel)
        BY <1>6, <1>7 DEF EdgeExists, RelRows, Rel, storeVars
  <1>8. ASSUME NEW q \in new
        PROVE  ~ EdgeExists(r, EdgeAt(r, q))'
    <2>1. PICK rel : rel = EdgeAt(r, q)
          OBVIOUS
    <2>2. EdgeAt(r, q)' = rel /\ ~ EdgeExists(r, rel)
          BY <1>4, <2>1
    <2> QED BY <1>7, <2>2 DEF EdgeExists
  <1> HIDE DEF new
  <1> QED BY <1>5, <1>8 DEF LinksHold

DeclaredInv ==
    /\ HoldInv /\ OnlyDeclaredAnswers
    /\ \A r \in Requests : LinksHold(r)

LEMMA LinksHoldNext ==
    ASSUME OneClient, WellFormed, DeclaredInv, EffectInv', [Next]_vars, NEW s \in Requests
    PROVE  LinksHold(s)'
  <1>1. AloneInv /\ EffectInv /\ SessionTypeOK /\ StoreInv /\ LinksHold(s)
        BY AloneFacts DEF DeclaredInv, HoldInv, AloneInv
  <1>2. SUFFICES ASSUME pc'[s] = "import_link" PROVE LinksHold(s)'
        BY DEF LinksHold
  <1>3. ASSUME UNCHANGED rels, pc'[s] = pc[s], call'[s] = call[s], imp'[s] = imp[s], wr'[s] = wr[s]
        PROVE  LinksHold(s)'
    <2>1. \A p : EdgeAt(s, p)' = EdgeAt(s, p)
          BY <1>3 DEF EdgeAt, Target, Items
    <2>2. \A rel : EdgeExists(s, rel)' <=> EdgeExists(s, rel)
          BY <1>3 DEF EdgeExists, RelRows, Rel
    <2>3. ASSUME NEW p \in imp'[s].edges
          PROVE  ~ EdgeExists(s, EdgeAt(s, p))'
      <3>1. PICK rel : rel = EdgeAt(s, p)
            OBVIOUS
      <3>2. ~ EdgeExists(s, rel)
            BY <1>1, <1>2, <1>3, <2>3, <3>1 DEF LinksHold
      <3>3. EdgeAt(s, p)' = rel
            BY <2>1, <3>1
      <3> QED BY <1>3, <3>2, <3>3 DEF EdgeExists, RelRows, Rel
    <2> QED BY <2>3 DEF LinksHold
  <1>4. CASE Handles(s)
    <2>1. UNCHANGED rels
          BY <1>1, <1>4, HandlesGood DEF Advances, Refuses, Proceeds, Raise, RollbackWrites
    <2>2. CASE Keeps(s)
          BY <1>3, <2>1, <2>2 DEF Keeps, Held
    <2>3. CASE ImportStep(s)
      <3>1. ~ LookupItems(s) /\ ~ MergeItem(s) /\ ~ CreateItem(s)
            BY <1>1, <1>2 DEF LookupItems, MergeItem, CreateItem, Flushed, FlushFails, Goto, Reply,
               Raise, SessionTypeOK
      <3> QED BY <1>1, <2>3, <3>1, MapEdgesHolds, InsertLinkHolds DEF ImportStep
    <2> QED BY <1>1, <1>2, <2>2, <2>3, StepSeen DEF UnderWay, Stages
  <1>5. CASE Still(s)
        BY <1>3, <1>5 DEF Still, storeVars
  <1>6. ~ Commit(s) /\ ~ LoseConnection(s)
        BY <1>1, <1>2 DEF Commit, LoseConnection, Fail, Raise, SessionTypeOK
  <1>7. ~ (s \notin InFlight /\ pc'[s] = pc[s])
        BY <1>2 DEF InFlight
  <1>8. ASSUME NEW c \in Calls, pc' = [pc EXCEPT ![s] = c.op]
        PROVE  FALSE
    <2>1. pc'[s] = c.op /\ c.op # "import_link"
          BY <1>1, <1>8, CallAssumption, CallsByOp DEF SessionTypeOK
    <2> QED BY <1>2, <2>1
  <1> QED BY <1>1, <1>4, <1>5, <1>6, <1>7, <1>8, AloneStep

LEMMA DeclaredNext ==
    ASSUME OneClient, WellFormed, DatabaseUp, DeclaredInv, [Next]_vars, NEW s \in Requests,
           pc'[s] = "done"
    PROVE  resp'[s] \in Declared
  <1>1. AloneInv /\ EffectInv /\ SessionTypeOK /\ EffectInOrder(s)
        BY AloneFacts DEF DeclaredInv, HoldInv, AloneInv
  <1>2. CASE Handles(s)
    <2>1. ~ BreakDeadlock(s)
          BY <1>1, NoDeadlock DEF BreakDeadlock, DeadlockAbort
    <2> QED BY <1>1, <1>2, <2>1, AssetStepDeclared, GraphStepDeclared, RelStepDeclared, ImportStepDeclared
           DEF Handles, DeclaredInv, AnswersDeclared
  <1>3. CASE Commit(s)
    <2>1. PICK c : c = call[s]
          OBVIOUS
    <2>2. resp'[s] = Abstract!Success(c)
          BY <1>1, <1>3, <2>1 DEF Commit, EffectInOrder
    <2> QED BY <2>2 DEF Abstract!Success, Declared
  <1>4. ~ LoseConnection(s)
        BY DEF LoseConnection, Fail, DatabaseUp
  <1>5. CASE pc'[s] = pc[s] /\ resp'[s] = resp[s]
        BY <1>5 DEF DeclaredInv, OnlyDeclaredAnswers
  <1>6. ASSUME NEW c \in Calls, pc' = [pc EXCEPT ![s] = c.op]
        PROVE  FALSE
    <2>1. pc'[s] = c.op /\ c.op # "done"
          BY <1>1, <1>6, CallAssumption, CallsByOp DEF SessionTypeOK
    <2> QED BY <2>1
  <1> QED BY <1>1, <1>2, <1>3, <1>4, <1>5, <1>6, AloneStep DEF Still

(* Served one after the other by a database that answers, well-formed      *)
(* requests never see an exception: whatever the constraints of the tables *)
(* refuse, a lookup has refused before (app/core/exceptions.py,            *)
(* api/v1/assets.py:71-135).                                               *)
THEOREM DeclaredAlone ==
    ASSUME OneClient, WellFormed, DatabaseUp
    PROVE  Spec => []OnlyDeclaredAnswers
  <1>1. OneClient /\ WellFormed /\ DatabaseUp
        OBVIOUS
  <1> DEFINE J == OnlyDeclaredAnswers /\ \A r \in Requests : LinksHold(r)
  <1>2. Init => J
        BY DEF Init, SessionInit, OnlyDeclaredAnswers, LinksHold
  <1>3. HoldInv /\ EffectInv' /\ J /\ [Next]_vars => J'
    <2> SUFFICES ASSUME HoldInv, EffectInv', J, [Next]_vars
                 PROVE  J'
        OBVIOUS
    <2>1. DeclaredInv
          BY DEF DeclaredInv
    <2> QED BY <1>1, <2>1, LinksHoldNext, DeclaredNext DEF OnlyDeclaredAnswers
  <1>4. J => OnlyDeclaredAnswers
        OBVIOUS
  <1>5. Spec => []HoldInv
        BY <1>1, HoldInvariance
  <1> QED BY <1>2, <1>3, <1>4, <1>5, EffectsAreWritten, PTL DEF Spec

-----------------------------------------------------------------------------
(* A graph is closed: what its edges end at is read in the same request.   *)

Closed(g) == EdgeEnds(g) \subseteq NodeIds(g)

CacheClosed == \A k \in GraphKeys : cache[k] # Nil => Closed(cache[k])

(* Of a graph being read, the neighbours that are no nodes yet exist.      *)
ReadSoFar(r) ==
    /\ pc[r] = "graph_rels" => graph[r].root.id = call[r].asset
    /\ pc[r] = "graph_nodes" =>
           /\ EdgeEnds(graph[r]) \subseteq NodeIds(graph[r]) \cup todo[r]
           /\ \A a \in todo[r] : HasAsset(r, call[r].tenant, a)
    /\ pc[r] = "graph_cache" => Closed(graph[r])
    /\ GraphAnswer(r) => Closed(graph[r])

(* A request whose graph is not being read keeps the one it has.           *)
GraphRests(s) ==
    /\ graph'[s] = graph[s] /\ todo'[s] = todo[s]
    /\ \/ /\ pc'[s] = pc[s] /\ call'[s] = call[s]
          /\ pc[s] \in {"graph_rels", "graph_nodes", "graph_cache"} => UNCHANGED storeVars
       \/ pc'[s] \notin {"graph_rels", "graph_nodes", "graph_cache"}
    /\ GraphAnswer(s)' => GraphAnswer(s)

LEMMA RestingGraph ==
    ASSUME NEW s \in Requests, ReadSoFar(s), GraphRests(s)
    PROVE  ReadSoFar(s)'
  <1>1. GraphAnswer(s)' => Closed(graph[s])'
        BY DEF ReadSoFar, GraphRests, Closed, NodeIds, EdgeEnds
  <1>2. CASE pc'[s] = pc[s] /\ call'[s] = call[s]
    <2>1. CASE pc[s] \in {"graph_rels", "graph_nodes", "graph_cache"}
      <3>1. UNCHANGED storeVars /\ graph'[s] = graph[s] /\ todo'[s] = todo[s]
            BY <1>2, <2>1 DEF GraphRests
      <3>2. \A t, a : HasAsset(s, t, a)' <=> HasAsset(s, t, a)
            BY <3>1 DEF HasAsset, AssetRows, Asset, storeVars
      <3> QED BY <1>1, <1>2, <3>1, <3>2 DEF ReadSoFar, Closed, NodeIds, EdgeEnds
    <2>2. CASE pc[s] \notin {"graph_rels", "graph_nodes", "graph_cache"}
          BY <1>1, <1>2, <2>2 DEF ReadSoFar
    <2> QED BY <2>1, <2>2
  <1>3. CASE pc'[s] \notin {"graph_rels", "graph_nodes", "graph_cache"}
        BY <1>1, <1>3 DEF ReadSoFar
  <1> QED BY <1>2, <1>3 DEF GraphRests

(* A step either reads the graph of s or leaves it alone.                  *)
LEMMA GraphFrame ==
    ASSUME OneClient, AloneInv, [Next]_vars, NEW s \in Requests
    PROVE  (GraphStep(s) /\ UNCHANGED <<inval, imp>>) \/ GraphRests(s)
  <1>1. /\ ApiInv /\ EffectInv /\ SessionTypeOK /\ EffectInOrder(s) /\ GraphTypeOK
        BY AloneFacts DEF AloneInv, ApiInv, TypeOK
  <1>2. ASSUME NEW r \in Requests, r # s, GraphStep(r)
        PROVE  graph'[s] = graph[s] /\ todo'[s] = todo[s]
        BY <1>1, <1>2 DEF GraphStep, ReadCache, ReadRoot, ReadRels, ReadNode, WriteCache, GraphTypeOK
  <1>3. \/ GraphStep(s) /\ UNCHANGED <<inval, imp>>
        \/ graph'[s] = graph[s] /\ todo'[s] = todo[s]
        BY <1>2 DEF Next, Serve, Arrive, BreakDeadlock, LoseConnection, PassTime, ExpireGraph, Idle, vars,
           graphVars, RelStep, ImportStep
  <1> SUFFICES ASSUME ~ (GraphStep(s) /\ UNCHANGED <<inval, imp>>)
               PROVE  GraphRests(s)
      OBVIOUS
  <1>4. ASSUME Elsewhere(s)
        PROVE  GraphRests(s)
    <2>1. GraphAnswer(s)' => GraphAnswer(s)
      <3> SUFFICES ASSUME GraphAnswer(s)'
                   PROVE  GraphAnswer(s)
          OBVIOUS
      <3>1. call'[s] = call[s] /\ call[s] # Nil /\ call[s].op = "get_graph" /\ resp'[s] = "200"
            BY <1>1, <1>4 DEF GraphAnswer, Op, Elsewhere, EffectInOrder
      <3>2. call[s] \in GraphCall
            BY <1>1, <3>1, CallAssumption, CallsByOp DEF SessionTypeOK
      <3> QED BY <1>4, <3>1, <3>2 DEF Elsewhere, GraphAnswer, Op
    <2> QED BY <1>3, <1>4, <2>1 DEF Elsewhere, GraphRests, Reading
  <1>5. CASE Handles(s)
    <2>1. CASE BreakDeadlock(s)
          BY <2>1, NoDeadlock DEF BreakDeadlock, DeadlockAbort
    <2> QED BY <1>1, <1>4, <1>5, <2>1, AssetStepElsewhere, RelStepElsewhere, ImportStepElsewhere
           DEF Handles
  <1>6. CASE Still(s)
        BY <1>3, <1>6 DEF Still, GraphRests, GraphAnswer, Op
  <1>7. CASE UNCHANGED call /\ (Commit(s) \/ LoseConnection(s))
    <2>1. pc'[s] = "done" /\ (resp'[s] = resp[s] \/ resp'[s] = "OperationalError")
          BY <1>1, <1>7 DEF Commit, LoseConnection, Fail, Raise, SessionTypeOK
    <2> QED BY <1>3, <1>7, <2>1 DEF GraphRests, GraphAnswer, Op
  <1>8. CASE Arrive(s)
    <2>1. resp'[s] = Nil
          BY <1>1, <1>8 DEF Arrive, Begin, EffectInOrder
    <2>2. Nil # "200"
          BY SessionAssumption DEF Codes, Declared
    <2>3. PICK c \in Calls : pc' = [pc EXCEPT ![s] = c.op]
          BY <1>8 DEF Arrive, Begin
    <2>4. pc'[s] \notin {"graph_rels", "graph_nodes", "graph_cache"}
          BY <1>1, <2>3, CallAssumption, CallsByOp DEF SessionTypeOK
    <2> QED BY <1>3, <2>1, <2>2, <2>4 DEF GraphRests, GraphAnswer
  <1>9. CASE s \notin InFlight /\ pc'[s] = pc[s] /\ resp'[s] = resp[s] /\ call'[s] = call[s]
        BY <1>3, <1>9 DEF InFlight, GraphRests, GraphAnswer, Op
  <1>10. CASE /\ s \notin InFlight /\ pc'[s] = pc[s] /\ resp'[s] = resp[s]
              /\ ~ Arrive(s) /\ ~ Handles(s)
    <2>1. ASSUME NEW r \in Requests, r # s, Arrive(r)
          PROVE  call'[s] = call[s]
          BY <1>1, <2>1 DEF Arrive, Begin, SessionTypeOK
    <2>2. ASSUME NEW r \in Requests, Handles(r)
          PROVE  call'[s] = call[s]
          BY <1>1, <1>10, <2>2, HandlesGood DEF GoodStep, OthersStay
    <2>3. (\E r \in Requests : Arrive(r) \/ Handles(r)) \/ UNCHANGED call
      <3>1. ASSUME NEW r \in Requests, Serve(r)
            PROVE  Handles(r) \/ UNCHANGED call
            BY <3>1 DEF Serve, Handles, Commit
      <3>2. ASSUME NEW r \in Requests, LoseConnection(r)
            PROVE  UNCHANGED call
            BY <3>2 DEF LoseConnection, Fail
      <3>3. ASSUME NEW k \in GraphKeys, ExpireGraph(k)
            PROVE  UNCHANGED call
            BY <3>3 DEF ExpireGraph, Expire, sessionVars
      <3>4. PassTime \/ UNCHANGED vars => UNCHANGED call
            BY DEF PassTime, Tick, vars, sessionVars
      <3>5. ASSUME NEW r \in Requests, BreakDeadlock(r)
            PROVE  Handles(r)
            BY <3>5 DEF Handles
      <3> QED BY <3>1, <3>2, <3>3, <3>4, <3>5 DEF Next, Idle
    <2>4. call'[s] = call[s]
          BY <1>10, <2>1, <2>2, <2>3
    <2> QED BY <1>9, <1>10, <2>4
  <1>11. ~ (s \notin InFlight /\ pc'[s] = pc[s] /\ ~ Arrive(s) /\ Handles(s))
    <2>1. Handles(s) => s \in InFlight
          BY <1>1, HandlesGood DEF Advances, InFlight
    <2> QED BY <2>1
  <1> QED BY <1>3, <1>5, <1>6, <1>7, <1>8, <1>9, <1>10, <1>11, AloneStep

(* Nobody deletes between the reads: a neighbour is found when its turn    *)
(* comes.                                                                  *)
LEMMA GraphStepCloses ==
    ASSUME AloneInv, CacheClosed, NEW r \in Requests, GraphStep(r), ReadSoFar(r)
    PROVE  ReadSoFar(r)'
  <1>1. /\ HandlerInOrder(r) /\ EffectInOrder(r) /\ EdgesStayInTenant
        /\ StoreTypeOK /\ SessionTypeOK /\ CacheTypeOK /\ GraphTypeOK
        BY AloneFacts DEF ApiInv, TypeOK, StoreInv
  <1>2. /\ pc[r] \in {"get_graph", "graph_root", "graph_rels", "graph_nodes", "graph_cache"}
        /\ call[r] \in GraphCall /\ resp[r] = Nil /\ NothingWritten(r) /\ UNCHANGED call
        BY <1>1 DEF GraphStep, ReadCache, ReadRoot, ReadRels, ReadNode, WriteCache, HandlerInOrder,
           EffectInOrder
  <1>3. PICK t, c : t = call[r].tenant /\ c = call[r].asset /\ t \in Tenants /\ c \in AssetIds
        BY <1>2 DEF GraphCall
  <1>4. Nil # "200" /\ call'[r].tenant = t /\ call'[r].asset = c
        BY <1>2, <1>3, SessionAssumption DEF Codes, Declared
  <1>5. CASE ReadCache(r)
    <2>1. CASE CacheHit(t, c) /\ graph' = [graph EXCEPT ![r] = Cached(t, c)] /\ Reply(r, "200")
      <3>1. PICK g : g = cache[<<t, c>>]
            OBVIOUS
      <3>2. g \in Graph /\ Closed(g) /\ graph' = [graph EXCEPT ![r] = g]
            BY <1>1, <1>3, <2>1, <3>1 DEF CacheHit, Cached, GraphKey, GraphKeys, CacheTypeOK, CacheClosed
      <3>3. graph'[r] = g /\ pc'[r] = "commit"
            BY <1>1, <2>1, <3>2 DEF GraphTypeOK, Reply, SessionTypeOK
      <3> QED BY <3>2, <3>3 DEF ReadSoFar, Closed, NodeIds, EdgeEnds
    <2>2. CASE Goto(r, "graph_root")
          BY <1>1, <1>2, <1>4, <2>2 DEF Goto, SessionTypeOK, ReadSoFar, GraphAnswer
    <2> QED BY <1>3, <1>5, <2>1, <2>2 DEF ReadCache
  <1>6. CASE ReadRoot(r)
    <2>1. CASE Raise(r, "404")
          BY <1>1, <2>1 DEF Raise, SessionTypeOK, ReadSoFar, GraphAnswer
    <2>2. CASE /\ graph' = [graph EXCEPT ![r] =
                      [root |-> NodeOf(c, Asset(r, c)), nodes |-> {}, edges |-> {}]]
               /\ Goto(r, "graph_rels")
      <3>1. graph'[r].root.id = c /\ pc'[r] = "graph_rels" /\ resp'[r] = Nil
            BY <1>1, <1>2, <2>2 DEF GraphTypeOK, Goto, SessionTypeOK, NodeOf
      <3> QED BY <1>4, <3>1 DEF ReadSoFar, GraphAnswer
    <2> QED BY <1>3, <1>6, <2>1, <2>2 DEF ReadRoot
  <1>7. CASE ReadRels(r)
    <2>1. PICK edges, new : /\ edges = {EdgeOf(Rel(r, x)) : x \in AdjacentRels(r, t, c)}
                            /\ new = Neighbours(edges, c)
          OBVIOUS
    <2>2. /\ graph' = [graph EXCEPT ![r].edges = edges] /\ todo' = [todo EXCEPT ![r] = new]
          /\ Goto(r, IF todo'[r] = {} THEN "graph_cache" ELSE "graph_nodes")
          /\ UNCHANGED storeVars /\ pc[r] = "graph_rels"
          BY <1>3, <1>7, <2>1 DEF ReadRels
    <2>3. graph[r] \in Graph /\ graph[r].root.id = c
          BY <1>1, <1>3, <2>2 DEF HandlerInOrder, GraphTypeOK, ReadSoFar
    <2>4. PICK g : g = graph'[r]
          OBVIOUS
    <2>5. g.root.id = c /\ g.edges = edges /\ todo'[r] = new
          BY <1>1, <2>2, <2>3, <2>4 DEF Graph, GraphTypeOK
    <2>6. ASSUME NEW e \in edges
          PROVE  HasAsset(r, t, e.src) /\ HasAsset(r, t, e.dst)
      <3>1. PICK x \in AdjacentRels(r, t, c) : e = EdgeOf(Rel(r, x))
            BY <2>1
      <3>2. x \in RelIds /\ IsRow(Rel(r, x)) /\ Rel(r, x).tenant = t /\ Rel(r, x) = rels[x]
            BY <1>2, <3>1 DEF AdjacentRels, HasRel, RelRows, Rel, NothingWritten, WritesOnly
      <3>3. rels[x] \in RelRow
            BY <1>1, <3>2 DEF StoreTypeOK, RelCell, IsRow
      <3>4. /\ e.src = rels[x].src /\ e.dst = rels[x].dst
            /\ e.src \in AssetIds /\ e.dst \in AssetIds
            BY <3>1, <3>2, <3>3 DEF EdgeOf, RelRow
      <3>5. \A a \in {e.src, e.dst} : IsRow(assets[a]) /\ assets[a].tenant = t
            BY <1>1, <3>2, <3>4 DEF EdgesStayInTenant, EdgesInTenant
      <3>6. \A a \in {e.src, e.dst} : Asset(r, a) = assets[a]
            BY <1>2, <3>4 DEF Asset, NothingWritten, WritesOnly
      <3> QED BY <3>4, <3>5, <3>6 DEF HasAsset, AssetRows
    <2>7. EdgeEnds(g) \subseteq NodeIds(g) \cup new
          BY <2>1, <2>5 DEF EdgeEnds, NodeIds, Neighbours
    <2>8. \A a \in new : HasAsset(r, t, a)
          BY <2>1, <2>6 DEF Neighbours
    <2>9. \A a \in new : HasAsset(r, t, a)'
          BY <2>2, <2>8 DEF HasAsset, AssetRows, Asset, storeVars
    <2>10. /\ resp'[r] = Nil
           /\ pc'[r] = IF new = {} THEN "graph_cache" ELSE "graph_nodes"
           BY <1>1, <1>2, <2>2, <2>5 DEF Goto, SessionTypeOK
    <2>11. EdgeEnds(graph[r])' = EdgeEnds(g) /\ NodeIds(graph[r])' = NodeIds(g)
           BY <2>4 DEF EdgeEnds, NodeIds
    <2> QED BY <1>4, <2>5, <2>7, <2>9, <2>10, <2>11 DEF ReadSoFar, GraphAnswer, Closed
  <1>8. CASE ReadNode(r)
    <2>1. /\ graph[r] \in Graph /\ UNCHANGED storeVars
          /\ EdgeEnds(graph[r]) \subseteq NodeIds(graph[r]) \cup todo[r]
          /\ \A a \in todo[r] : HasAsset(r, t, a)
          BY <1>1, <1>3, <1>8 DEF ReadNode, HandlerInOrder, GraphTypeOK, ReadSoFar
    <2>2. PICK a \in todo[r] :
             /\ todo' = [todo EXCEPT ![r] = @ \ {a}]
             /\ graph' = [graph EXCEPT ![r].nodes =
                    IF HasAsset(r, t, a) THEN @ \cup {NodeOf(a, Asset(r, a))} ELSE @]
             /\ Goto(r, IF todo[r] = {a} THEN "graph_cache" ELSE "graph_nodes")
          BY <1>3, <1>8 DEF ReadNode
    <2>3. PICK g, n : g = graph'[r] /\ n = NodeOf(a, Asset(r, a))
          OBVIOUS
    <2>4. g.root = graph[r].root /\ g.edges = graph[r].edges /\ g.nodes = graph[r].nodes \cup {n}
          BY <1>1, <2>1, <2>2, <2>3 DEF Graph, GraphTypeOK
    <2>5. n.id = a
          BY <2>3 DEF NodeOf
    <2>6. NodeIds(g) = NodeIds(graph[r]) \cup {a} /\ EdgeEnds(g) = EdgeEnds(graph[r])
          BY <2>4, <2>5 DEF NodeIds, EdgeEnds
    <2>7. todo'[r] = todo[r] \ {a}
          BY <1>1, <2>2 DEF GraphTypeOK
    <2>8. EdgeEnds(g) \subseteq NodeIds(g) \cup todo'[r]
          BY <2>1, <2>6, <2>7
    <2>9. \A b \in todo'[r] : HasAsset(r, t, b)'
          BY <2>1, <2>7 DEF HasAsset, AssetRows, Asset, storeVars
    <2>10. /\ resp'[r] = Nil
           /\ pc'[r] = IF todo'[r] = {} THEN "graph_cache" ELSE "graph_nodes"
           BY <1>1, <1>2, <2>2, <2>7 DEF Goto, SessionTypeOK
    <2>11. EdgeEnds(graph[r])' = EdgeEnds(g) /\ NodeIds(graph[r])' = NodeIds(g)
           BY <2>3 DEF EdgeEnds, NodeIds
    <2> QED BY <1>4, <2>8, <2>9, <2>10, <2>11 DEF ReadSoFar, GraphAnswer, Closed
  <1>9. CASE WriteCache(r)
    <2>1. pc'[r] = "commit" /\ graph'[r] = graph[r] /\ pc[r] = "graph_cache"
          BY <1>1, <1>9 DEF WriteCache, Reply, SessionTypeOK
    <2> QED BY <2>1 DEF ReadSoFar, Closed, NodeIds, EdgeEnds
  <1> QED BY <1>5, <1>6, <1>7, <1>8, <1>9 DEF GraphStep

(* What a step does to the cache.                                          *)
LEMMA CacheMoves ==
    ASSUME EffectInv, [Next]_vars
    PROVE  \/ \A k \in GraphKeys : cache'[k] \in {cache[k], Nil}
           \/ \E r \in Requests : WriteCache(r)
  <1>1. ApiInv /\ CacheTypeOK
        BY DEF EffectInv, ImportInv, ApiInv, TypeOK
  <1>2. ASSUME NEW r \in Requests, RelStep(r), UNCHANGED <<graphVars, imp>>
        PROVE  \A k \in GraphKeys : cache'[k] \in {cache[k], Nil}
        BY <1>1, <1>2, RelStepElsewhere DEF Elsewhere
  <1>3. ASSUME NEW k \in GraphKeys, ExpireGraph(k)
        PROVE  \A l \in GraphKeys : cache'[l] \in {cache[l], Nil}
        BY <1>1, <1>3 DEF ExpireGraph, Expire, CacheTypeOK
  <1>4. UNCHANGED cache => \A k \in GraphKeys : cache'[k] \in {cache[k], Nil}
        OBVIOUS
  <1>5. ASSUME NEW r \in Requests, GraphStep(r), ~ WriteCache(r)
        PROVE  UNCHANGED cache
        BY <1>5 DEF GraphStep, ReadCache, ReadRoot, ReadRels, ReadNode
  <1> QED BY <1>2, <1>3, <1>4, <1>5 DEF Next, Arrive, Serve, BreakDeadlock, LoseConnection, PassTime,
         Idle, vars

(* Served one after the other, no client is answered with a graph that has *)
(* an edge to an asset it does not show: the neighbours are looked up one  *)
(* by one after the relationships, and none is gone by then, nor when the  *)
(* graph comes from the cache (asset_service.py:131-166).                  *)
THEOREM ClosedAlone ==
    ASSUME OneClient
    PROVE  Spec => []GraphIsClosed
  <1>1. OneClient
        OBVIOUS
  <1> DEFINE J == CacheClosed /\ \A r \in Requests : ReadSoFar(r)
  <1>2. Init => J
    <2>1. Nil # "200"
          BY SessionAssumption DEF Codes, Declared
    <2> QED BY <2>1 DEF Init, SessionInit, CacheInit, CacheClosed, ReadSoFar, GraphAnswer
  <1>3. AloneInv /\ J /\ [Next]_vars => J'
    <2> SUFFICES ASSUME AloneInv, CacheClosed, \A r \in Requests : ReadSoFar(r), [Next]_vars
                 PROVE  CacheClosed' /\ \A r \in Requests : ReadSoFar(r)'
        OBVIOUS
    <2>1. \A r \in Requests : ReadSoFar(r)'
          BY <1>1, GraphFrame, RestingGraph, GraphStepCloses
    <2>2. CacheTypeOK
          BY AloneFacts DEF ApiInv, TypeOK
    <2>3. CASE \A k \in GraphKeys : cache'[k] \in {cache[k], Nil}
      <3>1. \A k \in GraphKeys : cache'[k] # Nil => Closed(cache'[k])
            BY <2>3 DEF CacheClosed
      <3> QED BY <2>1, <3>1 DEF CacheClosed, Closed, NodeIds, EdgeEnds
    <2>4. ASSUME NEW r \in Requests, WriteCache(r)
          PROVE  CacheClosed'
      <3>1. PICK g : g = graph[r]
            OBVIOUS
      <3>2. Closed(g)
            BY <2>4, <3>1 DEF WriteCache, ReadSoFar
      <3>3. \A k \in GraphKeys : cache'[k] \in {cache[k], g}
            BY <2>2, <2>4, <3>1 DEF WriteCache, SetCached, CacheTypeOK
      <3>4. \A k \in GraphKeys : cache'[k] # Nil => Closed(cache'[k])
            BY <3>2, <3>3 DEF CacheClosed
      <3> QED BY <3>4 DEF CacheClosed, Closed, NodeIds, EdgeEnds
    <2> QED BY <2>1, <2>3, <2>4, CacheMoves DEF AloneInv
  <1>4. J => GraphIsClosed
        BY DEF ReadSoFar, GraphIsClosed, Closed
  <1>5. Spec => []AloneInv
        BY <1>1, ServedAlone
  <1> QED BY <1>2, <1>3, <1>4, <1>5, PTL DEF Spec

-----------------------------------------------------------------------------
(* A new relationship is in the graphs of its ends.                        *)

RedisUp == "redis" \notin Faults

(* No item of a batch is linked to an item of the same batch: stage 5 has  *)
(* nothing to write, and it would invalidate nothing.                      *)
BatchesUnlinked ==
    \A c \in Calls : c.op = "import_assets" =>
        \A i, j \in Abstract!ValidItems(c), l \in Links : c.items[i].link[l] # c.items[j].id

Shows(g, a) == g.root.id = a /\ Adjacent(a) \subseteq g.edges

CacheShows == \A k \in GraphKeys : cache[k] # Nil => Shows(cache[k], k[2])

(* The graph being read shows its asset; the entries of both ends are gone *)
(* when the invalidations are through, and nobody else fills them before   *)
(* the commit.                                                             *)
GraphShows(r) ==
    /\ pc[r] = "graph_rels" => graph[r].root.id = call[r].asset
    /\ pc[r] \in {"graph_nodes", "graph_cache"} => Shows(graph[r], call[r].asset)

Invalidated(r) ==
    LET c == call[r] IN
    /\ pc[r] = "invalidate" =>
           \A a \in {c.src, c.dst} : a \in inval[r] \/ Cached(c.tenant, a) = Nil
    /\ pc[r] = "commit" /\ c.op = "create_relationship" =>
           \A a \in {c.src, c.dst} : Cached(c.tenant, a) = Nil

(* The only edges that appear are those of POST /relationships.            *)
LEMMA NewEdgeIsRelated ==
    ASSUME BatchesUnlinked, EffectInv, EffectInv', NEW r \in Requests, Commit(r),
           NEW c, c = call[r], NEW x \in RelIds, IsRow(rels'[x])
    PROVE  \/ rels'[x] = rels[x]
           \/ /\ c \in RelateCall /\ rels'[x].tenant = c.tenant
              /\ rels'[x].src = c.src /\ rels'[x].dst = c.dst
  <1>1. /\ c \in Calls /\ c \in ApiCalls /\ Abstract!Effect(c)
        /\ rels \in [RelIds -> RelCell]
        BY CommittedEffect, CallAssumption DEF EffectInv, ImportInv, ApiInv, TypeOK, StoreTypeOK
  <1>2. CASE c.op = "delete_asset" /\ Abstract!Delete(c)
        BY <1>2 DEF Abstract!Delete, IsRow
  <1>3. CASE c.op = "create_relationship" /\ Abstract!Relate(c)
    <2>1. c \in RelateCall
          BY <1>1, <1>3, CallsByOp
    <2> QED BY <1>1, <1>3, <2>1 DEF Abstract!Relate
  <1>4. CASE c.op = "delete_relationship" /\ Abstract!Unrelate(c)
        BY <1>1, <1>4 DEF Abstract!Unrelate, IsRow
  <1>5. CASE c.op = "import_assets" /\ Abstract!Import(c)
    <2>1. \A type, src, dst : ~ Abstract!LinkedInBatch(c, type, src, dst)
          BY <1>1, <1>5 DEF BatchesUnlinked, Abstract!LinkedInBatch, Links, Abstract!Links
    <2> QED BY <1>5, <2>1 DEF Abstract!Import
  <1> QED BY <1>1, <1>2, <1>3, <1>4, <1>5 DEF Abstract!Effect, Abstract!Create, Abstract!Update,
         Abstract!Patch

(* A graph shows its asset for good, unless an edge to it is committed.    *)
LEMMA StillShows ==
    ASSUME NEW g, NEW a, Shows(g, a),
           \A x \in RelIds : IsRow(rels'[x]) /\ Touches(rels'[x], a) => rels'[x] = rels[x]
    PROVE  Shows(g, a)'
  <1>1. Adjacent(a)' \subseteq Adjacent(a)
        BY DEF Adjacent
  <1> QED BY <1>1 DEF Shows

(* The commit of a relationship finds the entries of both ends gone.       *)
LEMMA CommitShows ==
    ASSUME BatchesUnlinked, AloneInv, EffectInv', GraphInv', [Next]_vars, NEW r \in Requests, Commit(r),
           \A k \in GraphKeys : cache'[k] \in {cache[k], Nil}, CacheShows, Invalidated(r)
    PROVE  CacheShows'
  <1>1. EffectInv /\ EffectInOrder(r) /\ pc[r] = "commit"
        BY AloneFacts DEF AloneInv, Commit
  <1>2. PICK c : c = call[r]
        OBVIOUS
  <1>3. ASSUME NEW k \in GraphKeys, cache'[k] # Nil, NEW x \in RelIds,
               IsRow(rels'[x]), Touches(rels'[x], k[2]), rels'[x] # rels[x]
        PROVE  FALSE
    <2>1. /\ c \in RelateCall /\ rels'[x].tenant = c.tenant
          /\ rels'[x].src = c.src /\ rels'[x].dst = c.dst
          BY <1>1, <1>2, <1>3, NewEdgeIsRelated
    <2>2. k[2] \in {c.src, c.dst} /\ k \in Tenants \X AssetIds
          BY <1>3, <2>1 DEF Touches, GraphKeys
    <2>3. IsRow(assets'[k[2]]) /\ assets'[k[2]].tenant = c.tenant
      <3>1. EdgesStayInTenant'
            BY DEF EffectInv, ImportInv, ApiInv, StoreInv
      <3> QED BY <1>3, <2>1, <2>2, <3>1 DEF EdgesStayInTenant, EdgesInTenant
    <2>4. k[1] = c.tenant
      <3>1. PICK g : g = cache[k] /\ g = cache'[k]
            BY <1>3
      <3>2. g.root.id = k[2]
            BY <1>3, <3>1 DEF CacheShows, Shows
      <3>3. OfTenant(cache[k], k[1])'
            BY <1>3 DEF GraphInv, CacheInOrder
      <3>4. Known(k[2], k[1])'
            BY <3>1, <3>2, <3>3 DEF OfTenant, NodeIds
      <3> QED BY <2>3, <3>4 DEF Known, IsRow
    <2>5. c.op = "create_relationship"
          BY <2>1 DEF RelateCall
    <2>6. cache[<<c.tenant, k[2]>>] = Nil
          BY <1>1, <1>2, <2>2, <2>5 DEF Invalidated, Cached, GraphKey
    <2>7. k = <<c.tenant, k[2]>>
          BY <2>2, <2>4
    <2> QED BY <1>3, <2>6, <2>7
  <1>4. ASSUME NEW k \in GraphKeys, cache'[k] # Nil
        PROVE  Shows(cache[k], k[2])'
    <2>1. PICK g, a : g = cache[k] /\ a = k[2]
          OBVIOUS
    <2>2. \A x \in RelIds : IsRow(rels'[x]) /\ Touches(rels'[x], a) => rels'[x] = rels[x]
          BY <1>3, <1>4, <2>1
    <2>3. Shows(g, a) /\ cache'[k] = g
          BY <1>4, <2>1 DEF CacheShows
    <2>4. Shows(g, a)'
          BY <2>2, <2>3, StillShows
    <2> QED BY <2>1, <2>3, <2>4 DEF Shows, Adjacent
  <1> QED BY <1>4 DEF CacheShows

LEMMA GraphStepShows ==
    ASSUME AloneInv, GraphInv, CacheShows, NEW r \in Requests, GraphStep(r), GraphShows(r)
    PROVE  GraphShows(r)'
  <1>1. /\ HandlerInOrder(r) /\ EffectInOrder(r) /\ EdgesStayInTenant /\ GraphInOrder(r)
        /\ StoreTypeOK /\ SessionTypeOK /\ CacheTypeOK /\ GraphTypeOK
        BY AloneFacts DEF GraphInv, ApiInv, TypeOK, StoreInv
  <1>2. /\ pc[r] \in {"get_graph", "graph_root", "graph_rels", "graph_nodes", "graph_cache"}
        /\ call[r] \in GraphCall /\ NothingWritten(r) /\ UNCHANGED call
        BY <1>1 DEF GraphStep, ReadCache, ReadRoot, ReadRels, ReadNode, WriteCache, HandlerInOrder,
           EffectInOrder
  <1>3. PICK t, c : t = call[r].tenant /\ c = call[r].asset /\ t \in Tenants /\ c \in AssetIds
        BY <1>2 DEF GraphCall
  <1>4. call'[r].tenant = t /\ call'[r].asset = c
        BY <1>2, <1>3
  <1>5. ASSUME NEW code, NEW label \in {"graph_root"},
               Reply(r, code) \/ Raise(r, code) \/ Goto(r, label)
        PROVE  GraphShows(r)'
        BY <1>1, <1>5 DEF Reply, Raise, Goto, SessionTypeOK, GraphShows
  <1>6. CASE ReadCache(r) \/ WriteCache(r)
        BY <1>5, <1>6 DEF ReadCache, WriteCache
  <1>7. CASE ReadRoot(r)
    <2>1. CASE /\ graph' = [graph EXCEPT ![r] =
                      [root |-> NodeOf(c, Asset(r, c)), nodes |-> {}, edges |-> {}]]
               /\ Goto(r, "graph_rels")
      <3>1. graph'[r].root.id = c /\ pc'[r] = "graph_rels"
            BY <1>1, <1>2, <2>1 DEF GraphTypeOK, Goto, SessionTypeOK, NodeOf
      <3> QED BY <1>4, <3>1 DEF GraphShows
    <2> QED BY <1>3, <1>5, <1>7, <2>1 DEF ReadRoot
  <1>8. CASE ReadRels(r)
    <2>1. PICK edges : edges = {EdgeOf(Rel(r, x)) : x \in AdjacentRels(r, t, c)}
          OBVIOUS
    <2>2. /\ graph' = [graph EXCEPT ![r].edges = edges] /\ UNCHANGED storeVars
          /\ pc[r] = "graph_rels"
          BY <1>3, <1>8, <2>1 DEF ReadRels
    <2>3. graph[r] \in Graph /\ graph[r] # Nil /\ graph[r].root.id = c
          BY <1>1, <1>3, <2>2 DEF HandlerInOrder, GraphTypeOK, GraphShows
    <2>4. PICK g : g = graph'[r]
          OBVIOUS
    <2>5. g.root.id = c /\ g.edges = edges
          BY <1>1, <2>2, <2>3, <2>4 DEF Graph, GraphTypeOK
    <2>6. Known(c, t)
          BY <1>1, <1>3, <2>3 DEF GraphInOrder, OfTenant, NodeIds
    <2>7. Adjacent(c) \subseteq edges
      <3> SUFFICES ASSUME NEW x \in RelIds, IsRow(rels[x]), Touches(rels[x], c)
                   PROVE  EdgeOf(rels[x]) \in edges
          BY DEF Adjacent
      <3>1. IsRow(assets[c]) /\ assets[c].tenant = rels[x].tenant
            BY <1>1 DEF EdgesStayInTenant, EdgesInTenant, Touches
      <3>2. rels[x].tenant = t
            BY <2>6, <3>1 DEF Known, IsRow
      <3>3. Rel(r, x) = rels[x]
            BY <1>2 DEF Rel, NothingWritten, WritesOnly
      <3>4. x \in AdjacentRels(r, t, c)
            BY <3>2, <3>3 DEF AdjacentRels, HasRel, RelRows
      <3> QED BY <2>1, <3>3, <3>4
    <2>8. Shows(g, c)'
          BY <2>2, <2>5, <2>7 DEF Shows, Adjacent, storeVars
    <2>9. Shows(graph[r], call[r].asset)'
          BY <1>4, <2>4, <2>8 DEF Shows, Adjacent
    <2>10. pc'[r] # "graph_rels"
           BY <1>1, <1>8 DEF ReadRels, Goto, SessionTypeOK
    <2> QED BY <2>9, <2>10 DEF GraphShows
  <1>9. CASE ReadNode(r)
    <2>1. /\ graph[r] \in Graph /\ UNCHANGED storeVars /\ Shows(graph[r], c)
          BY <1>1, <1>3, <1>9 DEF ReadNode, HandlerInOrder, GraphTypeOK, GraphShows
    <2>2. PICK a \in todo[r] :
             /\ graph' = [graph EXCEPT ![r].nodes =
                    IF HasAsset(r, t, a) THEN @ \cup {NodeOf(a, Asset(r, a))} ELSE @]
             /\ Goto(r, IF todo[r] = {a} THEN "graph_cache" ELSE "graph_nodes")
          BY <1>3, <1>9 DEF ReadNode
    <2>3. PICK g : g = graph'[r]
          OBVIOUS
    <2>4. g.root = graph[r].root /\ g.edges = graph[r].edges
          BY <1>1, <2>1, <2>2, <2>3 DEF Graph, GraphTypeOK
    <2>5. Shows(g, c)'
          BY <2>1, <2>4 DEF Shows, Adjacent, storeVars
    <2>6. Shows(graph[r], call[r].asset)'
          BY <1>4, <2>3, <2>5 DEF Shows, Adjacent
    <2>7. pc'[r] # "graph_rels"
          BY <1>1, <2>2 DEF Goto, SessionTypeOK
    <2> QED BY <2>6, <2>7 DEF GraphShows
  <1> QED BY <1>6, <1>7, <1>8, <1>9 DEF GraphStep

LEMMA RestingShows ==
    ASSUME NEW s \in Requests, GraphShows(s), GraphRests(s)
    PROVE  GraphShows(s)'
  <1> SUFFICES ASSUME pc'[s] \in {"graph_rels", "graph_nodes", "graph_cache"}
               PROVE  GraphShows(s)'
      BY DEF GraphShows
  <1>1. /\ pc'[s] = pc[s] /\ call'[s] = call[s] /\ graph'[s] = graph[s]
        /\ UNCHANGED storeVars
        BY DEF GraphRests
  <1>2. Adjacent(call[s].asset)' = Adjacent(call[s].asset)
        BY <1>1 DEF Adjacent, storeVars
  <1> QED BY <1>1, <1>2 DEF GraphShows, Shows

(* From the INSERT of a relationship to its commit.                        *)
LEMMA InvalidatedNext ==
    ASSUME OneClient, RedisUp, AloneInv, [Next]_vars, NEW s \in Requests, Invalidated(s)
    PROVE  Invalidated(s)'
  <1>1. /\ ApiInv /\ EffectInv /\ SessionTypeOK /\ EffectInOrder(s) /\ HandlerInOrder(s) /\ OnlyOne
        /\ CacheTypeOK /\ RelTypeOK
        BY AloneFacts DEF AloneInv, ApiInv, TypeOK
  <1>2. ASSUME pc'[s] \notin {"invalidate", "commit"}
        PROVE  Invalidated(s)'
        BY <1>2 DEF Invalidated
  <1>3. PICK c : c = call[s]
        OBVIOUS
  <1>4. ASSUME Handles(s), c \notin RelateCall
        PROVE  Invalidated(s)'
    <2>1. GoodStep(s) /\ UNCHANGED call
          BY <1>1, <1>4, HandlesGood DEF Advances
    <2>2. c \in Calls
          BY <1>1, <1>3, <1>4, HandlesGood DEF Advances, EffectInOrder, SessionTypeOK
    <2>3. c.op # "create_relationship"
          BY <1>4, <2>2, CallAssumption, CallsByOp
    <2>4. call'[s] = c
          BY <1>3, <2>1
    <2>5. pc'[s] # "invalidate"
          BY <1>4, <2>1, <2>4 DEF GoodStep, HandlerInOrder
    <2> QED BY <2>3, <2>4, <2>5 DEF Invalidated
  <1>5. CASE RelStep(s) /\ c \in RelateCall
    <2>1. UNCHANGED call /\ c \in Calls /\ c.op = "create_relationship"
          BY <1>1, <1>3, <1>5 DEF RelStep, VerifySource, VerifyTarget, Verify, LookupEdge, InsertNewRel,
             InvalidateGraphs, RemoveRel, EffectInOrder, SessionTypeOK, RelateCall
    <2>2. c.tenant \in Tenants /\ c.src \in AssetIds /\ c.dst \in AssetIds /\ call'[s] = c
          BY <1>3, <1>5, <2>1 DEF RelateCall
    <2>3. CASE InsertNewRel(s)
      <3>1. CASE inval' = [inval EXCEPT ![s] = Endpoints(NewRel(c))] /\ Goto(s, "invalidate")
        <4>1. inval'[s] = {c.src, c.dst} /\ pc'[s] = "invalidate"
              BY <1>1, <3>1 DEF RelTypeOK, Endpoints, NewRel, Goto, SessionTypeOK
        <4> QED BY <2>2, <4>1 DEF Invalidated
      <3>2. CASE Raise(s, "IntegrityError")
            BY <1>1, <1>2, <3>2 DEF Raise, SessionTypeOK
      <3> QED BY <1>3, <2>3, <3>1, <3>2 DEF InsertNewRel, RelInsertFails
    <2>4. CASE InvalidateGraphs(s)
      <3>1. PICK a \in inval[s] :
               /\ Invalidate(c.tenant, a)
               /\ inval' = [inval EXCEPT ![s] = @ \ {a}]
               /\ IF inval[s] = {a} THEN Reply(s, "201") ELSE Goto(s, "invalidate")
            BY <1>3, <2>4 DEF InvalidateGraphs
      <3>2. cache' = [cache EXCEPT ![<<c.tenant, a>>] = Nil]
            BY <3>1 DEF Invalidate, RedisUp, RedisDown, GraphKey
      <3>3. pc[s] = "invalidate" /\ inval[s] \in SUBSET AssetIds /\ inval'[s] = inval[s] \ {a}
            BY <1>1, <2>4, <3>1 DEF InvalidateGraphs, RelTypeOK
      <3>4. \A b \in {c.src, c.dst} : b \in inval'[s] \/ cache'[<<c.tenant, b>>] = Nil
        <4> SUFFICES ASSUME NEW b \in {c.src, c.dst}, b \notin inval'[s]
                     PROVE  cache'[<<c.tenant, b>>] = Nil
            OBVIOUS
        <4>1. b = a \/ cache[<<c.tenant, b>>] = Nil
              BY <1>3, <3>3 DEF Invalidated, Cached, GraphKey
        <4>2. <<c.tenant, b>> \in GraphKeys
              BY <2>2 DEF GraphKeys
        <4> QED BY <1>1, <3>2, <4>1, <4>2 DEF CacheTypeOK
      <3>5. pc'[s] = "commit" => inval'[s] = {}
            BY <1>1, <3>1, <3>3 DEF Goto, SessionTypeOK
      <3> QED BY <2>2, <3>4, <3>5 DEF Invalidated, Cached, GraphKey
    <2>5. CASE VerifySource(s) \/ VerifyTarget(s) \/ LookupEdge(s)
          BY <1>1, <1>2, <2>5 DEF VerifySource, VerifyTarget, Verify, LookupEdge, Goto, Raise,
             SessionTypeOK
    <2>6. ~ RemoveRel(s)
          BY <1>1, <1>3, <1>5 DEF RemoveRel, HandlerInOrder, RelateCall, UnrelateCall
    <2> QED BY <1>5, <2>3, <2>4, <2>5, <2>6 DEF RelStep
  <1>6. Handles(s) /\ c \in RelateCall => RelStep(s)
    <2>1. AssetStep(s) \/ GraphStep(s) \/ ImportStep(s) => c \notin RelateCall
      <3>1. AssetStep(s) => c \notin RelateCall
            BY <1>1, <1>3 DEF AssetStep, CreateAsset, InsertNewAsset, GetAsset, FlushUpdate, UpdateStatus,
               RemoveAsset, AbortCascade, HandlerInOrder, CreateCall, UpdateCall, StatusCall, DeleteCall,
               RelateCall
      <3>2. GraphStep(s) => c \notin RelateCall
            BY <1>1, <1>3 DEF GraphStep, ReadCache, ReadRoot, ReadRels, ReadNode, WriteCache,
               HandlerInOrder, GraphCall, RelateCall
      <3>3. ImportStep(s) => c \notin RelateCall
            BY <1>1, <1>3, ImportStepFacts DEF RelateCall
      <3> QED BY <3>1, <3>2, <3>3
    <2>2. ~ BreakDeadlock(s)
          BY NoDeadlock DEF BreakDeadlock, DeadlockAbort
    <2> QED BY <2>1, <2>2 DEF Handles
  <1>7. CASE Still(s)
    <2> SUFFICES ASSUME pc'[s] \in {"invalidate", "commit"}, c.op = "create_relationship"
                 PROVE  Invalidated(s)'
      <3>1. pc[s] = "invalidate" => c.op = "create_relationship"
            BY <1>1, <1>3 DEF HandlerInOrder, RelateCall
      <3>2. pc'[s] = pc[s] /\ call'[s] = c
            BY <1>3, <1>7 DEF Still
      <3> QED BY <3>1, <3>2 DEF Invalidated
    <2>1. pc'[s] = pc[s] /\ call'[s] = c /\ inval'[s] = inval[s] /\ c # Nil
          BY <1>1, <1>3, <1>7 DEF Still, EffectInOrder
    <2>2. ASSUME NEW r \in Requests, WriteCache(r)
          PROVE  FALSE
          BY <1>1, <2>1, <2>2 DEF WriteCache, OnlyOne, InFlight
    <2>3. \A k \in GraphKeys : cache'[k] \in {cache[k], Nil}
          BY <1>1, <2>2, CacheMoves
    <2>4. c \in RelateCall
      <3>1. c \in Calls
            BY <1>1, <1>3, <2>1 DEF SessionTypeOK
      <3> QED BY <3>1, CallAssumption, CallsByOp
    <2>5. \A a \in {c.src, c.dst} : <<c.tenant, a>> \in GraphKeys
          BY <2>4 DEF RelateCall, GraphKeys
    <2>6. \A a \in {c.src, c.dst} : Cached(c.tenant, a) = Nil => Cached(c.tenant, a)' = Nil
          BY <2>3, <2>5 DEF Cached, GraphKey
    <2> QED BY <1>3, <2>1, <2>6 DEF Invalidated, Cached, GraphKey
  <1>8. CASE Commit(s) \/ LoseConnection(s)
        BY <1>1, <1>2, <1>8 DEF Commit, LoseConnection, Fail, Raise, SessionTypeOK
  <1>9. ASSUME NEW d \in Calls, pc' = [pc EXCEPT ![s] = d.op]
        PROVE  Invalidated(s)'
    <2>1. pc'[s] = d.op /\ d.op \notin {"invalidate", "commit"}
          BY <1>1, <1>9, CallAssumption, CallsByOp DEF SessionTypeOK
    <2> QED BY <1>2, <2>1
  <1>10. CASE s \notin InFlight /\ pc'[s] = pc[s]
         BY <1>2, <1>10 DEF InFlight
  <1> QED BY <1>4, <1>5, <1>6, <1>7, <1>8, <1>9, <1>10, AloneStep

(* Served one after the other, and Redis answering, no cached graph misses *)
(* a relationship that a client created: between the invalidations and the *)
(* commit nobody reads the tables as they were, and what is read after the *)
(* commit has it (relationship_service.py:73-86,                           *)
(* tests/test_relationships.py:254).                                       *)
THEOREM NewEdgesAlone ==
    ASSUME OneClient, RedisUp, BatchesUnlinked
    PROVE  Spec => []NewEdgesAreServed
  <1>1. OneClient /\ RedisUp /\ BatchesUnlinked
        OBVIOUS
  <1> DEFINE J == CacheShows /\ \A r \in Requests : GraphShows(r) /\ Invalidated(r)
  <1>2. Init => J
        BY DEF Init, SessionInit, CacheInit, CacheShows, GraphShows, Invalidated
  <1>3. AloneInv /\ EffectInv' /\ GraphInv /\ GraphInv' /\ J /\ [Next]_vars => J'
    <2> SUFFICES ASSUME AloneInv, EffectInv', GraphInv, GraphInv', CacheShows,
                        \A r \in Requests : GraphShows(r) /\ Invalidated(r), [Next]_vars
                 PROVE  CacheShows' /\ \A r \in Requests : GraphShows(r)' /\ Invalidated(r)'
        OBVIOUS
    <2>1. \A r \in Requests : GraphShows(r)' /\ Invalidated(r)'
          BY <1>1, GraphFrame, RestingShows, GraphStepShows, InvalidatedNext
    <2>2. CacheTypeOK /\ EffectInv
          BY AloneFacts DEF AloneInv, ApiInv, TypeOK
    <2>3. ASSUME UNCHANGED rels, NEW g, NEW a, Shows(g, a)
          PROVE  Shows(g, a)'
          BY <2>3 DEF Shows, Adjacent
    <2>4. ASSUME UNCHANGED rels, \A k \in GraphKeys : cache'[k] \in {cache[k], Nil}
          PROVE  CacheShows'
      <3>1. ASSUME NEW k \in GraphKeys, cache'[k] # Nil
            PROVE  Shows(cache[k], k[2])'
        <4>1. PICK g, a : g = cache[k] /\ a = k[2]
              OBVIOUS
        <4>2. Shows(g, a) /\ cache'[k] = g
              BY <2>4, <3>1, <4>1 DEF CacheShows
        <4>3. Shows(g, a)'
              BY <2>3, <2>4, <4>2
        <4> QED BY <4>1, <4>2, <4>3 DEF Shows, Adjacent
      <3> QED BY <3>1 DEF CacheShows
    <2>5. ASSUME NEW r \in Requests, WriteCache(r)
          PROVE  CacheShows'
      <3>1. PICK t, c, g : t = call[r].tenant /\ c = call[r].asset /\ g = graph[r]
            OBVIOUS
      <3>2. /\ UNCHANGED storeVars /\ pc[r] = "graph_cache" /\ Shows(g, c)
            /\ cache' = [cache EXCEPT ![<<t, c>>] = g] \/ UNCHANGED cache
            BY <2>5, <3>1 DEF WriteCache, SetCached, GraphKey, GraphShows
      <3> SUFFICES ASSUME NEW k \in GraphKeys, cache'[k] # Nil
                   PROVE  Shows(cache[k], k[2])'
          BY DEF CacheShows
      <3>3. PICK h, a : h = cache'[k] /\ a = k[2]
            OBVIOUS
      <3>4. Shows(h, a)
            BY <2>2, <3>2, <3>3 DEF CacheTypeOK, CacheShows
      <3>5. Shows(h, a)'
            BY <2>3, <3>2, <3>4 DEF storeVars
      <3> QED BY <3>3, <3>5 DEF Shows, Adjacent
    <2>6. ASSUME NEW r \in Requests, Commit(r), \A k \in GraphKeys : cache'[k] \in {cache[k], Nil}
          PROVE  CacheShows'
          BY <1>1, <2>6, CommitShows
    <2>7. UNCHANGED rels \/ \E r \in Requests : Commit(r)
          BY <2>2, StepCommits
    <2> QED BY <2>1, <2>2, <2>4, <2>5, <2>6, <2>7, CacheMoves
  <1>4. J => NewEdgesAreServed
        BY DEF NewEdgesAreServed, Misses, CacheShows, Shows
  <1>5. Spec => []AloneInv
        BY <1>1, ServedAlone
  <1>6. Spec => []GraphInv
        BY GraphInitInv, GraphNextInv, PTL DEF Spec
  <1> QED BY <1>2, <1>3, <1>4, <1>5, <1>6, EffectsAreWritten, PTL DEF Spec
=============================================================================
