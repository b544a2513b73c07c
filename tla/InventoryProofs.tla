-------------------------- MODULE InventoryProofs --------------------------
(***************************************************************************)
(* The service implements the abstract inventory.  EffectInv is inductive: *)
(* what a request has written is the effect of its call, on the committed  *)
(* tables, of the statements it is through with; others cannot change the  *)
(* rows it wrote.  A commit is then the abstract success, and what a       *)
(* handler raises is true of the committed tables when it raises it.       *)
(***************************************************************************)
EXTENDS HandlerProofs

(* The vocabulary of the instance is that of the service.                  *)
LEMMA SameWords ==
    /\ \A cell : Abstract!IsRow(cell) <=> IsRow(cell)
    /\ \A item : Abstract!KeyOf(item) = KeyOf(item)
    /\ \A row1, row2 : Abstract!SameKey(row1, row2) <=> SameKey(row1, row2)
    /\ \A rel1, rel2 : Abstract!SameEdge(rel1, rel2) <=> SameEdge(rel1, rel2)
    /\ \A rel, a : Abstract!Touches(rel, a) <=> Touches(rel, a)
  BY DEF Abstract!IsRow, IsRow, Abstract!KeyOf, KeyOf, Abstract!SameKey, SameKey,
     Abstract!SameEdge, SameEdge, Abstract!Touches, Touches

(* A call is one of the eight, told by its op.                             *)
LEMMA CallsByOp ==
    ASSUME NEW c \in ApiCalls
    PROVE  /\ c.op \in {"create_asset", "update_asset", "update_status", "delete_asset",
                        "get_graph", "create_relationship", "delete_relationship",
                        "import_assets"}
           /\ c.op = "create_asset" <=> c \in CreateCall
           /\ c.op = "update_asset" <=> c \in UpdateCall
           /\ c.op = "update_status" <=> c \in StatusCall
           /\ c.op = "delete_asset" <=> c \in DeleteCall
           /\ c.op = "get_graph" <=> c \in GraphCall
           /\ c.op = "create_relationship" <=> c \in RelateCall
           /\ c.op = "delete_relationship" <=> c \in UnrelateCall
           /\ c.op = "import_assets" <=> c \in ImportCall
  BY DEF ApiCalls, CreateCall, UpdateCall, StatusCall, DeleteCall, GraphCall, RelateCall,
     UnrelateCall, ImportCall

-----------------------------------------------------------------------------
(* What one request has written stays what it is while others step.        *)

(* Nobody else commits a row that a request has written.                   *)
LEMMA LockedRows ==
    ASSUME StoreInv, NEW r \in Requests, StoreStep(r), NEW s \in Requests, s # r
    PROVE  /\ \A a \in AssetIds : wa[s][a] # Nil => assets'[a] = assets[a]
           /\ \A x \in RelIds : wr[s][x] # Nil => rels'[x] = rels[x]
  <1>1. CASE CommitWrites(r)
    <2>1. /\ \A a \in AssetIds : wa[s][a] # Nil => wa[r][a] = Nil
          /\ \A x \in RelIds : wr[s][x] # Nil => wr[r][x] = Nil
          BY DEF StoreInv, LocksExclusive
    <2> QED BY <1>1, <2>1 DEF CommitWrites, Asset, Rel
  <1>2. CASE ~ CommitWrites(r)
        BY <1>2 DEF StoreStep, storeVars, InsertAsset, UpdateAsset, DeleteAsset, InsertRel,
           DeleteRel, RollbackWrites
  <1> QED BY <1>1, <1>2

(* The tables as a request that has written sees them from there on.       *)
Held(s) ==
    /\ wa'[s] = wa[s] /\ wr'[s] = wr[s]
    /\ \A a \in AssetIds : wa[s][a] # Nil => assets'[a] = assets[a]
    /\ \A x \in RelIds : wr[s][x] # Nil => rels'[x] = rels[x]

LEMMA OthersHeld ==
    ASSUME StoreInv, NEW r \in Requests, StoreStep(r), NEW s \in Requests, s # r
    PROVE  Held(s)
  BY LockedRows, OthersWrite DEF Held

LEMMA ItemsStay ==
    ASSUME NEW s \in Requests, NEW c, NEW flushed, Held(s), ItemsWritten(s, c, flushed)
    PROVE  ItemsWritten(s, c, flushed)'
  BY DEF Held, ItemsWritten

LEMMA LinksStay ==
    ASSUME NEW s \in Requests, NEW c, Held(s), LinksWritten(s, c)
    PROVE  LinksWritten(s, c)'
  BY DEF Held, LinksWritten

LEMMA EffectStays ==
    ASSUME NEW s \in Requests, NEW c \in ApiCalls, Held(s), EffectWritten(s, c)
    PROVE  EffectWritten(s, c)'
  <1> USE NilAssumption DEF Held, WritesOnly, NothingWritten
  <1>1. CASE c.op = "create_asset" /\ CreateWritten(s, c)
    <2>1. PICK a \in AssetIds, t \in Times :
             /\ WritesOnly(s, {a}, {}) /\ assets[a] = Nil /\ wa[s][a] = NewAsset(c, t)
          BY <1>1 DEF CreateWritten
    <2>2. NewAsset(c, t) \in AssetRow
          BY <1>1, CallsByOp DEF CreateCall, NewAsset, AssetRow
    <2>3. assets'[a] = Nil /\ wa'[s][a] = NewAsset(c, t) /\ WritesOnly(s, {a}, {})'
          BY <2>1, <2>2
    <2> QED BY <1>1, <2>3 DEF EffectWritten, CreateWritten, NewAsset
  <1>2. CASE c.op = "update_asset" /\ UpdateWritten(s, c)
    <2>1. c.asset \in AssetIds
          BY <1>2, CallsByOp DEF UpdateCall
    <2> QED BY <1>2, <2>1 DEF EffectWritten, UpdateWritten, Abstract!Has
  <1>3. CASE c.op = "update_status" /\ StatusWritten(s, c)
    <2>1. c.asset \in AssetIds
          BY <1>3, CallsByOp DEF StatusCall
    <2> QED BY <1>3, <2>1 DEF EffectWritten, StatusWritten, Abstract!Has
  <1>4. CASE c.op = "delete_asset" /\ DeleteWritten(s, c)
    <2>1. c.asset \in AssetIds
          BY <1>4, CallsByOp DEF DeleteCall
    <2> QED BY <1>4, <2>1 DEF EffectWritten, DeleteWritten, Abstract!Has
  <1>5. CASE c.op = "create_relationship" /\ RelateWritten(s, c)
    <2>1. PICK x \in RelIds :
             WritesOnly(s, {}, {x}) /\ rels[x] = Nil /\ wr[s][x] = NewRel(c)
          BY <1>5 DEF RelateWritten
    <2>2. NewRel(c) \in RelRow
          BY <1>5, CallsByOp DEF RelateCall, NewRel, RelRow
    <2>3. rels'[x] = Nil /\ wr'[s][x] = NewRel(c) /\ WritesOnly(s, {}, {x})'
          BY <2>1, <2>2
    <2> QED BY <1>5, <2>3 DEF EffectWritten, RelateWritten
  <1>6. CASE c.op = "delete_relationship" /\ UnrelateWritten(s, c)
    <2>1. c.rel \in RelIds
          BY <1>6, CallsByOp DEF UnrelateCall
    <2> QED BY <1>6, <2>1 DEF EffectWritten, UnrelateWritten, Abstract!HasRel
  <1>7. CASE c.op = "get_graph" /\ NothingWritten(s)
        BY <1>7 DEF EffectWritten
  <1>8. CASE /\ c.op = "import_assets"
             /\ Abstract!Reportable(c)
             /\ ItemsWritten(s, c, Abstract!ValidItems(c)) /\ LinksWritten(s, c)
    <2>1. PICK valid : valid = Abstract!ValidItems(c)
          OBVIOUS
    <2>2. ItemsWritten(s, c, valid)' /\ LinksWritten(s, c)'
          BY <1>8, <2>1, ItemsStay, LinksStay
    <2> QED BY <1>8, <2>1, <2>2 DEF EffectWritten
  <1> QED BY <1>1, <1>2, <1>3, <1>4, <1>5, <1>6, <1>7, <1>8 DEF EffectWritten

(* A row that was there keeps its tenant and key, or goes for good,        *)
(* whatever others do and whatever the request writes itself.              *)
LEMMA RowRemains ==
    ASSUME StoreInv, NEW r \in Requests, StoreStep(r),
           NEW s \in Requests, s # r \/ ~ RollbackWrites(r),
           NEW a \in AssetIds, NEW row, Remains(s, a, row)
    PROVE  Remains(s, a, row)'
  <1> USE NilAssumption DEF StoreInv, StoreTypeOK, AssetCell, Remains, Asset, IsRow, SameKey
  <1>1. CASE UNCHANGED storeVars
        BY <1>1 DEF storeVars
  <1>2. CASE \E b \in AssetIds, new \in AssetRow : InsertAsset(r, b, new)
        BY <1>2 DEF InsertAsset, FreshAssets
  <1>3. CASE \E b \in AssetIds, new \in AssetRow :
                 UpdateAsset(r, b, new) /\ SameKey(new, Asset(r, b))
        BY <1>3 DEF UpdateAsset, AssetRows
  <1>4. CASE \E b \in AssetIds : DeleteAsset(r, b)
        BY <1>4 DEF DeleteAsset
  <1>5. CASE \E x \in RelIds, rel \in RelRow : InsertRel(r, x, rel)
        BY <1>5 DEF InsertRel
  <1>6. CASE \E x \in RelIds : DeleteRel(r, x)
        BY <1>6 DEF DeleteRel
  <1>7. CASE CommitWrites(r)
    <2>1. /\ assets'[a] = Asset(r, a)
          /\ wa'[s][a] = IF s = r THEN Nil ELSE wa[s][a]
          BY <1>7 DEF CommitWrites, ForgetWrites
    <2>2. CASE s = r
          BY <2>1, <2>2
    <2>3. CASE s # r /\ wa[r][a] = Nil
          BY <2>1, <2>3
    <2>4. CASE s # r /\ wa[r][a] # Nil
      <3>1. wa[s][a] = Nil /\ assets[a] # Deleted /\ assets'[a] = wa[r][a]
            BY <2>1, <2>4 DEF LocksExclusive, WritesFit
      <3>2. IsRow(assets[a]) /\ SameKey(assets[a], row)
            BY <3>1
      <3>3. IsRow(wa[r][a]) => SameKey(wa[r][a], row)
            BY <3>2 DEF WritesFit
      <3> QED BY <2>1, <2>4, <3>1, <3>3
    <2> QED BY <2>2, <2>3, <2>4
  <1>8. CASE RollbackWrites(r)
        BY <1>8 DEF RollbackWrites, ForgetWrites
  <1> QED BY <1>1, <1>2, <1>3, <1>4, <1>5, <1>6, <1>7, <1>8 DEF StoreStep

(* A step of one request keeps what the others answer, and their time.     *)
Alone(r) == \A s \in Requests \ {r} : resp'[s] = resp[s] /\ now'[s] = now[s]

LEMMA OtherBatches ==
    ASSUME EffectInv, NEW r \in Requests, GoodStep(r), Alone(r), NEW s \in Requests, s # r,
           BatchInOrder(s)
    PROVE  BatchInOrder(s)'
  <1>1. /\ StoreInv /\ StoreStep(r) /\ Held(s)
        /\ orm \in [Requests -> [AssetIds -> AssetRow \cup {Nil}]] /\ imp[s] \in Locals
        BY OthersHeld DEF EffectInv, ImportInv, ApiInv, GoodStep, TypeOK, SessionTypeOK,
           ImportTypeOK
  <1>2. /\ pc'[s] = pc[s] /\ call'[s] = call[s] /\ orm'[s] = orm[s] /\ imp'[s] = imp[s]
        /\ now'[s] = now[s]
        BY DEF GoodStep, OthersStay, Alone
  <1>3. Items(s)' = Items(s) /\ Valid(s)' = Valid(s)
        BY <1>2 DEF Items, Valid
  <1>4. PICK c, flushed : c = call[s] /\ flushed = Valid(s) \ imp[s].left
        OBVIOUS
  <1>5. ItemsWritten(s, c, flushed)' /\ LinksWritten(s, c)'
        BY <1>1, <1>4, ItemsStay, LinksStay DEF BatchInOrder
  <1>6. ItemsWritten(s, call[s], Valid(s) \ imp[s].left)' /\ LinksWritten(s, call[s])'
        BY <1>2, <1>3, <1>4, <1>5 DEF ItemsWritten, LinksWritten
  <1>7. \A a \in AssetIds : wa'[s][a] # Nil => wa'[s][a].last_seen = now'[s]
        BY <1>1, <1>2 DEF Held, BatchInOrder
  <1>8. ASSUME NEW a \in AssetIds, orm'[s][a] # Nil
        PROVE  Remains(s, a, orm[s][a])'
    <2>1. PICK row : row = orm[s][a]
          OBVIOUS
    <2>2. Remains(s, a, row)'
          BY <1>1, <1>2, <1>8, <2>1, RowRemains DEF BatchInOrder
    <2> QED BY <1>2, <2>1, <2>2 DEF Remains
  <1>9. \A t \in TempIds : imp'[s].tmp[t] # Nil =>
           /\ wa'[s][imp'[s].tmp[t]] # Nil
           /\ \E i \in Valid(s)' :
                 Items(s)'[i].id = t /\ wa'[s][imp'[s].tmp[t]].key = KeyOf(Items(s)'[i])
        BY <1>1, <1>2, <1>3 DEF Held, BatchInOrder
  <1>10. Abstract!Reportable(call'[s])
         BY <1>2 DEF BatchInOrder
  <1> QED BY <1>6, <1>7, <1>8, <1>9, <1>10 DEF BatchInOrder

(* A step of one request leaves the effects of the others in order.        *)
LEMMA OtherEffects ==
    ASSUME EffectInv, NEW r \in Requests, GoodStep(r), Alone(r), NEW s \in Requests, s # r
    PROVE  EffectInOrder(s)'
  <1>1. /\ StoreInv /\ StoreStep(r) /\ Held(s) /\ EffectInOrder(s) /\ HandlerInOrder(s)
        /\ call[s] \in Calls \cup {Nil}
        BY OthersHeld DEF EffectInv, ImportInv, ApiInv, GoodStep, TypeOK, SessionTypeOK
  <1>2. pc'[s] = pc[s] /\ call'[s] = call[s] /\ resp'[s] = resp[s]
        BY DEF GoodStep, OthersStay, Alone
  <1>3. PICK c : c = call[s]
        OBVIOUS
  <1>4. NothingWritten(s) => NothingWritten(s)'
        BY <1>1 DEF Held, NothingWritten, WritesOnly
  <1>5. pc[s] = "flush_asset" => Sound(s, c.asset, c.tenant)'
    <2> SUFFICES ASSUME pc[s] = "flush_asset" PROVE Sound(s, c.asset, c.tenant)'
        OBVIOUS
    <2>1. PICK a, t : a = c.asset /\ t = c.tenant
          OBVIOUS
    <2>2. a \in AssetIds /\ Sound(s, a, t)
          BY <1>1, <1>3, <2>1 DEF HandlerInOrder, UpdateCall, EffectInOrder
    <2>3. Sound(s, a, t)'
          BY <1>1, <2>2, StoreStepSound
    <2> QED BY <2>1, <2>3
  <1>6. ASSUME c # Nil, EffectWritten(s, c)
        PROVE  EffectWritten(s, c)'
        BY <1>1, <1>3, <1>6, EffectStays, CallAssumption
  <1>7. pc[s] = "invalidate" => RelateWritten(s, c)'
    <2> SUFFICES ASSUME pc[s] = "invalidate" PROVE RelateWritten(s, c)'
        OBVIOUS
    <2>1. c # Nil /\ c.op = "create_relationship" /\ RelateWritten(s, c)
          BY <1>1, <1>3 DEF HandlerInOrder, RelateCall, EffectInOrder
    <2>2. EffectWritten(s, c)'
          BY <1>6, <2>1 DEF EffectWritten
    <2> QED BY <2>1, <2>2 DEF EffectWritten
  <1>8. pc[s] = "commit" => c # Nil /\ EffectWritten(s, c)' /\ resp[s] = Abstract!Success(c)
        BY <1>1, <1>3, <1>6 DEF EffectInOrder
  <1>9. pc[s] \in Stages => BatchInOrder(s)'
        BY <1>1, OtherBatches DEF EffectInOrder, Stages
  <1>10. /\ pc[s] = "flush_asset" => Sound(s, call[s].asset, call[s].tenant)'
         /\ pc[s] = "invalidate" => RelateWritten(s, call[s])'
         /\ pc[s] = "commit" => EffectWritten(s, call[s])'
    <2>1. c = call'[s]
          BY <1>2, <1>3
    <2>2. pc[s] = "flush_asset" => Sound(s, call[s].asset, call[s].tenant)'
          BY <1>5, <2>1 DEF Sound
    <2>3. pc[s] = "invalidate" => RelateWritten(s, call[s])'
          BY <1>7, <2>1 DEF RelateWritten
    <2>4. pc[s] = "commit" => EffectWritten(s, call[s])'
          BY <1>8, <2>1
    <2> QED BY <2>2, <2>3, <2>4
  <1>11. pc[s] = "commit" => resp'[s] = Abstract!Success(call'[s])
         BY <1>2, <1>3, <1>8
  <1> QED BY <1>1, <1>2, <1>4, <1>9, <1>10, <1>11 DEF EffectInOrder, Stages

LEMMA EffectStep ==
    ASSUME EffectInv, NEW r \in Requests, GoodStep(r), Alone(r), ImportInv', EffectInOrder(r)'
    PROVE  EffectInv'
  BY OtherEffects DEF EffectInv

-----------------------------------------------------------------------------
(* What a step of a handler comes to: a refusal that the committed tables  *)
(* justify, or another await with the effect of the call on its way.       *)

Refusals ==
    {"404", "409", "IntegrityError", "StaleDataError", "DeadlockDetected",
     "ValidationError", "OperationalError"}

Refuses(r) == \E code \in Refusals : Raise(r, code) /\ Abstract!Justifies(call[r], code)

Proceeds(r) ==
    /\ pc'[r] \notin {"idle", "done"}
    /\ UNCHANGED <<assets, rels>>
    /\ EffectInOrder(r)'

Advances(r) ==
    /\ pc[r] \notin {"idle", "done"}
    /\ UNCHANGED call
    /\ Alone(r)
    /\ Refuses(r) \/ Proceeds(r)

(* An exception, whatever it is, leaves nothing behind.                    *)
LEMMA RaiseEffect ==
    ASSUME EffectInv, NEW r \in Requests, NEW code \in Codes, Raise(r, code), UNCHANGED call,
           pc[r] # "idle"
    PROVE  EffectInOrder(r)'
  <1>1. /\ pc \in [Requests -> Labels] /\ resp \in [Requests -> Codes \cup {Nil}]
        /\ call[r] # Nil
        BY DEF EffectInv, ImportInv, ApiInv, TypeOK, SessionTypeOK, EffectInOrder
  <1>2. pc'[r] = "done" /\ resp'[r] = code /\ call'[r] = call[r] /\ code # Nil
        BY <1>1, SessionAssumption DEF Raise
  <1> QED BY <1>1, <1>2 DEF EffectInOrder

(* The handler returns after its last statement.                           *)
LEMMA ReplyEffect ==
    ASSUME EffectInv, NEW r \in Requests, NEW code \in Codes, Reply(r, code),
           UNCHANGED <<call, assets, rels>>, pc[r] # "idle",
           NEW c, c = call[r], EffectWritten(r, c)', code = Abstract!Success(c)
    PROVE  Proceeds(r)
  <1>1. /\ pc \in [Requests -> Labels] /\ resp \in [Requests -> Codes \cup {Nil}]
        /\ call[r] # Nil
        BY DEF EffectInv, ImportInv, ApiInv, TypeOK, SessionTypeOK, EffectInOrder
  <1>2. pc'[r] = "commit" /\ resp'[r] = code /\ call'[r] = c /\ code # Nil
        BY <1>1, SessionAssumption DEF Reply
  <1>3. EffectWritten(r, call[r])' /\ resp'[r] = Abstract!Success(call'[r])
        BY <1>2
  <1> QED BY <1>1, <1>2, <1>3 DEF EffectInOrder, Proceeds

(* The handler moves on before it has written anything.                    *)
LEMMA GotoEffect ==
    ASSUME EffectInv, NEW r \in Requests,
           NEW label \in Labels \ (Stages \cup {"idle", "commit", "done", "flush_asset", "invalidate"}),
           Goto(r, label), UNCHANGED <<call, storeVars>>,
           pc[r] \notin Stages \cup {"idle", "commit", "done", "invalidate"}
    PROVE  Proceeds(r)
  <1>1. pc \in [Requests -> Labels] /\ EffectInOrder(r)
        BY DEF EffectInv, ImportInv, ApiInv, TypeOK, SessionTypeOK
  <1>2. pc'[r] = label /\ resp'[r] = resp[r] /\ call'[r] = call[r]
        BY <1>1 DEF Goto
  <1>3. NothingWritten(r)'
        BY <1>1 DEF EffectInOrder, Stages, NothingWritten, WritesOnly, storeVars
  <1> QED BY <1>1, <1>2, <1>3 DEF EffectInOrder, Proceeds, Stages, storeVars

(* Before its first write a handler reads the committed tables.            *)
LEMMA SeesCommitted ==
    ASSUME NEW r \in Requests, NothingWritten(r)
    PROVE  /\ \A a \in AssetIds : Asset(r, a) = assets[a] /\ wa[r][a] = Nil
           /\ \A x \in RelIds : Rel(r, x) = rels[x] /\ wr[r][x] = Nil
  <1>1. \A a \in AssetIds : Asset(r, a) = assets[a] /\ wa[r][a] = Nil
        BY DEF NothingWritten, WritesOnly, Asset
  <1>2. \A x \in RelIds : Rel(r, x) = rels[x] /\ wr[r][x] = Nil
        BY DEF NothingWritten, WritesOnly, Rel
  <1> QED BY <1>1, <1>2

LEMMA FindsCommitted ==
    ASSUME NEW r \in Requests, NothingWritten(r)
    PROVE  /\ \A a \in AssetIds : a \in AssetRows(r) <=> IsRow(assets[a])
           /\ \A a \in AssetIds, t \in Tenants : HasAsset(r, t, a) <=> Abstract!Has(t, a)
           /\ \A x \in RelIds, t \in Tenants : HasRel(r, t, x) <=> Abstract!HasRel(t, x)
  <1>1. /\ \A a \in AssetIds : Asset(r, a) = assets[a]
        /\ \A x \in RelIds : Rel(r, x) = rels[x]
        BY SeesCommitted
  <1>2. \A a \in AssetIds : a \in AssetRows(r) <=> IsRow(assets[a])
        BY <1>1 DEF AssetRows
  <1>3. \A a \in AssetIds, t \in Tenants : HasAsset(r, t, a) <=> Abstract!Has(t, a)
        BY <1>1 DEF AssetRows, HasAsset, Abstract!Has, Abstract!IsRow, IsRow
  <1>4. \A x \in RelIds, t \in Tenants : HasRel(r, t, x) <=> Abstract!HasRel(t, x)
        BY <1>1 DEF RelRows, HasRel, Abstract!HasRel, Abstract!IsRow, IsRow
  <1> QED BY <1>2, <1>3, <1>4

(* A step that returns or raises, or moves on, changes no other answer.    *)
LEMMA AloneBy ==
    ASSUME NEW r \in Requests, \A s \in Requests \ {r} : now'[s] = now[s],
           \/ \E code : Raise(r, code) \/ Reply(r, code)
           \/ \E label : Goto(r, label),
           resp \in [Requests -> Codes \cup {Nil}]
    PROVE  Alone(r)
  BY DEF Alone, Raise, Reply, Goto

-----------------------------------------------------------------------------
(* The operations on one asset.                                            *)

(* The flush of a PUT writes what its payload says, or what was there.     *)
LEMMA FlushedIsUpdated ==
    ASSUME NEW c \in UpdateCall, NEW loaded \in AssetRow, NEW old \in AssetRow,
           NEW t \in Times
    PROVE  Abstract!Updated(c, old, DirtyColumns(UpdatedAsset(c, loaded, t), loaded, old))
  <1> DEFINE row == UpdatedAsset(c, loaded, t)
             new == DirtyColumns(row, loaded, old)
  <1>1. /\ row.status = loaded.status
        /\ row.tags = IF c.tags = Nil THEN loaded.tags ELSE loaded.tags \cup c.tags
        /\ row.meta = IF c.meta = Nil THEN loaded.meta ELSE MergeMeta(loaded.meta, c.meta)
        /\ row.source = IF c.source = Nil THEN loaded.source ELSE c.source
        BY DEF UpdatedAsset, AssetRow
  <1> HIDE DEF row
  <1>2. /\ new.tags = Dirty(row.tags, loaded.tags, old.tags)
        /\ new.meta = Dirty(row.meta, loaded.meta, old.meta)
        /\ new.source = Dirty(row.source, loaded.source, old.source)
        BY DEF DirtyColumns, AssetRow
  <1>3. new = [old EXCEPT !.tags = new.tags, !.meta = new.meta,
                          !.source = new.source, !.last_seen = new.last_seen]
    <2>1. Dirty(row.status, loaded.status, old.status) = old.status
          BY <1>1 DEF Dirty
    <2> QED BY <2>1 DEF DirtyColumns, AssetRow
  <1> HIDE DEF new
  <1>4. new.tags # old.tags => c.tags # Nil /\ c.tags \subseteq new.tags
        BY <1>1, <1>2 DEF Dirty
  <1>5. new.source # old.source => new.source = c.source
        BY <1>1, <1>2 DEF Dirty
  <1>6. new.meta # old.meta =>
            c.meta # Nil /\ \A k \in MetaKeys : c.meta[k] \in {Nil, new.meta[k]}
    <2>1. c.meta # Nil => \A k \in MetaKeys : c.meta[k] \in {Nil, MergeMeta(loaded.meta, c.meta)[k]}
          BY DEF MergeMeta
    <2> QED BY <1>1, <1>2, <2>1 DEF Dirty
  <1>7. Abstract!IsRow(new)
    <2>1. new \in AssetRow
          BY UpdatedAssetType, DirtyColumnsFit DEF new, row
    <2> QED BY <2>1, NilAssumption DEF Abstract!IsRow
  <1> QED BY <1>3, <1>4, <1>5, <1>6, <1>7 DEF Abstract!Updated, new, row

(* What the handlers of an asset may rely on.                              *)
LEMMA AssetStepFacts ==
    ASSUME EffectInv, NEW r \in Requests, AssetStep(r)
    PROVE  /\ UNCHANGED call
           /\ pc[r] \notin Stages \cup {"idle", "commit", "done", "invalidate"}
           /\ NothingWritten(r) /\ EffectInOrder(r) /\ HandlerInOrder(r)
           /\ StoreTypeOK /\ SessionTypeOK /\ resp[r] = Nil
           /\ call[r] \in Calls /\ call[r].tenant \in Tenants
  <1>1. /\ EffectInOrder(r) /\ HandlerInOrder(r) /\ StoreTypeOK /\ SessionTypeOK
        BY DEF EffectInv, ImportInv, ApiInv, TypeOK
  <1>2. /\ UNCHANGED call
        /\ pc[r] \in {"create_asset", "insert_asset", "update_asset", "flush_asset",
                      "update_status", "delete_asset"}
        BY DEF AssetStep, CreateAsset, InsertNewAsset, GetAsset, FlushUpdate, UpdateStatus,
           RemoveAsset, AbortCascade
  <1>3. call[r] \in Calls
        BY <1>1, <1>2 DEF EffectInOrder, SessionTypeOK
  <1> QED BY <1>1, <1>2, <1>3, SessionAssumption DEF EffectInOrder, Stages

LEMMA CreateAssetAdvances ==
    ASSUME EffectInv, NEW r \in Requests, CreateAsset(r)
    PROVE  Refuses(r) \/ Proceeds(r)
  <1>1. /\ AssetStep(r) /\ NothingWritten(r) /\ HandlerInOrder(r) /\ SessionTypeOK
        BY AssetStepFacts DEF AssetStep
  <1>2. PICK c : c = call[r]
        OBVIOUS
  <1>3. c \in CreateCall
        BY <1>1, <1>2 DEF CreateAsset, HandlerInOrder
  <1>4. CASE AssetsByKey(r, c.tenant, {c.key}) # {} /\ Raise(r, "409")
    <2>1. PICK a \in AssetIds : HasAsset(r, c.tenant, a) /\ Asset(r, a).key = c.key
          BY <1>4 DEF AssetsByKey
    <2>2. Abstract!Has(c.tenant, a) /\ assets[a].key = c.key
          BY <1>1, <1>3, <2>1, SeesCommitted, FindsCommitted DEF CreateCall
    <2>3. Abstract!Taken(c)
          BY <1>3, <2>2 DEF Abstract!Taken, Abstract!Has, Abstract!SameKey, CreateCall
    <2> QED BY <1>2, <1>4, <2>3 DEF Refuses, Refusals, Abstract!Justifies
  <1>5. CASE Goto(r, "insert_asset") /\ UNCHANGED storeVars
    <2>1. "insert_asset" \in Labels \ (Stages \cup {"idle", "commit", "done", "flush_asset", "invalidate"})
          BY DEF Labels, Stages
    <2> QED BY <1>1, <1>5, <2>1, AssetStepFacts, GotoEffect
  <1> QED BY <1>2, <1>4, <1>5 DEF CreateAsset

LEMMA InsertNewAssetAdvances ==
    ASSUME EffectInv, NEW r \in Requests, InsertNewAsset(r)
    PROVE  Refuses(r) \/ Proceeds(r)
  <1>1. /\ AssetStep(r) /\ NothingWritten(r) /\ HandlerInOrder(r) /\ StoreTypeOK /\ SessionTypeOK
        BY AssetStepFacts DEF AssetStep
  <1>2. PICK c, t : c = call[r] /\ t = now[r]
        OBVIOUS
  <1>3. c \in CreateCall /\ t \in Times /\ pc[r] = "insert_asset" /\ UNCHANGED call
        BY <1>1, <1>2 DEF InsertNewAsset, HandlerInOrder, SessionTypeOK
  <1>4. ASSUME NEW a \in AssetIds, InsertAsset(r, a, NewAsset(c, t)), Reply(r, "201")
        PROVE  Proceeds(r)
    <2>1. PICK row : row = NewAsset(c, t)
          OBVIOUS
    <2>2. /\ wa' = [wa EXCEPT ![r][a] = row] /\ assets[a] = Nil
          /\ UNCHANGED <<assets, rels, wr>>
          BY <1>4, <2>1 DEF InsertAsset, FreshAssets
    <2>3. /\ wa'[r][a] = row /\ \A b \in AssetIds \ {a} : wa'[r][b] = Nil
          /\ \A x \in RelIds : wr'[r][x] = Nil
          BY <1>1, <2>2, SeesCommitted DEF StoreTypeOK
    <2>4. CreateWritten(r, c)'
          BY <1>3, <2>1, <2>2, <2>3 DEF CreateWritten, WritesOnly, NewAsset
    <2>5. EffectWritten(r, c)' /\ "201" = Abstract!Success(c)
          BY <1>3, <2>4 DEF EffectWritten, CreateCall, Abstract!Success
    <2>6. "201" \in Codes
          BY DEF Codes, Declared
    <2> QED BY <1>2, <1>3, <1>4, <2>2, <2>5, <2>6, ReplyEffect
  <1>5. CASE KeyTaken(r, NewAsset(c, t)) /\ Raise(r, "IntegrityError")
    <2>1. PICK a \in AssetIds : IsRow(assets[a]) /\ SameKey(assets[a], NewAsset(c, t))
          BY <1>1, <1>5, SeesCommitted, FindsCommitted DEF KeyTaken, AssetRows
    <2>2. Abstract!Taken(c)
          BY <1>3, <2>1 DEF Abstract!Taken, Abstract!IsRow, IsRow, Abstract!SameKey, SameKey,
             CreateCall, NewAsset
    <2> QED BY <1>2, <1>5, <2>2 DEF Refuses, Refusals, Abstract!Justifies
  <1> QED BY <1>2, <1>4, <1>5 DEF InsertNewAsset

LEMMA GetAssetAdvances ==
    ASSUME EffectInv, NEW r \in Requests, GetAsset(r)
    PROVE  Refuses(r) \/ Proceeds(r)
  <1>1. /\ AssetStep(r) /\ NothingWritten(r) /\ HandlerInOrder(r) /\ StoreTypeOK /\ SessionTypeOK
        /\ resp[r] = Nil
        BY AssetStepFacts DEF AssetStep
  <1>2. PICK c, a : c = call[r] /\ a = c.asset
        OBVIOUS
  <1>3. /\ c \in UpdateCall /\ a \in AssetIds /\ c.tenant \in Tenants /\ c.op = "update_asset"
        /\ UNCHANGED call
        BY <1>1, <1>2 DEF GetAsset, HandlerInOrder, UpdateCall
  <1>4. CASE ~ HasAsset(r, c.tenant, a) /\ Raise(r, "404")
    <2>1. ~ Abstract!Has(c.tenant, a)
          BY <1>1, <1>3, <1>4, FindsCommitted
    <2>2. Abstract!Missing(c)
          BY <1>2, <1>3, <2>1 DEF Abstract!Missing
    <2> QED BY <1>2, <1>4, <2>2 DEF Refuses, Refusals, Abstract!Justifies
  <1>5. CASE HasAsset(r, c.tenant, a) /\ Goto(r, "flush_asset") /\ UNCHANGED storeVars
    <2>1. pc'[r] = "flush_asset" /\ resp'[r] = Nil /\ call'[r] = c /\ c # Nil
          BY <1>1, <1>2, <1>3, <1>5, AssetStepFacts, CallAssumption DEF Goto, SessionTypeOK
    <2>2. NothingWritten(r)' /\ UNCHANGED <<assets, rels, wa, wr>>
          BY <1>1, <1>5 DEF NothingWritten, WritesOnly, storeVars
    <2>3. Sound(r, a, c.tenant)
          BY <1>5 DEF HasAsset, AssetRows, Sound
    <2>4. Sound(r, call[r].asset, call[r].tenant)'
          BY <1>2, <2>1, <2>2, <2>3 DEF Sound, Asset
    <2> QED BY <2>1, <2>2, <2>4 DEF EffectInOrder, Proceeds
  <1> QED BY <1>2, <1>4, <1>5 DEF GetAsset

LEMMA FlushUpdateAdvances ==
    ASSUME EffectInv, NEW r \in Requests, FlushUpdate(r)
    PROVE  Refuses(r) \/ Proceeds(r)
  <1>1. /\ AssetStep(r) /\ NothingWritten(r) /\ HandlerInOrder(r) /\ EffectInOrder(r)
        /\ StoreTypeOK /\ SessionTypeOK
        BY AssetStepFacts DEF AssetStep
  <1>2. PICK c, a, loaded, t : c = call[r] /\ a = c.asset /\ loaded = orm[r][a] /\ t = now[r]
        OBVIOUS
  <1>3. /\ c \in UpdateCall /\ a \in AssetIds /\ c.tenant \in Tenants /\ c.op = "update_asset"
        /\ loaded \in AssetRow /\ t \in Times /\ UNCHANGED call
        /\ Sound(r, a, c.tenant) /\ pc[r] = "flush_asset"
        BY <1>1, <1>2 DEF FlushUpdate, HandlerInOrder, UpdateCall, SessionTypeOK, EffectInOrder
  <1>4. CASE FlushAsset(r, a, UpdatedAsset(c, loaded, t)) /\ Reply(r, "200")
    <2>1. PICK old, row : old = assets[a] /\ row = DirtyColumns(UpdatedAsset(c, loaded, t), loaded, old)
          OBVIOUS
    <2>2. /\ wa' = [wa EXCEPT ![r][a] = row] /\ UNCHANGED <<assets, rels, wr>>
          /\ old \in AssetRow /\ IsRow(old)
          BY <1>1, <1>2, <1>3, <1>4, <2>1, SeesCommitted, FindsCommitted DEF FlushAsset,
             UpdateAsset, StoreTypeOK, AssetCell, IsRow
    <2>3. Abstract!Updated(c, old, row) /\ row \in AssetRow
          BY <1>3, <2>1, <2>2, FlushedIsUpdated, UpdatedAssetType, DirtyColumnsFit
    <2>4. Abstract!Has(c.tenant, a)
          BY <1>1, <1>3, <2>1, <2>2, SeesCommitted DEF Sound, IsRow, Abstract!Has, Abstract!IsRow
    <2>5. /\ wa'[r][a] = row /\ row # Nil /\ \A b \in AssetIds \ {a} : wa'[r][b] = Nil
          /\ \A x \in RelIds : wr'[r][x] = Nil
          BY <1>1, <1>3, <2>2, <2>3, SeesCommitted, NilAssumption DEF StoreTypeOK
    <2>6. assets'[a] = old
          BY <2>1, <2>2
    <2>7. Abstract!Updated(c, assets[c.asset], wa[r][c.asset])'
          BY <1>2, <2>3, <2>5, <2>6 DEF Abstract!Updated
    <2>8. Abstract!Has(c.tenant, c.asset)'
          BY <1>2, <2>2, <2>4 DEF Abstract!Has
    <2>9. UpdateWritten(r, c)'
          BY <1>2, <2>5, <2>7, <2>8 DEF UpdateWritten, WritesOnly
    <2>10. EffectWritten(r, c)' /\ "200" = Abstract!Success(c) /\ "200" \in Codes
           BY <1>3, <2>9 DEF EffectWritten, Abstract!Success, Codes, Declared
    <2> QED BY <1>2, <1>3, <1>4, <2>2, <2>10, ReplyEffect
  <1>5. CASE FlushFails(r, a)
    <2>1. ~ Abstract!Has(c.tenant, a)
          BY <1>1, <1>3, <1>5, FindsCommitted DEF FlushFails, Abstract!Has, Abstract!IsRow, IsRow
    <2>2. Abstract!Missing(c)
          BY <1>2, <1>3, <2>1 DEF Abstract!Missing
    <2> QED BY <1>2, <1>5, <2>2 DEF FlushFails, Refuses, Refusals, Abstract!Justifies
  <1> QED BY <1>2, <1>4, <1>5 DEF FlushUpdate

LEMMA UpdateStatusAdvances ==
    ASSUME EffectInv, NEW r \in Requests, UpdateStatus(r)
    PROVE  Refuses(r) \/ Proceeds(r)
  <1>1. /\ AssetStep(r) /\ NothingWritten(r) /\ HandlerInOrder(r) /\ StoreTypeOK
        BY AssetStepFacts DEF AssetStep
  <1>2. PICK c, a : c = call[r] /\ a = c.asset
        OBVIOUS
  <1>3. /\ c \in StatusCall /\ a \in AssetIds /\ c.tenant \in Tenants /\ c.op = "update_status"
        /\ UNCHANGED call /\ pc[r] = "update_status"
        BY <1>1, <1>2 DEF UpdateStatus, HandlerInOrder, StatusCall
  <1>4. CASE /\ HasAsset(r, c.tenant, a) /\ Reply(r, "200")
             /\ UpdateAsset(r, a, [Asset(r, a) EXCEPT !.status = c.status])
    <2>1. PICK row : row = [assets[a] EXCEPT !.status = c.status]
          OBVIOUS
    <2>2. /\ wa' = [wa EXCEPT ![r][a] = row] /\ UNCHANGED <<assets, rels, wr>>
          /\ Abstract!Has(c.tenant, a)
          BY <1>1, <1>3, <1>4, <2>1, SeesCommitted, FindsCommitted DEF UpdateAsset
    <2>3. row # Nil
      <3>1. assets[a] \in AssetRow
            BY <1>1, <1>3, <2>2 DEF Abstract!Has, Abstract!IsRow, StoreTypeOK, AssetCell
      <3>2. row \in AssetRow
            BY <1>3, <2>1, <3>1 DEF AssetRow, StatusCall
      <3> QED BY <3>2, NilAssumption
    <2>4. /\ wa'[r][a] = row /\ \A b \in AssetIds \ {a} : wa'[r][b] = Nil
          /\ \A x \in RelIds : wr'[r][x] = Nil
          BY <1>1, <1>3, <2>2, SeesCommitted DEF StoreTypeOK
    <2>5. Abstract!Has(c.tenant, c.asset)'
          BY <1>2, <2>2 DEF Abstract!Has
    <2>6. StatusWritten(r, c)'
          BY <1>2, <2>1, <2>2, <2>3, <2>4, <2>5 DEF StatusWritten, WritesOnly
    <2>7. EffectWritten(r, c)' /\ "200" = Abstract!Success(c) /\ "200" \in Codes
          BY <1>3, <2>6 DEF EffectWritten, Abstract!Success, Codes, Declared
    <2> QED BY <1>2, <1>3, <1>4, <2>2, <2>7, ReplyEffect
  <1>5. CASE ~ HasAsset(r, c.tenant, a) /\ Raise(r, "404")
    <2>1. ~ Abstract!Has(c.tenant, a)
          BY <1>1, <1>3, <1>5, FindsCommitted
    <2>2. Abstract!Missing(c)
          BY <1>2, <1>3, <2>1 DEF Abstract!Missing
    <2> QED BY <1>2, <1>5, <2>2 DEF Refuses, Refusals, Abstract!Justifies
  <1> QED BY <1>2, <1>4, <1>5 DEF UpdateStatus

LEMMA RemoveAssetAdvances ==
    ASSUME EffectInv, NEW r \in Requests, RemoveAsset(r)
    PROVE  Refuses(r) \/ Proceeds(r)
  <1>1. /\ AssetStep(r) /\ NothingWritten(r) /\ HandlerInOrder(r) /\ StoreTypeOK
        BY AssetStepFacts DEF AssetStep
  <1>2. PICK c, a : c = call[r] /\ a = c.asset
        OBVIOUS
  <1>3. /\ c \in DeleteCall /\ a \in AssetIds /\ c.tenant \in Tenants /\ c.op = "delete_asset"
        /\ UNCHANGED call /\ pc[r] = "delete_asset"
        BY <1>1, <1>2 DEF RemoveAsset, HandlerInOrder, DeleteCall
  <1>4. CASE HasAsset(r, c.tenant, a) /\ Reply(r, "204") /\ DeleteAsset(r, a)
    <2>1. /\ wa' = [wa EXCEPT ![r][a] = Deleted] /\ wr' = [wr EXCEPT ![r] = Cascade(r, a)]
          /\ UNCHANGED <<assets, rels>> /\ Abstract!Has(c.tenant, a)
          BY <1>1, <1>3, <1>4, FindsCommitted DEF DeleteAsset
    <2>2. wa'[r][a] = Deleted /\ \A b \in AssetIds \ {a} : wa'[r][b] = Nil
          BY <1>1, <1>3, <2>1, SeesCommitted DEF StoreTypeOK
    <2>3. \A x \in RelIds : wr'[r][x] # Nil =>
              wr'[r][x] = Deleted /\ IsRow(rels[x]) /\ Touches(rels[x], a)
          BY <1>1, <2>1, SeesCommitted DEF Cascade, RelRows, StoreTypeOK
    <2>4. Abstract!Has(c.tenant, c.asset)'
          BY <1>2, <2>1 DEF Abstract!Has
    <2>5. DeleteWritten(r, c)'
          BY <1>2, <2>1, <2>2, <2>3, <2>4 DEF DeleteWritten
    <2>6. EffectWritten(r, c)' /\ "204" = Abstract!Success(c) /\ "204" \in Codes
          BY <1>3, <2>5 DEF EffectWritten, Abstract!Success, Codes, Declared
    <2> QED BY <1>2, <1>3, <1>4, <2>1, <2>6, ReplyEffect
  <1>5. CASE ~ HasAsset(r, c.tenant, a) /\ Raise(r, "404")
    <2>1. ~ Abstract!Has(c.tenant, a)
          BY <1>1, <1>3, <1>5, FindsCommitted
    <2>2. Abstract!Missing(c)
          BY <1>2, <1>3, <2>1 DEF Abstract!Missing
    <2> QED BY <1>2, <1>5, <2>2 DEF Refuses, Refusals, Abstract!Justifies
  <1> QED BY <1>2, <1>4, <1>5 DEF RemoveAsset

LEMMA AssetStepAdvances ==
    ASSUME EffectInv, NEW r \in Requests, AssetStep(r)
    PROVE  Advances(r)
  <1>1. /\ UNCHANGED call /\ pc[r] \notin {"idle", "done"} /\ SessionTypeOK /\ HandlerInOrder(r)
        BY AssetStepFacts
  <1>2. Alone(r)
    <2>1. \/ \E code : Raise(r, code) \/ Reply(r, code)
          \/ \E label : Goto(r, label)
          BY DEF AssetStep, CreateAsset, InsertNewAsset, GetAsset, FlushUpdate, UpdateStatus,
             RemoveAsset, AbortCascade, FlushFails
    <2>2. \A s \in Requests \ {r} : now'[s] = now[s]
          BY <1>1 DEF AssetStep, CreateAsset, InsertNewAsset, GetAsset, FlushUpdate,
             UpdateStatus, RemoveAsset, AbortCascade, SessionTypeOK
    <2> QED BY <1>1, <2>1, <2>2, AloneBy DEF SessionTypeOK
  <1>3. CASE AbortCascade(r)
    <2>1. call[r].op = "delete_asset" /\ Raise(r, "DeadlockDetected")
          BY <1>1, <1>3 DEF AbortCascade, HandlerInOrder, DeleteCall
    <2> QED BY <1>1, <1>2, <2>1 DEF Refuses, Refusals, Abstract!Justifies, Advances
  <1> QED BY <1>1, <1>2, <1>3, CreateAssetAdvances, InsertNewAssetAdvances, GetAssetAdvances,
             FlushUpdateAdvances, UpdateStatusAdvances, RemoveAssetAdvances
             DEF AssetStep, Advances

-----------------------------------------------------------------------------
(* The graph: it writes nothing.                                           *)
LEMMA GraphStepAdvances ==
    ASSUME EffectInv, NEW r \in Requests, GraphStep(r)
    PROVE  Advances(r)
  <1>1. /\ EffectInOrder(r) /\ HandlerInOrder(r) /\ SessionTypeOK
        BY DEF EffectInv, ImportInv, ApiInv, TypeOK
  <1>2. /\ UNCHANGED <<call, now>>
        /\ pc[r] \in {"get_graph", "graph_root", "graph_rels", "graph_nodes", "graph_cache"}
        BY DEF GraphStep, ReadCache, ReadRoot, ReadRels, ReadNode, WriteCache
  <1>3. PICK c, a : c = call[r] /\ a = c.asset
        OBVIOUS
  <1>4. /\ c.op = "get_graph" /\ c.tenant \in Tenants /\ a \in AssetIds
        /\ NothingWritten(r)
        BY <1>1, <1>2, <1>3 DEF HandlerInOrder, GraphCall, EffectInOrder
  <1>5. Alone(r)
    <2>1. \/ \E code : Raise(r, code) \/ Reply(r, code)
          \/ \E label : Goto(r, label)
          BY DEF GraphStep, ReadCache, ReadRoot, ReadRels, ReadNode, WriteCache
    <2> QED BY <1>1, <1>2, <2>1, AloneBy DEF SessionTypeOK
  <1>6. CASE Reply(r, "200") /\ UNCHANGED storeVars
    <2>1. EffectWritten(r, c)' /\ "200" = Abstract!Success(c) /\ "200" \in Codes
          BY <1>4, <1>6 DEF EffectWritten, NothingWritten, WritesOnly, storeVars,
             Abstract!Success, Codes, Declared
    <2>2. Proceeds(r)
          BY <1>2, <1>3, <1>6, <2>1, ReplyEffect DEF storeVars
    <2> QED BY <1>2, <1>5, <2>2 DEF Advances
  <1>7. CASE /\ \E label \in {"graph_root", "graph_rels", "graph_nodes", "graph_cache"} : Goto(r, label)
             /\ UNCHANGED storeVars
    <2>1. {"graph_root", "graph_rels", "graph_nodes", "graph_cache"}
              \subseteq Labels \ (Stages \cup {"idle", "commit", "done", "flush_asset", "invalidate"})
          BY DEF Labels, Stages
    <2>2. pc[r] \notin Stages \cup {"idle", "commit", "done", "invalidate"}
          BY <1>2 DEF Stages
    <2>3. Proceeds(r)
          BY <1>2, <1>7, <2>1, <2>2, GotoEffect
    <2> QED BY <1>2, <1>5, <2>3 DEF Advances
  <1>8. CASE ~ HasAsset(r, c.tenant, a) /\ Raise(r, "404")
    <2>1. ~ Abstract!Has(c.tenant, a)
          BY <1>4, <1>8, FindsCommitted
    <2>2. Abstract!Missing(c)
          BY <1>3, <1>4, <2>1 DEF Abstract!Missing
    <2> QED BY <1>2, <1>3, <1>5, <1>8, <2>2 DEF Refuses, Refusals, Abstract!Justifies, Advances
  <1> QED BY <1>3, <1>6, <1>7, <1>8 DEF GraphStep, ReadCache, ReadRoot, ReadRels, ReadNode, WriteCache

-----------------------------------------------------------------------------
(* The operations on one relationship.                                     *)

(* The lookups before the INSERT: each was true when it was made.          *)
LEMMA LookupsAdvance ==
    ASSUME EffectInv, NEW r \in Requests, VerifySource(r) \/ VerifyTarget(r) \/ LookupEdge(r)
    PROVE  Refuses(r) \/ Proceeds(r)
  <1>1. EffectInOrder(r) /\ HandlerInOrder(r)
        BY DEF EffectInv, ImportInv, ApiInv
  <1>2. PICK c : c = call[r]
        OBVIOUS
  <1>3. /\ pc[r] \in {"create_relationship", "rel_target", "rel_lookup"}
        /\ pc[r] \notin Stages \cup {"idle", "commit", "done", "invalidate"}
        /\ c \in RelateCall /\ UNCHANGED call
        BY <1>1, <1>2 DEF VerifySource, VerifyTarget, Verify, LookupEdge, HandlerInOrder, Stages
  <1>4. /\ NothingWritten(r) /\ c.op = "create_relationship" /\ c.tenant \in Tenants
        /\ c.src \in AssetIds /\ c.dst \in AssetIds
        BY <1>1, <1>3 DEF EffectInOrder, RelateCall
  <1>5. CASE /\ \E label \in {"rel_target", "rel_lookup", "insert_rel"} : Goto(r, label)
             /\ UNCHANGED storeVars
    <2>1. {"rel_target", "rel_lookup", "insert_rel"}
              \subseteq Labels \ (Stages \cup {"idle", "commit", "done", "flush_asset", "invalidate"})
          BY DEF Labels, Stages
    <2> QED BY <1>3, <1>5, <2>1, GotoEffect
  <1>6. CASE Raise(r, "404") /\ \E a \in {c.src, c.dst} : ~ HasAsset(r, c.tenant, a)
    <2>1. ~ (Abstract!Has(c.tenant, c.src) /\ Abstract!Has(c.tenant, c.dst))
          BY <1>4, <1>6, FindsCommitted
    <2>2. Abstract!Missing(c)
          BY <1>4, <2>1 DEF Abstract!Missing
    <2> QED BY <1>2, <1>6, <2>2 DEF Refuses, Refusals, Abstract!Justifies
  <1>7. CASE Raise(r, "409") /\ EdgeExists(r, NewRel(c))
    <2>1. PICK x \in RelIds : IsRow(rels[x]) /\ SameEdge(rels[x], NewRel(c))
          BY <1>4, <1>7, SeesCommitted DEF EdgeExists, RelRows
    <2>2. Abstract!Taken(c)
          BY <1>4, <2>1 DEF Abstract!Taken, Abstract!IsRow, IsRow, Abstract!SameEdge, SameEdge, NewRel
    <2> QED BY <1>2, <1>7, <2>2 DEF Refuses, Refusals, Abstract!Justifies
  <1> QED BY <1>2, <1>5, <1>6, <1>7 DEF VerifySource, VerifyTarget, Verify, LookupEdge

LEMMA InsertNewRelAdvances ==
    ASSUME EffectInv, NEW r \in Requests, InsertNewRel(r)
    PROVE  Refuses(r) \/ Proceeds(r)
  <1>1. EffectInOrder(r) /\ HandlerInOrder(r) /\ StoreTypeOK /\ SessionTypeOK
        BY DEF EffectInv, ImportInv, ApiInv, TypeOK
  <1>2. PICK c : c = call[r]
        OBVIOUS
  <1>3. c \in RelateCall /\ UNCHANGED call /\ pc[r] = "insert_rel"
        BY <1>1, <1>2 DEF InsertNewRel, HandlerInOrder
  <1>4. /\ NothingWritten(r) /\ c.op = "create_relationship" /\ c.tenant \in Tenants
        /\ c.src \in AssetIds /\ c.dst \in AssetIds /\ resp[r] = Nil
        BY <1>1, <1>3 DEF EffectInOrder, RelateCall
  <1>5. ASSUME NEW x \in RelIds, InsertRel(r, x, NewRel(c)), Goto(r, "invalidate")
        PROVE  Proceeds(r)
    <2>1. PICK rel : rel = NewRel(c)
          OBVIOUS
    <2>2. /\ wr' = [wr EXCEPT ![r][x] = rel] /\ rels[x] = Nil
          /\ UNCHANGED <<assets, rels, wa>>
          BY <1>5, <2>1 DEF InsertRel, FreshRels
    <2>3. wr'[r][x] = rel /\ \A y \in RelIds \ {x} : wr'[r][y] = Nil
          BY <1>1, <1>4, <2>2, SeesCommitted DEF StoreTypeOK
    <2>4. \A a \in AssetIds : wa'[r][a] = Nil
          BY <1>4, <2>2, SeesCommitted
    <2>5. RelateWritten(r, c)'
          BY <2>1, <2>2, <2>3, <2>4 DEF RelateWritten, WritesOnly
    <2>6. pc'[r] = "invalidate" /\ resp'[r] = Nil /\ call'[r] = c /\ c # Nil
          BY <1>1, <1>2, <1>3, <1>4, <1>5 DEF Goto, SessionTypeOK, EffectInOrder
    <2>7. RelateWritten(r, call[r])'
          BY <2>5, <2>6 DEF RelateWritten
    <2> QED BY <2>2, <2>6, <2>7 DEF EffectInOrder, Proceeds
  <1>6. CASE RelInsertFails(r, NewRel(c))
    <2>1. Abstract!Taken(c) \/ Abstract!Missing(c)
      <3>1. CASE EdgeExists(r, NewRel(c))
        <4>1. PICK x \in RelIds : IsRow(rels[x]) /\ SameEdge(rels[x], NewRel(c))
              BY <1>4, <3>1, SeesCommitted DEF EdgeExists, RelRows
        <4> QED BY <1>4, <4>1 DEF Abstract!Taken, Abstract!IsRow, IsRow, Abstract!SameEdge,
                   SameEdge, NewRel
      <3>2. CASE ~ EndpointsExist(r, NewRel(c))
        <4>1. ~ (IsRow(assets[c.src]) /\ IsRow(assets[c.dst]))
              BY <1>4, <3>2, FindsCommitted DEF EndpointsExist, NewRel
        <4> QED BY <1>4, <4>1 DEF Abstract!Missing, Abstract!Has, Abstract!IsRow, IsRow
      <3> QED BY <1>6, <3>1, <3>2 DEF RelInsertFails
    <2> QED BY <1>2, <1>6, <2>1 DEF RelInsertFails, Refuses, Refusals, Abstract!Justifies
  <1> QED BY <1>2, <1>5, <1>6 DEF InsertNewRel

LEMMA InvalidateGraphsAdvances ==
    ASSUME EffectInv, NEW r \in Requests, InvalidateGraphs(r)
    PROVE  Proceeds(r)
  <1>1. EffectInOrder(r) /\ HandlerInOrder(r) /\ SessionTypeOK
        BY DEF EffectInv, ImportInv, ApiInv, TypeOK
  <1>2. PICK c : c = call[r]
        OBVIOUS
  <1>3. /\ c.op = "create_relationship" /\ UNCHANGED <<storeVars, call>> /\ pc[r] = "invalidate"
        /\ RelateWritten(r, c) /\ resp[r] = Nil /\ c # Nil
        BY <1>1, <1>2 DEF InvalidateGraphs, HandlerInOrder, RelateCall, EffectInOrder
  <1>4. RelateWritten(r, c)'
        BY <1>3 DEF RelateWritten, WritesOnly, storeVars
  <1>5. CASE Reply(r, "201")
    <2>1. EffectWritten(r, c)' /\ "201" = Abstract!Success(c) /\ "201" \in Codes
          BY <1>3, <1>4 DEF EffectWritten, Abstract!Success, Codes, Declared
    <2> QED BY <1>2, <1>3, <1>5, <2>1, ReplyEffect DEF storeVars
  <1>6. CASE Goto(r, "invalidate")
    <2>1. pc'[r] = "invalidate" /\ resp'[r] = Nil /\ call'[r] = c
          BY <1>1, <1>2, <1>3, <1>6 DEF Goto, SessionTypeOK
    <2>2. RelateWritten(r, call[r])'
          BY <1>4, <2>1 DEF RelateWritten
    <2> QED BY <1>3, <2>1, <2>2 DEF EffectInOrder, Proceeds, storeVars
  <1> QED BY <1>5, <1>6 DEF InvalidateGraphs

LEMMA RemoveRelAdvances ==
    ASSUME EffectInv, NEW r \in Requests, RemoveRel(r)
    PROVE  Refuses(r) \/ Proceeds(r)
  <1>1. EffectInOrder(r) /\ HandlerInOrder(r) /\ StoreTypeOK
        BY DEF EffectInv, ImportInv, ApiInv, TypeOK
  <1>2. PICK c, x : c = call[r] /\ x = c.rel
        OBVIOUS
  <1>3. c \in UnrelateCall /\ UNCHANGED call /\ pc[r] = "delete_relationship"
        BY <1>1, <1>2 DEF RemoveRel, HandlerInOrder
  <1>4. /\ NothingWritten(r) /\ c.op = "delete_relationship" /\ c.tenant \in Tenants
        /\ x \in RelIds
        BY <1>1, <1>2, <1>3 DEF EffectInOrder, UnrelateCall
  <1>5. CASE HasRel(r, c.tenant, x) /\ DeleteRel(r, x) /\ Reply(r, "204")
    <2>1. /\ wr' = [wr EXCEPT ![r][x] = Deleted] /\ UNCHANGED <<assets, rels, wa>>
          /\ Abstract!HasRel(c.tenant, x)
          BY <1>4, <1>5, FindsCommitted DEF DeleteRel
    <2>2. wr'[r][x] = Deleted /\ \A y \in RelIds \ {x} : wr'[r][y] = Nil
          BY <1>1, <1>4, <2>1, SeesCommitted DEF StoreTypeOK
    <2>3. \A a \in AssetIds : wa'[r][a] = Nil
          BY <1>4, <2>1, SeesCommitted
    <2>4. Abstract!HasRel(c.tenant, c.rel)'
          BY <1>2, <2>1 DEF Abstract!HasRel
    <2>5. UnrelateWritten(r, c)'
          BY <1>2, <2>2, <2>3, <2>4 DEF UnrelateWritten, WritesOnly
    <2>6. EffectWritten(r, c)' /\ "204" = Abstract!Success(c) /\ "204" \in Codes
          BY <1>4, <2>5 DEF EffectWritten, Abstract!Success, Codes, Declared
    <2> QED BY <1>2, <1>3, <1>5, <2>1, <2>6, ReplyEffect
  <1>6. CASE ~ HasRel(r, c.tenant, x) /\ Raise(r, "404")
    <2>1. ~ Abstract!HasRel(c.tenant, x)
          BY <1>4, <1>6, FindsCommitted
    <2>2. Abstract!Missing(c)
          BY <1>2, <1>4, <2>1 DEF Abstract!Missing
    <2> QED BY <1>2, <1>6, <2>2 DEF Refuses, Refusals, Abstract!Justifies
  <1> QED BY <1>2, <1>5, <1>6 DEF RemoveRel

LEMMA RelStepAdvances ==
    ASSUME EffectInv, NEW r \in Requests, RelStep(r)
    PROVE  Advances(r)
  <1>1. /\ UNCHANGED <<call, now>> /\ pc[r] \notin {"idle", "done"}
        /\ \/ \E code : Raise(r, code) \/ Reply(r, code)
           \/ \E label : Goto(r, label)
        BY DEF RelStep, VerifySource, VerifyTarget, Verify, LookupEdge, InsertNewRel,
           RelInsertFails, InvalidateGraphs, RemoveRel
  <1>2. Alone(r)
        BY <1>1, AloneBy DEF EffectInv, ImportInv, ApiInv, TypeOK, SessionTypeOK
  <1> QED BY <1>1, <1>2, LookupsAdvance, InsertNewRelAdvances, InvalidateGraphsAdvances,
             RemoveRelAdvances DEF RelStep, Advances

-----------------------------------------------------------------------------
(* The import.                                                             *)

(* A merge changes the columns the inventory lets it change.               *)
Remade(old, new) ==
    /\ new = [old EXCEPT !.tags = new.tags, !.meta = new.meta,
                         !.status = new.status, !.last_seen = new.last_seen]
    /\ new.status \in {old.status, "active"}

LEMMA MergedIsRemade ==
    ASSUME NEW item \in Item, NEW loaded \in AssetRow, NEW current \in AssetRow, NEW t \in Times
    PROVE  LET new == DirtyColumns(Merged(item, loaded, t), loaded, current) IN
           Remade(current, new) /\ new.last_seen = t
  <1> DEFINE row == Merged(item, loaded, t)
             new == DirtyColumns(row, loaded, current)
  <1>1. row.status \in {loaded.status, "active"} /\ row.source = loaded.source /\ row.last_seen = t
        BY DEF Merged, AssetRow
  <1> HIDE DEF row
  <1>2. new.status \in {current.status, "active"}
    <2>1. new.status = Dirty(row.status, loaded.status, current.status)
          BY DEF DirtyColumns, AssetRow
    <2> QED BY <1>1, <2>1 DEF Dirty
  <1>3. new.last_seen = t
        BY <1>1 DEF DirtyColumns, AssetRow
  <1>4. new = [current EXCEPT !.tags = new.tags, !.meta = new.meta,
                              !.status = new.status, !.last_seen = new.last_seen]
    <2>1. Dirty(row.source, loaded.source, current.source) = current.source
          BY <1>1 DEF Dirty
    <2> QED BY <2>1 DEF DirtyColumns, AssetRow
  <1> QED BY <1>2, <1>3, <1>4 DEF Remade, row, new

LEMMA RemadeTwice ==
    ASSUME NEW old \in AssetRow, NEW row \in AssetRow, NEW new \in AssetRow,
           Remade(old, row), Remade(row, new)
    PROVE  Remade(old, new)
  <1>1. new.status \in {old.status, "active"}
        BY DEF Remade
  <1>2. /\ row.tenant = old.tenant /\ row.key = old.key /\ row.source = old.source
        /\ row.first_seen = old.first_seen
        BY DEF Remade, AssetRow
  <1>3. /\ new.tenant = row.tenant /\ new.key = row.key /\ new.source = row.source
        /\ new.first_seen = row.first_seen
        BY DEF Remade, AssetRow
  <1>4. new = [old EXCEPT !.tags = new.tags, !.meta = new.meta,
                          !.status = new.status, !.last_seen = new.last_seen]
        BY <1>2, <1>3 DEF AssetRow
  <1> QED BY <1>1, <1>4 DEF Remade

LEMMA ImportStepFacts ==
    ASSUME EffectInv, NEW r \in Requests, ImportStep(r)
    PROVE  /\ EffectInOrder(r) /\ HandlerInOrder(r) /\ ImportInOrder(r) /\ LookupsSound(r)
           /\ StoreInv /\ StoreTypeOK /\ SessionTypeOK /\ ImportTypeOK
           /\ UNCHANGED call /\ call[r] # Nil /\ call[r] \in ImportCall
           /\ call[r].op = "import_assets" /\ resp[r] = Nil
           /\ pc[r] \in {"import_assets"} \cup Stages
  <1>1. /\ EffectInOrder(r) /\ HandlerInOrder(r) /\ ImportInOrder(r) /\ LookupsSound(r)
        /\ StoreInv /\ StoreTypeOK /\ SessionTypeOK /\ ImportTypeOK
        BY DEF EffectInv, ImportInv, ApiInv, TypeOK
  <1>2. UNCHANGED call /\ pc[r] \in {"import_assets"} \cup Stages
        BY DEF ImportStep, LookupItems, MergeItem, CreateItem, MapEdges, InsertLink, Stages
  <1>3. call[r] # Nil /\ call[r] \in ImportCall /\ resp[r] = Nil
        BY <1>1, <1>2 DEF EffectInOrder, HandlerInOrder, Stages
  <1> QED BY <1>1, <1>2, <1>3 DEF ImportCall

(* An import that stays in its stages.                                     *)
LEMMA StageEffect ==
    ASSUME EffectInv, NEW r \in Requests, ImportStep(r),
           NEW label \in Stages, Goto(r, label), UNCHANGED <<assets, rels>>, BatchInOrder(r)'
    PROVE  Proceeds(r)
  <1>1. pc'[r] = label /\ resp'[r] = Nil /\ call'[r] # Nil
        BY ImportStepFacts DEF Goto, SessionTypeOK
  <1> QED BY <1>1 DEF EffectInOrder, Proceeds, Stages

(* An import that returns.                                                 *)
LEMMA ImportReplyEffect ==
    ASSUME EffectInv, NEW r \in Requests, ImportStep(r),
           Reply(r, "200"), UNCHANGED <<assets, rels>>,
           NEW c, c = call[r], Abstract!Reportable(c),
           ItemsWritten(r, c, Abstract!ValidItems(c))', LinksWritten(r, c)'
    PROVE  Proceeds(r)
  <1>1. c.op = "import_assets" /\ UNCHANGED call /\ pc[r] # "idle"
        BY ImportStepFacts DEF Stages
  <1>2. EffectWritten(r, c)' /\ "200" = Abstract!Success(c) /\ "200" \in Codes
        BY <1>1 DEF EffectWritten, Abstract!Success, Codes, Declared
  <1> QED BY <1>1, <1>2, ReplyEffect

LEMMA LookupItemsAdvances ==
    ASSUME EffectInv, NEW r \in Requests, LookupItems(r)
    PROVE  Refuses(r) \/ Proceeds(r)
  <1>1. ImportStep(r)
        BY DEF ImportStep
  <1>2. /\ EffectInOrder(r) /\ SessionTypeOK /\ ImportTypeOK /\ call' = call
        /\ call[r].op = "import_assets" /\ pc[r] = "import_assets"
        BY <1>1, ImportStepFacts DEF LookupItems
  <1>3. PICK c : c = call[r]
        OBVIOUS
  <1>4. /\ Valid(r) = Abstract!ValidItems(c) /\ Items(r) = c.items
        /\ Valid(r)' = Valid(r) /\ Items(r)' = Items(r)
        BY <1>2, <1>3 DEF Valid, Items, Abstract!ValidItems
  <1>5. CASE /\ \E i \in DOMAIN Items(r) : Items(r)[i].form = "unreportable"
             /\ Raise(r, "ValidationError")
    <2>1. Abstract!Justifies(c, "ValidationError")
          BY <1>2, <1>3, <1>4, <1>5 DEF Abstract!Justifies, Abstract!Reportable
    <2> QED BY <1>3, <1>5, <2>1 DEF Refuses, Refusals
  <1> DEFINE found == AssetsByKey(r, call[r].tenant, {KeyOf(Items(r)[i]) : i \in Valid(r)})
  <1>6. CASE /\ \A i \in DOMAIN Items(r) : Items(r)[i].form # "unreportable"
             /\ orm' = [orm EXCEPT ![r] = [a \in AssetIds |-> IF a \in found THEN Asset(r, a) ELSE Nil]]
             /\ imp' = [imp EXCEPT ![r] = StartOf(Valid(r))]
             /\ IF Valid(r) = {} THEN Reply(r, "200") ELSE Goto(r, "import_item")
             /\ UNCHANGED storeVars
    <2>1. \A a \in found : a \in AssetIds /\ IsRow(Asset(r, a))
          BY DEF AssetsByKey, HasAsset, AssetRows
    <2> HIDE DEF found
    <2>7. Abstract!Reportable(c)
          BY <1>4, <1>6 DEF Abstract!Reportable
    <2>2. NothingWritten(r)' /\ UNCHANGED <<assets, rels, wa, wr>>
          BY <1>2, <1>6 DEF EffectInOrder, NothingWritten, WritesOnly, storeVars
    <2>3. (\A a \in AssetIds : wa'[r][a] = Nil) /\ (\A x \in RelIds : wr'[r][x] = Nil)
          BY <2>2 DEF NothingWritten, WritesOnly
    <2>4. ItemsWritten(r, c, {})' /\ LinksWritten(r, c)'
          BY <2>3 DEF ItemsWritten, LinksWritten
    <2>5. CASE Valid(r) = {} /\ Reply(r, "200")
      <3>1. ItemsWritten(r, c, Abstract!ValidItems(c))'
            BY <1>4, <2>4, <2>5 DEF Abstract!ValidItems
      <3> QED BY <1>1, <1>3, <2>2, <2>4, <2>5, <2>7, <3>1, ImportReplyEffect
    <2>6. CASE Goto(r, "import_item")
      <3>1. imp'[r] = StartOf(Valid(r)) /\ call'[r] = c
            BY <1>2, <1>3, <1>6 DEF ImportTypeOK
      <3>2. Valid(r)' \ imp'[r].left = {} /\ \A t \in TempIds : imp'[r].tmp[t] = Nil
            BY <1>4, <3>1 DEF StartOf
      <3>3. ItemsWritten(r, call[r], Valid(r) \ imp[r].left)' /\ LinksWritten(r, call[r])'
            BY <2>3, <3>2 DEF ItemsWritten, LinksWritten
      <3>4. ASSUME NEW a \in AssetIds, orm'[r][a] # Nil
            PROVE  Remains(r, a, orm[r][a])'
        <4>1. orm'[r][a] = Asset(r, a) /\ IsRow(Asset(r, a))
              BY <1>2, <1>6, <2>1, <3>4 DEF SessionTypeOK
        <4>2. Asset(r, a)' = Asset(r, a)
              BY <2>2 DEF Asset
        <4> QED BY <4>1, <4>2 DEF Remains, SameKey
      <3>5. BatchInOrder(r)'
            BY <2>3, <2>7, <3>1, <3>2, <3>3, <3>4 DEF BatchInOrder
      <3> QED BY <1>1, <2>2, <2>6, <3>5, StageEffect DEF Stages
    <2> QED BY <1>6, <2>5, <2>6
  <1> QED BY <1>5, <1>6 DEF LookupItems

(* Stage 4 flushes item i as asset a, under the key of the item, be it the *)
(* first item that does or another.                                        *)
LEMMA FlushedAdvances ==
    ASSUME EffectInv, NEW r \in Requests, ImportStep(r), pc[r] = "import_item",
           NEW i \in Valid(r), NEW a \in AssetIds, NEW row \in AssetRow,
           NEW written \in AssetRow, wa' = [wa EXCEPT ![r][a] = written],
           UNCHANGED <<assets, rels, wr, now>>, Flushed(r, i, a, row),
           Abstract!Imported(call[r], assets[a], written),
           written.key = KeyOf(Items(r)[i]), written.last_seen = now[r],
           SameKey(row, written), wa[r][a] # Nil => wa[r][a].key = written.key
    PROVE  Proceeds(r)
  <1> DEFINE id  == Items(r)[i].id
             tmp == [imp[r].tmp EXCEPT ![id] = a]
  <1>1. /\ BatchInOrder(r) /\ call' = call /\ imp[r] \in Locals
        /\ imp \in [Requests -> Locals] /\ wa \in [Requests -> [AssetIds -> AssetCell]]
        /\ orm \in [Requests -> [AssetIds -> AssetRow \cup {Nil}]]
        /\ call[r] \in ImportCall
        BY ImportStepFacts DEF EffectInOrder, ImportTypeOK, StoreTypeOK, SessionTypeOK
  <1>2. id \in TempIds
        BY <1>1, BatchFacts DEF Item
  <1>3. imp'[r].tmp = tmp /\ imp'[r].left = imp[r].left \ {i} /\ orm'[r] = [orm[r] EXCEPT ![a] = row]
        BY <1>1 DEF Flushed, Locals
  <1>4. tmp[id] = a /\ \A t \in TempIds \ {id} : tmp[t] = imp[r].tmp[t]
        BY <1>1, <1>2 DEF Locals
  <1>5. wa'[r][a] = written /\ \A b \in AssetIds \ {a} : wa'[r][b] = wa[r][b]
        BY <1>1
  <1>6. written # Nil /\ written # Deleted /\ IsRow(written)
        BY NilAssumption DEF IsRow
  <1>7. Items(r)' = Items(r) /\ Valid(r)' = Valid(r)
        BY <1>1 DEF Items, Valid
  <1>8. PICK c, k : c = call[r] /\ k = KeyOf(Items(r)[i])
        OBVIOUS
  <1> HIDE DEF tmp
  (* Every asset written so far keeps its key. *)
  <1>9. \A b \in AssetIds : wa[r][b] # Nil => wa'[r][b] # Nil /\ wa'[r][b].key = wa[r][b].key
        BY <1>5, <1>6
  <1>10. \A b \in AssetIds : wa'[r][b] # Nil => Abstract!Imported(c, assets[b], wa'[r][b])
        BY <1>1, <1>5, <1>8 DEF BatchInOrder, ItemsWritten
  <1>11. ASSUME NEW j \in Valid(r) \ imp'[r].left
         PROVE  \E b \in AssetIds : IsRow(wa'[r][b]) /\ wa'[r][b].key = KeyOf(c.items[j])
    <2>1. CASE j = i
          BY <1>5, <1>6, <1>8, <2>1 DEF Items
    <2>2. CASE j # i
      <3>1. j \in Valid(r) \ imp[r].left
            BY <1>3, <2>2
      <3>2. PICK b \in AssetIds : IsRow(wa[r][b]) /\ wa[r][b].key = KeyOf(c.items[j])
            BY <1>1, <1>8, <3>1 DEF BatchInOrder, ItemsWritten
      <3>3. IsRow(wa'[r][b])
            BY <1>5, <1>6, <3>2
      <3> QED BY <1>9, <3>2, <3>3, NilAssumption DEF IsRow
    <2> QED BY <2>1, <2>2
  <1>12. ItemsWritten(r, call[r], Valid(r) \ imp[r].left)'
    <2>1. PICK flushed : flushed = Valid(r) \ imp'[r].left
          OBVIOUS
    <2>2. ItemsWritten(r, c, flushed)'
          BY <1>1, <1>10, <1>11, <2>1 DEF ItemsWritten, Abstract!Imported
    <2>3. call'[r] = c /\ Valid(r)' \ imp'[r].left = flushed
          BY <1>1, <1>7, <1>8, <2>1
    <2> QED BY <2>2, <2>3 DEF ItemsWritten
  <1>13. LinksWritten(r, call[r])'
    <2> SUFFICES ASSUME NEW x \in RelIds, wr[r][x] # Nil
                 PROVE  LET rel == wr[r][x] IN
                        /\ rels[x] = Nil /\ IsRow(rel) /\ rel.tenant = c.tenant
                        /\ wa'[r][rel.src] # Nil /\ wa'[r][rel.dst] # Nil
                        /\ Abstract!LinkedInBatch(c, rel.type, wa'[r][rel.src].key, wa'[r][rel.dst].key)
        BY <1>1, <1>8 DEF LinksWritten, Abstract!LinkedInBatch
    <2>1. PICK rel : rel = wr[r][x]
          OBVIOUS
    <2>2. /\ rels[x] = Nil /\ IsRow(rel) /\ rel.tenant = c.tenant
          /\ wa[r][rel.src] # Nil /\ wa[r][rel.dst] # Nil
          /\ Abstract!LinkedInBatch(c, rel.type, wa[r][rel.src].key, wa[r][rel.dst].key)
          BY <1>1, <1>8, <2>1 DEF BatchInOrder, LinksWritten
    <2>3. rel.src \in AssetIds /\ rel.dst \in AssetIds
          BY <2>1, <2>2, ImportStepFacts DEF StoreTypeOK, RelCell, IsRow, RelRow
    <2> QED BY <1>9, <2>1, <2>2, <2>3
  <1>14. \A b \in AssetIds : wa'[r][b] # Nil => wa'[r][b].last_seen = now'[r]
         BY <1>1, <1>5 DEF BatchInOrder
  <1>15. ASSUME NEW b \in AssetIds, orm'[r][b] # Nil
         PROVE  Remains(r, b, orm[r][b])'
    <2>1. CASE b = a
      <3>1. orm'[r][b] = row /\ Asset(r, b)' = written
            BY <1>1, <1>3, <1>5, <1>6, <2>1 DEF Asset
      <3> QED BY <1>6, <3>1 DEF Remains, SameKey
    <2>2. CASE b # a
      <3>1. orm'[r][b] = orm[r][b] /\ Asset(r, b)' = Asset(r, b)
            BY <1>1, <1>3, <1>5, <2>2 DEF Asset
      <3>2. PICK old : old = orm[r][b]
            OBVIOUS
      <3>3. Remains(r, b, old)
            BY <1>1, <1>15, <3>1, <3>2 DEF BatchInOrder
      <3> QED BY <3>1, <3>2, <3>3 DEF Remains
    <2> QED BY <2>1, <2>2
  <1>16. ASSUME NEW t \in TempIds, tmp[t] # Nil
         PROVE  /\ wa'[r][tmp[t]] # Nil
                /\ \E j \in Valid(r) :
                      Items(r)[j].id = t /\ wa'[r][tmp[t]].key = KeyOf(Items(r)[j])
    <2>1. CASE t = id
          BY <1>4, <1>5, <1>6, <2>1
    <2>2. CASE t # id
      <3>1. tmp[t] = imp[r].tmp[t] /\ tmp[t] \in AssetIds
            BY <1>1, <1>4, <1>16, <2>2 DEF Locals
      <3> QED BY <1>1, <1>9, <1>16, <3>1 DEF BatchInOrder
    <2> QED BY <2>1, <2>2
  <1>17. BatchInOrder(r)'
         BY <1>1, <1>3, <1>7, <1>12, <1>13, <1>14, <1>15, <1>16 DEF BatchInOrder
  <1> QED BY <1>17, StageEffect DEF Flushed, Stages

LEMMA MergeItemAdvances ==
    ASSUME EffectInv, NEW r \in Requests, MergeItem(r)
    PROVE  Refuses(r) \/ Proceeds(r)
  <1>1. ImportStep(r) /\ pc[r] = "import_item" /\ UNCHANGED <<call, now>>
        BY DEF ImportStep, MergeItem
  <1>2. /\ BatchInOrder(r) /\ LookupsSound(r) /\ StoreTypeOK /\ SessionTypeOK
        /\ call[r] \in ImportCall /\ call[r].op = "import_assets"
        BY <1>1, ImportStepFacts DEF EffectInOrder
  <1>3. PICK i \in Valid(r), a \in AssetIds :
           /\ orm[r][a] # Nil /\ orm[r][a].key = KeyOf(Items(r)[i])
           /\ \/ /\ FlushAsset(r, a, Merged(Items(r)[i], orm[r][a], now[r]))
                 /\ Flushed(r, i, a, Merged(Items(r)[i], orm[r][a], now[r]))
              \/ FlushFails(r, a)
        BY DEF MergeItem, Existing
  <1>4. CASE FlushFails(r, a)
        BY <1>2, <1>4 DEF FlushFails, Refuses, Refusals, Abstract!Justifies
  <1>5. PICK c, item, loaded, current, t :
           /\ c = call[r] /\ item = Items(r)[i] /\ loaded = orm[r][a]
           /\ current = Asset(r, a) /\ t = now[r]
        OBVIOUS
  <1>6. PICK row, written : row = Merged(item, loaded, t) /\ written = DirtyColumns(row, loaded, current)
        OBVIOUS
  <1>7. CASE FlushAsset(r, a, row) /\ Flushed(r, i, a, row)
    <2>1. /\ loaded \in AssetRow /\ current \in AssetRow /\ item \in Item /\ t \in Times
          /\ IsRow(current) /\ loaded.key = KeyOf(item)
          BY <1>2, <1>3, <1>5, <1>7, BatchFacts DEF FlushAsset, UpdateAsset, AssetRows, IsRow,
             Asset, AssetCell, StoreTypeOK, SessionTypeOK
    <2>2. row \in AssetRow /\ SameKey(row, loaded)
      <3>1. row \in AssetRow
            BY <1>6, <2>1, MergedRow
      <3>2. row.tenant = loaded.tenant /\ row.key = loaded.key
            BY <1>6, <2>1 DEF Merged, AssetRow
      <3> QED BY <3>1, <3>2 DEF SameKey
    <2>3. written \in AssetRow /\ SameKey(written, current)
          BY <1>6, <2>1, <2>2, DirtyColumnsFit
    <2>4. Remade(current, written) /\ written.last_seen = t
          BY <1>6, <2>1, MergedIsRemade
    <2>5. SameKey(current, loaded) /\ current.tenant = c.tenant
      <3>1. Remains(r, a, loaded) /\ Sound(r, a, c.tenant)
            BY <1>1, <1>2, <1>3, <1>5 DEF BatchInOrder, LookupsSound
      <3> QED BY <1>5, <2>1, <3>1 DEF Remains, Sound, IsRow
    <2>6. wa' = [wa EXCEPT ![r][a] = written] /\ UNCHANGED <<assets, rels, wr>>
          BY <1>5, <1>6, <1>7 DEF FlushAsset, UpdateAsset
    <2>7. /\ written.key = KeyOf(item) /\ written.tenant = c.tenant /\ IsRow(written)
          /\ SameKey(row, written)
          BY <2>1, <2>2, <2>3, <2>5, NilAssumption DEF SameKey, IsRow
    <2>8. wa[r][a] # Nil => wa[r][a] = current
          BY <1>5 DEF Asset
    <2>9. \/ assets[a] = Nil /\ written.first_seen = written.last_seen
          \/ IsRow(assets[a]) /\ Remade(assets[a], written)
      <3>1. CASE wa[r][a] = Nil
            BY <1>5, <2>1, <2>4, <3>1 DEF Asset
      <3>2. CASE wa[r][a] # Nil
        <4>1. Abstract!Imported(c, assets[a], current) /\ current.last_seen = t
              BY <1>2, <1>5, <2>8, <3>2 DEF BatchInOrder, ItemsWritten
        <4>2. CASE assets[a] = Nil /\ current.first_seen = current.last_seen
          <5>1. written.first_seen = current.first_seen
                BY <2>1, <2>3, <2>4 DEF Remade, AssetRow
          <5> QED BY <2>4, <4>1, <4>2, <5>1
        <4>3. CASE IsRow(assets[a]) /\ Remade(assets[a], current)
          <5>1. assets[a] \in AssetRow
                BY <1>2, <4>3 DEF StoreTypeOK, AssetCell, IsRow
          <5> QED BY <2>1, <2>3, <2>4, <4>3, <5>1, RemadeTwice
        <4> QED BY <4>1, <4>2, <4>3 DEF Abstract!Imported, Remade, Abstract!IsRow, IsRow
      <3> QED BY <3>1, <3>2
    <2>10. \E j \in Abstract!ValidItems(c) : written.key = KeyOf(c.items[j])
           BY <1>5, <2>7 DEF Abstract!ValidItems, Valid, Items
    <2>11. Abstract!Imported(c, assets[a], written)
           BY <2>7, <2>9, <2>10 DEF Abstract!Imported, Remade, Abstract!IsRow, IsRow,
              Abstract!KeyOf, KeyOf
    <2>12. wa[r][a] # Nil => wa[r][a].key = written.key
           BY <2>3, <2>8 DEF SameKey
    <2> QED BY <1>1, <1>5, <1>7, <2>2, <2>3, <2>4, <2>6, <2>7, <2>11, <2>12, FlushedAdvances
  <1> QED BY <1>3, <1>4, <1>5, <1>6, <1>7

LEMMA CreateItemAdvances ==
    ASSUME EffectInv, NEW r \in Requests, CreateItem(r)
    PROVE  Refuses(r) \/ Proceeds(r)
  <1>1. ImportStep(r) /\ pc[r] = "import_item" /\ UNCHANGED <<call, now>>
        BY DEF ImportStep, CreateItem
  <1>2. /\ SessionTypeOK /\ call[r] \in ImportCall /\ call[r].op = "import_assets"
        BY <1>1, ImportStepFacts
  <1>3. PICK i \in Valid(r) :
           LET row == Created(call[r].tenant, Items(r)[i], now[r]) IN
           \/ \E a \in AssetIds : InsertAsset(r, a, row) /\ Flushed(r, i, a, row)
           \/ Raise(r, "IntegrityError")
        BY DEF CreateItem
  <1>4. CASE Raise(r, "IntegrityError")
        BY <1>2, <1>4 DEF Refuses, Refusals, Abstract!Justifies
  <1>5. PICK c, item, t, row :
           /\ c = call[r] /\ item = Items(r)[i] /\ t = now[r]
           /\ row = Created(c.tenant, item, t)
        OBVIOUS
  <1>6. ASSUME NEW a \in AssetIds, InsertAsset(r, a, row), Flushed(r, i, a, row)
        PROVE  Proceeds(r)
    <2>1. item \in Item /\ t \in Times /\ c.tenant \in Tenants
          BY <1>2, <1>5, BatchFacts DEF SessionTypeOK
    <2>2. row \in AssetRow
          BY <1>5, <2>1, CreatedRow
    <2>3. /\ row.tenant = c.tenant /\ row.key = KeyOf(item)
          /\ row.first_seen = t /\ row.last_seen = t
          BY <1>5 DEF Created
    <2>4. /\ wa' = [wa EXCEPT ![r][a] = row] /\ UNCHANGED <<assets, rels, wr>>
          /\ assets[a] = Nil /\ wa[r][a] = Nil
          BY <1>6 DEF InsertAsset, FreshAssets
    <2>5. \E j \in Abstract!ValidItems(c) : row.key = KeyOf(c.items[j])
          BY <1>5, <2>3 DEF Abstract!ValidItems, Valid, Items
    <2>6. Abstract!Imported(c, assets[a], row)
          BY <2>2, <2>3, <2>4, <2>5, NilAssumption DEF Abstract!Imported, Abstract!IsRow,
             Abstract!KeyOf, KeyOf
    <2> QED BY <1>1, <1>5, <1>6, <2>2, <2>3, <2>4, <2>6, FlushedAdvances DEF SameKey
  <1> QED BY <1>3, <1>4, <1>5, <1>6

(* After stage 4 every valid item is flushed.                              *)
LEMMA AllFlushed ==
    ASSUME EffectInv, NEW r \in Requests, ImportStep(r), pc[r] \in {"import_edges", "import_link"},
           NEW c, c = call[r], UNCHANGED <<assets, wa>>
    PROVE  ItemsWritten(r, c, Abstract!ValidItems(c))'
  <1>1. /\ ItemsWritten(r, c, Valid(r) \ imp[r].left) /\ imp[r].left = {}
        BY ImportStepFacts DEF EffectInOrder, BatchInOrder, ImportInOrder
  <1>2. PICK valid : valid = Abstract!ValidItems(c)
        OBVIOUS
  <1>3. Valid(r) \ imp[r].left = valid
        BY <1>1, <1>2 DEF Valid, Items, Abstract!ValidItems
  <1>4. ItemsWritten(r, c, valid)'
        BY <1>1, <1>3 DEF ItemsWritten
  <1> QED BY <1>2, <1>4 DEF ItemsWritten, Abstract!ValidItems

(* The batch after a step of stage 5 that may have written an edge.        *)
LEMMA BatchStays ==
    ASSUME EffectInv, NEW r \in Requests, ImportStep(r), pc[r] \in Stages,
           UNCHANGED <<assets, rels, wa, orm, now>>, LinksWritten(r, call[r])',
           imp'[r].left = imp[r].left, imp'[r].tmp = imp[r].tmp
    PROVE  BatchInOrder(r)'
  <1>1. BatchInOrder(r) /\ call' = call
        BY ImportStepFacts DEF EffectInOrder, Stages
  <1>2. Items(r)' = Items(r) /\ Valid(r)' = Valid(r)
        BY <1>1 DEF Items, Valid
  <1>3. PICK c, flushed : c = call[r] /\ flushed = Valid(r) \ imp[r].left
        OBVIOUS
  <1>4. ItemsWritten(r, c, flushed)'
        BY <1>1, <1>3 DEF BatchInOrder, ItemsWritten
  <1>5. ItemsWritten(r, call[r], Valid(r) \ imp[r].left)'
        BY <1>1, <1>2, <1>3, <1>4 DEF ItemsWritten
  <1>6. ASSUME NEW a \in AssetIds, orm'[r][a] # Nil
        PROVE  Remains(r, a, orm[r][a])'
        BY <1>1, <1>6 DEF BatchInOrder, Remains, Asset
  <1>7. \A a \in AssetIds : wa'[r][a] # Nil => wa'[r][a].last_seen = now'[r]
        BY <1>1 DEF BatchInOrder
  <1>8. \A t \in TempIds : imp'[r].tmp[t] # Nil =>
           /\ wa'[r][imp'[r].tmp[t]] # Nil
           /\ \E i \in Valid(r)' :
                 Items(r)'[i].id = t /\ wa'[r][imp'[r].tmp[t]].key = KeyOf(Items(r)'[i])
        BY <1>1, <1>2 DEF BatchInOrder
  <1> QED BY <1>1, <1>5, <1>6, <1>7, <1>8 DEF BatchInOrder

LEMMA MapEdgesAdvances ==
    ASSUME EffectInv, NEW r \in Requests, MapEdges(r)
    PROVE  Proceeds(r)
  <1>1. ImportStep(r) /\ pc[r] = "import_edges" /\ UNCHANGED <<storeVars, call, orm, now>>
        BY DEF ImportStep, MapEdges
  <1>2. PICK c : c = call[r]
        OBVIOUS
  <1>3. /\ LinksWritten(r, c)' /\ ItemsWritten(r, c, Abstract!ValidItems(c))'
        /\ Abstract!Reportable(c)
    <2>1. LinksWritten(r, c) /\ Abstract!Reportable(c)
          BY <1>1, <1>2, ImportStepFacts DEF EffectInOrder, BatchInOrder
    <2> QED BY <1>1, <1>2, <2>1, AllFlushed DEF LinksWritten, storeVars
  <1>4. CASE Reply(r, "200")
        BY <1>1, <1>2, <1>3, <1>4, ImportReplyEffect DEF storeVars
  <1>5. CASE Goto(r, "import_link")
    <2>1. imp'[r].left = imp[r].left /\ imp'[r].tmp = imp[r].tmp
          BY <1>1, ImportStepFacts DEF MapEdges, ImportTypeOK, Locals
    <2>2. LinksWritten(r, call[r])'
          BY <1>1, <1>2, <1>3 DEF LinksWritten
    <2>3. BatchInOrder(r)'
          BY <1>1, <2>1, <2>2, BatchStays DEF Stages, storeVars
    <2> QED BY <1>1, <1>5, <2>3, StageEffect DEF Stages, storeVars
  <1> QED BY <1>4, <1>5 DEF MapEdges

(* The ends of a mapped link are the assets of two items of the batch.     *)
LEMMA LinkedItems ==
    ASSUME EffectInv, NEW r \in Requests, ImportStep(r), pc[r] = "import_link",
           NEW p \in imp[r].edges, NEW c, c = call[r], NEW rel, rel = EdgeAt(r, p)
    PROVE  /\ rel \in RelRow /\ rel.tenant = c.tenant
           /\ wa[r][rel.src] # Nil /\ wa[r][rel.dst] # Nil
           /\ Abstract!LinkedInBatch(c, rel.type, wa[r][rel.src].key, wa[r][rel.dst].key)
  <1>1. /\ BatchInOrder(r) /\ ImportInOrder(r) /\ imp[r] \in Locals /\ c \in ImportCall
        BY ImportStepFacts DEF EffectInOrder, ImportTypeOK
  <1>2. p \in Candidates(r) /\ imp[r].left = {}
        BY <1>1 DEF ImportInOrder
  <1>3. PICK i, l, from, to : i = p[1] /\ l = p[2] /\ from = Items(r)[i].id /\ to = Target(r, p)
        OBVIOUS
  <1>4. /\ i \in Valid(r) /\ l \in Links /\ to \in TempIds /\ from \in TempIds
        /\ imp[r].tmp[to] # Nil /\ imp[r].tmp[from] # Nil /\ c.tenant \in Tenants
    <2>1. p \in LinkSet(r) /\ imp[r].tmp[to] # Nil
          BY <1>2, <1>3 DEF Candidates
    <2>2. i \in Valid(r) /\ l \in Links /\ to \in TempIds /\ c.tenant \in Tenants
          BY <1>1, <1>3, <2>1, BatchFacts
    <2>3. from \in TempIds
          BY <1>1, <1>3, <2>2, BatchFacts DEF Item
    <2>4. imp[r].tmp[from] # Nil
          BY <1>1, <1>2, <1>3, <2>2 DEF ImportInOrder
    <2> QED BY <2>1, <2>2, <2>3, <2>4
  <1>5. /\ rel.tenant = c.tenant /\ rel.src = imp[r].tmp[from] /\ rel.dst = imp[r].tmp[to]
        /\ rel.type = LinkTypes[l]
        BY <1>3 DEF EdgeAt
  <1>6. rel \in RelRow
    <2>1. rel.src \in AssetIds /\ rel.dst \in AssetIds
          BY <1>1, <1>4, <1>5 DEF Locals
    <2>2. rel.type \in RelTypes
          BY <1>4, <1>5 DEF Links, LinkTypes, RelTypes
    <2> QED BY <1>4, <1>5, <2>1, <2>2 DEF EdgeAt, RelRow
  <1>7. PICK k \in Valid(r) : Items(r)[k].id = from /\ wa[r][rel.src].key = KeyOf(Items(r)[k])
        BY <1>1, <1>4, <1>5 DEF BatchInOrder
  <1>8. PICK j \in Valid(r) : Items(r)[j].id = to /\ wa[r][rel.dst].key = KeyOf(Items(r)[j])
        BY <1>1, <1>4, <1>5 DEF BatchInOrder
  <1>9. wa[r][rel.src] # Nil /\ wa[r][rel.dst] # Nil
        BY <1>1, <1>4, <1>5 DEF BatchInOrder
  <1>10. Valid(r) = Abstract!ValidItems(c) /\ Items(r) = c.items
         BY DEF Valid, Items, Abstract!ValidItems
  <1>11. c.items[i].link[l] = to /\ c.items[i].id = from
         BY <1>3, <1>10 DEF Target
  <1>12. Abstract!LinkedInBatch(c, rel.type, wa[r][rel.src].key, wa[r][rel.dst].key)
    <2>1. PICK srcKey, dstKey, type :
             srcKey = wa[r][rel.src].key /\ dstKey = wa[r][rel.dst].key /\ type = rel.type
          OBVIOUS
    <2>2. /\ c.items[i].link[l] = c.items[j].id /\ c.items[k].id = c.items[i].id
          /\ type = LinkTypes[l]
          /\ srcKey = Abstract!KeyOf(c.items[k]) /\ dstKey = Abstract!KeyOf(c.items[j])
          BY <1>5, <1>7, <1>8, <1>10, <1>11, <2>1 DEF Abstract!KeyOf, KeyOf
    <2>3. /\ i \in Abstract!ValidItems(c) /\ j \in Abstract!ValidItems(c)
          /\ k \in Abstract!ValidItems(c)
          BY <1>4, <1>10
    <2>4. Abstract!LinkedInBatch(c, type, srcKey, dstKey)
          BY <1>4, <2>2, <2>3 DEF Abstract!LinkedInBatch, Links, Abstract!Links,
             LinkTypes, Abstract!LinkTypes
    <2> QED BY <2>1, <2>4
  <1> QED BY <1>5, <1>6, <1>9, <1>12

LEMMA InsertLinkAdvances ==
    ASSUME EffectInv, NEW r \in Requests, InsertLink(r)
    PROVE  Refuses(r) \/ Proceeds(r)
  <1>1. ImportStep(r) /\ pc[r] = "import_link" /\ UNCHANGED <<call, orm, now>>
        BY DEF ImportStep, InsertLink
  <1>2. /\ call[r].op = "import_assets" /\ BatchInOrder(r) /\ StoreTypeOK
        BY <1>1, ImportStepFacts DEF EffectInOrder
  <1>3. PICK p \in imp[r].edges :
           \/ /\ \E x \in RelIds : InsertRel(r, x, EdgeAt(r, p))
              /\ imp' = [imp EXCEPT ![r].edges = @ \ {p}]
              /\ IF imp[r].edges = {p} THEN Reply(r, "200") ELSE Goto(r, "import_link")
           \/ Raise(r, "IntegrityError")
        BY DEF InsertLink
  <1>4. CASE Raise(r, "IntegrityError")
        BY <1>2, <1>4 DEF Refuses, Refusals, Abstract!Justifies
  <1>5. PICK c, rel : c = call[r] /\ rel = EdgeAt(r, p)
        OBVIOUS
  <1>6. ASSUME NEW x \in RelIds, InsertRel(r, x, rel),
               imp' = [imp EXCEPT ![r].edges = @ \ {p}],
               Reply(r, "200") \/ Goto(r, "import_link")
        PROVE  Proceeds(r)
    <2>1. /\ wr' = [wr EXCEPT ![r][x] = rel] /\ UNCHANGED <<assets, rels, wa>>
          /\ rels[x] = Nil
          BY <1>6 DEF InsertRel, FreshRels
    <2>2. wr'[r][x] = rel /\ \A y \in RelIds \ {x} : wr'[r][y] = wr[r][y]
          BY <1>2, <2>1 DEF StoreTypeOK
    <2>3. /\ rel \in RelRow /\ rel.tenant = c.tenant
          /\ wa[r][rel.src] # Nil /\ wa[r][rel.dst] # Nil
          /\ Abstract!LinkedInBatch(c, rel.type, wa[r][rel.src].key, wa[r][rel.dst].key)
          BY <1>1, <1>5, LinkedItems
    <2>4. IsRow(rel)
          BY <2>3, NilAssumption DEF IsRow
    <2>5. LinksWritten(r, c)
          BY <1>2, <1>5 DEF BatchInOrder
    <2>6. LinksWritten(r, c)'
      <3> SUFFICES ASSUME NEW y \in RelIds, wr'[r][y] # Nil
                   PROVE  LET row == wr'[r][y] IN
                          /\ rels[y] = Nil /\ IsRow(row) /\ row.tenant = c.tenant
                          /\ wa[r][row.src] # Nil /\ wa[r][row.dst] # Nil
                          /\ Abstract!LinkedInBatch(c, row.type, wa[r][row.src].key,
                                                    wa[r][row.dst].key)
          BY <2>1 DEF LinksWritten, IsRow
      <3>1. CASE y = x
            BY <2>1, <2>2, <2>3, <2>4, <3>1
      <3>2. CASE y # x
        <4>1. wr'[r][y] = wr[r][y]
              BY <2>2, <3>2
        <4> QED BY <2>5, <4>1 DEF LinksWritten
      <3> QED BY <3>1, <3>2
    <2>7. CASE Reply(r, "200")
      <3>1. Abstract!Reportable(c)
            BY <1>2, <1>5 DEF BatchInOrder
      <3> QED BY <1>1, <1>5, <2>1, <2>6, <2>7, <3>1, AllFlushed, ImportReplyEffect
    <2>8. CASE Goto(r, "import_link")
      <3>1. imp'[r].left = imp[r].left /\ imp'[r].tmp = imp[r].tmp
            BY <1>1, <1>6, ImportStepFacts DEF ImportTypeOK, Locals
      <3>2. LinksWritten(r, call[r])'
            BY <1>1, <1>5, <2>6 DEF LinksWritten
      <3>3. BatchInOrder(r)'
            BY <1>1, <2>1, <3>1, <3>2, BatchStays DEF Stages
      <3> QED BY <1>1, <2>1, <2>8, <3>3, StageEffect DEF Stages
    <2> QED BY <1>6, <2>7, <2>8
  <1> QED BY <1>3, <1>4, <1>5, <1>6

LEMMA ImportStepAdvances ==
    ASSUME EffectInv, NEW r \in Requests, ImportStep(r)
    PROVE  Advances(r)
  <1>1. /\ UNCHANGED call /\ SessionTypeOK /\ pc[r] \notin {"idle", "done"}
        BY ImportStepFacts DEF Stages
  <1>2. Alone(r)
    <2>1. \/ \E code : Raise(r, code) \/ Reply(r, code)
          \/ \E label : Goto(r, label)
          BY DEF ImportStep, LookupItems, MergeItem, CreateItem, MapEdges, InsertLink, Flushed,
             FlushFails
    <2>2. \A s \in Requests \ {r} : now'[s] = now[s]
          BY <1>1 DEF ImportStep, LookupItems, MergeItem, CreateItem, MapEdges, InsertLink,
             SessionTypeOK
    <2> QED BY <1>1, <2>1, <2>2, AloneBy DEF SessionTypeOK
  <1> QED BY <1>1, <1>2, LookupItemsAdvances, MergeItemAdvances, CreateItemAdvances,
             MapEdgesAdvances, InsertLinkAdvances DEF ImportStep, Advances

-----------------------------------------------------------------------------
(* EffectInv is inductive.                                                 *)

(* One step of a handler, not the commit.                                  *)
Handles(r) ==
    \/ AssetStep(r) /\ UNCHANGED <<cache, graphVars, inval, imp>>
    \/ GraphStep(r) /\ UNCHANGED <<inval, imp>>
    \/ RelStep(r) /\ UNCHANGED <<graphVars, imp>>
    \/ ImportStep(r) /\ UNCHANGED <<cache, graphVars, inval>>
    \/ BreakDeadlock(r)

LEMMA DeadlockAdvances ==
    ASSUME EffectInv, NEW r \in Requests, BreakDeadlock(r)
    PROVE  GoodStep(r) /\ Advances(r)
  <1>1. /\ ApiInv /\ EffectInOrder(r) /\ HandlerInOrder(r) /\ SessionTypeOK
        BY DEF EffectInv, ImportInv, ApiInv, TypeOK
  <1>2. /\ Raise(r, "DeadlockDetected") /\ Deadlocked(r)
        /\ UNCHANGED <<call, clock, cache, graphVars, inval, imp, orm, now>>
        BY DEF BreakDeadlock, DeadlockAbort
  <1>3. GoodStep(r)
    <2>1. "DeadlockDetected" \in Codes
          BY DEF Codes, Errors
    <2> QED BY <1>1, <1>2, <2>1, RaiseGood
  <1>4. pc[r] \in {"import_item", "import_link"}
    <2>1. Blockers(r) # {}
          BY <1>2 DEF Deadlocked
    <2> QED BY <2>1 DEF Blockers
  <1>5. call[r].op = "import_assets"
        BY <1>1, <1>4 DEF HandlerInOrder, ImportCall
  <1>6. Refuses(r)
        BY <1>2, <1>5 DEF Refuses, Refusals, Abstract!Justifies
  <1>7. Alone(r)
        BY <1>1, <1>2, AloneBy DEF SessionTypeOK
  <1> QED BY <1>2, <1>3, <1>4, <1>6, <1>7 DEF Advances

LEMMA HandlesGood ==
    ASSUME EffectInv, NEW r \in Requests, Handles(r)
    PROVE  GoodStep(r) /\ Advances(r)
  <1>1. ApiInv
        BY DEF EffectInv, ImportInv
  <1> QED BY <1>1, AssetStepGood, AssetStepAdvances, GraphStepGood, GraphStepAdvances, RelStepGood,
             RelStepAdvances, ImportStepGood, ImportStepAdvances, DeadlockAdvances DEF Handles

LEMMA AdvanceInv ==
    ASSUME EffectInv, NEW r \in Requests, GoodStep(r), Advances(r), ImportInv'
    PROVE  EffectInv'
  <1>1. Refusals \subseteq Codes
        BY DEF Refusals, Codes, Declared, Errors
  <1>2. EffectInOrder(r)'
        BY <1>1, RaiseEffect DEF Advances, Refuses, Proceeds
  <1> QED BY <1>2, EffectStep DEF Advances

LEMMA ArriveEffect ==
    ASSUME EffectInv, NEW r \in Requests, Arrive(r)
    PROVE  EffectInOrder(r)' /\ Alone(r)
  <1>1. EffectInOrder(r) /\ SessionTypeOK
        BY DEF EffectInv, ImportInv, ApiInv, TypeOK
  <1>2. PICK c \in Calls : call'[r] = c /\ pc'[r] = c.op
        BY <1>1 DEF Arrive, Begin, SessionTypeOK
  <1>3. c # Nil /\ c.op \notin Stages \cup {"idle", "commit", "done", "flush_asset", "invalidate"}
        BY CallAssumption, CallsByOp DEF Stages
  <1>4. pc[r] = "idle" /\ UNCHANGED <<storeVars, resp, now>>
        BY DEF Arrive, Begin
  <1>5. NothingWritten(r)' /\ resp'[r] = Nil
        BY <1>1, <1>4 DEF EffectInOrder, NothingWritten, WritesOnly, storeVars
  <1> QED BY <1>2, <1>3, <1>4, <1>5 DEF EffectInOrder, Alone, Stages

LEMMA CommitDone ==
    ASSUME EffectInv, NEW r \in Requests, Commit(r)
    PROVE  EffectInOrder(r)' /\ Alone(r)
  <1>1. EffectInOrder(r) /\ SessionTypeOK
        BY DEF EffectInv, ImportInv, ApiInv, TypeOK
  <1> QED BY <1>1 DEF Commit, EffectInOrder, Alone, SessionTypeOK

(* A step in which no request moves.                                       *)
LEMMA QuietEffects ==
    ASSUME EffectInv, ImportInv', UNCHANGED <<storeVars, call, pc, resp, orm, now, imp>>
    PROVE  EffectInv'
  <1>1. SUFFICES ASSUME NEW r \in Requests
                 PROVE  EffectInOrder(r)'
        BY DEF EffectInv
  <1>2. /\ EffectInOrder(r)
        /\ pc' = pc /\ call' = call /\ resp' = resp /\ orm' = orm /\ now' = now /\ imp' = imp
        /\ assets' = assets /\ rels' = rels /\ wa' = wa /\ wr' = wr
        BY DEF EffectInv, storeVars
  <1>3. Items(r)' = Items(r) /\ Valid(r)' = Valid(r)
        BY <1>2 DEF Items, Valid
  <1>4. PICK c, flushed : c = call[r] /\ flushed = Valid(r) \ imp[r].left
        OBVIOUS
  <1>5. ItemsWritten(r, c, flushed) => ItemsWritten(r, c, flushed)'
        BY <1>2 DEF ItemsWritten
  <1>6. LinksWritten(r, c) => LinksWritten(r, c)'
        BY <1>2 DEF LinksWritten
  <1>7. BatchInOrder(r) => BatchInOrder(r)'
    <2> SUFFICES ASSUME BatchInOrder(r) PROVE BatchInOrder(r)'
        OBVIOUS
    <2>1. ItemsWritten(r, call[r], Valid(r) \ imp[r].left)'
          BY <1>2, <1>3, <1>4, <1>5 DEF BatchInOrder, ItemsWritten
    <2>2. LinksWritten(r, call[r])'
          BY <1>2, <1>4, <1>6 DEF BatchInOrder, LinksWritten
    <2>3. \A a \in AssetIds : orm[r][a] # Nil => Remains(r, a, orm[r][a])'
          BY <1>2 DEF BatchInOrder, Remains, Asset
    <2> QED BY <1>2, <1>3, <2>1, <2>2, <2>3 DEF BatchInOrder
  <1>8. /\ NothingWritten(r) => NothingWritten(r)'
        /\ pc[r] = "flush_asset" => Sound(r, call[r].asset, call[r].tenant)'
        /\ pc[r] = "invalidate" => RelateWritten(r, call[r])'
        BY <1>2 DEF EffectInOrder, NothingWritten, WritesOnly, Sound, Asset, RelateWritten
  <1>9. ASSUME pc[r] = "commit"
        PROVE  EffectWritten(r, call[r])'
    <2>1. EffectWritten(r, c) /\ c \in ApiCalls
      <3>1. c \in Calls
            BY <1>2, <1>4, <1>9 DEF EffectInOrder, EffectInv, ImportInv, ApiInv, TypeOK,
               SessionTypeOK
      <3> QED BY <1>2, <1>4, <1>9, <3>1, CallAssumption DEF EffectInOrder
    <2>2. Held(r)
          BY <1>2 DEF Held
    <2>3. EffectWritten(r, c)'
          BY <2>1, <2>2, EffectStays
    <2> QED BY <1>2, <1>4, <2>3
  <1>10. resp'[r] = Nil <=> resp[r] = Nil
         BY <1>2
  <1> QED BY <1>2, <1>7, <1>8, <1>9, <1>10 DEF EffectInOrder

LEMMA EffectInitInv == Init => EffectInv
  <1> SUFFICES ASSUME Init PROVE EffectInv
      OBVIOUS
  <1>1. ImportInv
        BY InitInv DEF ImportInv, Init, SessionInit, ImportInOrder
  <1>2. ASSUME NEW r \in Requests
        PROVE  EffectInOrder(r)
    <2>1. NothingWritten(r)
          BY DEF Init, StoreInit, NothingWritten, WritesOnly
    <2> QED BY <2>1 DEF Init, SessionInit, EffectInOrder
  <1> QED BY <1>1, <1>2 DEF EffectInv

LEMMA EffectNextInv == EffectInv /\ [Next]_vars => EffectInv'
  <1> SUFFICES ASSUME EffectInv, [Next]_vars PROVE EffectInv'
      OBVIOUS
  <1>1. ImportInv /\ ApiInv /\ ImportInv' /\ SessionTypeOK
        BY ImportNextInv DEF EffectInv, ImportInv, ApiInv, TypeOK
  <1>2. ASSUME NEW r \in Requests, Arrive(r)
        PROVE  EffectInv'
        BY <1>1, <1>2, ArriveGood, ArriveEffect, EffectStep
  <1>3. ASSUME NEW r \in Requests, Commit(r), UNCHANGED <<cache, graphVars, inval, imp>>
        PROVE  EffectInv'
        BY <1>1, <1>3, CommitGood, CommitDone, EffectStep
  <1>4. ASSUME NEW r \in Requests, Handles(r)
        PROVE  EffectInv'
        BY <1>1, <1>4, HandlesGood, AdvanceInv
  <1>5. ASSUME NEW r \in Requests, LoseConnection(r)
        PROVE  EffectInv'
    <2>1. PICK code : code = IF Answered(r) THEN resp[r] ELSE "OperationalError"
          OBVIOUS
    <2>2. pc[r] \notin {"idle", "done"} /\ resp[r] \in Codes \cup {Nil} /\ EffectInOrder(r)
          BY <1>1, <1>5 DEF LoseConnection, Fail, InFlight, EffectInv, SessionTypeOK
    <2>3. code \in Codes
          BY <2>1, <2>2 DEF Answered, EffectInOrder, Codes, Errors
    <2>4. Raise(r, code) /\ UNCHANGED <<call, clock, cache, graphVars, inval, imp, orm, now>>
          BY <1>5, <2>1 DEF LoseConnection, Fail
    <2>5. GoodStep(r)
          BY <1>1, <2>3, <2>4, RaiseGood
    <2>6. EffectInOrder(r)' /\ Alone(r)
          BY <1>1, <2>2, <2>3, <2>4, RaiseEffect, AloneBy DEF SessionTypeOK
    <2> QED BY <1>1, <2>5, <2>6, EffectStep
  <1>6. ASSUME NEW k \in GraphKeys, ExpireGraph(k)
        PROVE  EffectInv'
        BY <1>1, <1>6, QuietEffects DEF ExpireGraph, Expire, sessionVars
  <1>7. CASE PassTime
        BY <1>1, <1>7, QuietEffects DEF PassTime, Tick
  <1>8. CASE UNCHANGED vars
        BY <1>1, <1>8, QuietEffects DEF vars, sessionVars
  <1> QED BY <1>2, <1>3, <1>4, <1>5, <1>6, <1>7, <1>8 DEF Next, Idle, Serve, Handles

-----------------------------------------------------------------------------
(* The commit of what a request has written is the effect of its call.     *)

LEMMA CommitRows ==
    ASSUME StoreTypeOK, NEW r \in Requests, CommitWrites(r)
    PROVE  /\ assets' \in [AssetIds -> AssetCell] /\ rels' \in [RelIds -> RelCell]
           /\ \A a \in AssetIds : assets'[a] = IF wa[r][a] = Nil THEN assets[a] ELSE wa[r][a]
           /\ \A x \in RelIds : rels'[x] = IF wr[r][x] = Nil THEN rels[x] ELSE wr[r][x]
  BY DEF CommitWrites, Asset, Rel, StoreTypeOK

LEMMA OneAssetCommitted ==
    ASSUME StoreTypeOK, NEW r \in Requests, CommitWrites(r), NEW a \in AssetIds,
           WritesOnly(r, {a}, {}), wa[r][a] # Nil
    PROVE  assets' = [assets EXCEPT ![a] = wa[r][a]] /\ rels' = rels
  <1>1. \A b \in AssetIds \ {a} : wa[r][b] = Nil
        BY DEF WritesOnly
  <1>2. \A x \in RelIds : wr[r][x] = Nil
        BY DEF WritesOnly
  <1>3. assets' = [assets EXCEPT ![a] = wa[r][a]]
        BY <1>1, CommitRows DEF StoreTypeOK
  <1>4. rels' = rels
        BY <1>2, CommitRows DEF StoreTypeOK
  <1> QED BY <1>3, <1>4

LEMMA OneRelCommitted ==
    ASSUME StoreTypeOK, NEW r \in Requests, CommitWrites(r), NEW x \in RelIds,
           WritesOnly(r, {}, {x}), wr[r][x] # Nil
    PROVE  rels' = [rels EXCEPT ![x] = wr[r][x]] /\ assets' = assets
  <1>1. \A a \in AssetIds : wa[r][a] = Nil
        BY DEF WritesOnly
  <1>2. \A y \in RelIds \ {x} : wr[r][y] = Nil
        BY DEF WritesOnly
  <1>3. rels' = [rels EXCEPT ![x] = wr[r][x]]
        BY <1>2, CommitRows DEF StoreTypeOK
  <1>4. assets' = assets
        BY <1>1, CommitRows DEF StoreTypeOK
  <1> QED BY <1>3, <1>4

LEMMA ImportCommitted ==
    ASSUME StoreTypeOK, NEW r \in Requests, CommitWrites(r), NEW c,
           Abstract!Reportable(c),
           ItemsWritten(r, c, Abstract!ValidItems(c)), LinksWritten(r, c)
    PROVE  Abstract!Import(c)
  <1>1. \A a \in AssetIds : assets'[a] = assets[a] \/ Abstract!Imported(c, assets[a], assets'[a])
    <2> SUFFICES ASSUME NEW a \in AssetIds, wa[r][a] # Nil
                 PROVE  Abstract!Imported(c, assets[a], assets'[a])
        BY CommitRows
    <2>1. assets'[a] = wa[r][a]
          BY CommitRows
    <2> QED BY <2>1 DEF ItemsWritten
  <1>2. ASSUME NEW i \in Abstract!ValidItems(c)
        PROVE  \E a \in AssetIds : Abstract!Has(c.tenant, a)' /\ assets'[a].key = Abstract!KeyOf(c.items[i])
    <2>1. PICK a \in AssetIds : IsRow(wa[r][a]) /\ wa[r][a].key = KeyOf(c.items[i])
          BY DEF ItemsWritten
    <2>2. wa[r][a].tenant = c.tenant /\ assets'[a] = wa[r][a]
          BY <2>1, CommitRows DEF ItemsWritten, IsRow, Abstract!Imported
    <2>3. Abstract!Has(c.tenant, a)'
          BY <2>1, <2>2 DEF Abstract!Has, Abstract!IsRow, IsRow
    <2> QED BY <2>1, <2>2, <2>3 DEF Abstract!KeyOf, KeyOf
  <1>3. ASSUME NEW x \in RelIds, rels'[x] # rels[x]
        PROVE  LET rel == rels'[x] IN
               /\ rels[x] = Nil
               /\ Abstract!IsRow(rel) /\ rel.tenant = c.tenant
               /\ Abstract!LinkedInBatch(c, rel.type, assets'[rel.src].key, assets'[rel.dst].key)
    <2>1. PICK rel : rel = rels'[x]
          OBVIOUS
    <2>2. wr[r][x] # Nil /\ wr[r][x] = rel
          BY <1>3, <2>1, CommitRows
    <2>3. /\ rels[x] = Nil /\ IsRow(rel) /\ rel.tenant = c.tenant
          /\ wa[r][rel.src] # Nil /\ wa[r][rel.dst] # Nil
          /\ Abstract!LinkedInBatch(c, rel.type, wa[r][rel.src].key, wa[r][rel.dst].key)
          BY <2>2 DEF LinksWritten
    <2>4. rel.src \in AssetIds /\ rel.dst \in AssetIds
          BY <2>2, <2>3 DEF StoreTypeOK, RelCell, IsRow, RelRow
    <2>5. assets'[rel.src] = wa[r][rel.src] /\ assets'[rel.dst] = wa[r][rel.dst]
          BY <2>3, <2>4, CommitRows
    <2>6. Abstract!IsRow(rel)
          BY <2>3 DEF Abstract!IsRow, IsRow
    <2> QED BY <2>1, <2>3, <2>5, <2>6
  <1> QED BY <1>1, <1>2, <1>3 DEF Abstract!Import

LEMMA CommitEffect ==
    ASSUME StoreInv, NEW r \in Requests, CommitWrites(r), NEW c \in ApiCalls,
           EffectWritten(r, c)
    PROVE  Abstract!Effect(c)
  <1>1. StoreTypeOK
        BY DEF StoreInv
  <1>2. CASE c.op = "create_asset" /\ CreateWritten(r, c)
    <2>1. PICK a \in AssetIds, t \in Times :
             /\ WritesOnly(r, {a}, {}) /\ assets[a] = Nil /\ wa[r][a] = NewAsset(c, t)
          BY <1>2 DEF CreateWritten
    <2>2. NewAsset(c, t) # Nil
      <3>1. NewAsset(c, t) \in AssetRow
            BY <1>2, CallsByOp DEF CreateCall, NewAsset, AssetRow
      <3> QED BY <3>1, NilAssumption
    <2>3. assets' = [assets EXCEPT ![a] = NewAsset(c, t)] /\ rels' = rels
          BY <1>1, <2>1, <2>2, OneAssetCommitted
    <2>4. Abstract!Create(c)
          BY <2>1, <2>3 DEF Abstract!Create, NewAsset, Abstract!Times, Times
    <2> QED BY <1>2, <2>4 DEF Abstract!Effect
  <1>3. CASE c.op = "update_asset" /\ UpdateWritten(r, c)
    <2>1. c.asset \in AssetIds
          BY <1>3, CallsByOp DEF UpdateCall
    <2>2. assets' = [assets EXCEPT ![c.asset] = wa[r][c.asset]] /\ rels' = rels
          BY <1>1, <1>3, <2>1, OneAssetCommitted DEF UpdateWritten
    <2>3. assets'[c.asset] = wa[r][c.asset] /\ \A b \in AssetIds \ {c.asset} : assets'[b] = assets[b]
          BY <1>1, <2>1, <2>2 DEF StoreTypeOK
    <2>4. Abstract!Updated(c, assets[c.asset], assets'[c.asset])
          BY <1>3, <2>3 DEF UpdateWritten
    <2>5. Abstract!Update(c)
          BY <1>3, <2>2, <2>3, <2>4 DEF Abstract!Update, Abstract!OnlyAsset, UpdateWritten
    <2> QED BY <1>3, <2>5 DEF Abstract!Effect
  <1>4. CASE c.op = "update_status" /\ StatusWritten(r, c)
    <2>1. c.asset \in AssetIds
          BY <1>4, CallsByOp DEF StatusCall
    <2>2. assets' = [assets EXCEPT ![c.asset] = wa[r][c.asset]] /\ rels' = rels
          BY <1>1, <1>4, <2>1, OneAssetCommitted DEF StatusWritten
    <2>3. assets' = [assets EXCEPT ![c.asset].status = c.status]
          BY <1>1, <1>4, <2>1, <2>2 DEF StatusWritten, StoreTypeOK
    <2>4. Abstract!Patch(c)
          BY <1>4, <2>2, <2>3 DEF Abstract!Patch, StatusWritten
    <2> QED BY <1>4, <2>4 DEF Abstract!Effect
  <1>5. CASE c.op = "delete_asset" /\ DeleteWritten(r, c)
    <2>1. c.asset \in AssetIds
          BY <1>5, CallsByOp DEF DeleteCall
    <2>2. assets' = [assets EXCEPT ![c.asset] = Deleted]
          BY <1>1, <1>5, <2>1, CommitRows, NilAssumption DEF DeleteWritten, StoreTypeOK
    <2>3. ASSUME NEW x \in RelIds
          PROVE  rels'[x] = IF IsRow(rels[x]) /\ Touches(rels[x], c.asset)
                            THEN Deleted ELSE rels[x]
      <3>1. IsRow(rels[x]) /\ Touches(rels[x], c.asset) => wr[r][x] = Deleted
            BY <1>5, <2>1 DEF StoreInv, CascadeComplete, DeleteWritten
      <3>2. wr[r][x] # Nil =>
                wr[r][x] = Deleted /\ IsRow(rels[x]) /\ Touches(rels[x], c.asset)
            BY <1>5 DEF DeleteWritten
      <3> QED BY <1>1, <3>1, <3>2, CommitRows, NilAssumption
    <2>4. rels' = [x \in RelIds |-> IF Abstract!IsRow(rels[x]) /\ Abstract!Touches(rels[x], c.asset)
                                    THEN Deleted ELSE rels[x]]
      <3>1. rels' \in [RelIds -> RelCell]
            BY <1>1, CommitRows
      <3> QED BY <2>3, <3>1 DEF Abstract!IsRow, IsRow, Abstract!Touches, Touches
    <2>5. Abstract!Delete(c)
          BY <1>5, <2>2, <2>4 DEF Abstract!Delete, DeleteWritten
    <2> QED BY <1>5, <2>5 DEF Abstract!Effect
  <1>6. CASE c.op = "create_relationship" /\ RelateWritten(r, c)
    <2>1. PICK x \in RelIds :
             WritesOnly(r, {}, {x}) /\ rels[x] = Nil /\ wr[r][x] = NewRel(c)
          BY <1>6 DEF RelateWritten
    <2>2. NewRel(c) # Nil
      <3>1. NewRel(c) \in RelRow
            BY <1>6, CallsByOp DEF RelateCall, NewRel, RelRow
      <3> QED BY <3>1, NilAssumption
    <2>3. rels' = [rels EXCEPT ![x] = NewRel(c)] /\ assets' = assets
          BY <1>1, <2>1, <2>2, OneRelCommitted
    <2>4. Abstract!Relate(c)
          BY <2>1, <2>3 DEF Abstract!Relate, NewRel
    <2> QED BY <1>6, <2>4 DEF Abstract!Effect
  <1>7. CASE c.op = "delete_relationship" /\ UnrelateWritten(r, c)
    <2>1. c.rel \in RelIds
          BY <1>7, CallsByOp DEF UnrelateCall
    <2>2. rels' = [rels EXCEPT ![c.rel] = Deleted] /\ assets' = assets
          BY <1>1, <1>7, <2>1, OneRelCommitted, NilAssumption DEF UnrelateWritten
    <2>3. Abstract!Unrelate(c)
          BY <1>7, <2>2 DEF Abstract!Unrelate, UnrelateWritten
    <2> QED BY <1>7, <2>3 DEF Abstract!Effect
  <1>8. CASE c.op = "get_graph" /\ NothingWritten(r)
    <2>1. \A a \in AssetIds : wa[r][a] = Nil
          BY <1>8 DEF NothingWritten, WritesOnly
    <2>2. \A x \in RelIds : wr[r][x] = Nil
          BY <1>8 DEF NothingWritten, WritesOnly
    <2>3. assets' = assets
          BY <1>1, <2>1, CommitRows DEF StoreTypeOK
    <2>4. rels' = rels
          BY <1>1, <2>2, CommitRows DEF StoreTypeOK
    <2> QED BY <1>8, <2>3, <2>4 DEF Abstract!Effect
  <1>9. CASE /\ c.op = "import_assets" /\ Abstract!Reportable(c)
             /\ ItemsWritten(r, c, Abstract!ValidItems(c)) /\ LinksWritten(r, c)
    <2>1. Abstract!Import(c)
          BY <1>1, <1>9, ImportCommitted
    <2> QED BY <1>9, <2>1 DEF Abstract!Effect
  <1> QED BY <1>2, <1>3, <1>4, <1>5, <1>6, <1>7, <1>8, <1>9 DEF EffectWritten

-----------------------------------------------------------------------------
(* Every step of the service is a step of the inventory, or invisible.     *)

(* The answers as the clients see them.                                    *)
Answers == [r \in Requests |-> IF pc[r] = "done" THEN resp[r] ELSE Nil]

(* A step that answers r is seen by the client of r only.                  *)
LEMMA AnswerSeen ==
    ASSUME SessionTypeOK, NEW r \in Requests, NEW code, Alone(r),
           \A s \in Requests \ {r} : pc'[s] = pc[s], pc'[r] = "done", resp'[r] = code
    PROVE  Answers' = [Answers EXCEPT ![r] = code]
  BY DEF Answers, Alone

(* A step that answers nobody is not seen.                                 *)
LEMMA NothingSeen ==
    ASSUME SessionTypeOK, NEW r \in Requests, Alone(r),
           \A s \in Requests \ {r} : pc'[s] = pc[s], pc[r] # "done", pc'[r] # "done"
    PROVE  Answers' = Answers
  BY DEF Answers, Alone

(* A request in flight is one the inventory has yet to answer.             *)
LEMMA InFlightIsPending ==
    ASSUME EffectInv, NEW r \in Requests, pc[r] \notin {"idle", "done"}
    PROVE  call[r] # Nil /\ Answers[r] = Nil
  BY DEF EffectInv, EffectInOrder, Answers

LEMMA RefusalIsRefuse ==
    ASSUME EffectInv, NEW r \in Requests, GoodStep(r), Alone(r), UNCHANGED call,
           pc[r] \notin {"idle", "done"}, Refuses(r)
    PROVE  Abstract!Refuse(r)
  <1>1. SessionTypeOK /\ StoreTypeOK
        BY DEF EffectInv, ImportInv, ApiInv, TypeOK
  <1>2. PICK code \in Refusals : Raise(r, code) /\ Abstract!Justifies(call[r], code)
        BY DEF Refuses
  <1>3. pc'[r] = "done" /\ resp'[r] = code /\ UNCHANGED <<assets, rels>>
        BY <1>1, <1>2 DEF Raise, RollbackWrites, SessionTypeOK
  <1>4. \A s \in Requests \ {r} : pc'[s] = pc[s]
        BY DEF GoodStep, OthersStay
  <1>5. Answers' = [Answers EXCEPT ![r] = code]
        BY <1>1, <1>3, <1>4, AnswerSeen
  <1>6. Abstract!Pending(r)
        BY InFlightIsPending DEF Abstract!Pending, Answers
  <1> QED BY <1>2, <1>3, <1>5, <1>6 DEF Abstract!Refuse, Refusals, Answers

LEMMA TablesInOrder ==
    ASSUME StoreInv'
    PROVE  Abstract!UniqueRows(assets', rels') /\ Abstract!EdgesInTenant(assets', rels')
  <1>1. NoDuplicateRows' /\ EdgesStayInTenant'
        BY DEF StoreInv
  <1>2. UniqueRows(assets', rels') /\ EdgesInTenant(assets', rels')
        BY <1>1 DEF NoDuplicateRows, EdgesStayInTenant
  <1>3. Abstract!UniqueRows(assets', rels')
        BY <1>2, SameWords DEF UniqueRows, Abstract!UniqueRows
  <1>4. Abstract!EdgesInTenant(assets', rels')
        BY <1>2, SameWords DEF EdgesInTenant, Abstract!EdgesInTenant
  <1> QED BY <1>3, <1>4

LEMMA CommitIsSucceed ==
    ASSUME EffectInv, EffectInv', NEW r \in Requests, Commit(r)
    PROVE  Abstract!Succeed(r)
  <1>1. /\ SessionTypeOK /\ StoreInv /\ StoreInv' /\ EffectInOrder(r)
        /\ pc[r] = "commit" /\ CommitWrites(r)
        /\ UNCHANGED <<call, resp>>
        BY DEF EffectInv, ImportInv, ApiInv, TypeOK, Commit
  <1>2. PICK c : c = call[r]
        OBVIOUS
  <1>3. c \in ApiCalls /\ EffectWritten(r, c) /\ resp[r] = Abstract!Success(c)
        BY <1>1, <1>2, CallAssumption DEF EffectInOrder, SessionTypeOK
  <1>4. Abstract!Effect(c)
        BY <1>1, <1>3, CommitEffect
  <1>5. \A s \in Requests \ {r} : pc'[s] = pc[s]
        BY <1>1 DEF Commit, SessionTypeOK
  <1>6. pc'[r] = "done" /\ Alone(r)
        BY <1>1, CommitDone DEF Commit, SessionTypeOK
  <1>7. Answers' = [Answers EXCEPT ![r] = Abstract!Success(c)]
        BY <1>1, <1>3, <1>5, <1>6, AnswerSeen
  <1>8. Abstract!Pending(r)
        BY <1>1, InFlightIsPending DEF Abstract!Pending, Answers
  <1>9. Abstract!UniqueRows(assets', rels') /\ Abstract!EdgesInTenant(assets', rels')
        BY <1>1, TablesInOrder
  <1> QED BY <1>1, <1>2, <1>4, <1>7, <1>8, <1>9 DEF Abstract!Succeed, Answers

LEMMA ArriveIsAsk ==
    ASSUME EffectInv, NEW r \in Requests, Arrive(r)
    PROVE  Abstract!Ask(r)
  <1>1. SessionTypeOK /\ EffectInOrder(r)
        BY DEF EffectInv, ImportInv, ApiInv, TypeOK
  <1>2. PICK c \in Calls : call' = [call EXCEPT ![r] = c] /\ pc' = [pc EXCEPT ![r] = c.op]
        BY DEF Arrive, Begin
  <1>3. pc[r] = "idle" /\ UNCHANGED <<assets, rels, resp>>
        BY DEF Arrive, Begin, storeVars
  <1>4. c.op # "done"
        BY CallAssumption, CallsByOp
  <1>5. Answers' = Answers
        BY <1>1, <1>2, <1>3, <1>4 DEF Answers, SessionTypeOK
  <1>6. call[r] = Nil
        BY <1>1, <1>3 DEF EffectInOrder
  <1> QED BY <1>2, <1>3, <1>5, <1>6 DEF Abstract!Ask, Answers

(* A lost connection is a refusal as long as the response has not been     *)
(* sent.                                                                   *)
LEMMA LossIsRefuse ==
    ASSUME EffectInv, AnswerFirst = FALSE, NEW r \in Requests, LoseConnection(r)
    PROVE  Abstract!Refuse(r)
  <1>1. SessionTypeOK /\ ApiInv
        BY DEF EffectInv, ImportInv, ApiInv, TypeOK
  <1>2. pc[r] \notin {"idle", "done"} /\ ~ Answered(r)
        BY DEF LoseConnection, Fail, InFlight, Answered
  <1>3. /\ Raise(r, "OperationalError")
        /\ UNCHANGED <<call, clock, cache, graphVars, inval, imp, orm, now>>
        BY <1>2 DEF LoseConnection, Fail
  <1>4. GoodStep(r)
    <2>1. "OperationalError" \in Codes
          BY DEF Codes, Errors
    <2> QED BY <1>1, <1>3, <2>1, RaiseGood
  <1>5. Alone(r)
        BY <1>1, <1>3, AloneBy DEF SessionTypeOK
  <1>6. Refuses(r)
        BY <1>3 DEF Refuses, Refusals, Abstract!Justifies
  <1> QED BY <1>2, <1>3, <1>4, <1>5, <1>6, RefusalIsRefuse

(* A step in which no request moves and no row is committed is not seen.   *)
LEMMA QuietIsUnseen ==
    ASSUME UNCHANGED <<storeVars, call, pc, resp>>
    PROVE  UNCHANGED Abstract!inventoryVars
  <1>1. Answers' = Answers
        BY DEF Answers
  <1> QED BY <1>1 DEF Abstract!inventoryVars, Answers, storeVars

LEMMA StepRefines ==
    ASSUME AnswerFirst = FALSE, EffectInv, EffectInv', [Next]_vars
    PROVE  [Abstract!Next]_(Abstract!inventoryVars)
  <1>1. /\ SessionTypeOK
        /\ \A r \in Requests :
              Abstract!Ask(r) \/ Abstract!Succeed(r) \/ Abstract!Refuse(r) => Abstract!Next
        BY DEF EffectInv, ImportInv, ApiInv, TypeOK, Abstract!Next
  <1>2. ASSUME NEW r \in Requests, Arrive(r)
        PROVE  Abstract!Next
        BY <1>1, <1>2, ArriveIsAsk
  <1>3. ASSUME NEW r \in Requests, Commit(r)
        PROVE  Abstract!Next
        BY <1>1, <1>3, CommitIsSucceed
  <1>4. ASSUME NEW r \in Requests, Handles(r)
        PROVE  Abstract!Next \/ UNCHANGED Abstract!inventoryVars
    <2>1. GoodStep(r) /\ Advances(r)
          BY <1>4, HandlesGood
    <2>2. CASE Refuses(r)
          BY <1>1, <2>1, <2>2, RefusalIsRefuse DEF Advances
    <2>3. CASE Proceeds(r)
      <3>1. Answers' = Answers
            BY <1>1, <2>1, <2>3, NothingSeen DEF GoodStep, OthersStay, Advances, Proceeds
      <3> QED BY <2>1, <2>3, <3>1 DEF Abstract!inventoryVars, Answers, Advances, Proceeds
    <2> QED BY <2>1, <2>2, <2>3 DEF Advances
  <1>5. ASSUME NEW r \in Requests, LoseConnection(r)
        PROVE  Abstract!Next
        BY <1>1, <1>5, LossIsRefuse
  <1>6. ASSUME NEW k \in GraphKeys, ExpireGraph(k)
        PROVE  UNCHANGED Abstract!inventoryVars
        BY <1>6, QuietIsUnseen DEF ExpireGraph, Expire, sessionVars
  <1>7. CASE PassTime
        BY <1>7, QuietIsUnseen DEF PassTime, Tick
  <1>8. CASE UNCHANGED vars
        BY <1>8, QuietIsUnseen DEF vars, sessionVars
  <1> QED BY <1>2, <1>3, <1>4, <1>5, <1>6, <1>7, <1>8 DEF Next, Idle, Serve, Handles

LEMMA InitRefines ==
    ASSUME Init
    PROVE  Abstract!Init
  <1>1. Answers = [r \in Requests |-> Nil]
        BY DEF Init, SessionInit, Answers
  <1> QED BY <1>1 DEF Init, StoreInit, SessionInit, Abstract!Init, Answers

(* The effect of its call, and nothing else, is what a request has written *)
(* by its commit, whatever the others do.                                  *)
THEOREM EffectsAreWritten == Spec => []EffectInv
  <1> QED BY EffectInitInv, EffectNextInv, PTL DEF Spec

(* When the commit comes before the response, the service implements the   *)
(* abstract inventory: every call takes its whole effect in the step that  *)
(* answers it, or is refused, for a reason that the tables justify at that *)
(* very step, and leaves no trace (database.py:23-32).                     *)
THEOREM Refinement ==
    ASSUME AnswerFirst = FALSE
    PROVE  Spec => ImplementsInventory
  <1>1. AnswerFirst = FALSE
        OBVIOUS
  <1>2. Init => Abstract!Init
        BY InitRefines
  <1>3. EffectInv /\ EffectInv' /\ [Next]_vars => [Abstract!Next]_(Abstract!inventoryVars)
        BY <1>1, StepRefines
  <1> QED BY <1>2, <1>3, EffectsAreWritten, PTL DEF Spec, ImplementsInventory, Abstract!Spec
=============================================================================
