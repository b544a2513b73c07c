---------------------------- MODULE PromiseProofs ----------------------------
(***************************************************************************)
(* What follows for the tables from the effects of the calls: a row is     *)
(* committed by a call that succeeds, and by nothing else, so what every   *)
(* effect preserves holds of the tables, however the requests overlap.     *)
(***************************************************************************)
EXTENDS InventoryProofs, WellFoundedInduction

(* Every step leaves the tables alone or commits one call.                 *)
LEMMA StepCommits ==
    ASSUME EffectInv, [Next]_vars
    PROVE  \/ UNCHANGED <<assets, rels>>
           \/ \E r \in Requests : Commit(r)
  <1>1. StoreTypeOK
        BY DEF EffectInv, ImportInv, ApiInv, TypeOK
  <1>2. ASSUME NEW r \in Requests, Arrive(r)
        PROVE  UNCHANGED <<assets, rels>>
        BY <1>2 DEF Arrive, Begin, storeVars
  <1>3. ASSUME NEW r \in Requests, Handles(r)
        PROVE  UNCHANGED <<assets, rels>>
    <2>1. Advances(r)
          BY <1>3, HandlesGood
    <2> QED BY <2>1 DEF Advances, Refuses, Proceeds, Raise, RollbackWrites
  <1>4. ASSUME NEW r \in Requests, LoseConnection(r)
        PROVE  UNCHANGED <<assets, rels>>
        BY <1>4 DEF LoseConnection, Fail, Raise, RollbackWrites
  <1>5. ASSUME NEW k \in GraphKeys, ExpireGraph(k)
        PROVE  UNCHANGED <<assets, rels>>
        BY <1>5 DEF ExpireGraph, Expire, storeVars
  <1>6. CASE PassTime
        BY <1>6 DEF PassTime, Tick, storeVars
  <1>7. CASE UNCHANGED vars
        BY <1>7 DEF vars, storeVars
  <1> QED BY <1>2, <1>3, <1>4, <1>5, <1>6, <1>7 DEF Next, Idle, Serve, Handles

(* What is committed is the effect of the call, on rows that keep to the   *)
(* schema.                                                                 *)
LEMMA CommittedEffect ==
    ASSUME EffectInv, NEW r \in Requests, Commit(r)
    PROVE  call[r] \in Calls /\ Abstract!Effect(call[r])
  <1>1. /\ SessionTypeOK /\ StoreInv /\ EffectInOrder(r) /\ pc[r] = "commit" /\ CommitWrites(r)
        BY DEF EffectInv, ImportInv, ApiInv, TypeOK, Commit
  <1>2. PICK c : c = call[r]
        OBVIOUS
  <1>3. c \in Calls /\ EffectWritten(r, c)
        BY <1>1, <1>2 DEF EffectInOrder, SessionTypeOK
  <1>4. Abstract!Effect(c)
        BY <1>1, <1>3, CommitEffect, CallAssumption
  <1> QED BY <1>2, <1>3, <1>4

(* What an effect does to one asset: it stays, keeping tenant, key and     *)
(* first_seen, or it goes by a deletion, or it is new.                     *)
LEMMA EffectOnAsset ==
    ASSUME StoreTypeOK, StoreTypeOK', NEW c \in ApiCalls, Abstract!Effect(c), NEW a \in AssetIds
    PROVE  \/ assets'[a] = assets[a]
           \/ /\ IsRow(assets[a]) /\ IsRow(assets'[a])
              /\ SameKey(assets'[a], assets[a])
              /\ \/ c.op = "update_status"
                 \/ assets'[a].status \in {assets[a].status, "active"}
           \/ c.op = "delete_asset" /\ a = c.asset /\ assets'[a] = Deleted
           \/ /\ c.op = "create_asset" /\ assets[a] = Nil
              /\ IsRow(assets'[a]) /\ SameKey(assets'[a], c)
           \/ /\ c.op = "import_assets" /\ assets[a] = Nil
              /\ IsRow(assets'[a]) /\ assets'[a].tenant = c.tenant
              /\ \E i \in Abstract!ValidItems(c) : assets'[a].key = KeyOf(c.items[i])
  <1>1. /\ assets \in [AssetIds -> AssetCell] /\ assets' \in [AssetIds -> AssetCell]
        BY DEF StoreTypeOK
  <1>2. CASE c.op = "create_asset" /\ Abstract!Create(c)
    <2>1. PICK b \in AssetIds, t \in Abstract!Times :
             /\ assets[b] = Nil
             /\ assets' = [assets EXCEPT ![b] =
                    [tenant |-> c.tenant, key |-> c.key, status |-> c.status,
                     source |-> c.source, tags |-> c.tags, meta |-> c.meta,
                     first_seen |-> t, last_seen |-> t]]
          BY <1>2 DEF Abstract!Create
    <2>2. CASE a # b
          BY <1>1, <2>1, <2>2
    <2>3. CASE a = b
      <3>1. /\ assets'[a] = [tenant |-> c.tenant, key |-> c.key, status |-> c.status,
                     source |-> c.source, tags |-> c.tags, meta |-> c.meta,
                     first_seen |-> t, last_seen |-> t]
            BY <1>1, <2>1, <2>3
      <3>2. NewAsset(c, t) \in AssetRow /\ assets'[a] = NewAsset(c, t)
            BY <1>2, <2>1, <3>1, CallsByOp DEF CreateCall, NewAsset, AssetRow, Abstract!Times, Times
      <3>3. IsRow(assets'[a])
            BY <3>2, NilAssumption DEF IsRow
      <3> QED BY <1>2, <2>1, <2>3, <3>1, <3>3 DEF SameKey
    <2> QED BY <2>2, <2>3
  <1>3. CASE c.op = "update_asset" /\ Abstract!Update(c)
    <2>1. CASE a # c.asset
          BY <1>3, <2>1 DEF Abstract!Update, Abstract!OnlyAsset
    <2>2. CASE a = c.asset
      <3>1. IsRow(assets[a]) /\ Abstract!Updated(c, assets[a], assets'[a])
            BY <1>3, <2>2 DEF Abstract!Update, Abstract!Has, Abstract!IsRow, IsRow
      <3>2. assets[a] \in AssetRow
            BY <1>1, <3>1 DEF AssetCell, IsRow
      <3>3. PICK old, new : old = assets[a] /\ new = assets'[a]
            OBVIOUS
      <3>4. new = [old EXCEPT !.tags = new.tags, !.meta = new.meta,
                              !.source = new.source, !.last_seen = new.last_seen]
            BY <3>1, <3>3 DEF Abstract!Updated
      <3>5. new.tenant = old.tenant /\ new.key = old.key /\ new.status = old.status
            BY <3>2, <3>3, <3>4 DEF AssetRow
      <3>6. IsRow(new)
            BY <3>1, <3>3 DEF Abstract!Updated, Abstract!IsRow, IsRow
      <3> QED BY <3>1, <3>3, <3>5, <3>6 DEF SameKey
    <2> QED BY <2>1, <2>2
  <1>4. CASE c.op = "update_status" /\ Abstract!Patch(c)
    <2>1. CASE a # c.asset
          BY <1>1, <1>4, <2>1 DEF Abstract!Patch
    <2>2. CASE a = c.asset
      <3>1. IsRow(assets[a]) /\ assets'[a] = [assets[a] EXCEPT !.status = c.status]
            BY <1>1, <1>4, <2>2 DEF Abstract!Patch, Abstract!Has, Abstract!IsRow, IsRow
      <3>2. assets[a] \in AssetRow /\ c.status \in Statuses
            BY <1>1, <1>4, <3>1, CallsByOp DEF AssetCell, IsRow, StatusCall
      <3>3. assets'[a] \in AssetRow /\ SameKey(assets'[a], assets[a])
            BY <3>1, <3>2 DEF AssetRow, SameKey
      <3> QED BY <1>4, <3>1, <3>3, NilAssumption DEF IsRow
    <2> QED BY <2>1, <2>2
  <1>5. CASE c.op = "delete_asset" /\ Abstract!Delete(c)
        BY <1>1, <1>5 DEF Abstract!Delete
  <1>6. CASE /\ c.op \in {"create_relationship", "delete_relationship", "get_graph"}
             /\ assets' = assets
        BY <1>6
  <1>7. CASE c.op = "import_assets" /\ Abstract!Import(c)
    <2>1. PICK old, new : old = assets[a] /\ new = assets'[a]
          OBVIOUS
    <2>2. new = old \/ Abstract!Imported(c, old, new)
          BY <1>7, <2>1 DEF Abstract!Import
    <2>3. CASE Abstract!Imported(c, old, new)
      <3>1. /\ IsRow(new) /\ new.tenant = c.tenant
            /\ \E i \in Abstract!ValidItems(c) : new.key = KeyOf(c.items[i])
            BY <2>3 DEF Abstract!Imported, Abstract!IsRow, IsRow, Abstract!KeyOf, KeyOf
      <3>2. CASE old = Nil
            BY <1>7, <2>1, <3>1, <3>2
      <3>3. CASE /\ IsRow(old)
                 /\ new = [old EXCEPT !.tags = new.tags, !.meta = new.meta,
                                      !.status = new.status, !.last_seen = new.last_seen]
                 /\ new.status \in {old.status, "active"}
        <4>1. old \in AssetRow
              BY <1>1, <2>1, <3>3 DEF AssetCell, IsRow
        <4>2. new.tenant = old.tenant /\ new.key = old.key
              BY <3>3, <4>1 DEF AssetRow
        <4> QED BY <2>1, <3>1, <3>3, <4>2 DEF SameKey
      <3> QED BY <2>3, <3>2, <3>3 DEF Abstract!Imported, Abstract!IsRow, IsRow
    <2> QED BY <2>1, <2>2, <2>3
  <1> QED BY <1>2, <1>3, <1>4, <1>5, <1>6, <1>7 DEF Abstract!Effect, Abstract!Relate, Abstract!Unrelate

(* The items of an import are items.                                       *)
LEMMA ItemsOfCall ==
    ASSUME NEW c \in ApiCalls, c.op = "import_assets", NEW i \in Abstract!ValidItems(c)
    PROVE  c.items[i] \in Item /\ c.tenant \in Tenants
  <1>1. c \in ImportCall
        BY CallsByOp
  <1>2. PICK items \in Seq(Item) : c.items = items /\ c.tenant \in Tenants
        BY <1>1 DEF ImportCall
  <1>3. i \in DOMAIN items
        BY <1>2 DEF Abstract!ValidItems
  <1>4. items[i] \in Item
        BY <1>3
  <1> QED BY <1>2, <1>4

-----------------------------------------------------------------------------
(* One asset per spelling.                                                 *)

(* The importer normalizes once and for all; whoever creates assets one by *)
(* one, unlike the importer, must send them normalized.                    *)
SentNormalized ==
    /\ \A k \in Keys : Canon[Canon[k]] = Canon[k]
    /\ \A c \in Calls : c.op = "create_asset" => Canon[c.key] = c.key
    /\ \A a \in AssetIds : IsRow(SeedAssets[a]) => Canon[SeedAssets[a].key] = SeedAssets[a].key

StoredNormalized ==
    \A a \in AssetIds : IsRow(assets[a]) => Canon[assets[a].key] = assets[a].key

LEMMA CommitStoresNormalized ==
    ASSUME SentNormalized, EffectInv, EffectInv', StoredNormalized,
           NEW r \in Requests, Commit(r)
    PROVE  StoredNormalized'
  <1>1. PICK c : c = call[r]
        OBVIOUS
  <1>2. c \in Calls /\ c \in ApiCalls /\ Abstract!Effect(c) /\ StoreTypeOK /\ StoreTypeOK'
        BY <1>1, CommittedEffect, CallAssumption DEF EffectInv, ImportInv, ApiInv, TypeOK
  <1>3. SUFFICES ASSUME NEW a \in AssetIds, IsRow(assets'[a])
                 PROVE  Canon[assets'[a].key] = assets'[a].key
        BY DEF StoredNormalized
  <1>4. CASE assets'[a] = assets[a]
        BY <1>3, <1>4 DEF StoredNormalized
  <1>5. CASE IsRow(assets[a]) /\ SameKey(assets'[a], assets[a])
        BY <1>5 DEF StoredNormalized, SameKey
  <1>6. CASE assets'[a] = Deleted
        BY <1>3, <1>6 DEF IsRow
  <1>7. CASE c.op = "create_asset" /\ SameKey(assets'[a], c)
        BY <1>2, <1>7 DEF SentNormalized, SameKey
  <1>8. CASE c.op = "import_assets" /\ \E i \in Abstract!ValidItems(c) : assets'[a].key = KeyOf(c.items[i])
    <2>1. PICK i \in Abstract!ValidItems(c) : assets'[a].key = KeyOf(c.items[i])
          BY <1>8
    <2>2. c.items[i].key \in Keys
          BY <1>2, <1>8, ItemsOfCall DEF Item
    <2> QED BY <2>1, <2>2 DEF SentNormalized, KeyOf
  <1> QED BY <1>2, <1>4, <1>5, <1>6, <1>7, <1>8, EffectOnAsset

(* As long as what is stored is normalized, no tenant has one asset under  *)
(* two spellings, however its imports overlap (import_pipeline.py:64-74).  *)
THEOREM OneSpelling ==
    ASSUME SentNormalized
    PROVE  Spec => []OneAssetPerSpelling
  <1>1. SentNormalized
        OBVIOUS
  <1>2. Init => StoredNormalized
        BY <1>1 DEF Init, StoreInit, SentNormalized, StoredNormalized
  <1>3. EffectInv /\ EffectInv' /\ StoredNormalized /\ [Next]_vars => StoredNormalized'
    <2> SUFFICES ASSUME EffectInv, EffectInv', StoredNormalized, [Next]_vars
                 PROVE  StoredNormalized'
        OBVIOUS
    <2>1. CASE UNCHANGED <<assets, rels>>
          BY <2>1 DEF StoredNormalized
    <2> QED BY <1>1, <2>1, StepCommits, CommitStoresNormalized
  <1>4. EffectInv /\ StoredNormalized => OneAssetPerSpelling
    <2> SUFFICES ASSUME EffectInv, StoredNormalized,
                        NEW a \in AssetIds, NEW b \in AssetIds, IsRow(assets[a]), IsRow(assets[b]),
                        assets[a].tenant = assets[b].tenant,
                        Canon[assets[a].key] = Canon[assets[b].key]
                 PROVE  a = b
        BY DEF OneAssetPerSpelling
    <2>1. NoDuplicateRows
          BY DEF EffectInv, ImportInv, ApiInv, StoreInv
    <2>2. SameKey(assets[a], assets[b])
          BY DEF StoredNormalized, SameKey
    <2> QED BY <2>1, <2>2 DEF NoDuplicateRows, UniqueRows
  <1> QED BY <1>2, <1>3, <1>4, EffectsAreWritten, PTL DEF Spec

-----------------------------------------------------------------------------
(* Imports are atomic.                                                     *)

BatchKeys(c) == {KeyOf(c.items[i]) : i \in Abstract!ValidItems(c)}

Stored(table, t, k) ==
    \E a \in AssetIds : IsRow(table[a]) /\ table[a].tenant = t /\ table[a].key = k

AllOrNothing(table, c) ==
    (\E k \in BatchKeys(c) : Stored(table, c.tenant, k))
        => \A k \in BatchKeys(c) : Stored(table, c.tenant, k)

(* The assets of a batch come from imports of the whole batch, and stay.   *)
BatchesApart ==
    /\ \A c \in Calls : c.op # "delete_asset"
    /\ \A c, d \in Calls : c.op = "import_assets" /\ d.tenant = c.tenant =>
           /\ d.op = "create_asset" => d.key \notin BatchKeys(c)
           /\ d.op = "import_assets" /\ Abstract!Reportable(d) =>
                  BatchKeys(c) \subseteq BatchKeys(d) \/ BatchKeys(c) \cap BatchKeys(d) = {}
    /\ \A c \in Calls : c.op = "import_assets" => AllOrNothing(SeedAssets, c)

BatchesWhole == \A c \in Calls : c.op = "import_assets" => AllOrNothing(assets, c)

(* Nothing that is stored goes.                                            *)
LEMMA StoredStays ==
    ASSUME EffectInv, EffectInv', NEW r \in Requests, Commit(r), call[r].op # "delete_asset",
           NEW t, NEW k, Stored(assets, t, k)
    PROVE  Stored(assets', t, k)
  <1>1. PICK c : c = call[r]
        OBVIOUS
  <1>2. /\ c \in ApiCalls /\ Abstract!Effect(c) /\ StoreTypeOK /\ StoreTypeOK'
        BY <1>1, CommittedEffect, CallAssumption DEF EffectInv, ImportInv, ApiInv, TypeOK
  <1>3. PICK a \in AssetIds : IsRow(assets[a]) /\ assets[a].tenant = t /\ assets[a].key = k
        BY DEF Stored
  <1>4. IsRow(assets'[a]) /\ assets'[a].tenant = t /\ assets'[a].key = k
        BY <1>1, <1>2, <1>3, EffectOnAsset DEF SameKey, IsRow
  <1> QED BY <1>4 DEF Stored

(* What is stored now was stored before, or its call has just stored it.   *)
LEMMA NewlyStored ==
    ASSUME EffectInv, EffectInv', NEW r \in Requests, Commit(r), NEW c, c = call[r],
           NEW t, NEW k, Stored(assets', t, k), ~ Stored(assets, t, k)
    PROVE  /\ t = c.tenant
           /\ \/ c.op = "create_asset" /\ k = c.key
              \/ c.op = "import_assets" /\ k \in BatchKeys(c)
  <1>1. /\ c \in ApiCalls /\ Abstract!Effect(c) /\ StoreTypeOK /\ StoreTypeOK'
        BY CommittedEffect, CallAssumption DEF EffectInv, ImportInv, ApiInv, TypeOK
  <1>2. PICK a \in AssetIds : IsRow(assets'[a]) /\ assets'[a].tenant = t /\ assets'[a].key = k
        BY DEF Stored
  <1>3. ~ (IsRow(assets[a]) /\ assets[a].tenant = t /\ assets[a].key = k)
        BY DEF Stored
  <1>4. \/ c.op = "create_asset" /\ SameKey(assets'[a], c)
        \/ /\ c.op = "import_assets" /\ assets'[a].tenant = c.tenant
           /\ \E i \in Abstract!ValidItems(c) : assets'[a].key = KeyOf(c.items[i])
    <2>1. assets'[a] # assets[a]
          BY <1>2, <1>3
    <2>2. ~ (IsRow(assets[a]) /\ SameKey(assets'[a], assets[a]))
          BY <1>2, <1>3 DEF SameKey
    <2>3. assets'[a] # Deleted
          BY <1>2 DEF IsRow
    <2> QED BY <1>1, <2>1, <2>2, <2>3, EffectOnAsset
  <1> QED BY <1>2, <1>4 DEF SameKey, BatchKeys

(* An import that succeeds stores its batch.                               *)
LEMMA ImportStores ==
    ASSUME NEW c, c.op = "import_assets", Abstract!Effect(c), NEW k \in BatchKeys(c)
    PROVE  Stored(assets', c.tenant, k) /\ Abstract!Reportable(c)
  <1>1. Abstract!Import(c)
        BY DEF Abstract!Effect
  <1>2. PICK i \in Abstract!ValidItems(c) : k = KeyOf(c.items[i])
        BY DEF BatchKeys
  <1>3. PICK a \in AssetIds : Abstract!Has(c.tenant, a)' /\ assets'[a].key = Abstract!KeyOf(c.items[i])
        BY <1>1 DEF Abstract!Import
  <1>4. IsRow(assets'[a]) /\ assets'[a].tenant = c.tenant /\ assets'[a].key = k
        BY <1>2, <1>3 DEF Abstract!Has, Abstract!IsRow, IsRow, Abstract!KeyOf, KeyOf
  <1> QED BY <1>1, <1>4 DEF Stored, Abstract!Import

LEMMA CommitKeepsBatchesWhole ==
    ASSUME BatchesApart, EffectInv, EffectInv', BatchesWhole, NEW r \in Requests, Commit(r)
    PROVE  BatchesWhole'
  <1>1. PICK d : d = call[r]
        OBVIOUS
  <1>2. d \in Calls /\ d.op # "delete_asset" /\ Abstract!Effect(d)
        BY <1>1, CommittedEffect DEF BatchesApart
  <1>3. SUFFICES ASSUME NEW c \in Calls, c.op = "import_assets",
                        NEW k \in BatchKeys(c), Stored(assets', c.tenant, k),
                        NEW l \in BatchKeys(c)
                 PROVE  Stored(assets', c.tenant, l)
        BY DEF BatchesWhole, AllOrNothing
  <1>4. CASE Stored(assets, c.tenant, k)
    <2>1. Stored(assets, c.tenant, l)
          BY <1>3, <1>4 DEF BatchesWhole, AllOrNothing
    <2> QED BY <1>1, <1>2, <2>1, StoredStays
  <1>5. CASE ~ Stored(assets, c.tenant, k)
    <2>1. /\ c.tenant = d.tenant
          /\ \/ d.op = "create_asset" /\ k = d.key
             \/ d.op = "import_assets" /\ k \in BatchKeys(d)
          BY <1>1, <1>3, <1>5, NewlyStored
    <2>2. d.op = "import_assets" /\ k \in BatchKeys(d)
          BY <1>2, <1>3, <2>1 DEF BatchesApart
    <2>3. Abstract!Reportable(d)
          BY <1>2, <2>2, ImportStores
    <2>4. l \in BatchKeys(d)
          BY <1>2, <1>3, <2>1, <2>2, <2>3 DEF BatchesApart
    <2> QED BY <1>2, <2>1, <2>2, <2>4, ImportStores
  <1> QED BY <1>4, <1>5

(* Whatever fails while it runs, and however imports overlap, of a batch   *)
(* all the valid items are in the tables or none is (database.py:25-30).   *)
THEOREM AtomicImports ==
    ASSUME BatchesApart
    PROVE  Spec => []ImportIsAtomic
  <1>1. BatchesApart
        OBVIOUS
  <1>2. Init => BatchesWhole
        BY <1>1 DEF Init, StoreInit, BatchesApart, BatchesWhole
  <1>3. EffectInv /\ EffectInv' /\ BatchesWhole /\ [Next]_vars => BatchesWhole'
    <2> SUFFICES ASSUME EffectInv, EffectInv', BatchesWhole, [Next]_vars
                 PROVE  BatchesWhole'
        OBVIOUS
    <2>1. CASE UNCHANGED <<assets, rels>>
          BY <2>1 DEF BatchesWhole, AllOrNothing, Stored
    <2> QED BY <1>1, <2>1, StepCommits, CommitKeepsBatchesWhole
  <1>4. BatchesWhole => ImportIsAtomic
    <2> SUFFICES ASSUME BatchesWhole, NEW c \in Calls, c.op = "import_assets"
                 PROVE  LET valid == {i \in DOMAIN c.items : c.items[i].form = "valid"}
                            there == {i \in valid : \E a \in AssetIds :
                                         IsRow(assets[a]) /\ assets[a].tenant = c.tenant
                                         /\ assets[a].key = KeyOf(c.items[i])}
                        IN there \in {{}, valid}
        BY DEF ImportIsAtomic
    <2> DEFINE valid == {i \in DOMAIN c.items : c.items[i].form = "valid"}
               there == {i \in valid : Stored(assets, c.tenant, KeyOf(c.items[i]))}
    <2>1. AllOrNothing(assets, c)
          BY DEF BatchesWhole
    <2>2. \A i \in valid : KeyOf(c.items[i]) \in BatchKeys(c)
          BY DEF BatchKeys, Abstract!ValidItems
    <2>3. there # {} => there = valid
          BY <2>1, <2>2 DEF AllOrNothing
    <2> QED BY <2>3 DEF Stored
  <1> QED BY <1>2, <1>3, <1>4, EffectsAreWritten, PTL DEF Spec

-----------------------------------------------------------------------------
(* The steps as an import that is under way sees them.                     *)

UnderWay(s) == pc[s] \in Stages \/ (pc[s] = "commit" /\ Importing(s))

(* Another request steps, or nobody does.                                  *)
Keeps(s) ==
    /\ Held(s)
    /\ pc'[s] = pc[s] /\ call'[s] = call[s] /\ orm'[s] = orm[s] /\ imp'[s] = imp[s]

(* Nothing but a step of the import itself leads into or through one.      *)
LEMMA StepSeen ==
    ASSUME EffectInv, EffectInv', [Next]_vars, NEW s \in Requests, UnderWay(s)'
    PROVE  Keeps(s) \/ ImportStep(s)
  <1>1. /\ ApiInv /\ StoreInv /\ SessionTypeOK /\ HandlerInOrder(s) /\ HandlerInOrder(s)'
        /\ SessionTypeOK'
        BY DEF EffectInv, ImportInv, ApiInv, TypeOK
  <1>2. pc'[s] \in Stages \cup {"commit"} /\ call'[s].op = "import_assets"
    <2>1. CASE pc'[s] \in Stages
      <3>1. call'[s] \in ImportCall
            BY <1>1, <2>1 DEF HandlerInOrder, Stages
      <3> QED BY <2>1, <3>1 DEF ImportCall
    <2>2. CASE pc'[s] = "commit" /\ Importing(s)'
      <3>1. call'[s] # Nil
            BY <2>2 DEF EffectInv, EffectInOrder
      <3> QED BY <2>2, <3>1 DEF Importing, Op
    <2> QED BY <2>1, <2>2 DEF UnderWay
  <1>3. ASSUME NEW r \in Requests, GoodStep(r), r # s
        PROVE  Keeps(s)
        BY <1>1, <1>3, OthersHeld DEF GoodStep, OthersStay, Keeps
  <1>4. ASSUME NEW r \in Requests, Arrive(r)
        PROVE  Keeps(s)
    <2>1. r # s
      <3>1. PICK c \in Calls : pc' = [pc EXCEPT ![r] = c.op]
            BY <1>4 DEF Arrive, Begin
      <3>2. c.op \notin Stages \cup {"commit"}
            BY CallAssumption, CallsByOp DEF Stages
      <3> QED BY <1>1, <1>2, <3>1, <3>2 DEF SessionTypeOK
    <2> QED BY <1>1, <1>3, <1>4, <2>1, ArriveGood
  <1>5. ASSUME NEW r \in Requests, Commit(r), UNCHANGED <<cache, graphVars, inval, imp>>
        PROVE  Keeps(s)
    <2>1. r # s
          BY <1>1, <1>2, <1>5 DEF Commit, SessionTypeOK, Stages
    <2> QED BY <1>1, <1>3, <1>5, <2>1, CommitGood
  <1>6. ASSUME NEW r \in Requests, Handles(r), r # s
        PROVE  Keeps(s)
        BY <1>3, <1>6, HandlesGood
  <1>7. ASSUME NEW r \in Requests, LoseConnection(r)
        PROVE  Keeps(s)
    <2>1. PICK code : /\ Raise(r, code)
                      /\ UNCHANGED <<call, clock, cache, graphVars, inval, imp, orm, now>>
          BY <1>7 DEF LoseConnection, Fail
    <2>2. r # s
          BY <1>1, <1>2, <2>1 DEF Raise, SessionTypeOK, Stages
    <2>3. StoreStep(r) /\ OthersStay(r)
          BY <1>1, <2>1 DEF Raise, StoreStep, OthersStay, graphVars, SessionTypeOK
    <2> QED BY <1>1, <2>2, <2>3, OthersHeld DEF OthersStay, Keeps
  <1>8. CASE Handles(s)
    <2>1. UNCHANGED call
          BY <1>8, HandlesGood DEF Advances
    <2>2. call[s].op = "import_assets"
          BY <1>2, <2>1
    <2>3. ~ AssetStep(s)
      <3> SUFFICES ASSUME AssetStep(s) PROVE FALSE
          OBVIOUS
      <3>1. pc[s] \in {"create_asset", "insert_asset", "update_asset", "flush_asset",
                       "update_status", "delete_asset"}
            BY DEF AssetStep, CreateAsset, InsertNewAsset, GetAsset, FlushUpdate, UpdateStatus,
               RemoveAsset, AbortCascade
      <3> QED BY <1>1, <2>2, <3>1 DEF HandlerInOrder, CreateCall, UpdateCall, StatusCall, DeleteCall
    <2>4. ~ GraphStep(s)
      <3> SUFFICES ASSUME GraphStep(s) PROVE FALSE
          OBVIOUS
      <3>1. pc[s] \in {"get_graph", "graph_root", "graph_rels", "graph_nodes", "graph_cache"}
            BY DEF GraphStep, ReadCache, ReadRoot, ReadRels, ReadNode, WriteCache
      <3> QED BY <1>1, <2>2, <3>1 DEF HandlerInOrder, GraphCall
    <2>5. ~ RelStep(s)
      <3> SUFFICES ASSUME RelStep(s) PROVE FALSE
          OBVIOUS
      <3>1. pc[s] \in {"create_relationship", "rel_target", "rel_lookup", "insert_rel",
                       "invalidate", "delete_relationship"}
            BY DEF RelStep, VerifySource, VerifyTarget, LookupEdge, InsertNewRel,
               InvalidateGraphs, RemoveRel
      <3> QED BY <1>1, <2>2, <3>1 DEF HandlerInOrder, RelateCall, UnrelateCall
    <2>6. ~ BreakDeadlock(s)
          BY <1>1, <1>2 DEF BreakDeadlock, DeadlockAbort, Raise, SessionTypeOK, Stages
    <2> QED BY <1>8, <2>3, <2>4, <2>5, <2>6 DEF Handles
  <1>9. ASSUME NEW k \in GraphKeys, ExpireGraph(k)
        PROVE  Keeps(s)
        BY <1>9 DEF ExpireGraph, Expire, sessionVars, storeVars, Keeps, Held
  <1>10. CASE PassTime
         BY <1>10 DEF PassTime, Tick, storeVars, Keeps, Held
  <1>11. CASE UNCHANGED vars
         BY <1>11 DEF vars, sessionVars, storeVars, Keeps, Held
  <1> QED BY <1>4, <1>5, <1>6, <1>7, <1>8, <1>9, <1>10, <1>11 DEF Next, Idle, Serve, Handles

-----------------------------------------------------------------------------
(* An import leaves what it merged into active.                            *)

NobodyPatches == \A c \in Calls : c.op # "update_status"

(* Nobody takes an active asset out of service: what the import loaded     *)
(* active still is, and what it wrote over another row is.                 *)
LoadedActive(r) ==
    \A a \in AssetIds : orm[r][a] # Nil /\ orm[r][a].status = "active" /\ IsRow(Asset(r, a))
        => Asset(r, a).status = "active"

WrittenActive(r) ==
    \A a \in AssetIds : IsRow(assets[a]) /\ wa[r][a] # Nil => wa[r][a].status = "active"

ActiveInOrder(r) ==
    /\ pc[r] \in Stages => LoadedActive(r)
    /\ UnderWay(r) => WrittenActive(r)

ActiveInv == EffectInv /\ \A r \in Requests : ActiveInOrder(r)

(* A row nobody patches, once active, stays active.                        *)
LEMMA ActiveRowStays ==
    ASSUME NobodyPatches, EffectInv, EffectInv', [Next]_vars,
           NEW a \in AssetIds, IsRow(assets[a]), assets[a].status = "active", IsRow(assets'[a])
    PROVE  assets'[a].status = "active"
  <1>1. CASE UNCHANGED <<assets, rels>>
        BY <1>1
  <1>2. ASSUME NEW r \in Requests, Commit(r)
        PROVE  assets'[a].status = "active"
    <2>1. PICK c : c = call[r]
          OBVIOUS
    <2>2. /\ c \in Calls /\ c \in ApiCalls /\ Abstract!Effect(c) /\ StoreTypeOK /\ StoreTypeOK'
          BY <1>2, <2>1, CommittedEffect, CallAssumption DEF EffectInv, ImportInv, ApiInv, TypeOK
    <2>3. c.op # "update_status"
          BY <2>2 DEF NobodyPatches
    <2>4. assets'[a] = assets[a] \/ assets'[a].status \in {assets[a].status, "active"}
          BY <2>2, <2>3, EffectOnAsset DEF IsRow
    <2> QED BY <2>4
  <1> QED BY <1>1, <1>2, StepCommits

(* Others leave an import in order.                                        *)
LEMMA KeepsActive ==
    ASSUME NobodyPatches, EffectInv, EffectInv', [Next]_vars,
           NEW s \in Requests, ActiveInOrder(s), Keeps(s)
    PROVE  ActiveInOrder(s)'
  <1>1. pc'[s] = pc[s] /\ call'[s] = call[s] /\ orm'[s] = orm[s] /\ wa'[s] = wa[s]
        BY DEF Keeps, Held
  <1>2. ASSUME pc[s] \in Stages
        PROVE  LoadedActive(s)'
    <2> SUFFICES ASSUME NEW a \in AssetIds, orm[s][a] # Nil, orm[s][a].status = "active",
                        IsRow(Asset(s, a)')
                 PROVE  Asset(s, a)'.status = "active"
        BY <1>1 DEF LoadedActive
    <2>1. CASE wa[s][a] # Nil
          BY <1>1, <1>2, <2>1 DEF ActiveInOrder, LoadedActive, Asset
    <2>2. CASE wa[s][a] = Nil
      <3>1. Asset(s, a) = assets[a] /\ Asset(s, a)' = assets'[a]
            BY <1>1, <2>2 DEF Asset
      <3>2. Remains(s, a, orm[s][a])
            BY <1>2 DEF EffectInv, EffectInOrder, BatchInOrder, Stages
      <3>3. IsRow(assets[a])
        <4>1. CASE assets[a] = Deleted
          <5>1. assets'[a] = Deleted
            <6>1. CASE UNCHANGED <<assets, rels>>
                  BY <4>1, <6>1
            <6>2. ASSUME NEW r \in Requests, Commit(r)
                  PROVE  assets'[a] = Deleted
                  BY <4>1, <6>2, CommittedEffect, EffectOnAsset, CallAssumption, NilAssumption
                     DEF EffectInv, ImportInv, ApiInv, TypeOK, IsRow
            <6> QED BY <6>1, <6>2, StepCommits
          <5> QED BY <3>1, <5>1 DEF IsRow
        <4> QED BY <3>1, <3>2, <4>1 DEF Remains
      <3>4. assets[a].status = "active"
            BY <1>2, <3>1, <3>3 DEF ActiveInOrder, LoadedActive
      <3> QED BY <3>1, <3>3, <3>4, ActiveRowStays
    <2> QED BY <2>1, <2>2
  <1>3. WrittenActive(s) => WrittenActive(s)'
        BY <1>1 DEF WrittenActive, Keeps, Held
  <1>4. UnderWay(s)' <=> UnderWay(s)
        BY <1>1 DEF UnderWay, Importing, Op
  <1> QED BY <1>1, <1>2, <1>3, <1>4 DEF ActiveInOrder

(* Stage 4 writes active rows over those it loaded.                        *)
LEMMA MergeActivates ==
    ASSUME EffectInv, NEW r \in Requests, MergeItem(r), ActiveInOrder(r), UnderWay(r)'
    PROVE  ActiveInOrder(r)'
  <1>1. ImportStep(r) /\ pc[r] = "import_item"
        BY DEF ImportStep, MergeItem
  <1>2. /\ StoreTypeOK /\ SessionTypeOK /\ call[r] \in ImportCall
        /\ LoadedActive(r) /\ WrittenActive(r)
        BY <1>1, ImportStepFacts DEF ActiveInOrder, UnderWay, Stages
  <1>3. PICK i \in Valid(r), a \in AssetIds :
           /\ orm[r][a] # Nil
           /\ \/ /\ FlushAsset(r, a, Merged(Items(r)[i], orm[r][a], now[r]))
                 /\ Flushed(r, i, a, Merged(Items(r)[i], orm[r][a], now[r]))
              \/ FlushFails(r, a)
        BY DEF MergeItem, Existing
  <1>4. ~ FlushFails(r, a)
        BY <1>2 DEF FlushFails, Raise, SessionTypeOK, UnderWay, Stages
  <1>5. PICK item, loaded, current, t :
           /\ item = Items(r)[i] /\ loaded = orm[r][a]
           /\ current = Asset(r, a) /\ t = now[r]
        OBVIOUS
  <1>6. PICK row, written : row = Merged(item, loaded, t) /\ written = DirtyColumns(row, loaded, current)
        OBVIOUS
  <1>7. FlushAsset(r, a, row) /\ Flushed(r, i, a, row)
        BY <1>3, <1>4, <1>5, <1>6
  <1>8. /\ loaded \in AssetRow /\ current \in AssetRow /\ item \in Item /\ t \in Times
        /\ IsRow(current)
        BY <1>2, <1>3, <1>5, <1>7, BatchFacts DEF FlushAsset, UpdateAsset, AssetRows, IsRow,
           Asset, AssetCell, StoreTypeOK, SessionTypeOK
  <1>9. row.status = "active"
        BY <1>6, <1>8 DEF Merged, AssetRow, Statuses
  <1>10. loaded.status = "active" => current.status = "active"
         BY <1>2, <1>3, <1>5, <1>8 DEF LoadedActive
  <1>11. written.status = "active"
         BY <1>6, <1>8, <1>9, <1>10 DEF DirtyColumns, Dirty, AssetRow
  <1>12. wa' = [wa EXCEPT ![r][a] = written] /\ UNCHANGED <<assets, rels, wr>>
         BY <1>5, <1>6, <1>7 DEF FlushAsset, UpdateAsset
  <1>13. orm'[r] = [orm[r] EXCEPT ![a] = row]
         BY <1>2, <1>7 DEF Flushed, SessionTypeOK
  <1>14. /\ wa'[r][a] = written /\ \A b \in AssetIds \ {a} : wa'[r][b] = wa[r][b]
         /\ \A b \in AssetIds \ {a} : orm'[r][b] = orm[r][b]
         BY <1>2, <1>12, <1>13 DEF StoreTypeOK, SessionTypeOK
  <1>15. WrittenActive(r)'
         BY <1>2, <1>11, <1>12, <1>14 DEF WrittenActive
  <1>16. written # Nil
    <2>1. row \in AssetRow
          BY <1>6, <1>8, MergedRow
    <2>2. written \in AssetRow
          BY <1>6, <1>8, <2>1, DirtyColumnsFit
    <2> QED BY <2>2, NilAssumption
  <1>17. LoadedActive(r)'
    <2> SUFFICES ASSUME NEW b \in AssetIds, orm'[r][b] # Nil, orm'[r][b].status = "active",
                        IsRow(Asset(r, b)')
                 PROVE  Asset(r, b)'.status = "active"
        BY DEF LoadedActive
    <2>1. CASE b = a
          BY <1>11, <1>14, <1>16, <2>1 DEF Asset
    <2>2. CASE b # a
          BY <1>2, <1>12, <1>14, <2>2 DEF Asset, LoadedActive
    <2> QED BY <2>1, <2>2
  <1> QED BY <1>15, <1>17 DEF ActiveInOrder

LEMMA CreateActivates ==
    ASSUME EffectInv, NEW r \in Requests, CreateItem(r), ActiveInOrder(r), UnderWay(r)'
    PROVE  ActiveInOrder(r)'
  <1>1. ImportStep(r) /\ pc[r] = "import_item"
        BY DEF ImportStep, CreateItem
  <1>2. /\ StoreTypeOK /\ SessionTypeOK /\ call[r] \in ImportCall
        /\ LoadedActive(r) /\ WrittenActive(r)
        BY <1>1, ImportStepFacts DEF ActiveInOrder, UnderWay, Stages
  <1>3. PICK i \in Valid(r) : \E row :
           /\ row = Created(call[r].tenant, Items(r)[i], now[r])
           /\ \/ \E a \in AssetIds : InsertAsset(r, a, row) /\ Flushed(r, i, a, row)
              \/ Raise(r, "IntegrityError")
        BY DEF CreateItem
  <1> PICK row :
           /\ row = Created(call[r].tenant, Items(r)[i], now[r])
           /\ \/ \E a \in AssetIds : InsertAsset(r, a, row) /\ Flushed(r, i, a, row)
              \/ Raise(r, "IntegrityError")
        BY <1>3
  <1>4. ~ Raise(r, "IntegrityError")
        BY <1>2 DEF Raise, SessionTypeOK, UnderWay, Stages
  <1>5. PICK a \in AssetIds : InsertAsset(r, a, row) /\ Flushed(r, i, a, row)
        BY <1>3, <1>4
  <1>6. row # Nil
    <2>1. row \in AssetRow
          BY <1>2, <1>3, BatchFacts, CreatedRow DEF SessionTypeOK
    <2> QED BY <2>1, NilAssumption
  <1>7. /\ wa'[r][a] = row /\ assets'[a] = Nil
        /\ \A b \in AssetIds \ {a} : wa'[r][b] = wa[r][b]
        /\ assets' = assets
        BY <1>2, <1>5 DEF InsertAsset, FreshAssets, StoreTypeOK
  <1>8. orm'[r][a] = row /\ \A b \in AssetIds \ {a} : orm'[r][b] = orm[r][b]
        BY <1>2, <1>5 DEF Flushed, SessionTypeOK
  <1>9. WrittenActive(r)'
        BY <1>2, <1>7 DEF WrittenActive, IsRow
  <1>10. LoadedActive(r)'
    <2> SUFFICES ASSUME NEW b \in AssetIds, orm'[r][b] # Nil, orm'[r][b].status = "active",
                        IsRow(Asset(r, b)')
                 PROVE  Asset(r, b)'.status = "active"
        BY DEF LoadedActive
    <2>1. CASE b = a
          BY <1>6, <1>7, <1>8, <2>1 DEF Asset
    <2>2. CASE b # a
          BY <1>2, <1>7, <1>8, <2>2 DEF Asset, LoadedActive
    <2> QED BY <2>1, <2>2
  <1> QED BY <1>9, <1>10 DEF ActiveInOrder

LEMMA LookupActivates ==
    ASSUME EffectInv, NEW r \in Requests, LookupItems(r), UnderWay(r)'
    PROVE  ActiveInOrder(r)'
  <1>1. ImportStep(r) /\ pc[r] = "import_assets"
        BY DEF ImportStep, LookupItems
  <1>2. /\ StoreTypeOK /\ SessionTypeOK /\ NothingWritten(r)
        BY <1>1, ImportStepFacts DEF EffectInOrder
  <1>3. ~ Raise(r, "ValidationError")
        BY <1>2 DEF Raise, SessionTypeOK, UnderWay, Stages
  <1>4. PICK found : orm' = [orm EXCEPT ![r] = [a \in AssetIds |-> IF a \in found THEN Asset(r, a) ELSE Nil]]
        BY <1>3 DEF LookupItems
  <1>5. UNCHANGED storeVars
        BY <1>3 DEF LookupItems
  <1>6. \A a \in AssetIds : wa'[r][a] = Nil /\ Asset(r, a)' = Asset(r, a)
        BY <1>2, <1>5 DEF NothingWritten, WritesOnly, storeVars, Asset
  <1>7. \A a \in AssetIds : orm'[r][a] = IF a \in found THEN Asset(r, a) ELSE Nil
        BY <1>2, <1>4 DEF SessionTypeOK
  <1>8. LoadedActive(r)'
        BY <1>6, <1>7 DEF LoadedActive
  <1>9. WrittenActive(r)'
        BY <1>6 DEF WrittenActive
  <1> QED BY <1>8, <1>9 DEF ActiveInOrder

LEMMA ActiveStep ==
    ASSUME EffectInv, NEW s \in Requests, ImportStep(s), ActiveInOrder(s), UnderWay(s)'
    PROVE  ActiveInOrder(s)'
  <1>1. CASE MapEdges(s) \/ InsertLink(s)
    <2>1. pc[s] \in Stages /\ UNCHANGED <<call, orm>>
          BY <1>1 DEF MapEdges, InsertLink, Stages
    <2>2. SessionTypeOK
          BY DEF EffectInv, ImportInv, ApiInv, TypeOK
    <2>3. ~ Raise(s, "IntegrityError")
          BY <2>2 DEF Raise, SessionTypeOK, UnderWay, Stages
    <2>4. UNCHANGED <<assets, wa>>
          BY <1>1, <2>3 DEF MapEdges, InsertLink, InsertRel, storeVars
    <2>5. LoadedActive(s) /\ WrittenActive(s)
          BY <2>1 DEF ActiveInOrder, UnderWay
    <2>6. LoadedActive(s)'
          BY <2>1, <2>4, <2>5 DEF LoadedActive, Asset
    <2>7. WrittenActive(s)'
          BY <2>1, <2>4, <2>5 DEF WrittenActive
    <2> QED BY <2>6, <2>7 DEF ActiveInOrder
  <1> QED BY <1>1, LookupActivates, MergeActivates, CreateActivates DEF ImportStep

LEMMA ActiveNextInv ==
    ASSUME NobodyPatches, EffectInv, EffectInv', [Next]_vars, NEW s \in Requests, ActiveInOrder(s)
    PROVE  ActiveInOrder(s)'
  <1>1. SUFFICES ASSUME UnderWay(s)' PROVE ActiveInOrder(s)'
        BY DEF ActiveInOrder, UnderWay
  <1> QED BY <1>1, StepSeen, KeepsActive, ActiveStep

(* What an import has written by its commit is all it may have merged into.*)
LEMMA WrittenIsReimported ==
    ASSUME EffectInv, \A r \in Requests : ActiveInOrder(r)
    PROVE  ReimportedIsActive
  <1> SUFFICES ASSUME NEW r \in Requests, pc[r] = "commit", Importing(r),
                      NEW i \in Valid(r), NEW a \in AssetIds,
                      a \in AssetsByKey(r, call[r].tenant, {KeyOf(Items(r)[i])}),
                      IsRow(assets[a])
               PROVE  Asset(r, a).status = "active"
      BY DEF ReimportedIsActive, AssetsByKey
  <1>1. /\ EffectInOrder(r) /\ StoreInv /\ WrittenActive(r)
        BY DEF EffectInv, ImportInv, ApiInv, ActiveInOrder, UnderWay
  <1>2. PICK c, k : c = call[r] /\ k = KeyOf(Items(r)[i])
        OBVIOUS
  <1>3. ItemsWritten(r, c, Abstract!ValidItems(c))
    <2>1. EffectWritten(r, c) /\ c.op = "import_assets"
          BY <1>1, <1>2 DEF EffectInOrder, Importing, Op
    <2> QED BY <2>1 DEF EffectWritten
  <1>4. PICK b \in AssetIds : IsRow(wa[r][b]) /\ wa[r][b].key = k /\ wa[r][b].tenant = c.tenant
    <2>1. i \in Abstract!ValidItems(c)
          BY <1>2 DEF Abstract!ValidItems, Valid, Items
    <2>2. PICK b \in AssetIds : IsRow(wa[r][b]) /\ wa[r][b].key = KeyOf(c.items[i])
          BY <1>3, <2>1 DEF ItemsWritten
    <2>3. wa[r][b].tenant = c.tenant
          BY <1>3, <2>2 DEF ItemsWritten, IsRow, Abstract!Imported
    <2> QED BY <1>2, <2>2, <2>3 DEF Items
  <1>5. IsRow(Asset(r, a)) /\ Asset(r, a).tenant = c.tenant /\ Asset(r, a).key = k
        BY <1>2 DEF AssetsByKey, HasAsset, AssetRows
  <1>6. a = b
    <2> SUFFICES ASSUME a # b PROVE FALSE
        OBVIOUS
    <2>1. CASE wa[r][a] = Nil
      <3>1. SameKey(wa[r][b], assets[a])
            BY <1>4, <1>5, <2>1 DEF Asset, SameKey
      <3>2. wa[r][a] = Deleted
            BY <1>1, <1>4, <3>1 DEF StoreInv, KeysApart
      <3> QED BY <2>1, <3>2, NilAssumption
    <2>2. CASE wa[r][a] # Nil
      <3>1. IsRow(wa[r][a]) /\ SameKey(wa[r][b], wa[r][a])
            BY <1>4, <1>5, <2>2 DEF Asset, SameKey
      <3> QED BY <1>1, <1>4, <3>1 DEF StoreInv, KeysApart
    <2> QED BY <2>1, <2>2
  <1>7. wa[r][a] # Nil /\ Asset(r, a) = wa[r][a]
        BY <1>4, <1>6 DEF IsRow, Asset
  <1> QED BY <1>1, <1>7 DEF WrittenActive

(* Unless a client takes assets out of service meanwhile, an answered      *)
(* import leaves none of its batch stale or archived, however many imports *)
(* and updates overlap with it (import_pipeline.py:88).                    *)
THEOREM ImportsReactivate ==
    ASSUME NobodyPatches
    PROVE  Spec => []ReimportedIsActive
  <1>1. NobodyPatches
        OBVIOUS
  <1> DEFINE J == \A r \in Requests : ActiveInOrder(r)
  <1>2. Init => J
        BY DEF Init, SessionInit, ActiveInOrder, UnderWay, Stages
  <1>3. EffectInv /\ EffectInv' /\ J /\ [Next]_vars => J'
        BY <1>1, ActiveNextInv
  <1>4. EffectInv /\ J => ReimportedIsActive
        BY WrittenIsReimported
  <1> QED BY <1>2, <1>3, <1>4, EffectsAreWritten, PTL DEF Spec

-----------------------------------------------------------------------------
(* An import leaves every link of its batch an edge.                       *)

(* Items of a batch that share a temporary id stand for one asset.         *)
IdsApart ==
    \A c \in Calls : c.op = "import_assets" =>
        \A i, j \in Abstract!ValidItems(c) :
            c.items[i].id = c.items[j].id => KeyOf(c.items[i]) = KeyOf(c.items[j])

NobodyUnlinks == \A c \in Calls : c.op # "delete_relationship"

(* The item a temporary id of a batch stands for: the last that has it.    *)
IsLastWithId(c, i, t) ==
    /\ i \in Abstract!ValidItems(c) /\ c.items[i].id = t
    /\ \A j \in Abstract!ValidItems(c) : c.items[j].id = t => j <= i

(* The edge that link l of item i asks for.                                *)
IsLinkOf(c, i, l, type, from, to) ==
    /\ type = LinkTypes[l]
    /\ \E k : IsLastWithId(c, k, c.items[i].id) /\ from = KeyOf(c.items[k])
    /\ \E k : IsLastWithId(c, k, c.items[i].link[l]) /\ to = KeyOf(c.items[k])

(* The items stage 4 has taken, in their order: the map of the temporary   *)
(* ids has the last of each.  Edges are not written before stage 5.        *)
TakenItems(r) == Valid(r) \ imp[r].left

IdsInOrder(r) ==
    pc[r] \in Stages =>
        /\ \A i \in TakenItems(r), j \in imp[r].left : i < j
        /\ \A i \in TakenItems(r) :
              (\A j \in TakenItems(r) : Items(r)[j].id = Items(r)[i].id => j <= i)
              => wa[r][imp[r].tmp[Items(r)[i].id]].key = KeyOf(Items(r)[i])
        /\ pc[r] # "import_link" => \A x \in RelIds : wr[r][x] = Nil

(* An edge between assets the import has written, and so holds.            *)
HeldEdge(r, x) ==
    IsRow(Rel(r, x)) /\ wa[r][Rel(r, x).src] # Nil /\ wa[r][Rel(r, x).dst] # Nil

Joins(r, rel, i, l) ==
    IsLinkOf(call[r], i, l, rel.type, wa[r][rel.src].key, wa[r][rel.dst].key)

LinkIsEdge(r, i, l) == \E x \in RelIds : HeldEdge(r, x) /\ Joins(r, Rel(r, x), i, l)

(* Of the links stage 5 has mapped, those it has nothing to write for are  *)
(* edges already, and it writes no edge but for a link.                    *)
LinksInOrder(r) ==
    /\ pc[r] = "import_link" => \A p \in Candidates(r) \ imp[r].edges :
           \E x \in RelIds : HeldEdge(r, x) /\ SameEdge(Rel(r, x), EdgeAt(r, p))
    /\ pc[r] = "import_link" \/ (pc[r] = "commit" /\ Importing(r)) =>
           \A x \in RelIds : wr[r][x] # Nil =>
               \E i \in Valid(r), l \in Links : Joins(r, wr[r][x], i, l)
    /\ pc[r] = "commit" /\ Importing(r) => \A i, j \in Valid(r), l \in Links :
           Items(r)[i].link[l] = Items(r)[j].id => LinkIsEdge(r, i, l)

-----------------------------------------------------------------------------
LEMMA LeastExists ==
    ASSUME NEW S \in SUBSET Nat, S # {}
    PROVE  \E n \in S : \A m \in S : n <= m
  <1> DEFINE R == OpToRel(<, Nat)
  <1>1. IsWellFoundedOn(R, Nat)
        BY NatLessThanWellFounded
  <1>2. \A x, y \in Nat : y < x => <<y, x>> \in R
        BY DEF OpToRel
  <1> HIDE DEF R
  <1>3. PICK x \in S : \A y \in S : ~ (<<y, x>> \in R)
        BY <1>1, WFMin
  <1>4. ASSUME NEW y \in S PROVE x <= y
    <2>1. x \in Nat /\ y \in Nat /\ ~ (y < x)
          BY <1>2, <1>3
    <2> QED BY <2>1
  <1> QED BY <1>4

LEMMA GreatestExists ==
    ASSUME NEW n \in Nat, NEW S \in SUBSET (1 .. n), S # {}
    PROVE  \E g \in S : \A h \in S : h <= g
  <1> DEFINE gaps == {d \in Nat : \E j \in S : d = n - j}
  <1>1. gaps # {}
    <2>1. PICK j : j \in S
          OBVIOUS
    <2>2. j \in 1 .. n /\ n - j \in Nat
          BY <2>1
    <2> QED BY <2>1, <2>2
  <1>2. gaps \subseteq Nat /\ \A j \in S : n - j \in gaps
        OBVIOUS
  <1> HIDE DEF gaps
  <1>3. PICK d \in gaps : \A e \in gaps : d <= e
        BY <1>1, <1>2, LeastExists
  <1>4. PICK g \in S : d = n - g
        BY DEF gaps
  <1>5. ASSUME NEW h \in S PROVE h <= g
    <2>1. n - g <= n - h /\ g \in 1 .. n /\ h \in 1 .. n
          BY <1>2, <1>3, <1>4
    <2> QED BY <2>1
  <1> QED BY <1>5

(* The items of a batch are numbered.                                      *)
LEMMA BatchNumbered ==
    ASSUME NEW c \in ImportCall
    PROVE  \E n \in Nat : Abstract!ValidItems(c) \subseteq 1 .. n
  <1>1. PICK items \in Seq(Item) : c.items = items
        BY DEF ImportCall
  <1>2. DOMAIN items = 1 .. Len(items) /\ Len(items) \in Nat
        BY <1>1
  <1> QED BY <1>1, <1>2 DEF Abstract!ValidItems

(* Every temporary id of a batch stands for an item.                       *)
LEMMA IdStands ==
    ASSUME NEW c \in ImportCall, NEW i \in Abstract!ValidItems(c), NEW t, t = c.items[i].id
    PROVE  \E k : IsLastWithId(c, k, t)
  <1>1. PICK n \in Nat : Abstract!ValidItems(c) \subseteq 1 .. n
        BY BatchNumbered
  <1> DEFINE S == {j \in Abstract!ValidItems(c) : c.items[j].id = t}
  <1>2. S \subseteq 1 .. n /\ S # {}
        BY <1>1
  <1> HIDE DEF S
  <1>3. PICK k \in S : \A j \in S : j <= k
        BY <1>2, GreatestExists
  <1> QED BY <1>3 DEF IsLastWithId, S

LEMMA LinkOfOne ==
    ASSUME NEW c \in ImportCall, NEW i, NEW l, NEW type, NEW from, NEW to,
           NEW type2, NEW from2, NEW to2,
           IsLinkOf(c, i, l, type, from, to), IsLinkOf(c, i, l, type2, from2, to2)
    PROVE  type = type2 /\ from = from2 /\ to = to2
  <1>1. Abstract!ValidItems(c) \subseteq Nat
        BY BatchNumbered
  <1>2. ASSUME NEW t, NEW k, NEW m, IsLastWithId(c, k, t), IsLastWithId(c, m, t)
        PROVE  k = m
    <2>1. k \in Nat /\ m \in Nat /\ k <= m /\ m <= k
          BY <1>1, <1>2 DEF IsLastWithId
    <2> QED BY <2>1
  <1> QED BY <1>2 DEF IsLinkOf

(* What an effect does to one edge: it stays, or it goes by a deletion, of *)
(* itself or of an asset it ends at, or it is new.                         *)
LEMMA EffectOnRel ==
    ASSUME StoreTypeOK, NEW c \in ApiCalls, Abstract!Effect(c), NEW x \in RelIds
    PROVE  \/ rels'[x] = rels[x]
           \/ /\ c.op = "delete_asset" /\ IsRow(rels[x]) /\ Touches(rels[x], c.asset)
              /\ IsRow(assets[c.asset]) /\ assets'[c.asset] = Deleted
           \/ c.op = "delete_relationship"
           \/ rels[x] = Nil
  <1>1. assets \in [AssetIds -> AssetCell] /\ rels \in [RelIds -> RelCell]
        BY DEF StoreTypeOK
  <1>2. CASE c.op = "delete_asset" /\ Abstract!Delete(c)
    <2>1. c.asset \in AssetIds
          BY <1>2, CallsByOp DEF DeleteCall
    <2>2. IsRow(assets[c.asset]) /\ assets'[c.asset] = Deleted
          BY <1>1, <1>2, <2>1 DEF Abstract!Delete, Abstract!Has, Abstract!IsRow, IsRow
    <2>3. rels'[x] = IF Abstract!IsRow(rels[x]) /\ Abstract!Touches(rels[x], c.asset)
                     THEN Deleted ELSE rels[x]
          BY <1>2 DEF Abstract!Delete
    <2> QED BY <1>2, <2>2, <2>3, SameWords
  <1>3. CASE c.op = "create_relationship" /\ Abstract!Relate(c)
        BY <1>1, <1>3 DEF Abstract!Relate
  <1>4. CASE c.op = "import_assets" /\ Abstract!Import(c)
        BY <1>4 DEF Abstract!Import
  <1> QED BY <1>2, <1>3, <1>4 DEF Abstract!Effect, Abstract!Create, Abstract!Update, Abstract!Patch

(* Others leave the edges between the assets of an import alone.           *)
LEMMA HeldEdgeStays ==
    ASSUME NobodyUnlinks, EffectInv, EffectInv', [Next]_vars,
           NEW s \in Requests, Held(s), NEW x \in RelIds, HeldEdge(s, x)
    PROVE  Rel(s, x)' = Rel(s, x) /\ HeldEdge(s, x)'
  <1>1. /\ StoreTypeOK /\ wa'[s] = wa[s] /\ wr'[s] = wr[s]
        /\ \A a \in AssetIds : wa[s][a] # Nil => assets'[a] = assets[a]
        BY DEF EffectInv, ImportInv, ApiInv, TypeOK, Held
  <1>2. Rel(s, x) \in RelRow /\ Rel(s, x).src \in AssetIds /\ Rel(s, x).dst \in AssetIds
        BY <1>1 DEF HeldEdge, Rel, StoreTypeOK, RelCell, IsRow, RelRow
  <1>3. Rel(s, x)' = Rel(s, x)
    <2>1. CASE wr[s][x] # Nil
          BY <1>1, <2>1 DEF Rel
    <2>2. CASE wr[s][x] = Nil
      <3>1. rels[x] = Rel(s, x)
            BY <2>2 DEF Rel
      <3>2. CASE UNCHANGED <<assets, rels>>
            BY <1>1, <2>2, <3>2 DEF Rel
      <3>3. ASSUME NEW r \in Requests, Commit(r)
            PROVE  rels'[x] = rels[x]
        <4>1. PICK c : c = call[r]
              OBVIOUS
        <4>2. /\ c \in Calls /\ c \in ApiCalls /\ Abstract!Effect(c)
              BY <3>3, <4>1, CommittedEffect, CallAssumption
        <4>3. c.op # "delete_relationship"
              BY <4>2 DEF NobodyUnlinks
        <4>4. rels[x] # Nil
              BY <1>2, <3>1, NilAssumption
        <4>5. ASSUME c.op = "delete_asset", Touches(rels[x], c.asset),
                     IsRow(assets[c.asset]), assets'[c.asset] = Deleted
              PROVE  FALSE
          <5>1. PICK a : a = c.asset
                OBVIOUS
          <5>2. a \in AssetIds /\ wa[s][a] # Nil
                BY <1>2, <3>1, <4>5, <5>1 DEF Touches, HeldEdge
          <5> QED BY <1>1, <4>5, <5>1, <5>2 DEF IsRow
        <4> QED BY <1>1, <4>2, <4>3, <4>4, <4>5, EffectOnRel
      <3>4. rels'[x] = rels[x]
            BY <3>2, <3>3, StepCommits
      <3> QED BY <1>1, <2>2, <3>4 DEF Rel
    <2> QED BY <2>1, <2>2
  <1> QED BY <1>1, <1>3 DEF HeldEdge

LEMMA KeepsLinks ==
    ASSUME NobodyUnlinks, EffectInv, EffectInv', [Next]_vars,
           NEW s \in Requests, LinksInOrder(s), Keeps(s)
    PROVE  LinksInOrder(s)'
  <1>1. /\ pc'[s] = pc[s] /\ call'[s] = call[s] /\ imp'[s] = imp[s] /\ wa'[s] = wa[s]
        /\ Held(s)
        BY DEF Keeps, Held
  <1>2. Items(s)' = Items(s) /\ Valid(s)' = Valid(s) /\ Candidates(s)' = Candidates(s)
        BY <1>1 DEF Items, Valid, Candidates, LinkSet, Target
  <1>3. \A x \in RelIds : HeldEdge(s, x) => Rel(s, x)' = Rel(s, x) /\ HeldEdge(s, x)'
        BY <1>1, HeldEdgeStays
  <1>4. ASSUME pc[s] = "import_link", NEW p \in Candidates(s) \ imp[s].edges
        PROVE  \E x \in RelIds : HeldEdge(s, x)' /\ SameEdge(Rel(s, x)', EdgeAt(s, p)')
    <2>1. PICK x \in RelIds : HeldEdge(s, x) /\ SameEdge(Rel(s, x), EdgeAt(s, p))
          BY <1>4 DEF LinksInOrder
    <2>2. EdgeAt(s, p)' = EdgeAt(s, p)
          BY <1>1, <1>2 DEF EdgeAt, Target, Items
    <2> QED BY <1>3, <2>1, <2>2
  <1>5. ASSUME pc[s] = "commit", Importing(s), NEW i \in Valid(s), NEW j \in Valid(s), NEW l \in Links,
               Items(s)[i].link[l] = Items(s)[j].id
        PROVE  LinkIsEdge(s, i, l)'
    <2>1. PICK x \in RelIds : HeldEdge(s, x) /\ Joins(s, Rel(s, x), i, l)
          BY <1>5 DEF LinksInOrder, LinkIsEdge
    <2> QED BY <1>1, <1>3, <2>1 DEF LinkIsEdge, Joins
  <1>6. Importing(s)' <=> Importing(s)
        BY <1>1 DEF Importing, Op
  <1>7. ASSUME pc[s] = "import_link" \/ (pc[s] = "commit" /\ Importing(s)),
               NEW x \in RelIds, wr[s][x] # Nil
        PROVE  \E i \in Valid(s), l \in Links : Joins(s, wr[s][x], i, l)'
    <2>1. PICK i \in Valid(s), l \in Links : Joins(s, wr[s][x], i, l)
          BY <1>7 DEF LinksInOrder
    <2>2. wr'[s] = wr[s]
          BY <1>1 DEF Held
    <2> QED BY <1>1, <2>1, <2>2 DEF Joins
  <1>8. wr'[s] = wr[s]
        BY <1>1 DEF Held
  <1> QED BY <1>1, <1>2, <1>4, <1>5, <1>6, <1>7, <1>8 DEF LinksInOrder

-----------------------------------------------------------------------------
(* The map of the temporary ids.                                           *)
LEMMA LookupIds ==
    ASSUME EffectInv, NEW r \in Requests, LookupItems(r), pc'[r] \in Stages
    PROVE  IdsInOrder(r)'
  <1>1. ImportStep(r) /\ pc[r] = "import_assets"
        BY DEF ImportStep, LookupItems
  <1>2. /\ SessionTypeOK /\ ImportTypeOK /\ NothingWritten(r)
        BY <1>1, ImportStepFacts DEF EffectInOrder
  <1>3. ~ Raise(r, "ValidationError")
        BY <1>2 DEF Raise, SessionTypeOK, Stages
  <1>4. imp' = [imp EXCEPT ![r] = StartOf(Valid(r))] /\ UNCHANGED storeVars /\ UNCHANGED call
        BY <1>3 DEF LookupItems
  <1>5. imp'[r].left = Valid(r) /\ Valid(r)' = Valid(r)
        BY <1>2, <1>4 DEF ImportTypeOK, StartOf, Valid, Items
  <1>6. \A x \in RelIds : wr'[r][x] = Nil
        BY <1>2, <1>4 DEF NothingWritten, WritesOnly, storeVars
  <1> QED BY <1>5, <1>6 DEF IdsInOrder, TakenItems

LEMMA FlushedIds ==
    ASSUME EffectInv, NEW r \in Requests, ImportStep(r), pc[r] = "import_item", IdsInOrder(r),
           NEW i \in Valid(r), IsNext(i, imp[r].left),
           NEW a \in AssetIds, NEW row, NEW written, written.key = KeyOf(Items(r)[i]),
           wa[r][a] # Nil => written.key = wa[r][a].key,
           wa' = [wa EXCEPT ![r][a] = written], UNCHANGED <<assets, rels, wr>>,
           Flushed(r, i, a, row)
    PROVE  IdsInOrder(r)'
  <1>1. /\ SessionTypeOK /\ StoreTypeOK /\ imp \in [Requests -> Locals] /\ UNCHANGED call
        /\ call[r] \in ImportCall /\ BatchInOrder(r) /\ ImportInOrder(r)
        /\ Valid(r) \subseteq Nat
        BY ImportStepFacts, BatchFacts DEF ImportTypeOK, EffectInOrder
  <1>2. Items(r)' = Items(r) /\ Valid(r)' = Valid(r) /\ i \in imp[r].left
        BY <1>1 DEF Items, Valid, IsNext
  <1>3. PICK t : t = Items(r)[i].id
        OBVIOUS
  <1>4. t \in TempIds /\ \A j \in Valid(r) : Items(r)[j].id \in TempIds
        BY <1>1, <1>3, BatchFacts DEF Item
  <1>5. /\ imp'[r].left = imp[r].left \ {i} /\ imp'[r].tmp[t] = a
        /\ \A u \in TempIds \ {t} : imp'[r].tmp[u] = imp[r].tmp[u]
        BY <1>1, <1>3, <1>4 DEF Flushed, Locals
  <1>6. TakenItems(r)' = TakenItems(r) \cup {i} /\ i \notin TakenItems(r)
        BY <1>2, <1>5 DEF TakenItems
  <1>7. /\ \A j \in TakenItems(r), k \in imp[r].left : j < k
        /\ \A j \in TakenItems(r) :
              (\A k \in TakenItems(r) : Items(r)[k].id = Items(r)[j].id => k <= j)
              => wa[r][imp[r].tmp[Items(r)[j].id]].key = KeyOf(Items(r)[j])
        /\ \A x \in RelIds : wr'[r][x] = Nil
        BY DEF IdsInOrder, Stages
  <1>8. ASSUME NEW j \in TakenItems(r) \cup {i}, NEW k \in imp[r].left \ {i}
        PROVE  j < k
    <2>1. CASE j \in TakenItems(r)
          BY <1>7, <2>1
    <2>2. CASE j = i
      <3>1. i <= k /\ k \in Nat /\ i \in Nat /\ k # i
        <4>1. imp[r].left \subseteq Nat
              BY <1>1 DEF Locals
        <4> QED BY <1>1, <4>1 DEF IsNext
      <3> QED BY <2>2, <3>1
    <2> QED BY <2>1, <2>2
  <1>9. wa'[r][a] = written /\ \A b \in AssetIds \ {a} : wa'[r][b] = wa[r][b]
        BY <1>1 DEF StoreTypeOK
  <1>10. ASSUME NEW j \in TakenItems(r) \cup {i},
                \A k \in TakenItems(r) \cup {i} : Items(r)[k].id = Items(r)[j].id => k <= j
         PROVE  wa'[r][imp'[r].tmp[Items(r)[j].id]].key = KeyOf(Items(r)[j])
    <2>1. CASE j = i
          BY <1>3, <1>5, <1>9, <2>1
    <2>2. CASE j \in TakenItems(r)
      <3>1. PICK u : u = Items(r)[j].id
            OBVIOUS
      <3>2. j < i /\ j \in Nat /\ i \in Nat
            BY <1>1, <1>2, <1>7, <2>2 DEF TakenItems
      <3>3. u # t
            BY <1>3, <1>10, <3>1, <3>2
      <3>4. u \in TempIds /\ imp'[r].tmp[u] = imp[r].tmp[u]
            BY <1>4, <1>5, <2>2, <3>1, <3>3 DEF TakenItems
      <3>5. PICK b : b = imp[r].tmp[u]
            OBVIOUS
      <3>6. b \in AssetIds /\ wa[r][b] # Nil
        <4>1. b # Nil
              BY <1>1, <2>2, <3>1, <3>5 DEF ImportInOrder, Stages, TakenItems
        <4> QED BY <1>1, <3>4, <3>5, <4>1 DEF BatchInOrder, Locals
      <3>7. wa[r][b].key = KeyOf(Items(r)[j])
            BY <1>7, <1>10, <2>2, <3>1, <3>5
      <3>8. wa'[r][b].key = wa[r][b].key
            BY <1>9, <3>6
      <3> QED BY <3>1, <3>4, <3>5, <3>7, <3>8
    <2> QED BY <2>1, <2>2
  <1> QED BY <1>2, <1>5, <1>6, <1>7, <1>8, <1>10 DEF IdsInOrder

LEMMA MergeIds ==
    ASSUME EffectInv, NEW r \in Requests, MergeItem(r), IdsInOrder(r), pc'[r] \in Stages
    PROVE  IdsInOrder(r)'
  <1>1. ImportStep(r) /\ pc[r] = "import_item"
        BY DEF ImportStep, MergeItem
  <1>2. /\ StoreTypeOK /\ SessionTypeOK /\ call[r] \in ImportCall /\ BatchInOrder(r)
        BY <1>1, ImportStepFacts DEF EffectInOrder
  <1>3. PICK i \in Valid(r), a \in AssetIds :
           /\ a \in Existing(r, KeyOf(Items(r)[i])) /\ IsNext(i, imp[r].left)
           /\ \/ /\ FlushAsset(r, a, Merged(Items(r)[i], orm[r][a], now[r]))
                 /\ Flushed(r, i, a, Merged(Items(r)[i], orm[r][a], now[r]))
              \/ FlushFails(r, a)
        BY DEF MergeItem, Existing
  <1>4. ~ FlushFails(r, a)
        BY <1>2 DEF FlushFails, Raise, SessionTypeOK, Stages
  <1>5. PICK item, loaded, current, t :
           /\ item = Items(r)[i] /\ loaded = orm[r][a]
           /\ current = Asset(r, a) /\ t = now[r]
        OBVIOUS
  <1>6. PICK row, written : row = Merged(item, loaded, t) /\ written = DirtyColumns(row, loaded, current)
        OBVIOUS
  <1>7. /\ FlushAsset(r, a, row) /\ Flushed(r, i, a, row)
        /\ loaded # Nil /\ loaded.key = KeyOf(item)
        BY <1>3, <1>4, <1>5, <1>6 DEF Existing
  <1>8. /\ loaded \in AssetRow /\ current \in AssetRow /\ item \in Item /\ t \in Times
        BY <1>2, <1>3, <1>5, <1>7, BatchFacts DEF FlushAsset, UpdateAsset, AssetRows, IsRow,
           Asset, AssetCell, StoreTypeOK, SessionTypeOK
  <1>9. wa' = [wa EXCEPT ![r][a] = written] /\ UNCHANGED <<assets, rels, wr>>
        BY <1>5, <1>6, <1>7 DEF FlushAsset, UpdateAsset
  <1>10. written.key = current.key
    <2>1. row \in AssetRow
          BY <1>6, <1>8, MergedRow
    <2>2. SameKey(written, current)
          BY <1>6, <1>8, <2>1, DirtyColumnsFit
    <2> QED BY <2>2 DEF SameKey
  <1>11. current.key = KeyOf(item)
    <2>1. Remains(r, a, loaded)
          BY <1>2, <1>5, <1>7 DEF BatchInOrder
    <2>2. current # Deleted
          BY <1>8, NilAssumption
    <2> QED BY <1>5, <1>7, <2>1, <2>2 DEF Remains, SameKey
  <1>12. wa[r][a] # Nil => current = wa[r][a]
         BY <1>5 DEF Asset
  <1>13. written.key = KeyOf(Items(r)[i]) /\ (wa[r][a] # Nil => written.key = wa[r][a].key)
         BY <1>5, <1>10, <1>11, <1>12
  <1> QED BY <1>1, <1>3, <1>7, <1>9, <1>13, FlushedIds

LEMMA CreateIds ==
    ASSUME EffectInv, NEW r \in Requests, CreateItem(r), IdsInOrder(r), pc'[r] \in Stages
    PROVE  IdsInOrder(r)'
  <1>1. ImportStep(r) /\ pc[r] = "import_item"
        BY DEF ImportStep, CreateItem
  <1>2. SessionTypeOK
        BY <1>1, ImportStepFacts
  <1>3. PICK i \in Valid(r) : IsNext(i, imp[r].left) /\ \E row :
           /\ row = Created(call[r].tenant, Items(r)[i], now[r])
           /\ \/ \E a \in AssetIds : InsertAsset(r, a, row) /\ Flushed(r, i, a, row)
              \/ Raise(r, "IntegrityError")
        BY DEF CreateItem
  <1> PICK row :
           /\ row = Created(call[r].tenant, Items(r)[i], now[r])
           /\ \/ \E a \in AssetIds : InsertAsset(r, a, row) /\ Flushed(r, i, a, row)
              \/ Raise(r, "IntegrityError")
        BY <1>3
  <1>4. ~ Raise(r, "IntegrityError")
        BY <1>2 DEF Raise, SessionTypeOK, Stages
  <1>5. PICK a \in AssetIds : InsertAsset(r, a, row) /\ Flushed(r, i, a, row)
        BY <1>3, <1>4
  <1>6. row.key = KeyOf(Items(r)[i])
        BY <1>3 DEF Created
  <1>7. wa' = [wa EXCEPT ![r][a] = row] /\ UNCHANGED <<assets, rels, wr>> /\ wa[r][a] = Nil
        BY <1>5 DEF InsertAsset, FreshAssets
  <1> QED BY <1>1, <1>3, <1>5, <1>6, <1>7, FlushedIds

(* Stage 5 leaves the map as it is.                                        *)
LEMMA EdgesKeepIds ==
    ASSUME EffectInv, NEW r \in Requests, MapEdges(r) \/ InsertLink(r), IdsInOrder(r),
           pc'[r] \in Stages
    PROVE  IdsInOrder(r)'
  <1>1. /\ ImportStep(r) /\ pc[r] \in {"import_edges", "import_link"} /\ UNCHANGED call
        BY DEF ImportStep, MapEdges, InsertLink
  <1>2. SessionTypeOK /\ imp \in [Requests -> Locals]
        BY <1>1, ImportStepFacts DEF ImportTypeOK
  <1>3. ~ Raise(r, "IntegrityError")
        BY <1>2 DEF Raise, SessionTypeOK, Stages
  <1>4. UNCHANGED wa /\ (Reply(r, "200") \/ Goto(r, "import_link"))
        BY <1>3 DEF MapEdges, InsertLink, InsertRel, storeVars
  <1>5. pc'[r] = "import_link"
        BY <1>2, <1>4 DEF Reply, Goto, SessionTypeOK, Stages
  <1>6. imp'[r].left = imp[r].left /\ imp'[r].tmp = imp[r].tmp
    <2>1. CASE MapEdges(r)
      <3> DEFINE new == {p \in Candidates(r) : ~ EdgeExists(r, EdgeAt(r, p))}
      <3>1. imp' = [imp EXCEPT ![r].edges = new, ![r].linked = Linked(r, new), ![r].unlinked = Unlinked(r)]
            BY <2>1 DEF MapEdges
      <3> HIDE DEF new
      <3> QED BY <1>2, <3>1 DEF Locals
    <2>2. CASE InsertLink(r)
      <3>1. PICK p \in imp[r].edges : imp' = [imp EXCEPT ![r].edges = @ \ {p}]
            BY <1>3, <2>2 DEF InsertLink
      <3> QED BY <1>2, <3>1 DEF Locals
    <2> QED BY <2>1, <2>2
  <1>7. Items(r)' = Items(r) /\ Valid(r)' = Valid(r) /\ TakenItems(r)' = TakenItems(r)
        BY <1>1, <1>6 DEF Items, Valid, TakenItems
  <1> QED BY <1>1, <1>4, <1>5, <1>6, <1>7 DEF IdsInOrder, Stages

LEMMA IdsNextInv ==
    ASSUME EffectInv, EffectInv', [Next]_vars, NEW s \in Requests, IdsInOrder(s)
    PROVE  IdsInOrder(s)'
  <1>1. SUFFICES ASSUME pc'[s] \in Stages PROVE IdsInOrder(s)'
        BY DEF IdsInOrder
  <1>2. CASE Keeps(s)
    <2>1. /\ pc'[s] = pc[s] /\ call'[s] = call[s] /\ imp'[s] = imp[s]
          /\ wa'[s] = wa[s] /\ wr'[s] = wr[s]
          BY <1>2 DEF Keeps, Held
    <2>2. Items(s)' = Items(s) /\ Valid(s)' = Valid(s) /\ TakenItems(s)' = TakenItems(s)
          BY <2>1 DEF Items, Valid, TakenItems
    <2> QED BY <2>1, <2>2 DEF IdsInOrder
  <1>3. UnderWay(s)'
        BY <1>1 DEF UnderWay
  <1> QED BY <1>1, <1>2, <1>3, StepSeen, LookupIds, MergeIds, CreateIds, EdgesKeepIds DEF ImportStep

-----------------------------------------------------------------------------
(* The ends of a mapped link are the assets its temporary ids stand for.   *)
LEMMA CandidateEnds ==
    ASSUME EffectInv, NEW r \in Requests, ImportStep(r), IdsInOrder(r),
           pc[r] \in {"import_edges", "import_link"}, NEW p \in Candidates(r),
           NEW rel, rel = EdgeAt(r, p)
    PROVE  Joins(r, rel, p[1], p[2]) /\ wa[r][rel.src] # Nil /\ wa[r][rel.dst] # Nil
  <1>1. /\ BatchInOrder(r) /\ ImportInOrder(r) /\ call[r] \in ImportCall
        BY ImportStepFacts DEF EffectInOrder
  <1>2. PICK c, i, l, from, to :
           /\ c = call[r] /\ i = p[1] /\ l = p[2]
           /\ from = Items(r)[i].id /\ to = Target(r, p)
        OBVIOUS
  <1>3. /\ p \in LinkSet(r) /\ imp[r].tmp[to] # Nil /\ imp[r].left = {}
        BY <1>1, <1>2 DEF Candidates, ImportInOrder
  <1>4. i \in Valid(r) /\ to \in TempIds
        BY <1>1, <1>2, <1>3, BatchFacts
  <1>5. from \in TempIds /\ imp[r].tmp[from] # Nil
        BY <1>1, <1>2, <1>3, <1>4, BatchFacts DEF Item, ImportInOrder
  <1>6. rel.src = imp[r].tmp[from] /\ rel.dst = imp[r].tmp[to] /\ rel.type = LinkTypes[l]
        BY <1>2 DEF EdgeAt
  <1>7. wa[r][rel.src] # Nil /\ wa[r][rel.dst] # Nil
        BY <1>1, <1>3, <1>4, <1>5, <1>6 DEF BatchInOrder
  <1>8. /\ Items(r) = c.items /\ Valid(r) = Abstract!ValidItems(c) /\ TakenItems(r) = Valid(r)
        BY <1>2, <1>3 DEF Items, Valid, Abstract!ValidItems, TakenItems
  <1>9. ASSUME NEW t, NEW k, IsLastWithId(c, k, t)
        PROVE  wa[r][imp[r].tmp[t]].key = KeyOf(c.items[k])
        BY <1>8, <1>9 DEF IdsInOrder, Stages, IsLastWithId
  <1>10. \E k : IsLastWithId(c, k, from)
         BY <1>1, <1>2, <1>4, <1>8, IdStands
  <1>11. \E k : IsLastWithId(c, k, to)
    <2>1. PICK m \in Valid(r) : Items(r)[m].id = to
          BY <1>1, <1>3, <1>4 DEF BatchInOrder
    <2> QED BY <1>1, <1>2, <1>8, <2>1, IdStands
  <1>12. to = c.items[i].link[l] /\ from = c.items[i].id
         BY <1>2, <1>8 DEF Target
  <1>13. \E k : IsLastWithId(c, k, c.items[i].id) /\ wa[r][rel.src].key = KeyOf(c.items[k])
    <2>1. PICK k : IsLastWithId(c, k, from)
          BY <1>10
    <2>2. wa[r][imp[r].tmp[from]].key = KeyOf(c.items[k])
          BY <1>9, <2>1
    <2> QED BY <1>6, <1>12, <2>1, <2>2
  <1>14. \E k : IsLastWithId(c, k, c.items[i].link[l]) /\ wa[r][rel.dst].key = KeyOf(c.items[k])
    <2>1. PICK k : IsLastWithId(c, k, to)
          BY <1>11
    <2>2. wa[r][imp[r].tmp[to]].key = KeyOf(c.items[k])
          BY <1>9, <2>1
    <2> QED BY <1>6, <1>12, <2>1, <2>2
  <1>15. IsLinkOf(c, i, l, rel.type, wa[r][rel.src].key, wa[r][rel.dst].key)
         BY <1>6, <1>13, <1>14 DEF IsLinkOf
  <1> QED BY <1>2, <1>7, <1>15 DEF Joins

(* Once every mapped link is an edge, so is every link of the batch.       *)
LEMMA AllLinked ==
    ASSUME EffectInv, NEW r \in Requests, ImportStep(r), IdsInOrder(r),
           pc[r] \in {"import_edges", "import_link"}, UNCHANGED <<call, wa>>,
           \A p \in Candidates(r) :
               \E x \in RelIds : HeldEdge(r, x)' /\ SameEdge(Rel(r, x)', EdgeAt(r, p)),
           NEW i \in Valid(r), NEW j \in Valid(r), NEW l \in Links,
           Items(r)[i].link[l] = Items(r)[j].id
    PROVE  LinkIsEdge(r, i, l)'
  <1>1. /\ ImportInOrder(r) /\ call[r] \in ImportCall /\ pc[r] # "import_item"
        BY ImportStepFacts
  <1>2. PICK p : p = <<i, l>>
        OBVIOUS
  <1>3. p[1] = i /\ p[2] = l /\ p \in Valid(r) \X Links /\ Target(r, p) = Items(r)[j].id
        BY <1>2 DEF Target
  <1>4. Items(r)[j].id \in TempIds
        BY <1>1, BatchFacts DEF Item
  <1>5. imp[r].tmp[Items(r)[j].id] # Nil
        BY <1>1 DEF ImportInOrder
  <1>6. p \in Candidates(r)
        BY <1>3, <1>4, <1>5, NilAssumption DEF Candidates, LinkSet
  <1>7. PICK rel : rel = EdgeAt(r, p)
        OBVIOUS
  <1>8. PICK x \in RelIds : HeldEdge(r, x)' /\ SameEdge(Rel(r, x)', rel)
        BY <1>6, <1>7
  <1>9. Joins(r, rel, i, l)
        BY <1>3, <1>6, <1>7, CandidateEnds
  <1>10. Joins(r, Rel(r, x), i, l)'
         BY <1>8, <1>9 DEF Joins, SameEdge
  <1> QED BY <1>8, <1>10 DEF LinkIsEdge

LEMMA MapEdgesLinks ==
    ASSUME EffectInv, NEW r \in Requests, MapEdges(r), IdsInOrder(r)
    PROVE  LinksInOrder(r)'
  <1>1. /\ ImportStep(r) /\ pc[r] = "import_edges"
        /\ UNCHANGED <<assets, rels, wa, wr, call>>
        BY DEF ImportStep, MapEdges, storeVars
  <1>2. SessionTypeOK /\ ImportTypeOK
        BY <1>1, ImportStepFacts
  <1> DEFINE new == {p \in Candidates(r) : ~ EdgeExists(r, EdgeAt(r, p))}
  <1>3. imp'[r].edges = new /\ imp'[r].tmp = imp[r].tmp /\ (Reply(r, "200") => new = {})
    <2>1. imp' = [imp EXCEPT ![r].edges = new, ![r].linked = Linked(r, new), ![r].unlinked = Unlinked(r)]
          BY DEF MapEdges
    <2>2. Reply(r, "200") => new = {}
      <3>1. CASE new = {}
            BY <3>1
      <3>2. CASE Goto(r, "import_link")
            BY <1>2, <3>2 DEF Goto, Reply, SessionTypeOK
      <3> QED BY <3>1, <3>2 DEF MapEdges
    <2>3. imp[r] \in Locals
          BY <1>2 DEF ImportTypeOK
    <2> HIDE DEF new
    <2> QED BY <1>2, <2>1, <2>2, <2>3 DEF ImportTypeOK, Locals
  <1>4. ASSUME NEW p \in Candidates(r), p \notin new
        PROVE  \E x \in RelIds : HeldEdge(r, x)' /\ SameEdge(Rel(r, x)', EdgeAt(r, p))
    <2>1. EdgeExists(r, EdgeAt(r, p))
          BY <1>4
    <2>2. PICK x \in RelIds : IsRow(Rel(r, x)) /\ SameEdge(Rel(r, x), EdgeAt(r, p))
          BY <2>1 DEF EdgeExists, RelRows
    <2>3. PICK rel : rel = EdgeAt(r, p)
          OBVIOUS
    <2>4. wa[r][rel.src] # Nil /\ wa[r][rel.dst] # Nil
          BY <1>1, <2>3, CandidateEnds
    <2>5. Rel(r, x)' = Rel(r, x)
          BY <1>1 DEF Rel
    <2>6. HeldEdge(r, x)'
          BY <1>1, <2>2, <2>3, <2>4, <2>5 DEF HeldEdge, SameEdge
    <2> QED BY <2>2, <2>5, <2>6
  <1>5. Items(r)' = Items(r) /\ Valid(r)' = Valid(r) /\ Candidates(r)' = Candidates(r)
        BY <1>1, <1>3 DEF Items, Valid, Candidates, LinkSet, Target
  <1>6. \A x \in RelIds : wr'[r][x] = Nil
        BY <1>1 DEF IdsInOrder, Stages
  <1>7. CASE Reply(r, "200")
    <2>1. pc'[r] = "commit"
          BY <1>2, <1>7 DEF Reply, SessionTypeOK
    <2>2. \A p \in Candidates(r) :
              \E x \in RelIds : HeldEdge(r, x)' /\ SameEdge(Rel(r, x)', EdgeAt(r, p))
          BY <1>3, <1>4, <1>7
    <2>3. ASSUME NEW i \in Valid(r), NEW j \in Valid(r), NEW l \in Links,
                 Items(r)[i].link[l] = Items(r)[j].id
          PROVE  LinkIsEdge(r, i, l)'
          BY <1>1, <2>2, <2>3, AllLinked
    <2> QED BY <1>5, <1>6, <2>1, <2>3 DEF LinksInOrder
  <1>8. CASE Goto(r, "import_link")
    <2>1. pc'[r] = "import_link"
          BY <1>2, <1>8 DEF Goto, SessionTypeOK
    <2>2. \A p \in Candidates(r) : EdgeAt(r, p)' = EdgeAt(r, p)
          BY <1>1, <1>3, <1>5 DEF EdgeAt, Target
    <2> HIDE DEF new
    <2> QED BY <1>3, <1>4, <1>5, <1>6, <2>1, <2>2 DEF LinksInOrder
  <1> QED BY <1>7, <1>8 DEF MapEdges

LEMMA InsertLinkLinks ==
    ASSUME EffectInv, NEW r \in Requests, InsertLink(r), IdsInOrder(r), LinksInOrder(r),
           UnderWay(r)'
    PROVE  LinksInOrder(r)'
  <1>1. ImportStep(r) /\ pc[r] = "import_link" /\ UNCHANGED call
        BY DEF ImportStep, InsertLink
  <1>2. SessionTypeOK /\ ImportTypeOK /\ StoreTypeOK /\ ImportInOrder(r)
        BY <1>1, ImportStepFacts
  <1>3. ~ Raise(r, "IntegrityError")
        BY <1>2 DEF Raise, SessionTypeOK, UnderWay, Stages
  <1>4. PICK p \in imp[r].edges, x \in RelIds :
           /\ InsertRel(r, x, EdgeAt(r, p))
           /\ imp' = [imp EXCEPT ![r].edges = @ \ {p}]
           /\ IF imp[r].edges = {p} THEN Reply(r, "200") ELSE Goto(r, "import_link")
        BY <1>3 DEF InsertLink
  <1>5. PICK rel : rel = EdgeAt(r, p)
        OBVIOUS
  <1>6. rel \in RelRow /\ wa[r][rel.src] # Nil /\ wa[r][rel.dst] # Nil
        BY <1>1, <1>5, LinkedItems
  <1>7. /\ wr' = [wr EXCEPT ![r][x] = rel] /\ UNCHANGED <<assets, rels, wa>>
        /\ rels[x] = Nil /\ wr[r][x] = Nil
        BY <1>4, <1>5 DEF InsertRel, FreshRels
  <1>8. Rel(r, x) = Nil /\ Rel(r, x)' = rel /\ \A y \in RelIds \ {x} : Rel(r, y)' = Rel(r, y)
        BY <1>2, <1>6, <1>7, NilAssumption DEF Rel, StoreTypeOK
  <1>9. HeldEdge(r, x)' /\ SameEdge(Rel(r, x)', rel)
        BY <1>6, <1>7, <1>8, NilAssumption DEF HeldEdge, IsRow, SameEdge
  <1>10. \A y \in RelIds : HeldEdge(r, y) => HeldEdge(r, y)' /\ Rel(r, y)' = Rel(r, y)
         BY <1>7, <1>8 DEF HeldEdge, IsRow
  <1>11. imp'[r].edges = imp[r].edges \ {p} /\ imp'[r].tmp = imp[r].tmp
         BY <1>2, <1>4 DEF ImportTypeOK, Locals
  <1>12. ASSUME NEW q \in Candidates(r), q \notin imp'[r].edges
         PROVE  \E y \in RelIds : HeldEdge(r, y)' /\ SameEdge(Rel(r, y)', EdgeAt(r, q))
    <2>1. CASE q = p
          BY <1>5, <1>9, <2>1
    <2>2. CASE q # p
      <3>1. PICK y \in RelIds : HeldEdge(r, y) /\ SameEdge(Rel(r, y), EdgeAt(r, q))
            BY <1>1, <1>11, <1>12, <2>2 DEF LinksInOrder
      <3> QED BY <1>10, <3>1
    <2> QED BY <2>1, <2>2
  <1>13. Items(r)' = Items(r) /\ Valid(r)' = Valid(r) /\ Candidates(r)' = Candidates(r)
         BY <1>1, <1>11 DEF Items, Valid, Candidates, LinkSet, Target
  <1>14. ASSUME NEW y \in RelIds, wr'[r][y] # Nil
         PROVE  \E i \in Valid(r), l \in Links : Joins(r, wr[r][y], i, l)'
    <2>1. \E i \in Valid(r), l \in Links : Joins(r, wr'[r][y], i, l)
      <3>1. CASE y = x
        <4>1. p \in Candidates(r)
              BY <1>1, <1>2 DEF ImportInOrder
        <4>2. Joins(r, rel, p[1], p[2]) /\ p[1] \in Valid(r) /\ p[2] \in Links
              BY <1>1, <1>5, <4>1, CandidateEnds DEF Candidates, LinkSet
        <4>3. wr'[r][y] = rel
              BY <1>2, <1>7, <3>1 DEF StoreTypeOK
        <4> QED BY <4>2, <4>3
      <3>2. CASE y # x
        <4>1. wr'[r][y] = wr[r][y]
              BY <1>2, <1>7, <3>2 DEF StoreTypeOK
        <4> QED BY <1>1, <1>14, <4>1 DEF LinksInOrder
      <3> QED BY <3>1, <3>2
    <2> QED BY <1>1, <1>7, <2>1 DEF Joins
  <1>15. CASE Reply(r, "200")
    <2>1. pc'[r] = "commit"
          BY <1>2, <1>15 DEF Reply, SessionTypeOK
    <2>2. imp'[r].edges = {}
      <3>1. imp[r].edges = {p}
            BY <1>2, <1>4, <2>1 DEF Goto, SessionTypeOK
      <3> QED BY <1>11, <3>1
    <2>3. \A q \in Candidates(r) :
              \E y \in RelIds : HeldEdge(r, y)' /\ SameEdge(Rel(r, y)', EdgeAt(r, q))
          BY <1>12, <2>2
    <2>4. ASSUME NEW i \in Valid(r), NEW j \in Valid(r), NEW l \in Links,
                 Items(r)[i].link[l] = Items(r)[j].id
          PROVE  LinkIsEdge(r, i, l)'
          BY <1>1, <1>7, <2>3, <2>4, AllLinked
    <2> QED BY <1>13, <1>14, <2>1, <2>4 DEF LinksInOrder
  <1>16. CASE Goto(r, "import_link")
    <2>1. pc'[r] = "import_link"
          BY <1>2, <1>16 DEF Goto, SessionTypeOK
    <2>2. \A q \in Candidates(r) : EdgeAt(r, q)' = EdgeAt(r, q)
          BY <1>1, <1>11, <1>13 DEF EdgeAt, Target
    <2> QED BY <1>12, <1>13, <1>14, <2>1, <2>2 DEF LinksInOrder
  <1> QED BY <1>4, <1>15, <1>16

LEMMA LinksNextInv ==
    ASSUME NobodyUnlinks, EffectInv, EffectInv', [Next]_vars,
           NEW s \in Requests, IdsInOrder(s), LinksInOrder(s)
    PROVE  LinksInOrder(s)'
  <1>1. SUFFICES ASSUME UnderWay(s)' PROVE LinksInOrder(s)'
        BY DEF LinksInOrder, UnderWay, Stages
  <1>2. /\ SessionTypeOK /\ SessionTypeOK'
        BY DEF EffectInv, ImportInv, ApiInv, TypeOK
  <1>3. CASE Keeps(s)
        BY <1>3, KeepsLinks
  <1>4. CASE LookupItems(s)
    <2>1. ImportStep(s) /\ pc[s] = "import_assets"
          BY <1>4 DEF ImportStep, LookupItems
    <2>2. ~ Raise(s, "ValidationError")
          BY <1>1, <1>2 DEF Raise, SessionTypeOK, UnderWay, Stages
    <2>3. UNCHANGED call /\ UNCHANGED storeVars /\ (Reply(s, "200") \/ Goto(s, "import_item"))
              /\ (Valid(s) = {} \/ Goto(s, "import_item"))
          BY <1>4, <2>2 DEF LookupItems
    <2>4. CASE Goto(s, "import_item")
          BY <1>2, <2>4 DEF Goto, SessionTypeOK, LinksInOrder
    <2>5. CASE Reply(s, "200") /\ Valid(s) = {}
      <3>1. pc'[s] = "commit"
            BY <1>2, <2>5 DEF Reply, SessionTypeOK
      <3>2. Valid(s)' = {}
            BY <2>3, <2>5 DEF Valid, Items
      <3>3. \A x \in RelIds : wr'[s][x] = Nil
            BY <2>1, <2>3, ImportStepFacts DEF EffectInOrder, NothingWritten, WritesOnly, storeVars
      <3> QED BY <3>1, <3>2, <3>3 DEF LinksInOrder
    <2> QED BY <2>3, <2>4, <2>5
  <1>5. CASE MergeItem(s) \/ CreateItem(s)
    <2>1. pc'[s] \notin {"import_link", "commit"}
      <3>1. ASSUME NEW p, Goto(s, p), p \in {"import_item", "import_edges"}
            PROVE  pc'[s] \notin {"import_link", "commit"}
            BY <1>2, <3>1 DEF Goto, SessionTypeOK
      <3>2. ASSUME NEW i, NEW a, NEW row, Flushed(s, i, a, row)
            PROVE  pc'[s] \notin {"import_link", "commit"}
            BY <3>1, <3>2 DEF Flushed
      <3>3. ASSUME NEW code, Raise(s, code)
            PROVE  pc'[s] \notin {"import_link", "commit"}
            BY <1>2, <3>3 DEF Raise, SessionTypeOK
      <3> QED BY <1>5, <3>2, <3>3 DEF MergeItem, CreateItem, FlushFails
    <2> QED BY <2>1 DEF LinksInOrder
  <1> QED BY <1>1, <1>3, <1>4, <1>5, StepSeen, MapEdgesLinks, InsertLinkLinks DEF ImportStep

(* Unless a client unlinks assets meanwhile, or the batch gives one        *)
(* temporary id to two assets, every link of an answered import is an edge *)
(* of the assets it was sent for: stage 5 finds it or writes it, and the   *)
(* locks of stage 4 keep its ends (import_pipeline.py:128).                *)
THEOREM LinksAreEdges ==
    ASSUME IdsApart, NobodyUnlinks
    PROVE  Spec => []LinksAreWritten
  <1>1. IdsApart /\ NobodyUnlinks
        OBVIOUS
  <1> DEFINE J == \A r \in Requests : IdsInOrder(r) /\ LinksInOrder(r)
  <1>2. Init => J
        BY DEF Init, SessionInit, IdsInOrder, LinksInOrder, Stages
  <1>3. EffectInv /\ EffectInv' /\ J /\ [Next]_vars => J'
        BY <1>1, IdsNextInv, LinksNextInv
  <1>4. EffectInv /\ J => LinksAreWritten
    <2> SUFFICES ASSUME EffectInv, J, NEW r \in Requests, pc[r] = "commit", Importing(r),
                        NEW i \in Valid(r), NEW j \in Valid(r), NEW l \in Links,
                        Items(r)[i].link[l] = Items(r)[j].id
                 PROVE  \E x \in RelRows(r) :
                            /\ Rel(r, x).type = LinkTypes[l]
                            /\ Asset(r, Rel(r, x).src).key = KeyOf(Items(r)[i])
                            /\ Asset(r, Rel(r, x).dst).key = KeyOf(Items(r)[j])
        BY DEF LinksAreWritten
    <2>1. PICK x \in RelIds : HeldEdge(r, x) /\ Joins(r, Rel(r, x), i, l)
          BY DEF LinksInOrder, LinkIsEdge
    <2>2. PICK c, rel : c = call[r] /\ rel = Rel(r, x)
          OBVIOUS
    <2>3. /\ wa[r][rel.src] # Nil /\ wa[r][rel.dst] # Nil /\ x \in RelRows(r)
          /\ Asset(r, rel.src) = wa[r][rel.src] /\ Asset(r, rel.dst) = wa[r][rel.dst]
          BY <2>1, <2>2 DEF HeldEdge, RelRows, Asset
    <2>4. /\ rel.type = LinkTypes[l]
          /\ \E k : IsLastWithId(c, k, c.items[i].id) /\ wa[r][rel.src].key = KeyOf(c.items[k])
          /\ \E k : IsLastWithId(c, k, c.items[i].link[l]) /\ wa[r][rel.dst].key = KeyOf(c.items[k])
          BY <2>1, <2>2 DEF Joins, IsLinkOf
    <2>5. /\ c \in Calls /\ c.op = "import_assets" /\ Items(r) = c.items
          /\ i \in Abstract!ValidItems(c) /\ j \in Abstract!ValidItems(c)
      <3>1. c \in Calls /\ c.op = "import_assets"
            BY <2>2 DEF EffectInv, EffectInOrder, ImportInv, ApiInv, TypeOK, SessionTypeOK,
               Importing, Op
      <3> QED BY <2>2, <3>1 DEF Items, Valid, Abstract!ValidItems
    <2>6. /\ wa[r][rel.src].key = KeyOf(c.items[i]) /\ wa[r][rel.dst].key = KeyOf(c.items[j])
          BY <1>1, <2>4, <2>5 DEF IdsApart, IsLastWithId
    <2> QED BY <2>2, <2>3, <2>4, <2>5, <2>6
  <1> QED BY <1>2, <1>3, <1>4, EffectsAreWritten, PTL DEF Spec

-----------------------------------------------------------------------------
(* The counters of the answers account for the rows of the tables.         *)

NobodyDeletes == \A c \in Calls : c.op \notin {"delete_asset", "delete_relationship"}

(* A response that has been sent is not followed by a rollback.            *)
AnswersStand == ~ (AnswerFirst /\ "db" \in Faults)

TablesFinite == IsFiniteSet(Requests) /\ IsFiniteSet(AssetIds) /\ IsFiniteSet(RelIds)

(* The rows that the commit of r adds to the tables.                       *)
AddedAssets(r) == {a \in AssetIds : wa[r][a] # Nil /\ assets[a] = Nil}
AddedRels(r)   == {x \in RelIds : wr[r][x] # Nil /\ rels[x] = Nil}

(* The counters of an import are those of the rows it has inserted, and,   *)
(* in stage 5, of the edges it has yet to insert.                          *)
CountersInOrder(r) ==
    /\ UnderWay(r) => imp[r].created = Cardinality(AddedAssets(r))
    /\ pc[r] \in {"import_item", "import_edges"} => \A x \in RelIds : wr[r][x] = Nil
    /\ pc[r] = "import_link" =>
           /\ IsFiniteSet(imp[r].edges)
           /\ imp[r].linked = Cardinality(imp[r].edges) + Cardinality(AddedRels(r))
    /\ pc[r] = "commit" /\ Importing(r) => imp[r].linked = Cardinality(AddedRels(r))

(* A row the instance started with has not become a free id.               *)
SeedsTaken ==
    /\ \A a \in AssetIds : SeedAssets[a] # Nil => assets[a] # Nil
    /\ \A x \in RelIds : SeedRels[x] # Nil => rels[x] # Nil

(* Units counted by requests apart add up.                                 *)
LEMMA UnitsOfNone == ASSUME NEW n PROVE Units({}, n) = {}
  BY DEF Units

LEMMA UnitsAlike ==
    ASSUME NEW S, NEW n, NEW m, \A r \in S : m[r] = n[r]
    PROVE  Units(S, m) = Units(S, n)
  BY DEF Units

LEMMA UnitsOfOne ==
    ASSUME NEW r, NEW k \in Nat
    PROVE  IsFiniteSet({r} \X (1 .. k)) /\ Cardinality({r} \X (1 .. k)) = k
  <1> DEFINE one == {r}
             units == 1 .. k
  <1>1. IsFiniteSet(one) /\ Cardinality(one) = 1
        BY FS_Singleton
  <1>2. IsFiniteSet(units) /\ Cardinality(units) = k
        BY FS_Interval
  <1> HIDE DEF one, units
  <1>3. IsFiniteSet(one \X units) /\ Cardinality(one \X units) = Cardinality(one) * Cardinality(units)
        BY <1>1, <1>2, FS_Product
  <1> QED BY <1>1, <1>2, <1>3 DEF one, units

LEMMA UnitsFinite ==
    ASSUME NEW S, IsFiniteSet(S), NEW n, \A r \in S : n[r] \in Nat
    PROVE  IsFiniteSet(Units(S, n))
  <1> DEFINE of(r) == {r} \X (1 .. n[r])
  <1>1. IsFiniteSet({of(r) : r \in S})
    <2> DEFINE T == {of(r) : r \in S}
               f == [r \in S |-> of(r)]
    <2>1. f \in Surjection(S, T)
      <3> HIDE DEF of
      <3> QED BY DEF Surjection
    <2> HIDE DEF f, T
    <2>2. IsFiniteSet(T)
          BY <2>1, FS_Surjection
    <2> QED BY <2>2 DEF T
  <1>2. \A r \in S : IsFiniteSet(of(r))
        BY UnitsOfOne
  <1>3. IsFiniteSet(UNION {of(r) : r \in S})
        BY <1>1, <1>2, FS_UNION
  <1> QED BY <1>3 DEF Units

LEMMA UnitsOfOneMore ==
    ASSUME NEW S, IsFiniteSet(S), NEW n, NEW r, r \notin S, n[r] \in Nat,
           \A s \in S : n[s] \in Nat
    PROVE  Cardinality(Units(S \cup {r}, n)) = Cardinality(Units(S, n)) + n[r]
  <1> DEFINE old == Units(S, n)
             add == {r} \X (1 .. n[r])
  <1>1. IsFiniteSet(old)
        BY UnitsFinite
  <1>2. IsFiniteSet(add) /\ Cardinality(add) = n[r]
        BY UnitsOfOne
  <1>3. Units(S \cup {r}, n) = old \cup add
    <2>1. \A u : u \in old <=> \E s \in S : u \in {s} \X (1 .. n[s])
          BY DEF Units
    <2>2. \A u : u \in Units(S \cup {r}, n) <=> \E s \in S \cup {r} : u \in {s} \X (1 .. n[s])
          BY DEF Units
    <2> HIDE DEF old
    <2> QED BY <2>1, <2>2
  <1>4. old \cap add = {}
        BY DEF Units
  <1> HIDE DEF old, add
  <1>5. Cardinality(old \cap add) = 0
        BY <1>4, FS_EmptySet
  <1>6. Cardinality(old) \in Nat
        BY <1>1, FS_CardinalityType
  <1>7. Cardinality(old \cup add) = Cardinality(old) + Cardinality(add) - Cardinality(old \cap add)
        BY <1>1, <1>2, FS_Union
  <1>8. Cardinality(old \cup add) = Cardinality(old) + n[r]
        BY <1>2, <1>5, <1>6, <1>7
  <1> QED BY <1>3, <1>8 DEF old

(* Others leave the counters of an import in order.                        *)
LEMMA KeepsCounters ==
    ASSUME NEW s \in Requests, CountersInOrder(s), Keeps(s)
    PROVE  CountersInOrder(s)'
  <1>1. /\ pc'[s] = pc[s] /\ call'[s] = call[s] /\ imp'[s] = imp[s]
        /\ wa'[s] = wa[s] /\ wr'[s] = wr[s]
        BY DEF Keeps, Held
  <1>2. AddedAssets(s)' = AddedAssets(s) /\ AddedRels(s)' = AddedRels(s)
        BY DEF Keeps, Held, AddedAssets, AddedRels
  <1>3. (UnderWay(s)' <=> UnderWay(s)) /\ (Importing(s)' <=> Importing(s))
        BY <1>1 DEF UnderWay, Importing, Op
  <1> QED BY <1>1, <1>2, <1>3 DEF CountersInOrder

(* An import begins with nothing written and nothing counted.              *)
LEMMA LookupCounts ==
    ASSUME EffectInv, NEW r \in Requests, LookupItems(r), UnderWay(r)'
    PROVE  CountersInOrder(r)'
  <1>1. ImportStep(r) /\ pc[r] = "import_assets"
        BY DEF ImportStep, LookupItems
  <1>2. /\ SessionTypeOK /\ ImportTypeOK /\ NothingWritten(r)
        BY <1>1, ImportStepFacts DEF EffectInOrder
  <1>3. ~ Raise(r, "ValidationError")
        BY <1>2 DEF Raise, SessionTypeOK, UnderWay, Stages
  <1>4. /\ imp' = [imp EXCEPT ![r] = StartOf(Valid(r))] /\ UNCHANGED storeVars
        /\ Reply(r, "200") \/ Goto(r, "import_item")
        BY <1>3 DEF LookupItems
  <1>5. imp'[r].created = 0 /\ imp'[r].linked = 0
        BY <1>2, <1>4 DEF ImportTypeOK, StartOf
  <1>6. (\A a \in AssetIds : wa'[r][a] = Nil) /\ (\A x \in RelIds : wr'[r][x] = Nil)
        BY <1>2, <1>4 DEF NothingWritten, WritesOnly, storeVars
  <1>7. AddedAssets(r)' = {} /\ AddedRels(r)' = {}
        BY <1>6 DEF AddedAssets, AddedRels
  <1>8. pc'[r] \in {"commit", "import_item"}
        BY <1>2, <1>4 DEF Reply, Goto, SessionTypeOK
  <1> QED BY <1>5, <1>6, <1>7, <1>8, FS_EmptySet DEF CountersInOrder

(* Stage 4 counts as created the items whose row is new in the tables.     *)
LEMMA FlushedCounts ==
    ASSUME EffectInv, TablesFinite, NEW r \in Requests, ImportStep(r), pc[r] = "import_item",
           CountersInOrder(r),
           NEW i \in Valid(r), NEW a \in AssetIds, NEW row, NEW written, written # Nil,
           wa' = [wa EXCEPT ![r][a] = written], UNCHANGED <<assets, rels, wr>>,
           Flushed(r, i, a, row), orm[r][a] = Nil <=> Asset(r, a) = Nil
    PROVE  CountersInOrder(r)'
  <1>1. /\ SessionTypeOK /\ StoreTypeOK /\ imp \in [Requests -> Locals]
        BY ImportStepFacts DEF ImportTypeOK
  <1>2. pc'[r] \in {"import_item", "import_edges"}
        BY <1>1 DEF Flushed, Goto, SessionTypeOK
  <1>3. imp'[r].created = IF orm[r][a] = Nil THEN imp[r].created + 1 ELSE imp[r].created
        BY <1>1 DEF Flushed, Locals
  <1>4. /\ imp[r].created = Cardinality(AddedAssets(r))
        /\ \A x \in RelIds : wr'[r][x] = Nil
        BY DEF CountersInOrder, UnderWay, Stages
  <1>5. wa'[r][a] = written /\ \A b \in AssetIds \ {a} : wa'[r][b] = wa[r][b]
        BY <1>1 DEF StoreTypeOK
  <1>6. IsFiniteSet(AddedAssets(r))
        BY FS_Subset DEF TablesFinite, AddedAssets
  <1>7. imp'[r].created = Cardinality(AddedAssets(r)')
    <2>1. CASE orm[r][a] = Nil
      <3>1. assets[a] = Nil /\ wa[r][a] = Nil
            BY <2>1 DEF Asset
      <3>2. a \notin AddedAssets(r) /\ AddedAssets(r)' = AddedAssets(r) \cup {a}
            BY <1>5, <3>1 DEF AddedAssets
      <3>3. Cardinality(AddedAssets(r) \cup {a}) = Cardinality(AddedAssets(r)) + 1
            BY <1>6, <3>2, FS_AddElement
      <3> QED BY <1>3, <1>4, <2>1, <3>2, <3>3
    <2>2. CASE orm[r][a] # Nil
      <3>1. assets[a] # Nil \/ wa[r][a] # Nil
            BY <2>2 DEF Asset
      <3>2. AddedAssets(r)' = AddedAssets(r)
            BY <1>5, <3>1 DEF AddedAssets
      <3> QED BY <1>3, <1>4, <2>2, <3>2
    <2> QED BY <2>1, <2>2
  <1> QED BY <1>2, <1>4, <1>7 DEF CountersInOrder

LEMMA MergeCounts ==
    ASSUME EffectInv, TablesFinite, NEW r \in Requests, MergeItem(r), CountersInOrder(r),
           UnderWay(r)'
    PROVE  CountersInOrder(r)'
  <1>1. ImportStep(r) /\ pc[r] = "import_item"
        BY DEF ImportStep, MergeItem
  <1>2. /\ StoreTypeOK /\ SessionTypeOK /\ call[r] \in ImportCall /\ BatchInOrder(r)
        BY <1>1, ImportStepFacts DEF EffectInOrder
  <1>3. PICK i \in Valid(r), a \in AssetIds :
           /\ orm[r][a] # Nil
           /\ \/ /\ FlushAsset(r, a, Merged(Items(r)[i], orm[r][a], now[r]))
                 /\ Flushed(r, i, a, Merged(Items(r)[i], orm[r][a], now[r]))
              \/ FlushFails(r, a)
        BY DEF MergeItem, Existing
  <1>4. ~ FlushFails(r, a)
        BY <1>2 DEF FlushFails, Raise, SessionTypeOK, UnderWay, Stages
  <1>5. PICK item, loaded, current, t :
           /\ item = Items(r)[i] /\ loaded = orm[r][a]
           /\ current = Asset(r, a) /\ t = now[r]
        OBVIOUS
  <1>6. PICK row, written : row = Merged(item, loaded, t) /\ written = DirtyColumns(row, loaded, current)
        OBVIOUS
  <1>7. FlushAsset(r, a, row) /\ Flushed(r, i, a, row)
        BY <1>3, <1>4, <1>5, <1>6
  <1>8. /\ loaded \in AssetRow /\ current \in AssetRow /\ item \in Item /\ t \in Times
        BY <1>2, <1>3, <1>5, <1>7, BatchFacts DEF FlushAsset, UpdateAsset, AssetRows, IsRow,
           Asset, AssetCell, StoreTypeOK, SessionTypeOK
  <1>9. wa' = [wa EXCEPT ![r][a] = written] /\ UNCHANGED <<assets, rels, wr>>
        BY <1>5, <1>6, <1>7 DEF FlushAsset, UpdateAsset
  <1>10. written # Nil
    <2>1. row \in AssetRow
          BY <1>6, <1>8, MergedRow
    <2>2. written \in AssetRow
          BY <1>6, <1>8, <2>1, DirtyColumnsFit
    <2> QED BY <2>2, NilAssumption
  <1>11. Asset(r, a) # Nil
         BY <1>5, <1>8, NilAssumption
  <1> QED BY <1>1, <1>3, <1>7, <1>9, <1>10, <1>11, FlushedCounts

LEMMA CreateCounts ==
    ASSUME EffectInv, TablesFinite, NEW r \in Requests, CreateItem(r), CountersInOrder(r),
           UnderWay(r)'
    PROVE  CountersInOrder(r)'
  <1>1. ImportStep(r) /\ pc[r] = "import_item"
        BY DEF ImportStep, CreateItem
  <1>2. /\ StoreTypeOK /\ SessionTypeOK /\ call[r] \in ImportCall /\ BatchInOrder(r)
        BY <1>1, ImportStepFacts DEF EffectInOrder
  <1>3. PICK i \in Valid(r) : \E row :
           /\ row = Created(call[r].tenant, Items(r)[i], now[r])
           /\ \/ \E a \in AssetIds : InsertAsset(r, a, row) /\ Flushed(r, i, a, row)
              \/ Raise(r, "IntegrityError")
        BY DEF CreateItem
  <1> PICK row :
           /\ row = Created(call[r].tenant, Items(r)[i], now[r])
           /\ \/ \E a \in AssetIds : InsertAsset(r, a, row) /\ Flushed(r, i, a, row)
              \/ Raise(r, "IntegrityError")
        BY <1>3
  <1>4. ~ Raise(r, "IntegrityError")
        BY <1>2 DEF Raise, SessionTypeOK, UnderWay, Stages
  <1>5. PICK a \in AssetIds : InsertAsset(r, a, row) /\ Flushed(r, i, a, row)
        BY <1>3, <1>4
  <1>6. row # Nil
    <2>1. row \in AssetRow
          BY <1>2, <1>3, BatchFacts, CreatedRow DEF SessionTypeOK
    <2> QED BY <2>1, NilAssumption
  <1>7. /\ wa' = [wa EXCEPT ![r][a] = row] /\ UNCHANGED <<assets, rels, wr>>
        /\ assets[a] = Nil /\ wa[r][a] = Nil
        BY <1>5 DEF InsertAsset, FreshAssets
  <1>8. Asset(r, a) = Nil
        BY <1>7 DEF Asset
  <1>9. orm[r][a] = Nil
        BY <1>2, <1>8, NilAssumption DEF BatchInOrder, Remains, IsRow
  <1> QED BY <1>1, <1>5, <1>6, <1>7, <1>8, <1>9, FlushedCounts

(* Stage 5 counts the edges it is going to insert.                         *)
LEMMA MapCounts ==
    ASSUME EffectInv, NEW r \in Requests, MapEdges(r), CountersInOrder(r)
    PROVE  CountersInOrder(r)'
  <1>1. /\ ImportStep(r) /\ pc[r] = "import_edges"
        /\ UNCHANGED <<assets, rels, wa, wr, call>>
        BY DEF ImportStep, MapEdges, storeVars
  <1>2. SessionTypeOK /\ imp \in [Requests -> Locals] /\ call[r] \in ImportCall
        BY <1>1, ImportStepFacts DEF ImportTypeOK
  <1> DEFINE new == {p \in Candidates(r) : ~ EdgeExists(r, EdgeAt(r, p))}
  <1>3. imp' = [imp EXCEPT ![r].edges = new, ![r].linked = Linked(r, new), ![r].unlinked = Unlinked(r)]
        BY DEF MapEdges
  <1>4. \/ Reply(r, "200") /\ new = {}
        \/ Goto(r, "import_link")
        BY DEF MapEdges
  <1>5. IsFiniteSet(new)
    <2>1. IsFiniteSet(LinkSet(r)) /\ new \subseteq LinkSet(r)
          BY <1>2, BatchFacts DEF Candidates
    <2> HIDE DEF new
    <2> QED BY <2>1, FS_Subset
  <1> HIDE DEF new
  <1>6. imp'[r].edges = new /\ imp'[r].linked = Cardinality(new) /\ imp'[r].created = imp[r].created
        BY <1>2, <1>3 DEF Locals, Linked
  <1>7. imp[r].created = Cardinality(AddedAssets(r)) /\ \A x \in RelIds : wr[r][x] = Nil
        BY <1>1 DEF CountersInOrder, UnderWay, Stages
  <1>8. AddedAssets(r)' = AddedAssets(r) /\ AddedRels(r)' = {}
        BY <1>1, <1>7 DEF AddedAssets, AddedRels
  <1>9. Cardinality({}) = 0 /\ Cardinality(new) \in Nat
        BY <1>5, FS_EmptySet, FS_CardinalityType
  <1>10. pc'[r] = "import_link" \/ (pc'[r] = "commit" /\ new = {})
         BY <1>2, <1>4 DEF Reply, Goto, SessionTypeOK
  <1> QED BY <1>5, <1>6, <1>7, <1>8, <1>9, <1>10 DEF CountersInOrder

LEMMA InsertLinkCounts ==
    ASSUME EffectInv, TablesFinite, NEW r \in Requests, InsertLink(r), CountersInOrder(r),
           UnderWay(r)'
    PROVE  CountersInOrder(r)'
  <1>1. ImportStep(r) /\ pc[r] = "import_link"
        BY DEF ImportStep, InsertLink
  <1>2. SessionTypeOK /\ StoreTypeOK /\ imp \in [Requests -> Locals]
        BY <1>1, ImportStepFacts DEF ImportTypeOK
  <1>3. ~ Raise(r, "IntegrityError")
        BY <1>2 DEF Raise, SessionTypeOK, UnderWay, Stages
  <1>4. PICK p \in imp[r].edges, x \in RelIds :
           /\ InsertRel(r, x, EdgeAt(r, p))
           /\ imp' = [imp EXCEPT ![r].edges = @ \ {p}]
           /\ IF imp[r].edges = {p} THEN Reply(r, "200") ELSE Goto(r, "import_link")
        BY <1>3 DEF InsertLink
  <1>5. PICK rel : rel = EdgeAt(r, p)
        OBVIOUS
  <1>6. rel # Nil
        BY <1>1, <1>5, LinkedItems, NilAssumption
  <1>7. /\ wr' = [wr EXCEPT ![r][x] = rel] /\ UNCHANGED <<assets, rels, wa>>
        /\ rels[x] = Nil /\ wr[r][x] = Nil
        BY <1>4, <1>5 DEF InsertRel, FreshRels
  <1>8. wr'[r][x] = rel /\ \A y \in RelIds \ {x} : wr'[r][y] = wr[r][y]
        BY <1>2, <1>7 DEF StoreTypeOK
  <1>9. /\ imp'[r].edges = imp[r].edges \ {p} /\ imp'[r].linked = imp[r].linked
        /\ imp'[r].created = imp[r].created
        BY <1>2, <1>4 DEF Locals
  <1>10. /\ imp[r].created = Cardinality(AddedAssets(r)) /\ IsFiniteSet(imp[r].edges)
         /\ imp[r].linked = Cardinality(imp[r].edges) + Cardinality(AddedRels(r))
         BY <1>1 DEF CountersInOrder, UnderWay, Stages
  <1>11. IsFiniteSet(AddedRels(r))
         BY FS_Subset DEF TablesFinite, AddedRels
  <1>12. x \notin AddedRels(r) /\ AddedRels(r)' = AddedRels(r) \cup {x}
         BY <1>6, <1>7, <1>8 DEF AddedRels
  <1>13. Cardinality(AddedRels(r)') = Cardinality(AddedRels(r)) + 1
         BY <1>11, <1>12, FS_AddElement
  <1>14. /\ IsFiniteSet(imp'[r].edges)
         /\ Cardinality(imp'[r].edges) = Cardinality(imp[r].edges) - 1
         BY <1>9, <1>10, FS_RemoveElement
  <1>15. AddedAssets(r)' = AddedAssets(r)
         BY <1>7 DEF AddedAssets
  <1>16. Cardinality(imp[r].edges) \in Nat /\ Cardinality(AddedRels(r)) \in Nat
         BY <1>10, <1>11, FS_CardinalityType
  <1>17. imp'[r].linked = Cardinality(imp'[r].edges) + Cardinality(AddedRels(r)')
         BY <1>9, <1>10, <1>13, <1>14, <1>16
  <1>18. CASE Goto(r, "import_link")
    <2>1. pc'[r] = "import_link"
          BY <1>2, <1>18 DEF Goto, SessionTypeOK
    <2> QED BY <1>9, <1>10, <1>14, <1>15, <1>17, <2>1 DEF CountersInOrder
  <1>19. CASE Reply(r, "200") /\ imp[r].edges = {p}
    <2>1. pc'[r] = "commit" /\ imp'[r].edges = {}
          BY <1>2, <1>9, <1>19 DEF Reply, SessionTypeOK
    <2>2. imp'[r].linked = Cardinality(AddedRels(r)')
          BY <1>13, <1>16, <1>17, <2>1, FS_EmptySet
    <2> QED BY <1>9, <1>10, <1>15, <2>1, <2>2 DEF CountersInOrder
  <1> QED BY <1>4, <1>18, <1>19

LEMMA CountersStep ==
    ASSUME TablesFinite, EffectInv, EffectInv', [Next]_vars,
           NEW s \in Requests, CountersInOrder(s)
    PROVE  CountersInOrder(s)'
  <1>1. SUFFICES ASSUME UnderWay(s)' PROVE CountersInOrder(s)'
        BY DEF CountersInOrder, UnderWay, Stages
  <1> QED BY <1>1, StepSeen, KeepsCounters, LookupCounts, MergeCounts, CreateCounts, MapCounts,
             InsertLinkCounts DEF ImportStep

(* What a request was answered with stays what it was.                     *)
LEMMA DoneStays ==
    ASSUME EffectInv, [Next]_vars, NEW s \in Requests, pc[s] = "done"
    PROVE  /\ pc'[s] = "done" /\ resp'[s] = resp[s]
           /\ call'[s] = call[s] /\ imp'[s] = imp[s]
  <1>1. ASSUME NEW r \in Requests, GoodStep(r), Alone(r), r # s
        PROVE  /\ pc'[s] = "done" /\ resp'[s] = resp[s]
               /\ call'[s] = call[s] /\ imp'[s] = imp[s]
        BY <1>1 DEF GoodStep, OthersStay, Alone
  <1>2. SessionTypeOK /\ ApiInv
        BY DEF EffectInv, ImportInv, ApiInv, TypeOK
  <1>3. ASSUME NEW r \in Requests, Arrive(r)
        PROVE  /\ GoodStep(r) /\ Alone(r) /\ r # s
        BY <1>2, <1>3, ArriveGood, ArriveEffect DEF Arrive, Begin
  <1>4. ASSUME NEW r \in Requests, Commit(r), UNCHANGED <<cache, graphVars, inval, imp>>
        PROVE  /\ GoodStep(r) /\ Alone(r) /\ r # s
        BY <1>2, <1>4, CommitGood, CommitDone DEF Commit
  <1>5. ASSUME NEW r \in Requests, Handles(r)
        PROVE  /\ GoodStep(r) /\ Alone(r) /\ r # s
        BY <1>5, HandlesGood DEF Advances
  <1>6. ASSUME NEW r \in Requests, LoseConnection(r)
        PROVE  /\ pc'[s] = "done" /\ resp'[s] = resp[s]
               /\ call'[s] = call[s] /\ imp'[s] = imp[s]
        BY <1>2, <1>6 DEF LoseConnection, Fail, Raise, InFlight, SessionTypeOK
  <1>7. ASSUME NEW k \in GraphKeys, ExpireGraph(k)
        PROVE  UNCHANGED <<pc, resp, call, imp>>
        BY <1>7 DEF ExpireGraph, Expire, sessionVars
  <1>8. CASE PassTime
        BY <1>8 DEF PassTime, Tick
  <1>9. CASE UNCHANGED vars
        BY <1>9 DEF vars, sessionVars
  <1> QED BY <1>1, <1>3, <1>4, <1>5, <1>6, <1>7, <1>8, <1>9 DEF Next, Idle, Serve, Handles

(* A success is answered by the step that commits it, and by no other.     *)
LEMMA SuccessIsCommitted ==
    ASSUME AnswersStand, EffectInv, [Next]_vars
    PROVE  \/ \E r \in Requests : Commit(r) /\ UNCHANGED imp
           \/ /\ UNCHANGED <<assets, rels>>
              /\ \A s \in Requests : pc[s] # "done" /\ pc'[s] = "done" =>
                     resp'[s] \notin {"200", "201"}
  <1> DEFINE Refused == /\ UNCHANGED <<assets, rels>>
                        /\ \A s \in Requests : pc[s] # "done" /\ pc'[s] = "done" =>
                               resp'[s] \notin {"200", "201"}
  <1>1. SessionTypeOK /\ ApiInv
        BY DEF EffectInv, ImportInv, ApiInv, TypeOK
  <1>2. ASSUME NEW r \in Requests, Arrive(r)
        PROVE  Refused
    <2>1. PICK c \in Calls : pc' = [pc EXCEPT ![r] = c.op]
          BY <1>2 DEF Arrive, Begin
    <2>2. c.op # "done"
          BY CallAssumption, CallsByOp
    <2> QED BY <1>1, <1>2, <2>1, <2>2 DEF Arrive, Begin, SessionTypeOK, storeVars
  <1>3. ASSUME NEW r \in Requests, NEW code, Raise(r, code), code \notin {"200", "201"}
        PROVE  Refused
        BY <1>1, <1>3 DEF Raise, RollbackWrites, SessionTypeOK
  <1>4. ASSUME NEW r \in Requests, Handles(r)
        PROVE  Refused
    <2>1. GoodStep(r) /\ Advances(r)
          BY <1>4, HandlesGood
    <2>2. CASE Refuses(r)
          BY <1>3, <2>2 DEF Refuses, Refusals
    <2>3. CASE Proceeds(r)
          BY <2>1, <2>3 DEF Proceeds, GoodStep, OthersStay
    <2> QED BY <2>1, <2>2, <2>3 DEF Advances
  <1>5. ASSUME NEW r \in Requests, LoseConnection(r)
        PROVE  Refused
    <2>1. ~ Answered(r)
          BY <1>5 DEF LoseConnection, Fail, InFlight, Answered, AnswersStand
    <2>2. Raise(r, "OperationalError")
          BY <1>5, <2>1 DEF LoseConnection, Fail
    <2> QED BY <1>3, <2>2
  <1>6. ASSUME NEW k \in GraphKeys, ExpireGraph(k)
        PROVE  Refused
        BY <1>6 DEF ExpireGraph, Expire, sessionVars, storeVars
  <1>7. CASE PassTime
        BY <1>7 DEF PassTime, Tick, storeVars
  <1>8. CASE UNCHANGED vars
        BY <1>8 DEF vars, sessionVars, storeVars
  <1> QED BY <1>2, <1>4, <1>5, <1>6, <1>7, <1>8 DEF Next, Idle, Serve, Handles

(* The rows a commit adds are those its answer accounts for.               *)
LEMMA CommitAdds ==
    ASSUME NobodyDeletes, EffectInv, NEW r \in Requests, CountersInOrder(r), pc[r] = "commit"
    PROVE  /\ \A a \in AssetIds : wa[r][a] # Deleted
           /\ \A x \in RelIds : wr[r][x] # Deleted
           /\ resp[r] = "201" <=> Op(r) \in {"create_asset", "create_relationship"}
           /\ Importing(r) => resp[r] = "200"
           /\ Cardinality(AddedAssets(r)) =
                  IF Op(r) = "create_asset" THEN 1
                  ELSE IF Importing(r) THEN imp[r].created ELSE 0
           /\ Cardinality(AddedRels(r)) =
                  IF Op(r) = "create_relationship" THEN 1
                  ELSE IF Importing(r) THEN imp[r].linked ELSE 0
  <1>1. /\ SessionTypeOK /\ StoreTypeOK /\ WritesFit /\ EffectInOrder(r)
        BY DEF EffectInv, ImportInv, ApiInv, TypeOK, StoreInv
  <1>2. PICK c : c = call[r]
        OBVIOUS
  <1>3. /\ c \in Calls /\ c \in ApiCalls /\ EffectWritten(r, c) /\ resp[r] = Abstract!Success(c)
        /\ c # Nil /\ Op(r) = c.op
        BY <1>1, <1>2, CallAssumption DEF EffectInOrder, SessionTypeOK, Op
  <1>4. c.op \notin {"delete_asset", "delete_relationship"}
        BY <1>3 DEF NobodyDeletes
  <1>5. /\ resp[r] = "201" <=> Op(r) \in {"create_asset", "create_relationship"}
        /\ Importing(r) => resp[r] = "200"
        /\ Importing(r) <=> c.op = "import_assets"
        BY <1>3 DEF Abstract!Success, Importing
  <1>6. Cardinality({}) = 0 /\ \A e : Cardinality({e}) = 1
        BY FS_EmptySet, FS_Singleton
  <1>7. CASE c.op = "create_asset" /\ CreateWritten(r, c)
    <2>1. PICK a \in AssetIds, t \in Times :
             /\ WritesOnly(r, {a}, {}) /\ assets[a] = Nil /\ wa[r][a] = NewAsset(c, t)
          BY <1>7 DEF CreateWritten
    <2>2. wa[r][a] \in AssetRow
      <3>1. NewAsset(c, t) \in AssetRow
            BY <1>3, <1>7, CallsByOp DEF CreateCall, NewAsset, AssetRow
      <3> QED BY <2>1, <3>1
    <2>3. (\A b \in AssetIds \ {a} : wa[r][b] = Nil) /\ (\A x \in RelIds : wr[r][x] = Nil)
          BY <2>1 DEF WritesOnly
    <2>4. AddedAssets(r) = {a} /\ AddedRels(r) = {}
          BY <2>1, <2>2, <2>3, NilAssumption DEF AddedAssets, AddedRels
    <2>5. (\A b \in AssetIds : wa[r][b] # Deleted) /\ (\A x \in RelIds : wr[r][x] # Deleted)
          BY <2>2, <2>3, NilAssumption
    <2> QED BY <1>3, <1>5, <1>6, <1>7, <2>4, <2>5
  <1>8. ASSUME NEW a \in AssetIds, WritesOnly(r, {a}, {}), IsRow(wa[r][a]), IsRow(assets[a])
        PROVE  /\ AddedAssets(r) = {} /\ AddedRels(r) = {}
               /\ \A b \in AssetIds : wa[r][b] # Deleted
               /\ \A x \in RelIds : wr[r][x] # Deleted
        BY <1>8, NilAssumption DEF WritesOnly, AddedAssets, AddedRels, IsRow
  <1>9. CASE c.op = "update_asset" /\ UpdateWritten(r, c)
    <2>1. /\ c.asset \in AssetIds /\ WritesOnly(r, {c.asset}, {})
          /\ IsRow(wa[r][c.asset]) /\ IsRow(assets[c.asset])
          BY <1>3, <1>9, CallsByOp DEF UpdateCall, UpdateWritten, Abstract!Has, Abstract!Updated,
             Abstract!IsRow, IsRow
    <2> QED BY <1>3, <1>5, <1>6, <1>8, <1>9, <2>1
  <1>10. CASE c.op = "update_status" /\ StatusWritten(r, c)
    <2>1. /\ c.asset \in AssetIds /\ WritesOnly(r, {c.asset}, {}) /\ IsRow(assets[c.asset])
          /\ wa[r][c.asset] = [assets[c.asset] EXCEPT !.status = c.status] /\ c.status \in Statuses
          BY <1>3, <1>10, CallsByOp DEF StatusCall, StatusWritten, Abstract!Has,
             Abstract!IsRow, IsRow
    <2>2. assets[c.asset] \in AssetRow
          BY <1>1, <2>1 DEF StoreTypeOK, AssetCell, IsRow
    <2>3. wa[r][c.asset] \in AssetRow
          BY <2>1, <2>2 DEF AssetRow
    <2>4. IsRow(wa[r][c.asset])
          BY <2>3, NilAssumption DEF IsRow
    <2> QED BY <1>3, <1>5, <1>6, <1>8, <1>10, <2>1, <2>4
  <1>11. CASE c.op = "create_relationship" /\ RelateWritten(r, c)
    <2>1. PICK x \in RelIds : WritesOnly(r, {}, {x}) /\ rels[x] = Nil /\ wr[r][x] = NewRel(c)
          BY <1>11 DEF RelateWritten
    <2>2. wr[r][x] \in RelRow
      <3>1. NewRel(c) \in RelRow
            BY <1>3, <1>11, CallsByOp DEF RelateCall, NewRel, RelRow
      <3> QED BY <2>1, <3>1
    <2>3. (\A a \in AssetIds : wa[r][a] = Nil) /\ (\A y \in RelIds \ {x} : wr[r][y] = Nil)
          BY <2>1 DEF WritesOnly
    <2>4. AddedAssets(r) = {} /\ AddedRels(r) = {x}
          BY <2>1, <2>2, <2>3, NilAssumption DEF AddedAssets, AddedRels
    <2>5. (\A a \in AssetIds : wa[r][a] # Deleted) /\ (\A y \in RelIds : wr[r][y] # Deleted)
          BY <2>2, <2>3, NilAssumption
    <2> QED BY <1>3, <1>5, <1>6, <1>11, <2>4, <2>5
  <1>12. CASE c.op = "get_graph" /\ NothingWritten(r)
    <2>1. (\A a \in AssetIds : wa[r][a] = Nil) /\ (\A x \in RelIds : wr[r][x] = Nil)
          BY <1>12 DEF NothingWritten, WritesOnly
    <2>2. AddedAssets(r) = {} /\ AddedRels(r) = {}
          BY <2>1 DEF AddedAssets, AddedRels
    <2> QED BY <1>3, <1>5, <1>6, <1>12, <2>1, <2>2, NilAssumption
  <1>13. CASE /\ c.op = "import_assets"
              /\ ItemsWritten(r, c, Abstract!ValidItems(c)) /\ LinksWritten(r, c)
    <2>1. \A a \in AssetIds : wa[r][a] # Deleted
          BY <1>13, NilAssumption DEF ItemsWritten, Abstract!Imported, Abstract!IsRow
    <2>2. \A x \in RelIds : wr[r][x] # Deleted
          BY <1>13, NilAssumption DEF LinksWritten, IsRow
    <2>3. /\ imp[r].created = Cardinality(AddedAssets(r))
          /\ imp[r].linked = Cardinality(AddedRels(r))
          BY <1>5, <1>13 DEF CountersInOrder, UnderWay
    <2> QED BY <1>3, <1>5, <1>13, <2>1, <2>2, <2>3
  <1> QED BY <1>3, <1>4, <1>7, <1>9, <1>10, <1>11, <1>12, <1>13 DEF EffectWritten

(* The commit adds to the tables what was free, and takes nothing away.    *)
LEMMA TablesGrow ==
    ASSUME NobodyDeletes, TablesFinite, EffectInv, SeedsTaken,
           NEW r \in Requests, CountersInOrder(r), Commit(r)
    PROVE  /\ SeedsTaken'
           /\ Cardinality(NewAssets') = Cardinality(NewAssets) + Cardinality(AddedAssets(r))
           /\ Cardinality(NewRels') = Cardinality(NewRels) + Cardinality(AddedRels(r))
  <1>1. /\ StoreTypeOK /\ WritesFit /\ CommitWrites(r) /\ pc[r] = "commit"
        BY DEF EffectInv, ImportInv, ApiInv, TypeOK, StoreInv, Commit
  <1>2. /\ \A a \in AssetIds : assets'[a] = IF wa[r][a] = Nil THEN assets[a] ELSE wa[r][a]
        /\ \A x \in RelIds : rels'[x] = IF wr[r][x] = Nil THEN rels[x] ELSE wr[r][x]
        BY <1>1, CommitRows
  <1>3. /\ \A a \in AssetIds : wa[r][a] # Deleted
        /\ \A x \in RelIds : wr[r][x] # Deleted
        BY <1>1, CommitAdds
  <1>4. /\ \A a \in AssetIds : wa[r][a] # Nil => assets[a] # Deleted
        /\ \A x \in RelIds : wr[r][x] # Nil => rels[x] = Nil
        BY <1>1, <1>3 DEF WritesFit, IsRow
  <1>5. SeedsTaken'
        BY <1>2 DEF SeedsTaken
  <1>6. NewAssets' = NewAssets \cup AddedAssets(r) /\ NewAssets \cap AddedAssets(r) = {}
    <2>1. ASSUME NEW a \in AssetIds
          PROVE  a \in NewAssets' <=> a \in NewAssets \/ a \in AddedAssets(r)
          BY <1>2, <1>3, <1>4 DEF NewAssets, AddedAssets, SeedsTaken, IsRow
    <2>2. NewAssets \subseteq AssetIds /\ NewAssets' \subseteq AssetIds /\ AddedAssets(r) \subseteq AssetIds
          BY DEF NewAssets, AddedAssets
    <2>3. NewAssets' = NewAssets \cup AddedAssets(r)
          BY <2>1, <2>2
    <2>4. NewAssets \cap AddedAssets(r) = {}
          BY DEF NewAssets, AddedAssets, IsRow
    <2> QED BY <2>3, <2>4
  <1>7. NewRels' = NewRels \cup AddedRels(r) /\ NewRels \cap AddedRels(r) = {}
    <2>1. ASSUME NEW x \in RelIds
          PROVE  x \in NewRels' <=> x \in NewRels \/ x \in AddedRels(r)
          BY <1>2, <1>3, <1>4 DEF NewRels, AddedRels, SeedsTaken, IsRow
    <2>2. NewRels \subseteq RelIds /\ NewRels' \subseteq RelIds /\ AddedRels(r) \subseteq RelIds
          BY DEF NewRels, AddedRels
    <2>3. NewRels' = NewRels \cup AddedRels(r)
          BY <2>1, <2>2
    <2>4. NewRels \cap AddedRels(r) = {}
          BY DEF NewRels, AddedRels, IsRow
    <2> QED BY <2>3, <2>4
  <1>8. ASSUME NEW S, NEW T, IsFiniteSet(S), IsFiniteSet(T), S \cap T = {}
        PROVE  Cardinality(S \cup T) = Cardinality(S) + Cardinality(T)
    <2>1. Cardinality(S) \in Nat /\ Cardinality(T) \in Nat /\ Cardinality(S \cap T) = 0
          BY <1>8, FS_CardinalityType, FS_EmptySet
    <2>2. Cardinality(S \cup T) = Cardinality(S) + Cardinality(T) - Cardinality(S \cap T)
          BY <1>8, FS_Union
    <2> QED BY <2>1, <2>2
  <1>9. /\ IsFiniteSet(NewAssets) /\ IsFiniteSet(AddedAssets(r))
        /\ IsFiniteSet(NewRels) /\ IsFiniteSet(AddedRels(r))
        BY FS_Subset DEF TablesFinite, NewAssets, AddedAssets, NewRels, AddedRels
  <1> QED BY <1>5, <1>6, <1>7, <1>8, <1>9

(* The answers a commit adds to.                                           *)
LEMMA AnswersGrow ==
    ASSUME TablesFinite, EffectInv, NEW r \in Requests, Commit(r), NEW op, NEW code
    PROVE  /\ r \notin AnsweredWith(op, code)
           /\ IsFiniteSet(AnsweredWith(op, code))
           /\ AnsweredWith(op, code)' =
                  IF resp[r] = code /\ Op(r) = op THEN AnsweredWith(op, code) \cup {r}
                                                  ELSE AnsweredWith(op, code)
           /\ Cardinality(AnsweredWith(op, code)') =
                  IF resp[r] = code /\ Op(r) = op THEN Cardinality(AnsweredWith(op, code)) + 1
                                                  ELSE Cardinality(AnsweredWith(op, code))
  <1>1. SessionTypeOK
        BY DEF EffectInv, ImportInv, ApiInv, TypeOK
  <1>2. /\ pc[r] = "commit" /\ pc' = [pc EXCEPT ![r] = "done"]
        /\ resp' = resp /\ call' = call
        BY DEF Commit
  <1>3. r \notin AnsweredWith(op, code)
        BY <1>2 DEF AnsweredWith
  <1>4. IsFiniteSet(AnsweredWith(op, code))
        BY FS_Subset DEF TablesFinite, AnsweredWith
  <1>5. ASSUME NEW s \in Requests
        PROVE  /\ (pc'[s] = "done") <=> (pc[s] = "done" \/ s = r)
               /\ Op(s)' = Op(s) /\ resp'[s] = resp[s]
        BY <1>1, <1>2 DEF SessionTypeOK, Op
  <1>6. AnsweredWith(op, code)' =
            IF resp[r] = code /\ Op(r) = op THEN AnsweredWith(op, code) \cup {r}
                                            ELSE AnsweredWith(op, code)
        BY <1>5 DEF AnsweredWith
  <1>7. Cardinality(AnsweredWith(op, code) \cup {r}) = Cardinality(AnsweredWith(op, code)) + 1
        BY <1>3, <1>4, FS_AddElement
  <1> QED BY <1>3, <1>4, <1>6, <1>7

LEMMA CommitAccounts ==
    ASSUME NobodyDeletes, TablesFinite, EffectInv, SeedsTaken, CountersMatchTables,
           NEW r \in Requests, CountersInOrder(r), Commit(r), UNCHANGED imp
    PROVE  SeedsTaken' /\ CountersMatchTables'
  <1>1. imp \in [Requests -> Locals] /\ pc[r] = "commit"
        BY DEF EffectInv, ImportInv, ApiInv, TypeOK, ImportTypeOK, Commit
  <1> DEFINE created == [q \in Requests |-> imp[q].created]
             linked  == [q \in Requests |-> imp[q].linked]
             imports == AnsweredWith("import_assets", "200")
             assets201 == AnsweredWith("create_asset", "201")
             rels201 == AnsweredWith("create_relationship", "201")
  <1>2. /\ created' = created /\ linked' = linked
        /\ \A q \in Requests : created[q] \in Nat /\ linked[q] \in Nat
        /\ created[r] = imp[r].created /\ linked[r] = imp[r].linked
        BY <1>1 DEF Locals
  <1>3. /\ Cardinality(NewAssets) = Cardinality(assets201) + Cardinality(Units(imports, created))
        /\ Cardinality(NewRels) = Cardinality(rels201) + Cardinality(Units(imports, linked))
        BY DEF CountersMatchTables
  <1>4. SUFFICES /\ SeedsTaken'
                 /\ Cardinality(NewAssets') = Cardinality(assets201') + Cardinality(Units(imports', created))
                 /\ Cardinality(NewRels') = Cardinality(rels201') + Cardinality(Units(imports', linked))
        BY <1>2 DEF CountersMatchTables, Units
  <1>5. /\ SeedsTaken'
        /\ Cardinality(NewAssets') = Cardinality(NewAssets) + Cardinality(AddedAssets(r))
        /\ Cardinality(NewRels') = Cardinality(NewRels) + Cardinality(AddedRels(r))
        BY TablesGrow
  <1>6. /\ resp[r] = "201" <=> Op(r) \in {"create_asset", "create_relationship"}
        /\ Importing(r) => resp[r] = "200"
        /\ Cardinality(AddedAssets(r)) =
               IF Op(r) = "create_asset" THEN 1 ELSE IF Importing(r) THEN imp[r].created ELSE 0
        /\ Cardinality(AddedRels(r)) =
               IF Op(r) = "create_relationship" THEN 1 ELSE IF Importing(r) THEN imp[r].linked ELSE 0
        BY <1>1, CommitAdds
  <1>7. /\ r \notin imports /\ IsFiniteSet(imports) /\ imports \subseteq Requests
        /\ imports' = IF Importing(r) THEN imports \cup {r} ELSE imports
    <2>1. imports \subseteq Requests
          BY DEF AnsweredWith
    <2>2. r \notin imports /\ IsFiniteSet(imports)
          BY AnswersGrow
    <2>3. imports' = IF resp[r] = "200" /\ Op(r) = "import_assets" THEN imports \cup {r} ELSE imports
          BY AnswersGrow
    <2>4. resp[r] = "200" /\ Op(r) = "import_assets" <=> Importing(r)
          BY <1>6 DEF Importing
    <2> HIDE DEF imports
    <2> QED BY <2>1, <2>2, <2>3, <2>4
  <1>8. /\ Cardinality(assets201') =
               IF Op(r) = "create_asset" THEN Cardinality(assets201) + 1 ELSE Cardinality(assets201)
        /\ Cardinality(rels201') =
               IF Op(r) = "create_relationship" THEN Cardinality(rels201) + 1 ELSE Cardinality(rels201)
        BY <1>6, AnswersGrow
  <1>9. /\ Cardinality(assets201) \in Nat /\ Cardinality(rels201) \in Nat
        /\ Cardinality(Units(imports, created)) \in Nat /\ Cardinality(Units(imports, linked)) \in Nat
    <2>1. IsFiniteSet(assets201) /\ IsFiniteSet(rels201)
          BY AnswersGrow
    <2> HIDE DEF assets201, rels201, imports, created, linked
    <2>2. IsFiniteSet(Units(imports, created))
          BY <1>2, <1>7, UnitsFinite
    <2>3. IsFiniteSet(Units(imports, linked))
          BY <1>2, <1>7, UnitsFinite
    <2> QED BY <2>1, <2>2, <2>3, FS_CardinalityType
  <1>10. Importing(r) => Op(r) = "import_assets"
         BY DEF Importing
  <1> HIDE DEF assets201, rels201, imports, created, linked
  <1>11. /\ Cardinality(Units(imports \cup {r}, created)) = Cardinality(Units(imports, created)) + created[r]
         /\ Cardinality(Units(imports \cup {r}, linked)) = Cardinality(Units(imports, linked)) + linked[r]
    <2>1. \A s \in imports \cup {r} : created[s] \in Nat /\ linked[s] \in Nat
          BY <1>2, <1>7
    <2>2. IsFiniteSet(imports) /\ r \notin imports
          BY <1>7
    <2>3. Cardinality(Units(imports \cup {r}, created)) = Cardinality(Units(imports, created)) + created[r]
          BY <2>1, <2>2, UnitsOfOneMore
    <2>4. Cardinality(Units(imports \cup {r}, linked)) = Cardinality(Units(imports, linked)) + linked[r]
          BY <2>1, <2>2, UnitsOfOneMore
    <2> QED BY <2>3, <2>4
  <1>12. CASE Importing(r)
    <2>1. /\ Cardinality(AddedAssets(r)) = created[r] /\ Cardinality(AddedRels(r)) = linked[r]
          /\ Cardinality(assets201') = Cardinality(assets201)
          /\ Cardinality(rels201') = Cardinality(rels201)
          /\ imports' = imports \cup {r} /\ created[r] \in Nat /\ linked[r] \in Nat
          BY <1>2, <1>6, <1>7, <1>8, <1>10, <1>12
    <2>2. /\ Cardinality(Units(imports', created)) = Cardinality(Units(imports, created)) + created[r]
          /\ Cardinality(Units(imports', linked)) = Cardinality(Units(imports, linked)) + linked[r]
          BY <1>11, <2>1
    <2> HIDE DEF NewAssets, NewRels
    <2> QED BY <1>3, <1>5, <1>9, <2>1, <2>2
  <1>13. CASE ~ Importing(r)
    <2>1. imports' = imports
          BY <1>7, <1>13
    <2>2. /\ Cardinality(AddedAssets(r)) = IF Op(r) = "create_asset" THEN 1 ELSE 0
          /\ Cardinality(AddedRels(r)) = IF Op(r) = "create_relationship" THEN 1 ELSE 0
          BY <1>6, <1>13
    <2>3. /\ Cardinality(Units(imports', created)) = Cardinality(Units(imports, created))
          /\ Cardinality(Units(imports', linked)) = Cardinality(Units(imports, linked))
          BY <2>1
    <2>4. Cardinality(NewAssets') = Cardinality(assets201') + Cardinality(Units(imports', created))
          BY <1>3, <1>5, <1>8, <1>9, <2>2, <2>3
    <2>5. Cardinality(NewRels') = Cardinality(rels201') + Cardinality(Units(imports', linked))
          BY <1>3, <1>5, <1>8, <1>9, <2>2, <2>3
    <2> QED BY <1>5, <2>4, <2>5
  <1> QED BY <1>12, <1>13

(* Every other step leaves the account as it is.                           *)
LEMMA AccountStays ==
    ASSUME EffectInv, [Next]_vars, SeedsTaken, CountersMatchTables, UNCHANGED <<assets, rels>>,
           \A s \in Requests : pc[s] # "done" /\ pc'[s] = "done" => resp'[s] \notin {"200", "201"}
    PROVE  SeedsTaken' /\ CountersMatchTables'
  <1>1. ASSUME NEW s \in Requests, pc[s] = "done"
        PROVE  pc'[s] = "done" /\ resp'[s] = resp[s] /\ Op(s)' = Op(s) /\ imp'[s] = imp[s]
        BY <1>1, DoneStays DEF Op
  <1>2. ASSUME NEW op, NEW code \in {"200", "201"}
        PROVE  AnsweredWith(op, code)' = AnsweredWith(op, code)
        BY <1>1 DEF AnsweredWith
  <1> DEFINE created == [q \in Requests |-> imp[q].created]
             linked  == [q \in Requests |-> imp[q].linked]
             imports == AnsweredWith("import_assets", "200")
  <1>3. imports' = imports
        BY <1>2
  <1>4. \A s \in imports : created'[s] = created[s] /\ linked'[s] = linked[s]
        BY <1>1 DEF AnsweredWith
  <1>5. Units(imports', created') = Units(imports, created)
    <2> HIDE DEF created, linked, imports
    <2>1. PICK S, m, n : S = imports /\ m = created' /\ n = created
          OBVIOUS
    <2>2. \A s \in S : m[s] = n[s]
          BY <1>4, <2>1
    <2>3. Units(S, m) = Units(S, n)
          BY <2>2, UnitsAlike
    <2> QED BY <1>3, <2>1, <2>3
  <1>6. Units(imports', linked') = Units(imports, linked)
    <2> HIDE DEF created, linked, imports
    <2>1. PICK S, m, n : S = imports /\ m = linked' /\ n = linked
          OBVIOUS
    <2>2. \A s \in S : m[s] = n[s]
          BY <1>4, <2>1
    <2>3. Units(S, m) = Units(S, n)
          BY <2>2, UnitsAlike
    <2> QED BY <1>3, <2>1, <2>3
  <1>7. Units(imports, created)' = Units(imports', created') /\ Units(imports, linked)' = Units(imports', linked')
        BY DEF Units
  <1>8. NewAssets' = NewAssets /\ NewRels' = NewRels
        BY DEF NewAssets, NewRels
  <1>9. SeedsTaken'
        BY DEF SeedsTaken
  <1> QED BY <1>2, <1>5, <1>6, <1>7, <1>8, <1>9 DEF CountersMatchTables

LEMMA AccountInit ==
    ASSUME Init
    PROVE  SeedsTaken /\ CountersMatchTables /\ \A r \in Requests : CountersInOrder(r)
  <1>1. /\ assets = SeedAssets /\ rels = SeedRels
        /\ \A r \in Requests : pc[r] = "idle"
        BY DEF Init, StoreInit, SessionInit
  <1>2. \A r \in Requests : CountersInOrder(r)
        BY <1>1 DEF CountersInOrder, UnderWay, Stages
  <1>3. NewAssets = {} /\ NewRels = {}
        BY <1>1 DEF NewAssets, NewRels, IsRow
  <1>4. \A op, code : AnsweredWith(op, code) = {}
        BY <1>1 DEF AnsweredWith
  <1>5. CountersMatchTables
    <2>1. \A n : Units({}, n) = {}
          BY UnitsOfNone
    <2> QED BY <1>3, <1>4, <2>1, FS_EmptySet DEF CountersMatchTables
  <1> QED BY <1>1, <1>2, <1>5 DEF SeedsTaken

(* When nothing is deleted, and no answer is sent before its commit only   *)
(* to be rolled back, the counters of the answered imports and the 201s    *)
(* account for every row of the tables, however the requests overlap or    *)
(* fail: an import counts as created the rows it inserts and no others     *)
(* (import_pipeline.py:126,179,183-192).                                   *)
THEOREM CountersAddUp ==
    ASSUME NobodyDeletes, AnswersStand, TablesFinite
    PROVE  Spec => []CountersMatchTables
  <1>1. NobodyDeletes /\ AnswersStand /\ TablesFinite
        OBVIOUS
  <1> DEFINE J == SeedsTaken /\ CountersMatchTables /\ \A r \in Requests : CountersInOrder(r)
  <1>2. Init => J
        BY AccountInit
  <1>3. EffectInv /\ EffectInv' /\ J /\ [Next]_vars => J'
    <2> SUFFICES ASSUME EffectInv, EffectInv', J, [Next]_vars PROVE J'
        OBVIOUS
    <2>1. \A r \in Requests : CountersInOrder(r)'
          BY <1>1, CountersStep
    <2>2. SeedsTaken' /\ CountersMatchTables'
      <3>1. ASSUME NEW r \in Requests, Commit(r), UNCHANGED imp
            PROVE  SeedsTaken' /\ CountersMatchTables'
            BY <1>1, <3>1, CommitAccounts
      <3> QED BY <1>1, <3>1, SuccessIsCommitted, AccountStays
    <2> QED BY <2>1, <2>2
  <1>4. J => CountersMatchTables
        OBVIOUS
  <1> QED BY <1>2, <1>3, <1>4, EffectsAreWritten, PTL DEF Spec

-----------------------------------------------------------------------------
(* A repeated import: what its twin has left, and what it finds.           *)

(* The batches a tenant may send and, of one, the items of a key.          *)
Batches(t)    == {c \in Calls : c.op = "import_assets" /\ c.tenant = t}
ItemsOf(c, k) == {i \in Abstract!ValidItems(c) : KeyOf(c.items[i]) = k}

AddsNothing(c, k) ==
    \A i \in ItemsOf(c, k) :
        c.items[i].tags = {} /\ \A m \in MetaKeys : c.items[i].meta[m] = Nil

(* The tags and the metadata of an asset come from one batch.              *)
OneSource ==
    \A t \in Tenants, k \in Keys : \A c, d \in Batches(t) :
        c # d => AddsNothing(c, k) \/ AddsNothing(d, k)

IsLastEntry(c, k, i, m) ==
    /\ c.items[i].meta[m] # Nil
    /\ \A j \in ItemsOf(c, k) : j > i => c.items[j].meta[m] = Nil

(* The tags and the metadata to which no batch has anything to add.        *)
SettledTags(t, k) ==
    {v \in SUBSET Tags :
        \A c \in Batches(t) : \A i \in ItemsOf(c, k) : c.items[i].tags \subseteq v}
SettledMeta(t, k) ==
    {v \in [MetaKeys -> MetaVals \cup {Nil}] :
        \A c \in Batches(t) : \A i \in ItemsOf(c, k), m \in MetaKeys :
            IsLastEntry(c, k, i, m) => v[m] = c.items[i].meta[m]}

TagGiven(t, k, g) == \E c \in Batches(t) : \E i \in ItemsOf(c, k) : g \in c.items[i].tags
EntryGiven(t, k, m) == \E c \in Batches(t) : \E i \in ItemsOf(c, k) : c.items[i].meta[m] # Nil

(* Two rows differ at most in what a batch adds.                           *)
AlikeBeyond(t, k, row1, row2) ==
    /\ \A g \in Tags : ~ TagGiven(t, k, g) => (g \in row1.tags <=> g \in row2.tags)
    /\ \A m \in MetaKeys : ~ EntryGiven(t, k, m) => row1.meta[m] = row2.meta[m]

(* A column of a row that an import has loaded: it has written what it     *)
(* knows, or has found nothing to write, and then what it loaded was       *)
(* settled only if the column still is.                                    *)
Tracked(settled, own, seen, loaded, there, stored) ==
    \/ own /\ seen = loaded
    \/ there /\ seen = stored /\ (loaded \in settled => stored \in settled)

MergedItems(s) == IF pc[s] = "import_item" THEN Valid(s) \ imp[s].left ELSE Valid(s)
MergedItemsOf(s, k) == {i \in MergedItems(s) : KeyOf(Items(s)[i]) = k}

(* What the session holds has all that the items so far add.               *)
MergedSoFar(s, k, row) ==
    \A i \in MergedItemsOf(s, k) :
        /\ Items(s)[i].tags \subseteq row.tags
        /\ \A m \in MetaKeys :
              /\ Items(s)[i].meta[m] # Nil
              /\ \A j \in MergedItemsOf(s, k) : j > i => Items(s)[j].meta[m] = Nil
              => row.meta[m] = Items(s)[i].meta[m]

RowInOrder(s, a, t, k) ==
    /\ IsRow(Asset(s, a)) /\ Asset(s, a).tenant = t /\ Asset(s, a).key = k
    /\ MergedSoFar(s, k, orm[s][a])
    /\ Tracked(SettledTags(t, k), wa[s][a] # Nil, Asset(s, a).tags, orm[s][a].tags,
               IsRow(assets[a]), assets[a].tags)
    /\ Tracked(SettledMeta(t, k), wa[s][a] # Nil, Asset(s, a).meta, orm[s][a].meta,
               IsRow(assets[a]), assets[a].meta)
    /\ IsRow(assets[a]) =>
           /\ AlikeBeyond(t, k, orm[s][a], assets[a])
           /\ AlikeBeyond(t, k, Asset(s, a), assets[a])
           /\ AddsNothing(call[s], k) =>
                  Asset(s, a).tags = assets[a].tags /\ Asset(s, a).meta = assets[a].meta

AllActive(s) == \A i \in Valid(s) : Items(s)[i].status = "active"

ContentInOrder(s) ==
    UnderWay(s) =>
        /\ \A a, b \in AssetIds :
              orm[s][a] # Nil /\ orm[s][b] # Nil /\ orm[s][a].key = orm[s][b].key => a = b
        /\ \A i \in MergedItems(s), j \in Valid(s) \ MergedItems(s) : i < j
        /\ \A a \in AssetIds : orm[s][a] # Nil =>
              RowInOrder(s, a, call[s].tenant, orm[s][a].key)
        /\ \A a \in AssetIds : wa[s][a] # Nil =>
              orm[s][a] # Nil /\ (AllActive(s) => wa[s][a].status = "active")

(* What an answered import leaves in the tables.                           *)
IsAsset(a, t, k) == IsRow(assets[a]) /\ assets[a].tenant = t /\ assets[a].key = k

SettledRow(t, k, row) ==
    row.tags \in SettledTags(t, k) /\ row.meta \in SettledMeta(t, k)

IsEdge(x, t, srcKey, type, dstKey) ==
    /\ IsRow(rels[x]) /\ rels[x].type = type
    /\ IsAsset(rels[x].src, t, srcKey) /\ IsAsset(rels[x].dst, t, dstKey)

ItemStored(s, i) ==
    \E a \in AssetIds :
        /\ IsAsset(a, call[s].tenant, KeyOf(Items(s)[i]))
        /\ AllActive(s) => assets[a].status = "active"
        /\ \/ AddsNothing(call[s], assets[a].key)
           \/ SettledRow(call[s].tenant, assets[a].key, assets[a])

LinkStored(s, i, l, j) ==
    Items(s)[i].link[l] = Items(s)[j].id =>
        \E x \in RelIds, from, to \in Keys :
            /\ IsLinkOf(call[s], i, l, LinkTypes[l], from, to)
            /\ IsEdge(x, call[s].tenant, from, LinkTypes[l], to)

BatchStored(s) ==
    pc[s] = "done" /\ resp[s] = "200" /\ Importing(s) =>
        /\ \A i \in Valid(s) : ItemStored(s, i)
        /\ \A i, j \in Valid(s), l \in Links : LinkStored(s, i, l, j)

-----------------------------------------------------------------------------
(* Of the items that set an entry, one is the last.                        *)
LEMMA LastEntry ==
    ASSUME NEW c \in ApiCalls, c.op = "import_assets", NEW k, NEW m,
           NEW i \in ItemsOf(c, k), c.items[i].meta[m] # Nil
    PROVE  \E j \in ItemsOf(c, k) : IsLastEntry(c, k, j, m)
  <1>1. PICK n \in Nat : ItemsOf(c, k) \subseteq 1 .. n
    <2>1. c \in ImportCall
          BY CallsByOp
    <2> QED BY <2>1, BatchNumbered DEF ItemsOf
  <1> DEFINE S == {j \in ItemsOf(c, k) : c.items[j].meta[m] # Nil}
  <1>2. S \subseteq 1 .. n /\ S # {}
        BY <1>1
  <1> HIDE DEF S
  <1>3. PICK j \in S : \A h \in S : h <= j
        BY <1>2, GreatestExists
  <1>4. ASSUME NEW h \in ItemsOf(c, k), h > j, c.items[h].meta[m] # Nil
        PROVE  FALSE
    <2>1. h \in S /\ h \in Nat /\ j \in Nat
          BY <1>1, <1>2, <1>4 DEF S
    <2> QED BY <1>3, <1>4, <2>1
  <1> QED BY <1>3, <1>4 DEF IsLastEntry, S

-----------------------------------------------------------------------------
(* Two rows that differ at most in what a batch adds, and have it all.     *)
LEMMA SettledTagsAgree ==
    ASSUME NEW t, NEW k, NEW row1 \in AssetRow, NEW row2 \in AssetRow,
           AlikeBeyond(t, k, row1, row2),
           row1.tags \in SettledTags(t, k), row2.tags \in SettledTags(t, k)
    PROVE  row1.tags = row2.tags
  <1>1. row1.tags \subseteq Tags /\ row2.tags \subseteq Tags
        BY DEF AssetRow
  <1>2. ASSUME NEW g \in Tags, TagGiven(t, k, g)
        PROVE  g \in row1.tags /\ g \in row2.tags
        BY <1>2 DEF TagGiven, SettledTags
  <1>3. \A g \in Tags : g \in row1.tags <=> g \in row2.tags
        BY <1>2 DEF AlikeBeyond
  <1> QED BY <1>1, <1>3

LEMMA SettledMetaAgree ==
    ASSUME NEW t, NEW k, NEW row1 \in AssetRow, NEW row2 \in AssetRow,
           AlikeBeyond(t, k, row1, row2),
           row1.meta \in SettledMeta(t, k), row2.meta \in SettledMeta(t, k)
    PROVE  row1.meta = row2.meta
  <1>1. /\ row1.meta \in [MetaKeys -> MetaVals \cup {Nil}]
        /\ row2.meta \in [MetaKeys -> MetaVals \cup {Nil}]
        BY DEF AssetRow
  <1>2. ASSUME NEW m \in MetaKeys, EntryGiven(t, k, m)
        PROVE  row1.meta[m] = row2.meta[m]
    <2>1. PICK c \in Batches(t) : \E i \in ItemsOf(c, k) : c.items[i].meta[m] # Nil
          BY <1>2 DEF EntryGiven
    <2>2. c \in ApiCalls /\ c.op = "import_assets"
          BY CallAssumption DEF Batches
    <2>3. PICK j \in ItemsOf(c, k) : IsLastEntry(c, k, j, m)
          BY <2>1, <2>2, LastEntry
    <2>4. row1.meta[m] = c.items[j].meta[m] /\ row2.meta[m] = c.items[j].meta[m]
          BY <2>1, <2>3 DEF SettledMeta
    <2> QED BY <2>4
  <1>3. \A m \in MetaKeys : row1.meta[m] = row2.meta[m]
        BY <1>2 DEF AlikeBeyond
  <1> QED BY <1>1, <1>3

(* Merging an item changes nothing beyond what its batch adds.             *)
LEMMA MergeAlike ==
    ASSUME NEW t, NEW k, NEW c \in Batches(t), NEW i \in ItemsOf(c, k),
           NEW item \in Item, item = c.items[i], NEW row \in AssetRow, NEW time,
           NEW new, new = Merged(item, row, time)
    PROVE  /\ AlikeBeyond(t, k, new, row)
           /\ AddsNothing(c, k) => new.tags = row.tags /\ new.meta = row.meta
  <1>1. /\ new.tags = row.tags \cup item.tags
        /\ new.meta = MergeMeta(row.meta, item.meta)
        /\ row.meta \in [MetaKeys -> MetaVals \cup {Nil}]
        BY DEF Merged, AssetRow
  <1>2. \A m \in MetaKeys : new.meta[m] = IF item.meta[m] # Nil THEN item.meta[m] ELSE row.meta[m]
        BY <1>1 DEF MergeMeta
  <1>3. AlikeBeyond(t, k, new, row)
    <2>1. \A g \in item.tags : TagGiven(t, k, g)
          BY DEF TagGiven
    <2>2. \A m \in MetaKeys : item.meta[m] # Nil => EntryGiven(t, k, m)
          BY DEF EntryGiven
    <2> QED BY <1>1, <1>2, <2>1, <2>2 DEF AlikeBeyond
  <1>4. ASSUME AddsNothing(c, k)
        PROVE  new.tags = row.tags /\ new.meta = row.meta
    <2>1. item.tags = {} /\ \A m \in MetaKeys : item.meta[m] = Nil
          BY <1>4 DEF AddsNothing
    <2>2. new.meta = [m \in MetaKeys |-> row.meta[m]]
          BY <1>1, <2>1 DEF MergeMeta
    <2> QED BY <1>1, <2>1, <2>2
  <1> QED BY <1>3, <1>4

(* A flush writes the columns it changes and keeps track of the others.    *)
LEMMA FlushTracked ==
    ASSUME NEW settled, NEW own, NEW seen, NEW loaded, NEW there, NEW stored, NEW new,
           Tracked(settled, own, seen, loaded, there, stored)
    PROVE  Tracked(settled, TRUE, Dirty(new, loaded, seen), new, there, stored)
  BY DEF Tracked, Dirty

-----------------------------------------------------------------------------
(* What a commit does to the tags and the metadata of a row that is there. *)

(* Nobody sets tags or metadata by hand.                                   *)
NobodyRetags == \A c \in Calls : c.op = "update_asset" => c.tags = Nil /\ c.meta = Nil

ContentKept(t, k, row, new) ==
    /\ AlikeBeyond(t, k, new, row)
    /\ row.tags \in SettledTags(t, k) => new.tags \in SettledTags(t, k)
    /\ row.meta \in SettledMeta(t, k) => new.meta \in SettledMeta(t, k)

(* The items of a batch, and those of a request.                           *)
LEMMA ItemsFinished ==
    ASSUME NEW s \in Requests, pc[s] # "import_item", NEW k
    PROVE  MergedItemsOf(s, k) = ItemsOf(call[s], k)
  BY DEF MergedItemsOf, MergedItems, ItemsOf, Valid, Items, Abstract!ValidItems

(* When all items are merged, no batch has anything to add.                *)
LEMMA FinishedIsSettled ==
    ASSUME OneSource, NEW s \in Requests, pc[s] # "import_item",
           NEW t \in Tenants, NEW k \in Keys, call[s] \in Batches(t), ~ AddsNothing(call[s], k),
           NEW row \in AssetRow, MergedSoFar(s, k, row)
    PROVE  row.tags \in SettledTags(t, k) /\ row.meta \in SettledMeta(t, k)
  <1>1. PICK c : c = call[s]
        OBVIOUS
  <1>2. MergedItemsOf(s, k) = ItemsOf(c, k) /\ Items(s) = c.items
        BY <1>1, ItemsFinished DEF Items
  <1>3. \A d \in Batches(t) : d = c \/ AddsNothing(d, k)
        BY <1>1 DEF OneSource
  <1>4. \A i \in ItemsOf(c, k) :
           /\ c.items[i].tags \subseteq row.tags
           /\ \A m \in MetaKeys : IsLastEntry(c, k, i, m) => row.meta[m] = c.items[i].meta[m]
        BY <1>2 DEF MergedSoFar, IsLastEntry
  <1>5. \A d \in Batches(t) : \A i \in ItemsOf(d, k) :
           /\ d.items[i].tags \subseteq row.tags
           /\ \A m \in MetaKeys : IsLastEntry(d, k, i, m) => row.meta[m] = d.items[i].meta[m]
        BY <1>3, <1>4 DEF AddsNothing, IsLastEntry
  <1>6. row.tags \in SUBSET Tags /\ row.meta \in [MetaKeys -> MetaVals \cup {Nil}]
        BY DEF AssetRow
  <1> QED BY <1>5, <1>6 DEF SettledTags, SettledMeta

LEMMA SameContentKept ==
    ASSUME NEW t, NEW k, NEW row, NEW new, new.tags = row.tags, new.meta = row.meta
    PROVE  ContentKept(t, k, row, new)
  BY DEF ContentKept, AlikeBeyond

(* Calls other than imports leave tags and metadata as they are.           *)
LEMMA OthersKeepContent ==
    ASSUME NobodyDeletes, NobodyRetags, StoreTypeOK,
           NEW c \in Calls, c.op # "import_assets", Abstract!Effect(c),
           NEW a \in AssetIds, IsRow(assets[a])
    PROVE  assets'[a].tags = assets[a].tags /\ assets'[a].meta = assets[a].meta
  <1>1. assets \in [AssetIds -> AssetCell]
        BY DEF StoreTypeOK
  <1>2. CASE c.op = "create_asset" /\ Abstract!Create(c)
    <2>1. PICK b \in AssetIds : \E new : assets[b] = Nil /\ assets' = [assets EXCEPT ![b] = new]
          BY <1>2 DEF Abstract!Create
    <2> QED BY <1>1, <2>1 DEF IsRow
  <1>3. CASE c.op = "update_asset" /\ Abstract!Update(c)
    <2>1. c.tags = Nil /\ c.meta = Nil
          BY <1>3 DEF NobodyRetags
    <2> QED BY <1>3, <2>1 DEF Abstract!Update, Abstract!OnlyAsset, Abstract!Updated
  <1>4. CASE c.op = "update_status" /\ Abstract!Patch(c)
    <2>1. PICK b, status : assets' = [assets EXCEPT ![b].status = status]
          BY <1>4 DEF Abstract!Patch
    <2>2. assets[a] \in AssetRow
          BY <1>1 DEF AssetCell, IsRow
    <2> QED BY <1>1, <2>1, <2>2 DEF AssetRow
  <1>5. CASE c.op \notin {"create_asset", "update_asset", "update_status"}
    <2>1. assets' = assets
          BY <1>5 DEF Abstract!Effect, Abstract!Relate, Abstract!Unrelate, NobodyDeletes
    <2> QED BY <2>1
  <1> QED BY <1>2, <1>3, <1>4, <1>5 DEF Abstract!Effect

LEMMA CommitKeepsContent ==
    ASSUME NobodyDeletes, NobodyRetags, OneSource, EffectInv, EffectInv',
           NEW p \in Requests, Commit(p), ContentInOrder(p),
           NEW a \in AssetIds, IsRow(assets[a])
    PROVE  /\ IsRow(assets'[a]) /\ SameKey(assets'[a], assets[a])
           /\ ContentKept(assets[a].tenant, assets[a].key, assets[a], assets'[a])
  <1>1. PICK c, t, k : c = call[p] /\ t = assets[a].tenant /\ k = assets[a].key
        OBVIOUS
  <1>2. /\ c \in Calls /\ c \in ApiCalls /\ Abstract!Effect(c) /\ StoreTypeOK /\ StoreTypeOK'
        /\ StoreInv /\ SessionTypeOK
        BY <1>1, CommittedEffect, CallAssumption DEF EffectInv, ImportInv, ApiInv, TypeOK
  <1>3. IsRow(assets'[a]) /\ SameKey(assets'[a], assets[a])
        BY <1>2, EffectOnAsset DEF NobodyDeletes, SameKey, IsRow
  <1>4. CASE c.op # "import_assets"
        BY <1>1, <1>2, <1>3, <1>4, OthersKeepContent, SameContentKept
  <1>5. CASE wa[p][a] = Nil
    <2>1. assets'[a] = assets[a]
          BY <1>5 DEF Commit, CommitWrites, Asset
    <2> QED BY <1>3, <2>1, SameContentKept
  <1>6. CASE c.op = "import_assets" /\ wa[p][a] # Nil
    <2>1. UnderWay(p) /\ pc[p] = "commit"
          BY <1>1, <1>2, <1>6, CallAssumption DEF Commit, UnderWay, Importing, Op
    <2>2. PICK row, new : row = orm[p][a] /\ new = Asset(p, a)
          OBVIOUS
    <2>3. row # Nil /\ RowInOrder(p, a, c.tenant, row.key)
          BY <1>1, <1>6, <2>1, <2>2 DEF ContentInOrder
    <2>4. assets'[a] = new /\ new = wa[p][a]
          BY <1>6, <2>2 DEF Commit, CommitWrites, Asset
    <2>5. c.tenant = t /\ row.key = k
          BY <1>1, <1>3, <2>2, <2>3, <2>4 DEF RowInOrder, SameKey
    <2>6. row \in AssetRow /\ assets[a] \in AssetRow /\ t \in Tenants /\ k \in Keys
          BY <1>1, <1>2, <2>2, <2>3 DEF SessionTypeOK, StoreTypeOK, AssetCell, IsRow, AssetRow
    <2>7. c \in Batches(t)
          BY <1>2, <1>6, <2>5 DEF Batches
    <2>8. /\ AlikeBeyond(t, k, new, assets[a])
          /\ AddsNothing(c, k) => new.tags = assets[a].tags /\ new.meta = assets[a].meta
          BY <1>1, <2>2, <2>3, <2>5 DEF RowInOrder
    <2>9. ~ AddsNothing(c, k) => row.tags \in SettledTags(t, k) /\ row.meta \in SettledMeta(t, k)
      <3>1. MergedSoFar(p, k, row)
            BY <2>2, <2>3, <2>5 DEF RowInOrder
      <3> QED BY <1>1, <2>1, <2>6, <2>7, <3>1, FinishedIsSettled
    <2>10. /\ new.tags = row.tags \/ new.tags = assets[a].tags
           /\ new.meta = row.meta \/ new.meta = assets[a].meta
           BY <2>2, <2>3 DEF RowInOrder, Tracked
    <2>11. ContentKept(t, k, assets[a], new)
           BY <2>8, <2>9, <2>10 DEF ContentKept
    <2> QED BY <1>1, <1>3, <2>4, <2>11
  <1> QED BY <1>4, <1>5, <1>6

-----------------------------------------------------------------------------
(* What every step does to the tags and the metadata of a row.             *)
LEMMA TableKeepsContent ==
    ASSUME NobodyDeletes, NobodyRetags, OneSource, EffectInv, EffectInv', [Next]_vars,
           \A p \in Requests : ContentInOrder(p),
           NEW a \in AssetIds, IsRow(assets[a])
    PROVE  /\ IsRow(assets'[a]) /\ SameKey(assets'[a], assets[a])
           /\ ContentKept(assets[a].tenant, assets[a].key, assets[a], assets'[a])
  <1>1. CASE UNCHANGED <<assets, rels>>
        BY <1>1, SameContentKept DEF SameKey
  <1>2. ASSUME NEW p \in Requests, Commit(p)
        PROVE  /\ IsRow(assets'[a]) /\ SameKey(assets'[a], assets[a])
               /\ ContentKept(assets[a].tenant, assets[a].key, assets[a], assets'[a])
        BY <1>2, CommitKeepsContent
  <1> QED BY <1>1, <1>2, StepCommits

(* Others leave the rows an import works from in order.                    *)
LEMMA KeepsRow ==
    ASSUME NobodyDeletes, NobodyRetags, OneSource, EffectInv, EffectInv', [Next]_vars,
           \A p \in Requests : ContentInOrder(p),
           NEW s \in Requests, Keeps(s), NEW a \in AssetIds, NEW t, NEW k,
           RowInOrder(s, a, t, k)
    PROVE  RowInOrder(s, a, t, k)'
  <1>1. /\ pc'[s] = pc[s] /\ call'[s] = call[s] /\ orm'[s] = orm[s] /\ imp'[s] = imp[s]
        /\ wa'[s] = wa[s] /\ (wa[s][a] # Nil => assets'[a] = assets[a])
        BY DEF Keeps, Held
  <1>2. Items(s)' = Items(s) /\ MergedItemsOf(s, k)' = MergedItemsOf(s, k)
        BY <1>1 DEF Items, MergedItemsOf, MergedItems, Valid
  <1>3. MergedSoFar(s, k, orm[s][a])'
        BY <1>1, <1>2 DEF RowInOrder, MergedSoFar
  <1>4. CASE assets'[a] = assets[a]
    <2>1. Asset(s, a)' = Asset(s, a)
          BY <1>1, <1>4 DEF Asset
    <2> QED BY <1>1, <1>3, <1>4, <2>1 DEF RowInOrder
  <1>5. CASE wa[s][a] = Nil
    <2>1. PICK row, loaded, new : row = assets[a] /\ loaded = orm[s][a] /\ new = assets'[a]
          OBVIOUS
    <2>2. Asset(s, a) = row /\ Asset(s, a)' = new
          BY <1>1, <1>5, <2>1 DEF Asset
    <2>3. IsRow(row) /\ row.tenant = t /\ row.key = k /\ AlikeBeyond(t, k, loaded, row)
          BY <2>1, <2>2 DEF RowInOrder
    <2>4. IsRow(new) /\ new.tenant = t /\ new.key = k /\ ContentKept(t, k, row, new)
          BY <2>1, <2>3, TableKeepsContent DEF SameKey
    <2>5. /\ loaded.tags \in SettledTags(t, k) => row.tags \in SettledTags(t, k)
          /\ loaded.meta \in SettledMeta(t, k) => row.meta \in SettledMeta(t, k)
          BY <1>5, <2>1, <2>2 DEF RowInOrder, Tracked
    <2>6. /\ Tracked(SettledTags(t, k), FALSE, new.tags, loaded.tags, TRUE, new.tags)
          /\ Tracked(SettledMeta(t, k), FALSE, new.meta, loaded.meta, TRUE, new.meta)
          BY <2>4, <2>5 DEF Tracked, ContentKept
    <2>7. AlikeBeyond(t, k, loaded, new) /\ AlikeBeyond(t, k, new, new)
          BY <2>3, <2>4 DEF AlikeBeyond, ContentKept
    <2>8. (IsRow(assets[a]))' /\ (wa[s][a] = Nil)' /\ (assets[a])' = new /\ (orm[s][a])' = loaded
          BY <1>1, <1>5, <2>1, <2>4
    <2>9. /\ Tracked(SettledTags(t, k), wa[s][a] # Nil, Asset(s, a).tags, orm[s][a].tags,
                     IsRow(assets[a]), assets[a].tags)'
          /\ Tracked(SettledMeta(t, k), wa[s][a] # Nil, Asset(s, a).meta, orm[s][a].meta,
                     IsRow(assets[a]), assets[a].meta)'
          BY <2>2, <2>6, <2>8 DEF Tracked
    <2> QED BY <1>3, <2>2, <2>4, <2>7, <2>8, <2>9 DEF RowInOrder
  <1> QED BY <1>1, <1>4, <1>5

LEMMA KeepsContent ==
    ASSUME NobodyDeletes, NobodyRetags, OneSource, EffectInv, EffectInv', [Next]_vars,
           \A p \in Requests : ContentInOrder(p),
           NEW s \in Requests, Keeps(s)
    PROVE  ContentInOrder(s)'
  <1>1. /\ pc'[s] = pc[s] /\ call'[s] = call[s] /\ orm'[s] = orm[s] /\ imp'[s] = imp[s]
        /\ wa'[s] = wa[s]
        BY DEF Keeps, Held
  <1>2. /\ Valid(s)' = Valid(s) /\ MergedItems(s)' = MergedItems(s)
        /\ UnderWay(s)' <=> UnderWay(s)
        /\ AllActive(s)' <=> AllActive(s)
        BY <1>1 DEF Items, MergedItems, Valid, UnderWay, Importing, Op, AllActive
  <1>3. ASSUME UnderWay(s), NEW a \in AssetIds, orm[s][a] # Nil
        PROVE  RowInOrder(s, a, call[s].tenant, orm[s][a].key)'
    <2>1. PICK t, k : t = call[s].tenant /\ k = orm[s][a].key
          OBVIOUS
    <2>2. RowInOrder(s, a, t, k)
          BY <1>3, <2>1 DEF ContentInOrder
    <2>3. RowInOrder(s, a, t, k)'
          BY <2>2, KeepsRow
    <2> QED BY <1>1, <2>1, <2>3
  <1> QED BY <1>1, <1>2, <1>3 DEF ContentInOrder

-----------------------------------------------------------------------------
(* An import begins with the rows as they are, and none of its items merged.*)
LEMMA LookupContent ==
    ASSUME EffectInv, NEW s \in Requests, LookupItems(s), UnderWay(s)'
    PROVE  ContentInOrder(s)'
  <1>1. ImportStep(s) /\ pc[s] = "import_assets"
        BY DEF ImportStep, LookupItems
  <1>2. /\ StoreTypeOK /\ StoreInv /\ SessionTypeOK /\ ImportTypeOK /\ NothingWritten(s)
        BY <1>1, ImportStepFacts DEF EffectInOrder
  <1>3. ~ Raise(s, "ValidationError")
        BY <1>2 DEF Raise, SessionTypeOK, UnderWay, Stages
  <1>4. PICK t, found :
           /\ t = call[s].tenant /\ \E keys : found = AssetsByKey(s, t, keys)
           /\ orm' = [orm EXCEPT ![s] = [a \in AssetIds |-> IF a \in found THEN Asset(s, a) ELSE Nil]]
    <2>1. PICK t, keys, found :
             /\ t = call[s].tenant /\ keys = {KeyOf(Items(s)[i]) : i \in Valid(s)}
             /\ found = AssetsByKey(s, t, keys)
          OBVIOUS
    <2>2. orm' = [orm EXCEPT ![s] = [a \in AssetIds |-> IF a \in found THEN Asset(s, a) ELSE Nil]]
          BY <1>3, <2>1 DEF LookupItems
    <2> QED BY <2>1, <2>2
  <1>5. /\ UNCHANGED storeVars /\ UNCHANGED call
        /\ imp' = [imp EXCEPT ![s] = StartOf(Valid(s))]
        /\ IF Valid(s) = {} THEN Reply(s, "200") ELSE Goto(s, "import_item")
        BY <1>3 DEF LookupItems
  <1>6. \A a \in AssetIds : wa'[s][a] = Nil /\ Asset(s, a) = assets[a] /\ Asset(s, a)' = assets[a]
        BY <1>2, <1>5 DEF NothingWritten, WritesOnly, storeVars, Asset
  <1>7. \A a \in AssetIds : orm'[s][a] = IF a \in found THEN Asset(s, a) ELSE Nil
        BY <1>2, <1>4 DEF SessionTypeOK
  <1>8. \A a \in AssetIds : orm'[s][a] # Nil =>
           orm'[s][a] = assets[a] /\ IsRow(assets[a]) /\ assets[a].tenant = t
        BY <1>4, <1>6, <1>7 DEF AssetsByKey, HasAsset, AssetRows
  <1>9. MergedItems(s)' = {}
    <2>1. Valid(s)' = Valid(s)
          BY <1>5 DEF Valid, Items
    <2>2. imp'[s].left = Valid(s)
          BY <1>2, <1>5 DEF ImportTypeOK, StartOf
    <2>3. pc'[s] = IF Valid(s) = {} THEN "commit" ELSE "import_item"
          BY <1>2, <1>5 DEF Reply, Goto, SessionTypeOK
    <2> QED BY <2>1, <2>2, <2>3 DEF MergedItems
  <1>10. ASSUME NEW a \in AssetIds, NEW b \in AssetIds,
                orm'[s][a] # Nil, orm'[s][b] # Nil, orm'[s][a].key = orm'[s][b].key
         PROVE  a = b
    <2>1. IsRow(assets[a]) /\ IsRow(assets[b]) /\ SameKey(assets[a], assets[b])
          BY <1>8, <1>10 DEF SameKey
    <2> QED BY <1>2, <2>1 DEF StoreInv, NoDuplicateRows, UniqueRows
  <1>11. ASSUME NEW a \in AssetIds, orm'[s][a] # Nil
         PROVE  RowInOrder(s, a, call[s].tenant, orm[s][a].key)'
    <2>1. PICK row, k : row = assets[a] /\ k = row.key
          OBVIOUS
    <2>2. /\ orm'[s][a] = row /\ IsRow(row) /\ row.tenant = t /\ assets'[a] = row
          /\ Asset(s, a)' = row /\ wa'[s][a] = Nil /\ call'[s].tenant = t
          BY <1>4, <1>5, <1>6, <1>8, <1>11, <2>1 DEF storeVars
    <2>3. MergedSoFar(s, k, row)'
          BY <1>9 DEF MergedSoFar, MergedItemsOf
    <2>4. /\ Tracked(SettledTags(t, k), FALSE, row.tags, row.tags, TRUE, row.tags)
          /\ Tracked(SettledMeta(t, k), FALSE, row.meta, row.meta, TRUE, row.meta)
          /\ AlikeBeyond(t, k, row, row)
          BY DEF Tracked, AlikeBeyond
    <2>5. RowInOrder(s, a, t, k)'
          BY <2>1, <2>2, <2>3, <2>4 DEF RowInOrder, Tracked
    <2> QED BY <2>1, <2>2, <2>5
  <1> QED BY <1>6, <1>9, <1>10, <1>11 DEF ContentInOrder

-----------------------------------------------------------------------------
(* Stage 4 takes the items of its batch in their order.                    *)
LEMMA FlushedItems ==
    ASSUME EffectInv, NEW s \in Requests, ImportStep(s), pc[s] = "import_item", ContentInOrder(s),
           NEW i \in Valid(s), IsNext(i, imp[s].left), NEW a, NEW row, Flushed(s, i, a, row)
    PROVE  /\ Items(s)' = Items(s) /\ Valid(s)' = Valid(s)
           /\ i \notin MergedItems(s) /\ MergedItems(s)' = MergedItems(s) \cup {i}
           /\ \A f \in MergedItems(s) : f < i
           /\ \A f \in MergedItems(s)', j \in Valid(s) \ MergedItems(s)' : f < j
  <1>1. /\ SessionTypeOK /\ imp \in [Requests -> Locals] /\ UNCHANGED call
        /\ Valid(s) \subseteq Nat
        BY ImportStepFacts, BatchFacts DEF ImportTypeOK
  <1>2. Items(s)' = Items(s) /\ Valid(s)' = Valid(s)
        BY <1>1 DEF Items, Valid
  <1>3. MergedItems(s) = Valid(s) \ imp[s].left /\ i \in imp[s].left
        BY DEF MergedItems, IsNext
  <1>4. imp'[s].left = imp[s].left \ {i}
        BY <1>1 DEF Flushed, Locals
  <1>5. pc'[s] = IF imp[s].left = {i} THEN "import_edges" ELSE "import_item"
        BY <1>1 DEF Flushed, Goto, SessionTypeOK
  <1>6. MergedItems(s)' = MergedItems(s) \cup {i}
    <2>1. CASE imp[s].left = {i}
          BY <1>2, <1>3, <1>5, <2>1 DEF MergedItems
    <2>2. CASE imp[s].left # {i}
          BY <1>2, <1>3, <1>4, <1>5, <2>2 DEF MergedItems
    <2> QED BY <2>1, <2>2
  <1>7. \A f \in MergedItems(s), j \in Valid(s) \ MergedItems(s) : f < j
        BY DEF ContentInOrder, UnderWay, Stages
  <1>8. i \notin MergedItems(s) /\ \A f \in MergedItems(s) : f < i
        BY <1>3, <1>7
  <1>9. ASSUME NEW f \in MergedItems(s) \cup {i}, NEW j \in Valid(s) \ (MergedItems(s) \cup {i})
        PROVE  f < j
    <2>1. CASE f \in MergedItems(s)
          BY <1>7, <2>1
    <2>2. CASE f = i
      <3>1. j \in imp[s].left /\ j # i
            BY <1>3
      <3>2. i <= j /\ i \in Nat /\ j \in Nat
            BY <1>1, <3>1 DEF IsNext
      <3> QED BY <2>2, <3>1, <3>2
    <2> QED BY <2>1, <2>2
  <1> QED BY <1>2, <1>6, <1>8, <1>9

(* One row is flushed; the others stay what they are.                      *)
LEMMA FlushedContent ==
    ASSUME EffectInv, NEW s \in Requests, ImportStep(s), pc[s] = "import_item", ContentInOrder(s),
           NEW i \in Valid(s), IsNext(i, imp[s].left), NEW a \in AssetIds,
           NEW row, NEW written, Flushed(s, i, a, row),
           wa' = [wa EXCEPT ![s][a] = written], UNCHANGED <<assets, rels, wr>>,
           row # Nil, row.key = KeyOf(Items(s)[i]), Existing(s, row.key) \subseteq {a},
           RowInOrder(s, a, call[s].tenant, row.key)',
           AllActive(s) => written.status = "active"
    PROVE  ContentInOrder(s)'
  <1>1. /\ StoreTypeOK /\ SessionTypeOK /\ UNCHANGED call
        BY ImportStepFacts
  <1>2. /\ orm'[s][a] = row /\ wa'[s][a] = written
        /\ \A b \in AssetIds \ {a} : orm'[s][b] = orm[s][b] /\ wa'[s][b] = wa[s][b]
        BY <1>1 DEF Flushed, StoreTypeOK, SessionTypeOK
  <1>3. /\ Items(s)' = Items(s) /\ Valid(s)' = Valid(s)
        /\ MergedItems(s)' = MergedItems(s) \cup {i}
        /\ \A f \in MergedItems(s)', j \in Valid(s) \ MergedItems(s)' : f < j
        BY FlushedItems
  <1>4. AllActive(s)' <=> AllActive(s)
        BY <1>3 DEF AllActive
  <1>5. ASSUME NEW b \in AssetIds \ {a}, orm[s][b] # Nil
        PROVE  orm[s][b].key # row.key /\ RowInOrder(s, b, call[s].tenant, orm[s][b].key)'
    <2>1. PICK t, k : t = call[s].tenant /\ k = orm[s][b].key
          OBVIOUS
    <2>2. k # row.key
          BY <1>5, <2>1 DEF Existing
    <2>3. RowInOrder(s, b, t, k)
          BY <1>5, <2>1 DEF ContentInOrder, UnderWay, Stages
    <2>4. MergedItemsOf(s, k)' = MergedItemsOf(s, k)
          BY <1>3, <2>2 DEF MergedItemsOf
    <2>5. MergedSoFar(s, k, orm[s][b])'
          BY <1>2, <1>3, <2>3, <2>4 DEF RowInOrder, MergedSoFar
    <2>6. Asset(s, b)' = Asset(s, b) /\ assets'[b] = assets[b]
          BY <1>2 DEF Asset
    <2>7. RowInOrder(s, b, t, k)'
          BY <1>1, <1>2, <2>3, <2>5, <2>6 DEF RowInOrder
    <2>8. call'[s].tenant = t /\ orm'[s][b].key = k
          BY <1>1, <1>2, <2>1
    <2> QED BY <2>1, <2>2, <2>7, <2>8
  <1>6. \A b, c \in AssetIds :
           orm'[s][b] # Nil /\ orm'[s][c] # Nil /\ orm'[s][b].key = orm'[s][c].key => b = c
    <2>1. \A b, c \in AssetIds :
             orm[s][b] # Nil /\ orm[s][c] # Nil /\ orm[s][b].key = orm[s][c].key => b = c
          BY DEF ContentInOrder, UnderWay, Stages
    <2>2. \A b \in AssetIds \ {a} : orm[s][b] # Nil => orm[s][b].key # row.key
          BY <1>5
    <2> QED BY <1>2, <2>1, <2>2
  <1>7. \A b \in AssetIds : orm'[s][b] # Nil => RowInOrder(s, b, call[s].tenant, orm[s][b].key)'
    <2>1. \A b \in AssetIds \ {a} : orm'[s][b] # Nil =>
             RowInOrder(s, b, call[s].tenant, orm[s][b].key)'
          BY <1>2, <1>5
    <2>2. RowInOrder(s, a, call[s].tenant, orm[s][a].key)'
          BY <1>2
    <2> QED BY <2>1, <2>2
  <1>8. \A b \in AssetIds : wa'[s][b] # Nil =>
           orm'[s][b] # Nil /\ (AllActive(s) => wa'[s][b].status = "active")
    <2>1. \A b \in AssetIds : wa[s][b] # Nil =>
             orm[s][b] # Nil /\ (AllActive(s) => wa[s][b].status = "active")
          BY DEF ContentInOrder, UnderWay, Stages
    <2> QED BY <1>2, <2>1
  <1> QED BY <1>3, <1>4, <1>6, <1>7, <1>8 DEF ContentInOrder

(* An item that is merged into the row of its key, as that was loaded.     *)
LEMMA MergeContent ==
    ASSUME EffectInv, NEW s \in Requests, MergeItem(s), ContentInOrder(s), ActiveInOrder(s),
           UnderWay(s)'
    PROVE  ContentInOrder(s)'
  <1>1. ImportStep(s) /\ pc[s] = "import_item"
        BY DEF ImportStep, MergeItem
  <1>2. /\ StoreTypeOK /\ SessionTypeOK /\ call[s] \in ImportCall /\ call[s] \in Calls
        /\ call[s].op = "import_assets" /\ LoadedActive(s)
        BY <1>1, ImportStepFacts DEF ActiveInOrder, SessionTypeOK, Stages
  <1>3. PICK i \in Valid(s), a \in AssetIds :
           /\ a \in Existing(s, KeyOf(Items(s)[i])) /\ IsNext(i, imp[s].left)
           /\ \/ /\ FlushAsset(s, a, Merged(Items(s)[i], orm[s][a], now[s]))
                 /\ Flushed(s, i, a, Merged(Items(s)[i], orm[s][a], now[s]))
              \/ FlushFails(s, a)
        BY DEF MergeItem, Existing
  <1>4. ~ FlushFails(s, a)
        BY <1>2 DEF FlushFails, Raise, SessionTypeOK, UnderWay, Stages
  <1>5. PICK c, item, loaded, current, time, t, k :
           /\ c = call[s] /\ item = c.items[i] /\ loaded = orm[s][a]
           /\ current = Asset(s, a) /\ time = now[s] /\ t = c.tenant /\ k = KeyOf(item)
        OBVIOUS
  <1>6. PICK row, written :
           row = Merged(item, loaded, time) /\ written = DirtyColumns(row, loaded, current)
        OBVIOUS
  <1>7. /\ FlushAsset(s, a, row) /\ Flushed(s, i, a, row)
        /\ loaded # Nil /\ loaded.key = k
        BY <1>3, <1>4, <1>5, <1>6 DEF Items, Existing
  <1>8. /\ loaded \in AssetRow /\ current \in AssetRow /\ item \in Item /\ time \in Times
        /\ IsRow(current)
        BY <1>2, <1>3, <1>5, <1>7, BatchFacts DEF FlushAsset, UpdateAsset, AssetRows, IsRow,
           Asset, AssetCell, StoreTypeOK, SessionTypeOK, Items
  <1>9. /\ row \in AssetRow /\ written \in AssetRow /\ SameKey(written, current)
        BY <1>6, <1>8, MergedRow, DirtyColumnsFit
  <1>10. row # Nil /\ IsRow(written) /\ written # Nil
         BY <1>9, NilAssumption DEF IsRow
  <1>11. wa' = [wa EXCEPT ![s][a] = written] /\ UNCHANGED <<assets, rels, wr>>
         BY <1>5, <1>6, <1>7 DEF FlushAsset, UpdateAsset
  <1>12. /\ wa'[s][a] = written /\ Asset(s, a)' = written /\ orm'[s][a] = row
         /\ assets'[a] = assets[a] /\ call'[s] = c
         BY <1>1, <1>2, <1>5, <1>7, <1>10, <1>11, ImportStepFacts
            DEF Asset, StoreTypeOK, SessionTypeOK, Flushed
  <1>13. /\ row.status = "active" /\ row.key = k
         /\ row.tags = loaded.tags \cup item.tags /\ row.meta = MergeMeta(loaded.meta, item.meta)
         BY <1>6, <1>7, <1>8 DEF Merged, AssetRow, Statuses
  <1>14. written.status = "active"
    <2>1. loaded.status = "active" => current.status = "active"
          BY <1>2, <1>3, <1>5, <1>7, <1>8 DEF LoadedActive
    <2> QED BY <1>6, <1>8, <1>13, <2>1 DEF DirtyColumns, Dirty, AssetRow
  <1>15. /\ written.tags = Dirty(row.tags, loaded.tags, current.tags)
         /\ written.meta = Dirty(row.meta, loaded.meta, current.meta)
         BY <1>6, <1>8 DEF DirtyColumns, AssetRow
  <1>16. RowInOrder(s, a, t, k)
         BY <1>1, <1>5, <1>7 DEF ContentInOrder, UnderWay, Stages
  <1>17. c \in Batches(t) /\ i \in ItemsOf(c, k)
         BY <1>2, <1>3, <1>5 DEF Batches, ItemsOf, Abstract!ValidItems, Valid, Items
  <1>18. /\ AlikeBeyond(t, k, row, loaded)
         /\ AddsNothing(c, k) => row.tags = loaded.tags /\ row.meta = loaded.meta
         BY <1>5, <1>6, <1>8, <1>17, MergeAlike
  <1>19. MergedSoFar(s, k, row)'
    <2>1. /\ Items(s)' = Items(s) /\ MergedItems(s)' = MergedItems(s) \cup {i}
          /\ i \notin MergedItems(s) /\ \A f \in MergedItems(s) : f < i
          BY <1>1, <1>3, <1>7, FlushedItems
    <2>2. MergedItemsOf(s, k)' = MergedItemsOf(s, k) \cup {i} /\ Items(s)[i] = item
          BY <1>5, <2>1 DEF MergedItemsOf, Items
    <2>3. \A m \in MetaKeys : row.meta[m] = IF item.meta[m] # Nil THEN item.meta[m] ELSE loaded.meta[m]
          BY <1>13 DEF MergeMeta
    <2>4. MergedSoFar(s, k, loaded)
          BY <1>5, <1>16 DEF RowInOrder
    <2>5. ASSUME NEW f \in MergedItemsOf(s, k)
          PROVE  /\ Items(s)[f].tags \subseteq row.tags
                 /\ \A m \in MetaKeys :
                       /\ Items(s)[f].meta[m] # Nil
                       /\ \A j \in MergedItemsOf(s, k) \cup {i} : j > f => Items(s)[j].meta[m] = Nil
                       => row.meta[m] = Items(s)[f].meta[m]
      <3>1. i > f
            BY <2>1 DEF MergedItemsOf
      <3>2. /\ Items(s)[f].tags \subseteq loaded.tags
            /\ \A m \in MetaKeys :
                  /\ Items(s)[f].meta[m] # Nil
                  /\ \A j \in MergedItemsOf(s, k) : j > f => Items(s)[j].meta[m] = Nil
                  => loaded.meta[m] = Items(s)[f].meta[m]
            BY <2>4 DEF MergedSoFar
      <3> QED BY <1>13, <2>2, <2>3, <3>1, <3>2
    <2>6. /\ Items(s)[i].tags \subseteq row.tags
          /\ \A m \in MetaKeys : Items(s)[i].meta[m] # Nil => row.meta[m] = Items(s)[i].meta[m]
          BY <1>13, <2>2, <2>3
    <2> QED BY <2>1, <2>2, <2>5, <2>6 DEF MergedSoFar
  <1>20. /\ Tracked(SettledTags(t, k), TRUE, written.tags, row.tags, IsRow(assets[a]), assets[a].tags)
         /\ Tracked(SettledMeta(t, k), TRUE, written.meta, row.meta, IsRow(assets[a]), assets[a].meta)
    <2>1. /\ Tracked(SettledTags(t, k), wa[s][a] # Nil, current.tags, loaded.tags,
                     IsRow(assets[a]), assets[a].tags)
          /\ Tracked(SettledMeta(t, k), wa[s][a] # Nil, current.meta, loaded.meta,
                     IsRow(assets[a]), assets[a].meta)
          BY <1>5, <1>16 DEF RowInOrder
    <2> QED BY <1>15, <2>1, FlushTracked
  <1>21. ASSUME IsRow(assets[a])
         PROVE  /\ AlikeBeyond(t, k, row, assets[a]) /\ AlikeBeyond(t, k, written, assets[a])
                /\ AddsNothing(c, k) =>
                      written.tags = assets[a].tags /\ written.meta = assets[a].meta
    <2>1. /\ AlikeBeyond(t, k, loaded, assets[a]) /\ AlikeBeyond(t, k, current, assets[a])
          /\ AddsNothing(c, k) =>
                current.tags = assets[a].tags /\ current.meta = assets[a].meta
          BY <1>5, <1>16, <1>21 DEF RowInOrder
    <2>2. AlikeBeyond(t, k, row, assets[a])
          BY <1>18, <2>1 DEF AlikeBeyond
    <2>3. /\ written.tags = row.tags \/ written.tags = current.tags
          /\ written.meta = row.meta \/ written.meta = current.meta
          BY <1>15 DEF Dirty
    <2>4. AlikeBeyond(t, k, written, assets[a])
          BY <2>1, <2>2, <2>3 DEF AlikeBeyond
    <2>5. AddsNothing(c, k) => written.tags = current.tags /\ written.meta = current.meta
          BY <1>15, <1>18 DEF Dirty
    <2> QED BY <2>1, <2>2, <2>4, <2>5
  <1>22. written.tenant = t /\ written.key = k
         BY <1>5, <1>9, <1>16 DEF RowInOrder, SameKey
  <1>23. RowInOrder(s, a, t, k)'
         BY <1>10, <1>12, <1>19, <1>20, <1>21, <1>22 DEF RowInOrder, Tracked
  <1>24. Existing(s, k) \subseteq {a}
         BY <1>1, <1>5, <1>7 DEF Existing, ContentInOrder, UnderWay, Stages
  <1>25. /\ row.key = KeyOf(Items(s)[i]) /\ Existing(s, row.key) \subseteq {a}
         /\ RowInOrder(s, a, call[s].tenant, row.key)'
    <2>1. Items(s)[i] = item
          BY <1>5 DEF Items
    <2> QED BY <1>5, <1>12, <1>13, <1>23, <1>24, <2>1
  <1> QED BY <1>1, <1>3, <1>7, <1>10, <1>11, <1>14, <1>25, FlushedContent

(* An item that is inserted, because the batch has no row of its key.      *)
LEMMA CreateContent ==
    ASSUME EffectInv, NEW s \in Requests, CreateItem(s), ContentInOrder(s), UnderWay(s)'
    PROVE  ContentInOrder(s)'
  <1>1. ImportStep(s) /\ pc[s] = "import_item"
        BY DEF ImportStep, CreateItem
  <1>2. /\ StoreTypeOK /\ SessionTypeOK /\ call[s] \in ImportCall /\ call[s].tenant \in Tenants
        /\ BatchInOrder(s) /\ UNCHANGED call
        BY <1>1, ImportStepFacts, BatchFacts DEF EffectInOrder, Stages
  <1>3. PICK i \in Valid(s) : \E row :
           /\ row = Created(call[s].tenant, Items(s)[i], now[s])
           /\ IsNext(i, imp[s].left) /\ Existing(s, row.key) = {}
           /\ \/ \E a \in AssetIds : InsertAsset(s, a, row) /\ Flushed(s, i, a, row)
              \/ Raise(s, "IntegrityError")
        BY DEF CreateItem
  <1> PICK row :
           /\ row = Created(call[s].tenant, Items(s)[i], now[s])
           /\ IsNext(i, imp[s].left) /\ Existing(s, row.key) = {}
           /\ \/ \E a \in AssetIds : InsertAsset(s, a, row) /\ Flushed(s, i, a, row)
              \/ Raise(s, "IntegrityError")
        BY <1>3
  <1>4. ~ Raise(s, "IntegrityError")
        BY <1>2 DEF Raise, SessionTypeOK, UnderWay, Stages
  <1>5. PICK a \in AssetIds : InsertAsset(s, a, row) /\ Flushed(s, i, a, row)
        BY <1>3, <1>4
  <1>6. PICK item, t, k : item = Items(s)[i] /\ t = call[s].tenant /\ k = KeyOf(item)
        OBVIOUS
  <1>7. /\ item \in Item /\ row \in AssetRow /\ row.tenant = t /\ row.key = k
        /\ row.status = item.status /\ row.tags = item.tags /\ row.meta = item.meta
    <2>1. item \in Item /\ now[s] \in Times
          BY <1>2, <1>6, BatchFacts DEF SessionTypeOK
    <2>2. row = Created(t, item, now[s])
          BY <1>3, <1>6
    <2>3. row \in AssetRow
          BY <1>2, <1>6, <2>1, <2>2, CreatedRow
    <2> QED BY <1>6, <2>1, <2>2, <2>3 DEF Created
  <1>8. IsRow(row) /\ row # Nil
        BY <1>7, NilAssumption DEF IsRow
  <1>9. wa' = [wa EXCEPT ![s][a] = row] /\ UNCHANGED <<assets, rels, wr>> /\ assets[a] = Nil
        BY <1>5 DEF InsertAsset, FreshAssets
  <1>10. /\ wa'[s][a] = row /\ Asset(s, a)' = row /\ orm'[s][a] = row /\ ~ IsRow(assets'[a])
         /\ call'[s].tenant = t
         BY <1>2, <1>5, <1>6, <1>8, <1>9 DEF Asset, StoreTypeOK, SessionTypeOK, Flushed, IsRow
  <1>11. MergedItemsOf(s, k) = {}
    <2> SUFFICES ASSUME NEW f \in MergedItemsOf(s, k) PROVE FALSE
        OBVIOUS
    <2>1. f \in Valid(s) \ imp[s].left /\ KeyOf(Items(s)[f]) = k
          BY <1>1 DEF MergedItemsOf, MergedItems
    <2>2. PICK b \in AssetIds : IsRow(wa[s][b]) /\ wa[s][b].key = k
          BY <1>2, <2>1 DEF BatchInOrder, ItemsWritten, Items
    <2>3. wa[s][b] # Nil /\ Asset(s, b) = wa[s][b]
          BY <2>2 DEF Asset, IsRow
    <2>4. orm[s][b] # Nil /\ RowInOrder(s, b, call[s].tenant, orm[s][b].key)
          BY <1>1, <2>3 DEF ContentInOrder, UnderWay, Stages
    <2>5. orm[s][b].key = k
          BY <2>2, <2>3, <2>4 DEF RowInOrder
    <2> QED BY <1>3, <1>7, <2>4, <2>5 DEF Existing
  <1>12. MergedSoFar(s, k, row)'
    <2>1. Items(s)' = Items(s) /\ MergedItems(s)' = MergedItems(s) \cup {i}
          BY <1>1, <1>3, <1>5, FlushedItems
    <2>2. MergedItemsOf(s, k)' = {i} /\ Items(s)'[i] = item
          BY <1>6, <1>11, <2>1 DEF MergedItemsOf
    <2> QED BY <1>7, <2>2 DEF MergedSoFar
  <1>13. RowInOrder(s, a, t, k)'
         BY <1>7, <1>8, <1>10, <1>12 DEF RowInOrder, Tracked
  <1>14. AllActive(s) => row.status = "active"
         BY <1>6, <1>7 DEF AllActive
  <1>15. /\ row.key = KeyOf(Items(s)[i]) /\ Existing(s, row.key) \subseteq {a}
         /\ RowInOrder(s, a, call[s].tenant, row.key)'
         BY <1>3, <1>6, <1>7, <1>10, <1>13
  <1> QED BY <1>1, <1>3, <1>5, <1>8, <1>9, <1>14, <1>15, FlushedContent

(* Stage 5 touches no asset.                                               *)
LEMMA EdgesKeepContent ==
    ASSUME EffectInv, NEW s \in Requests, MapEdges(s) \/ InsertLink(s), ContentInOrder(s),
           UnderWay(s)'
    PROVE  ContentInOrder(s)'
  <1>1. pc[s] \in {"import_edges", "import_link"} /\ SessionTypeOK /\ UNCHANGED <<call, orm>>
        BY DEF MapEdges, InsertLink, EffectInv, ImportInv, ApiInv, TypeOK
  <1>2. ~ Raise(s, "IntegrityError")
        BY <1>1 DEF Raise, SessionTypeOK, UnderWay, Stages
  <1>3. UNCHANGED <<assets, wa>> /\ pc'[s] \in {"import_link", "commit"}
    <2>1. Reply(s, "200") \/ Goto(s, "import_link")
          BY <1>2 DEF MapEdges, InsertLink
    <2>2. UNCHANGED <<assets, wa>>
          BY <1>2 DEF MapEdges, InsertLink, InsertRel, storeVars
    <2> QED BY <1>1, <2>1, <2>2 DEF Reply, Goto, SessionTypeOK
  <1>4. /\ Items(s)' = Items(s) /\ Valid(s)' = Valid(s) /\ MergedItems(s)' = MergedItems(s)
        /\ AllActive(s)' <=> AllActive(s)
        BY <1>1, <1>3 DEF Items, Valid, MergedItems, AllActive
  <1>5. ASSUME NEW a \in AssetIds, orm[s][a] # Nil
        PROVE  RowInOrder(s, a, call[s].tenant, orm[s][a].key)'
    <2>1. PICK t, k : t = call[s].tenant /\ k = orm[s][a].key
          OBVIOUS
    <2>2. RowInOrder(s, a, t, k)
          BY <1>1, <1>5, <2>1 DEF ContentInOrder, UnderWay, Stages
    <2>3. MergedItemsOf(s, k)' = MergedItemsOf(s, k)
          BY <1>4 DEF MergedItemsOf
    <2>4. MergedSoFar(s, k, orm[s][a])'
          BY <1>1, <1>4, <2>2, <2>3 DEF RowInOrder, MergedSoFar
    <2>5. Asset(s, a)' = Asset(s, a)
          BY <1>3 DEF Asset
    <2>6. RowInOrder(s, a, t, k)'
          BY <1>1, <1>3, <2>2, <2>4, <2>5 DEF RowInOrder
    <2> QED BY <1>1, <2>1, <2>6
  <1>6. UnderWay(s)
        BY <1>1 DEF UnderWay, Stages
  <1> QED BY <1>1, <1>3, <1>4, <1>5, <1>6 DEF ContentInOrder

LEMMA ContentNextInv ==
    ASSUME NobodyDeletes, NobodyRetags, OneSource, EffectInv, EffectInv', [Next]_vars,
           \A p \in Requests : ContentInOrder(p) /\ ActiveInOrder(p), NEW s \in Requests
    PROVE  ContentInOrder(s)'
  <1>1. SUFFICES ASSUME UnderWay(s)' PROVE ContentInOrder(s)'
        BY DEF ContentInOrder
  <1> QED BY <1>1, StepSeen, KeepsContent, LookupContent, MergeContent, CreateContent,
             EdgesKeepContent DEF ImportStep

-----------------------------------------------------------------------------
(* What an answered import has stored stays.                               *)
LEMMA EdgeStays ==
    ASSUME NobodyDeletes, EffectInv, [Next]_vars, NEW x \in RelIds, IsRow(rels[x])
    PROVE  rels'[x] = rels[x]
  <1>1. ASSUME NEW p \in Requests, Commit(p)
        PROVE  rels'[x] = rels[x]
    <2>1. PICK c : c = call[p]
          OBVIOUS
    <2>2. c \in Calls /\ c \in ApiCalls /\ Abstract!Effect(c) /\ StoreTypeOK
          BY <1>1, <2>1, CommittedEffect, CallAssumption DEF EffectInv, ImportInv, ApiInv, TypeOK
    <2>3. c.op \notin {"delete_asset", "delete_relationship"} /\ rels[x] # Nil
          BY <2>2 DEF NobodyDeletes, IsRow
    <2> QED BY <2>2, <2>3, EffectOnRel
  <1> QED BY <1>1, StepCommits

LEMMA AssetStays ==
    ASSUME NobodyDeletes, NobodyRetags, OneSource, EffectInv, EffectInv', [Next]_vars,
           \A p \in Requests : ContentInOrder(p),
           NEW a \in AssetIds, NEW t, NEW k, IsAsset(a, t, k)
    PROVE  /\ IsAsset(a, t, k)'
           /\ SettledRow(t, k, assets[a]) => SettledRow(t, k, assets'[a])
  BY TableKeepsContent DEF IsAsset, SameKey, ContentKept, SettledRow

LEMMA StoredBatchStays ==
    ASSUME NobodyDeletes, NobodyPatches, NobodyRetags, OneSource,
           EffectInv, EffectInv', [Next]_vars, \A p \in Requests : ContentInOrder(p),
           NEW s \in Requests, pc[s] = "done", BatchStored(s)
    PROVE  BatchStored(s)'
  <1>1. pc'[s] = "done" /\ resp'[s] = resp[s] /\ call'[s] = call[s]
        BY DoneStays
  <1>2. /\ Items(s)' = Items(s) /\ Valid(s)' = Valid(s)
        /\ Importing(s)' <=> Importing(s)
        /\ AllActive(s)' <=> AllActive(s)
        BY <1>1 DEF Items, Valid, Importing, Op, AllActive
  <1>3. ASSUME resp[s] = "200", Importing(s), NEW i \in Valid(s)
        PROVE  ItemStored(s, i)'
    <2>1. PICK c, t, k : c = call[s] /\ t = c.tenant /\ k = KeyOf(Items(s)[i])
          OBVIOUS
    <2>2. PICK a \in AssetIds :
             /\ IsAsset(a, t, k)
             /\ AllActive(s) => assets[a].status = "active"
             /\ AddsNothing(c, assets[a].key) \/ SettledRow(t, assets[a].key, assets[a])
          BY <1>3, <2>1 DEF BatchStored, ItemStored
    <2>3. assets[a].key = k /\ IsRow(assets[a])
          BY <2>2 DEF IsAsset
    <2>4. IsAsset(a, t, k)' /\ (SettledRow(t, k, assets[a]) => SettledRow(t, k, assets'[a]))
          BY <2>2, AssetStays
    <2>5. assets'[a].key = k /\ IsRow(assets'[a])
          BY <2>4 DEF IsAsset
    <2>6. AllActive(s) => assets'[a].status = "active"
          BY <2>2, <2>3, <2>5, ActiveRowStays
    <2>7. AddsNothing(c, k) \/ SettledRow(t, k, assets'[a])
          BY <2>2, <2>3, <2>4
    <2>8. IsAsset(a, call[s].tenant, KeyOf(Items(s)[i]))'
          BY <1>1, <1>2, <2>1, <2>4
    <2> QED BY <1>1, <1>2, <2>1, <2>5, <2>6, <2>7, <2>8 DEF ItemStored
  <1>4. ASSUME resp[s] = "200", Importing(s),
               NEW i \in Valid(s), NEW j \in Valid(s), NEW l \in Links
        PROVE  LinkStored(s, i, l, j)'
    <2> SUFFICES ASSUME Items(s)[i].link[l] = Items(s)[j].id
                 PROVE  (\E x \in RelIds, from, to \in Keys :
                            /\ IsLinkOf(call[s], i, l, LinkTypes[l], from, to)
                            /\ IsEdge(x, call[s].tenant, from, LinkTypes[l], to))'
        BY <1>2 DEF LinkStored
    <2>1. PICK c, t : c = call[s] /\ t = c.tenant
          OBVIOUS
    <2>2. PICK x \in RelIds, from, to \in Keys :
             IsLinkOf(c, i, l, LinkTypes[l], from, to) /\ IsEdge(x, t, from, LinkTypes[l], to)
          BY <1>4, <2>1 DEF BatchStored, LinkStored
    <2>3. PICK rel : rel = rels[x]
          OBVIOUS
    <2>4. /\ IsRow(rel) /\ rel.type = LinkTypes[l]
          /\ IsAsset(rel.src, t, from) /\ IsAsset(rel.dst, t, to)
          BY <2>2, <2>3 DEF IsEdge
    <2>5. rels'[x] = rel
          BY <2>3, <2>4, EdgeStays
    <2>6. rel.src \in AssetIds /\ rel.dst \in AssetIds
          BY <2>3, <2>4 DEF EffectInv, ImportInv, ApiInv, TypeOK, StoreTypeOK, RelCell, IsRow, RelRow
    <2>7. IsAsset(rel.src, t, from)' /\ IsAsset(rel.dst, t, to)'
          BY <2>4, <2>6, AssetStays
    <2>8. IsEdge(x, t, from, LinkTypes[l], to)'
          BY <2>4, <2>5, <2>7 DEF IsEdge
    <2> QED BY <1>1, <2>1, <2>2, <2>8
  <1>5. CASE resp[s] = "200" /\ Importing(s)
    <2>1. \A i \in Valid(s)' : ItemStored(s, i)'
          BY <1>2, <1>3, <1>5
    <2>2. \A i, j \in Valid(s)', l \in Links : LinkStored(s, i, l, j)'
          BY <1>2, <1>4, <1>5
    <2> QED BY <2>1, <2>2 DEF BatchStored
  <1>6. CASE ~ (resp[s] = "200" /\ Importing(s))
        BY <1>1, <1>2, <1>6 DEF BatchStored
  <1> QED BY <1>5, <1>6

(* An import that commits has stored its batch.                            *)
LEMMA CommitStoresBatch ==
    ASSUME OneSource, EffectInv, EffectInv', NEW s \in Requests, Commit(s), Importing(s),
           ContentInOrder(s), LinksInOrder(s)
    PROVE  BatchStored(s)'
  <1>1. /\ SessionTypeOK /\ StoreTypeOK /\ EffectInOrder(s) /\ pc[s] = "commit" /\ UNCHANGED call
        BY DEF EffectInv, ImportInv, ApiInv, TypeOK, Commit
  <1>2. PICK c, t : c = call[s] /\ t = c.tenant
        OBVIOUS
  <1>3. /\ c \in Calls /\ c.op = "import_assets" /\ ItemsWritten(s, c, Abstract!ValidItems(c))
        /\ t \in Tenants /\ c \in Batches(t)
    <2>1. c \in Calls /\ c.op = "import_assets" /\ EffectWritten(s, c)
          BY <1>1, <1>2 DEF EffectInOrder, SessionTypeOK, Importing, Op
    <2>2. t \in Tenants /\ c \in Batches(t)
          BY <1>2, <2>1, SessionAssumption DEF Batches
    <2> QED BY <2>1, <2>2 DEF EffectWritten
  <1>4. /\ \A a \in AssetIds : assets'[a] = Asset(s, a)
        /\ \A x \in RelIds : rels'[x] = Rel(s, x)
        BY DEF Commit, CommitWrites
  <1>5. /\ Items(s)' = Items(s) /\ Valid(s)' = Valid(s) /\ Items(s) = c.items
        /\ Valid(s) = Abstract!ValidItems(c)
        /\ AllActive(s)' <=> AllActive(s)
        BY <1>1, <1>2 DEF Items, Valid, AllActive, Abstract!ValidItems
  <1>6. ASSUME NEW a \in AssetIds, wa[s][a] # Nil
        PROVE  /\ assets'[a] = wa[s][a] /\ Asset(s, a) = wa[s][a]
               /\ IsRow(wa[s][a]) /\ wa[s][a].tenant = t
    <2>1. Abstract!Imported(c, assets[a], wa[s][a])
          BY <1>3, <1>6 DEF ItemsWritten
    <2>2. IsRow(wa[s][a]) /\ wa[s][a].tenant = t
          BY <1>2, <2>1 DEF Abstract!Imported, IsRow, Abstract!IsRow
    <2>3. Asset(s, a) = wa[s][a]
          BY <1>6 DEF Asset
    <2> QED BY <1>4, <2>2, <2>3
  <1>7. ASSUME NEW i \in Valid(s)
        PROVE  ItemStored(s, i)'
    <2>1. PICK k : k = KeyOf(Items(s)[i])
          OBVIOUS
    <2>2. PICK a \in AssetIds : IsRow(wa[s][a]) /\ wa[s][a].key = k
          BY <1>3, <1>5, <2>1 DEF ItemsWritten
    <2>3. PICK new : new = wa[s][a]
          OBVIOUS
    <2>4. /\ assets'[a] = new /\ Asset(s, a) = new /\ IsRow(new) /\ new.tenant = t
          /\ new.key = k /\ wa[s][a] # Nil
      <3>1. wa[s][a] # Nil
            BY <2>2 DEF IsRow
      <3> QED BY <1>6, <2>2, <2>3, <3>1
    <2>5. /\ orm[s][a] # Nil /\ (AllActive(s) => new.status = "active")
          /\ RowInOrder(s, a, t, orm[s][a].key)
          BY <1>1, <1>2, <2>3, <2>4 DEF ContentInOrder, UnderWay
    <2>6. PICK row : row = orm[s][a]
          OBVIOUS
    <2>7. row \in AssetRow /\ row.key = k /\ k \in Keys
      <3>1. row \in AssetRow
            BY <1>1, <2>5, <2>6 DEF SessionTypeOK
      <3>2. row.key = k
            BY <2>4, <2>5, <2>6 DEF RowInOrder
      <3> QED BY <3>1, <3>2 DEF AssetRow
    <2>8. AddsNothing(c, k) \/ SettledRow(t, k, new)
      <3> SUFFICES ASSUME ~ AddsNothing(c, k) PROVE SettledRow(t, k, new)
          OBVIOUS
      <3>1. RowInOrder(s, a, t, k)
            BY <2>5, <2>6, <2>7
      <3>2. MergedSoFar(s, k, row)
            BY <2>6, <3>1 DEF RowInOrder
      <3>3. row.tags \in SettledTags(t, k) /\ row.meta \in SettledMeta(t, k)
            BY <1>1, <1>2, <1>3, <2>7, <3>2, FinishedIsSettled
      <3>4. /\ Tracked(SettledTags(t, k), TRUE, new.tags, row.tags, IsRow(assets[a]), assets[a].tags)
            /\ Tracked(SettledMeta(t, k), TRUE, new.meta, row.meta, IsRow(assets[a]), assets[a].meta)
            BY <2>4, <2>6, <3>1 DEF RowInOrder, Tracked
      <3> QED BY <3>3, <3>4 DEF Tracked, SettledRow
    <2>9. IsAsset(a, t, k)'
          BY <2>4 DEF IsAsset
    <2>10. IsAsset(a, call[s].tenant, KeyOf(Items(s)[i]))'
           BY <1>1, <1>2, <1>5, <2>1, <2>9
    <2> QED BY <1>1, <1>2, <1>5, <2>4, <2>5, <2>8, <2>10 DEF ItemStored
  <1>8. ASSUME NEW i \in Valid(s), NEW j \in Valid(s), NEW l \in Links
        PROVE  LinkStored(s, i, l, j)'
    <2> SUFFICES ASSUME Items(s)[i].link[l] = Items(s)[j].id
                 PROVE  (\E x \in RelIds, from, to \in Keys :
                            /\ IsLinkOf(call[s], i, l, LinkTypes[l], from, to)
                            /\ IsEdge(x, call[s].tenant, from, LinkTypes[l], to))'
        BY <1>5 DEF LinkStored
    <2>1. PICK x \in RelIds : HeldEdge(s, x) /\ Joins(s, Rel(s, x), i, l)
          BY <1>1 DEF LinksInOrder, LinkIsEdge
    <2>2. PICK rel, from, to :
             rel = Rel(s, x) /\ from = wa[s][rel.src].key /\ to = wa[s][rel.dst].key
          OBVIOUS
    <2>3. /\ rels'[x] = rel /\ IsRow(rel) /\ wa[s][rel.src] # Nil /\ wa[s][rel.dst] # Nil
          BY <1>4, <2>1, <2>2 DEF HeldEdge
    <2>4. rel.src \in AssetIds /\ rel.dst \in AssetIds
          BY <1>1, <2>2, <2>3 DEF Rel, StoreTypeOK, RelCell, IsRow, RelRow
    <2>5. IsLinkOf(c, i, l, LinkTypes[l], from, to) /\ rel.type = LinkTypes[l]
      <3>1. IsLinkOf(c, i, l, rel.type, from, to)
            BY <1>2, <2>1, <2>2 DEF Joins
      <3>2. rel.type = LinkTypes[l]
            BY <3>1 DEF IsLinkOf
      <3> QED BY <3>1, <3>2
    <2>6. from \in Keys /\ to \in Keys
          BY <1>1, <1>6, <2>2, <2>3, <2>4 DEF StoreTypeOK, AssetCell, IsRow, AssetRow
    <2>7. IsAsset(rel.src, t, from)' /\ IsAsset(rel.dst, t, to)'
          BY <1>6, <2>2, <2>3, <2>4 DEF IsAsset
    <2>8. IsEdge(x, t, from, LinkTypes[l], to)'
          BY <2>3, <2>5, <2>7 DEF IsEdge
    <2> QED BY <1>1, <1>2, <2>5, <2>6, <2>8
  <1>9. \A i \in Valid(s)' : ItemStored(s, i)'
        BY <1>5, <1>7
  <1>10. \A i, j \in Valid(s)', l \in Links : LinkStored(s, i, l, j)'
         BY <1>5, <1>8
  <1> QED BY <1>9, <1>10 DEF BatchStored

LEMMA StoredNextInv ==
    ASSUME NobodyDeletes, NobodyPatches, NobodyRetags, OneSource, AnswersStand,
           EffectInv, EffectInv', [Next]_vars,
           \A p \in Requests : ContentInOrder(p) /\ LinksInOrder(p),
           NEW s \in Requests, BatchStored(s)
    PROVE  BatchStored(s)'
  <1>1. SessionTypeOK
        BY DEF EffectInv, ImportInv, ApiInv, TypeOK
  <1>2. CASE pc[s] = "done"
        BY <1>2, StoredBatchStays
  <1>3. CASE pc[s] # "done" /\ pc'[s] = "done" /\ resp'[s] = "200" /\ Importing(s)'
    <2>1. PICK r \in Requests : Commit(r)
          BY <1>3, SuccessIsCommitted
    <2>2. r = s /\ Importing(s)
          BY <1>1, <1>3, <2>1 DEF Commit, SessionTypeOK, Importing, Op
    <2> QED BY <2>1, <2>2, CommitStoresBatch
  <1>4. CASE ~ (pc'[s] = "done" /\ resp'[s] = "200" /\ Importing(s)')
        BY <1>4 DEF BatchStored
  <1> QED BY <1>2, <1>3, <1>4

-----------------------------------------------------------------------------
(* A commit whose twin was answered before: the batch is there already.    *)
Repeats(r, s) ==
    /\ pc[r] = "commit" /\ Importing(r) /\ AllActive(r)
    /\ s # r /\ call[s] = call[r] /\ pc[s] = "done" /\ resp[s] = "200"

LEMMA RepeatFacts ==
    ASSUME EffectInv, NEW r \in Requests, NEW s \in Requests, Repeats(r, s), BatchStored(s),
           NEW c, c = call[r], NEW t, t = c.tenant
    PROVE  /\ c \in Calls /\ c.op = "import_assets" /\ t \in Tenants /\ c \in Batches(t)
           /\ ItemsWritten(r, c, Abstract!ValidItems(c)) /\ LinksWritten(r, c)
           /\ \A i \in Abstract!ValidItems(c) : \E a \in AssetIds :
                 /\ IsAsset(a, t, KeyOf(c.items[i])) /\ assets[a].status = "active"
                 /\ AddsNothing(c, assets[a].key) \/ SettledRow(t, assets[a].key, assets[a])
           /\ \A i, j \in Abstract!ValidItems(c), l \in Links : c.items[i].link[l] = c.items[j].id =>
                 \E x \in RelIds, from, to \in Keys :
                    /\ IsLinkOf(c, i, l, LinkTypes[l], from, to)
                    /\ IsEdge(x, t, from, LinkTypes[l], to)
  <1>1. /\ SessionTypeOK /\ EffectInOrder(r) /\ pc[r] = "commit" /\ Importing(r)
        /\ call[s] = c /\ Importing(s) /\ AllActive(r)
        BY DEF EffectInv, ImportInv, ApiInv, TypeOK, Repeats, Importing, Op
  <1>2. c \in Calls /\ c.op = "import_assets" /\ EffectWritten(r, c)
        BY <1>1 DEF EffectInOrder, SessionTypeOK, Importing, Op
  <1>3. t \in Tenants /\ c \in Batches(t)
        BY <1>2, SessionAssumption DEF Batches
  <1>4. ItemsWritten(r, c, Abstract!ValidItems(c)) /\ LinksWritten(r, c)
        BY <1>2 DEF EffectWritten
  <1>5. /\ Items(s) = c.items /\ Valid(s) = Abstract!ValidItems(c) /\ AllActive(s)
        BY <1>1 DEF Items, Valid, AllActive, Abstract!ValidItems
  <1>6. /\ \A i \in Valid(s) : ItemStored(s, i)
        /\ \A i, j \in Valid(s), l \in Links : LinkStored(s, i, l, j)
        BY <1>1 DEF BatchStored, Repeats
  <1>7. ASSUME NEW i \in Abstract!ValidItems(c)
        PROVE  \E a \in AssetIds :
                 /\ IsAsset(a, t, KeyOf(c.items[i])) /\ assets[a].status = "active"
                 /\ AddsNothing(c, assets[a].key) \/ SettledRow(t, assets[a].key, assets[a])
        BY <1>1, <1>5, <1>6 DEF ItemStored
  <1>8. ASSUME NEW i \in Abstract!ValidItems(c), NEW j \in Abstract!ValidItems(c), NEW l \in Links,
               c.items[i].link[l] = c.items[j].id
        PROVE  \E x \in RelIds, from, to \in Keys :
                    IsLinkOf(c, i, l, LinkTypes[l], from, to) /\ IsEdge(x, t, from, LinkTypes[l], to)
        BY <1>1, <1>5, <1>6, <1>8 DEF LinkStored
  <1> QED BY <1>2, <1>3, <1>4, <1>7, <1>8

(* What the second import has written is a row the first one left, active  *)
(* and with nothing for the batch to add.                                  *)
LEMMA RepeatFinds ==
    ASSUME EffectInv, NEW r \in Requests, NEW s \in Requests, Repeats(r, s), BatchStored(s),
           NEW c, c = call[r], NEW t, t = c.tenant, NEW a \in AssetIds, wa[r][a] # Nil
    PROVE  /\ IsRow(wa[r][a]) /\ wa[r][a].tenant = t /\ IsRow(assets[a])
           /\ Abstract!Imported(c, assets[a], wa[r][a])
           /\ IsAsset(a, t, wa[r][a].key) /\ assets[a].status = "active"
           /\ AddsNothing(c, assets[a].key) \/ SettledRow(t, assets[a].key, assets[a])
  <1>1. KeysApart
        BY DEF EffectInv, ImportInv, ApiInv, StoreInv
  <1>2. PICK new : new = wa[r][a]
        OBVIOUS
  <1>3. \A b \in AssetIds : wa[r][b] # Nil => Abstract!Imported(c, assets[b], wa[r][b])
        BY RepeatFacts DEF ItemsWritten
  <1>4. \A b \in AssetIds : wa[r][b] # Nil => wa[r][b] # Deleted
        BY <1>3 DEF Abstract!Imported, Abstract!IsRow
  <1>5. IsRow(new) /\ new.tenant = t /\ \E i \in Abstract!ValidItems(c) : new.key = KeyOf(c.items[i])
    <2>1. Abstract!Imported(c, assets[a], new)
          BY <1>2, <1>3
    <2> QED BY <2>1 DEF Abstract!Imported, Abstract!IsRow, IsRow, Abstract!KeyOf, KeyOf
  <1>6. PICK b \in AssetIds :
           /\ IsAsset(b, t, new.key) /\ assets[b].status = "active"
           /\ AddsNothing(c, assets[b].key) \/ SettledRow(t, assets[b].key, assets[b])
        BY <1>5, RepeatFacts
  <1>7. a = b
    <2> SUFFICES ASSUME a # b PROVE FALSE
        OBVIOUS
    <2>1. IsRow(assets[b]) /\ SameKey(new, assets[b])
          BY <1>5, <1>6 DEF IsAsset, SameKey
    <2>2. wa[r][b] = Deleted
          BY <1>1, <1>2, <1>5, <2>1 DEF KeysApart
    <2> QED BY <1>4, <2>2, NilAssumption
  <1> QED BY <1>2, <1>3, <1>5, <1>6, <1>7 DEF IsAsset

LEMMA RepeatKeepsAssets ==
    ASSUME OneSource, EffectInv, NEW r \in Requests, NEW s \in Requests,
           Repeats(r, s), BatchStored(s), ContentInOrder(r), NEW a \in AssetIds
    PROVE  IF IsRow(assets[a]) THEN SeenAlike(assets[a], Asset(r, a))
                               ELSE Asset(r, a) = assets[a]
  <1>1. SessionTypeOK /\ StoreTypeOK /\ pc[r] = "commit" /\ Importing(r) /\ AllActive(r)
        BY DEF EffectInv, ImportInv, ApiInv, TypeOK, Repeats
  <1>2. CASE wa[r][a] = Nil
        BY <1>2 DEF Asset, SeenAlike
  <1>3. CASE wa[r][a] # Nil
    <2>1. PICK c, t, new, old, k :
             c = call[r] /\ t = c.tenant /\ new = wa[r][a] /\ old = assets[a] /\ k = new.key
          OBVIOUS
    <2>2. /\ IsRow(new) /\ IsRow(old) /\ Abstract!Imported(c, old, new) /\ old.key = k
          /\ old.status = "active" /\ (AddsNothing(c, k) \/ SettledRow(t, k, old))
          BY <1>3, <2>1, RepeatFinds DEF IsAsset
    <2>3. new \in AssetRow /\ old \in AssetRow /\ Asset(r, a) = new
          BY <1>1, <1>3, <2>1, <2>2 DEF StoreTypeOK, AssetCell, IsRow, Asset
    <2>4. PICK row : row = orm[r][a]
          OBVIOUS
    <2>5. row # Nil /\ new.status = "active" /\ RowInOrder(r, a, t, row.key)
          BY <1>1, <1>3, <2>1, <2>4 DEF ContentInOrder, UnderWay
    <2>6. row \in AssetRow /\ row.key = k
      <3>1. row \in AssetRow
            BY <1>1, <2>4, <2>5 DEF SessionTypeOK
      <3>2. row.key = k
            BY <2>1, <2>3, <2>5 DEF RowInOrder
      <3> QED BY <3>1, <3>2
    <2>7. RowInOrder(r, a, t, k)
          BY <2>5, <2>6
    <2>8. new.tags = old.tags /\ new.meta = old.meta
      <3>1. CASE AddsNothing(c, k)
            BY <2>1, <2>2, <2>3, <2>7, <3>1 DEF RowInOrder
      <3>2. CASE ~ AddsNothing(c, k) /\ SettledRow(t, k, old)
        <4>1. MergedSoFar(r, k, row)
              BY <2>4, <2>7 DEF RowInOrder
        <4>2. t \in Tenants /\ c \in Batches(t) /\ k \in Keys
              BY <2>1, <2>2, <2>3, RepeatFacts DEF AssetRow
        <4>3. row.tags \in SettledTags(t, k) /\ row.meta \in SettledMeta(t, k)
              BY <1>1, <2>1, <2>6, <3>2, <4>1, <4>2, FinishedIsSettled
        <4>4. /\ Tracked(SettledTags(t, k), TRUE, new.tags, row.tags, TRUE, old.tags)
              /\ Tracked(SettledMeta(t, k), TRUE, new.meta, row.meta, TRUE, old.meta)
              /\ AlikeBeyond(t, k, new, old)
              BY <1>3, <2>1, <2>2, <2>3, <2>4, <2>7 DEF RowInOrder
        <4>5. new.tags \in SettledTags(t, k) /\ new.meta \in SettledMeta(t, k)
              BY <3>2, <4>3, <4>4 DEF Tracked, SettledRow
        <4> QED BY <2>3, <3>2, <4>4, <4>5, SettledTagsAgree, SettledMetaAgree DEF SettledRow
      <3> QED BY <2>2, <3>1, <3>2
    <2>9. new = [old EXCEPT !.tags = new.tags, !.meta = new.meta,
                            !.status = new.status, !.last_seen = new.last_seen]
          BY <2>2 DEF Abstract!Imported, IsRow
    <2>10. [old EXCEPT !.last_seen = 0] = [new EXCEPT !.last_seen = 0]
      <3>1. new = [old EXCEPT !.last_seen = new.last_seen]
        <4>1. new.tags = old.tags /\ new.meta = old.meta /\ new.status = old.status
              BY <2>2, <2>5, <2>8
        <4>2. [old EXCEPT !.tags = old.tags, !.meta = old.meta, !.status = old.status,
                          !.last_seen = new.last_seen] = [old EXCEPT !.last_seen = new.last_seen]
              BY <2>3 DEF AssetRow
        <4> QED BY <2>9, <4>1, <4>2
      <3>2. [new EXCEPT !.last_seen = 0] = [[old EXCEPT !.last_seen = new.last_seen] EXCEPT !.last_seen = 0]
            BY <3>1
      <3>3. [[old EXCEPT !.last_seen = new.last_seen] EXCEPT !.last_seen = 0] = [old EXCEPT !.last_seen = 0]
            BY <2>3 DEF AssetRow
      <3> QED BY <3>2, <3>3
    <2> QED BY <2>1, <2>2, <2>3, <2>10 DEF SeenAlike
  <1> QED BY <1>2, <1>3

LEMMA RepeatKeepsRels ==
    ASSUME EffectInv, NEW r \in Requests, NEW s \in Requests,
           Repeats(r, s), BatchStored(s), LinksInOrder(r), NEW x \in RelIds
    PROVE  Rel(r, x) = rels[x]
  <1> SUFFICES ASSUME wr[r][x] # Nil PROVE FALSE
      BY DEF Rel
  <1>1. StoreTypeOK /\ NoDuplicateRows /\ EdgesApart /\ EdgesStayInTenant
        BY DEF EffectInv, ImportInv, ApiInv, StoreInv
  <1>2. PICK c, t, rel : c = call[r] /\ t = c.tenant /\ rel = wr[r][x]
        OBVIOUS
  <1>3. /\ c \in Calls /\ c \in ImportCall /\ LinksWritten(r, c)
        /\ Valid(r) = Abstract!ValidItems(c)
    <2>1. c \in Calls /\ c.op = "import_assets" /\ LinksWritten(r, c)
          BY <1>2, RepeatFacts
    <2>2. c \in ImportCall
          BY <2>1, CallAssumption, CallsByOp
    <2> QED BY <1>2, <2>1, <2>2 DEF Valid, Items, Abstract!ValidItems
  <1>4. /\ rels[x] = Nil /\ IsRow(rel) /\ rel.tenant = t
        /\ wa[r][rel.src] # Nil /\ wa[r][rel.dst] # Nil
        BY <1>2, <1>3 DEF LinksWritten
  <1>5. rel.src \in AssetIds /\ rel.dst \in AssetIds
        BY <1>1, <1>2, <1>4 DEF StoreTypeOK, RelCell, IsRow, RelRow
  <1>6. PICK from, to : from = wa[r][rel.src].key /\ to = wa[r][rel.dst].key
        OBVIOUS
  <1>7. PICK i \in Abstract!ValidItems(c), l \in Links : IsLinkOf(c, i, l, rel.type, from, to)
        BY <1>2, <1>3, <1>6 DEF LinksInOrder, Repeats, Joins
  <1>8. PICK y \in RelIds : IsEdge(y, t, from, rel.type, to)
    <2>1. PICK j \in Abstract!ValidItems(c) : c.items[i].link[l] = c.items[j].id
          BY <1>7 DEF IsLinkOf, IsLastWithId
    <2>2. PICK z \in RelIds, u, v \in Keys :
             IsLinkOf(c, i, l, LinkTypes[l], u, v) /\ IsEdge(z, t, u, LinkTypes[l], v)
          BY <1>2, <2>1, RepeatFacts
    <2>3. LinkTypes[l] = rel.type /\ u = from /\ v = to
          BY <1>3, <1>7, <2>2, LinkOfOne
    <2> QED BY <2>2, <2>3
  <1>9. IsAsset(rel.src, t, from) /\ IsAsset(rel.dst, t, to)
        BY <1>2, <1>4, <1>5, <1>6, RepeatFinds
  <1>10. PICK edge : edge = rels[y]
         OBVIOUS
  <1>11. /\ IsRow(edge) /\ edge.type = rel.type
         /\ IsAsset(edge.src, t, from) /\ IsAsset(edge.dst, t, to)
         BY <1>8, <1>10 DEF IsEdge
  <1>12. edge.src \in AssetIds /\ edge.dst \in AssetIds
         BY <1>1, <1>10, <1>11 DEF StoreTypeOK, RelCell, IsRow, RelRow
  <1>13. ASSUME NEW a \in AssetIds, NEW b \in AssetIds, NEW k, IsAsset(a, t, k), IsAsset(b, t, k)
         PROVE  a = b
         BY <1>1, <1>13 DEF NoDuplicateRows, UniqueRows, IsAsset, SameKey
  <1>14. edge.src = rel.src /\ edge.dst = rel.dst
         BY <1>5, <1>9, <1>11, <1>12, <1>13
  <1>15. edge.tenant = t
         BY <1>1, <1>10, <1>11 DEF EdgesStayInTenant, EdgesInTenant, IsAsset
  <1>16. SameEdge(rel, edge) /\ x # y
         BY <1>4, <1>10, <1>11, <1>14, <1>15 DEF SameEdge, IsRow
  <1>17. wr[r][y] = Deleted
         BY <1>1, <1>2, <1>4, <1>10, <1>11, <1>16 DEF EdgesApart
  <1> QED BY <1>3, <1>17, NilAssumption DEF LinksWritten, IsRow

(* Unless a client deletes, patches or retags meanwhile, an import of      *)
(* active items whose twin was answered before leaves the tables as they   *)
(* are, save last_seen, however many requests overlap with the two: the    *)
(* second finds every row and every edge of the batch and has no tag and   *)
(* no metadata to add (import_pipeline.py:29,88-124,160-181).              *)
THEOREM RepetitionChangesNothing ==
    ASSUME NobodyDeletes, NobodyPatches, NobodyRetags, OneSource, AnswersStand
    PROVE  Spec => ImportIsIdempotent
  <1>1. /\ NobodyDeletes /\ NobodyPatches /\ NobodyRetags /\ OneSource
        /\ AnswersStand /\ NobodyUnlinks
        BY DEF NobodyDeletes, NobodyUnlinks
  <1> DEFINE J == \A r \in Requests : /\ ActiveInOrder(r) /\ IdsInOrder(r) /\ LinksInOrder(r)
                                      /\ ContentInOrder(r) /\ BatchStored(r)
  <1>2. Init => J
        BY DEF Init, SessionInit, ActiveInOrder, IdsInOrder, LinksInOrder, ContentInOrder, BatchStored,
               UnderWay, Stages
  <1>3. EffectInv /\ EffectInv' /\ J /\ [Next]_vars => J'
    <2> SUFFICES ASSUME EffectInv, EffectInv', J, [Next]_vars, NEW r \in Requests
                 PROVE  /\ ActiveInOrder(r)' /\ IdsInOrder(r)' /\ LinksInOrder(r)'
                        /\ ContentInOrder(r)' /\ BatchStored(r)'
        OBVIOUS
    <2>1. ActiveInOrder(r)'
          BY <1>1, ActiveNextInv
    <2>2. IdsInOrder(r)' /\ LinksInOrder(r)'
          BY <1>1, IdsNextInv, LinksNextInv
    <2>3. ContentInOrder(r)'
          BY <1>1, ContentNextInv
    <2>4. BatchStored(r)'
          BY <1>1, StoredNextInv
    <2> QED BY <2>1, <2>2, <2>3, <2>4
  <1>4. EffectInv /\ EffectInv' /\ J /\ [Next]_vars =>
            [\A r, s \in Requests :
                /\ Committing(r) /\ Importing(r)
                /\ s # r /\ call[s] = call[r] /\ pc[s] = "done" /\ resp[s] = "200"
                /\ \A i \in Valid(r) : Items(r)[i].status = "active"
                => /\ rels' = rels
                   /\ \A a \in AssetIds :
                         IF IsRow(assets[a]) THEN SeenAlike(assets[a], assets'[a])
                                             ELSE assets'[a] = assets[a]]_vars
    <2> SUFFICES ASSUME EffectInv, J, [Next]_vars, NEW r \in Requests, NEW s \in Requests,
                        Committing(r), Importing(r),
                        s # r, call[s] = call[r], pc[s] = "done", resp[s] = "200",
                        \A i \in Valid(r) : Items(r)[i].status = "active"
                 PROVE  /\ rels' = rels
                        /\ \A a \in AssetIds :
                              IF IsRow(assets[a]) THEN SeenAlike(assets[a], assets'[a])
                                                  ELSE assets'[a] = assets[a]
        OBVIOUS
    <2>1. SessionTypeOK /\ StoreTypeOK
          BY DEF EffectInv, ImportInv, ApiInv, TypeOK
    <2>2. CASE UNCHANGED <<assets, rels>>
          BY <2>2 DEF SeenAlike
    <2>3. CASE \E p \in Requests : Commit(p)
      <3>1. Commit(r)
            BY <2>1, <2>3 DEF Commit, Committing, SessionTypeOK
      <3>2. Repeats(r, s)
            BY <3>1 DEF Repeats, AllActive, Commit
      <3>3. \A a \in AssetIds : assets'[a] = Asset(r, a)
            BY <3>1 DEF Commit, CommitWrites
      <3>4. \A x \in RelIds : Rel(r, x) = rels[x]
            BY <1>1, <3>2, RepeatKeepsRels
      <3>5. rels' = rels
            BY <2>1, <3>1, <3>4 DEF Commit, CommitWrites, StoreTypeOK
      <3>6. \A a \in AssetIds : IF IsRow(assets[a]) THEN SeenAlike(assets[a], Asset(r, a))
                                                    ELSE Asset(r, a) = assets[a]
            BY <1>1, <3>2, RepeatKeepsAssets
      <3> QED BY <3>3, <3>5, <3>6
    <2> QED BY <2>2, <2>3, StepCommits
  <1> QED BY <1>2, <1>3, <1>4, EffectsAreWritten, PTL DEF Spec, ImportIsIdempotent
=============================================================================
