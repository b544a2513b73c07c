----------------------------- MODULE ApiProofs -----------------------------
(***************************************************************************)
(* ApiInv is an invariant of the service, for any number of requests,      *)
(* tenants, rows, keys and calls.  Every step of a handler is a StoreStep  *)
(* of its own request: that, and what the handler relies on from one await *)
(* to the next, is what each lemma of this module shows of one operation.  *)
(***************************************************************************)
EXTENDS Api, FiniteSetTheorems, TLAPS

-----------------------------------------------------------------------------
(* The store.  Every statement preserves StoreInv.  Statements read the    *)
(* rows their own transaction sees; what lets them rely on that while      *)
(* others write is that they wait for the holders of what they touch.      *)

(* A SELECT or a step outside the database leaves the store as it is.      *)
LEMMA StoreStutter ==
    ASSUME StoreInv, UNCHANGED storeVars
    PROVE  StoreInv'
  BY DEF StoreInv, storeVars, StoreTypeOK, NoDuplicateRows, UniqueRows, EdgesStayInTenant, EdgesInTenant,
     LocksExclusive, WritesFit, KeysApart, EdgesApart, EndpointsLocked,
     CascadeComplete, Asset

LEMMA StoreInitInv == StoreInit => StoreInv
  <1> SUFFICES ASSUME StoreInit PROVE StoreInv
      OBVIOUS
  <1>1. StoreTypeOK
        BY SeedAssumption DEF StoreInit, StoreTypeOK, AssetCell, RelCell
  <1>2. NoDuplicateRows /\ EdgesStayInTenant
        BY SeedAssumption DEF StoreInit, NoDuplicateRows, UniqueRows, EdgesStayInTenant, EdgesInTenant, Touches, RelRow, IsRow
  <1>3. LocksExclusive /\ WritesFit /\ KeysApart /\ EdgesApart
        BY NilAssumption DEF StoreInit, LocksExclusive, WritesFit, KeysApart, EdgesApart, IsRow
  <1>4. EndpointsLocked /\ CascadeComplete
        BY NilAssumption DEF StoreInit, EndpointsLocked, CascadeComplete, IsRow
  <1> QED BY <1>1, <1>2, <1>3, <1>4 DEF StoreInv

-----------------------------------------------------------------------------
(* INSERT INTO assets: the unique key was free for this transaction, and   *)
(* nobody else holds it.                                                   *)
LEMMA InsertAssetInv ==
    ASSUME StoreInv, NEW r \in Requests, NEW b \in AssetIds, NEW row \in AssetRow,
           InsertAsset(r, b, row)
    PROVE  StoreInv'
  <1> USE NilAssumption DEF StoreInv, StoreTypeOK, InsertAsset, AssetCell, RelCell
  <1>1. /\ assets' = assets /\ rels' = rels /\ wr' = wr
        /\ wa' = [wa EXCEPT ![r][b] = row]
        /\ IsRow(row)
        BY DEF IsRow
  <1>2. assets[b] = Nil /\ \A s \in Requests : wa[s][b] = Nil
        BY DEF FreshAssets
  <1>3. /\ wa'[r][b] = row
        /\ \A s \in Requests, a \in AssetIds : s # r \/ a # b => wa'[s][a] = wa[s][a]
        BY <1>1
  <1>4. StoreTypeOK'
        BY <1>1
  <1>5. NoDuplicateRows' /\ EdgesStayInTenant'
        BY <1>1 DEF NoDuplicateRows, UniqueRows, EdgesStayInTenant, EdgesInTenant
  <1>6. LocksExclusive'
        BY <1>1, <1>2, <1>3 DEF LocksExclusive
  <1>7. WritesFit'
        BY <1>1, <1>2, <1>3 DEF WritesFit, IsRow
  <1>8. KeysApart'
    <2> SUFFICES ASSUME NEW s \in Requests, NEW a \in AssetIds, NEW c \in AssetIds,
                        IsRow(wa'[s][a]), a # c
                 PROVE  /\ IsRow(assets[c]) /\ SameKey(wa'[s][a], assets[c])
                               => wa'[s][c] = Deleted
                        /\ \A q \in Requests : IsRow(wa'[q][c])
                               => ~ SameKey(wa'[s][a], wa'[q][c])
        BY <1>1 DEF KeysApart
    <2>1. ASSUME NEW d \in AssetIds, NEW q \in Requests, IsRow(wa[q][d]), d # b
          PROVE  ~ SameKey(row, wa[q][d])
      <3>1. CASE q = r
            BY <2>1, <3>1 DEF KeyTaken, AssetRows, Asset, IsRow, SameKey
      <3>2. CASE q # r
            BY <2>1, <3>2 DEF KeyHolders, Others, Image, IsRow, SameKey
      <3> QED BY <3>1, <3>2
    <2>2. ASSUME NEW d \in AssetIds, IsRow(assets[d]), d # b, wa[r][d] # Deleted
          PROVE  ~ SameKey(row, assets[d])
      <3>1. CASE wa[r][d] = Nil
            BY <2>2, <3>1 DEF KeyTaken, AssetRows, Asset, SameKey
      <3>2. CASE IsRow(wa[r][d])
            BY <2>1, <2>2, <3>2 DEF WritesFit, SameKey, IsRow
      <3> QED BY <2>2, <3>1, <3>2 DEF IsRow
    <2>3. CASE s = r /\ a = b
      <3>1. c # b /\ wa'[r][c] = wa[r][c]
            BY <1>3, <2>3
      <3>2. \A q \in Requests : wa'[q][c] = wa[q][c]
            BY <1>3, <3>1
      <3> QED BY <1>3, <2>1, <2>2, <2>3, <3>1, <3>2
    <2>4. CASE ~ (s = r /\ a = b)
      <3>1. wa'[s][a] = wa[s][a] /\ a # b
            BY <1>2, <1>3, <2>4 DEF IsRow
      <3>2. CASE c = b
            BY <1>1, <1>2, <1>3, <2>1, <3>1, <3>2 DEF SameKey, IsRow
      <3>3. CASE c # b
            BY <1>3, <3>1, <3>3 DEF KeysApart
      <3> QED BY <3>2, <3>3
    <2> QED BY <2>3, <2>4
  <1>9. EdgesApart'
        BY <1>1 DEF EdgesApart
  <1>10. EndpointsLocked'
    <2> SUFFICES ASSUME NEW s \in Requests, NEW x \in RelIds, IsRow(wr[s][x]),
                        NEW a \in {wr[s][x].src, wr[s][x].dst}
                 PROVE  /\ IsRow(Asset(s, a)') /\ Asset(s, a)'.tenant = wr[s][x].tenant
                        /\ \A q \in Others(s) : wa'[q][a] # Deleted
        BY <1>1 DEF EndpointsLocked
    <2>1. a \in AssetIds
          BY DEF RelRow, IsRow
    <2>2. /\ IsRow(Asset(s, a)) /\ Asset(s, a).tenant = wr[s][x].tenant
          /\ \A q \in Others(s) : wa[q][a] # Deleted
          BY DEF EndpointsLocked
    <2>3. a # b
          BY <1>2, <2>2 DEF Asset, IsRow
    <2> QED BY <1>1, <1>3, <2>1, <2>2, <2>3 DEF Asset, Others
  <1>11. CascadeComplete'
        BY <1>1, <1>3 DEF CascadeComplete, IsRow
  <1> QED BY <1>4, <1>5, <1>6, <1>7, <1>8, <1>9, <1>10, <1>11

(* UPDATE assets: nobody else holds the row, and the row keeps its key.    *)
LEMMA UpdateAssetInv ==
    ASSUME StoreInv, NEW r \in Requests, NEW b \in AssetIds, NEW row \in AssetRow,
           UpdateAsset(r, b, row), SameKey(row, Asset(r, b))
    PROVE  StoreInv'
  <1> USE NilAssumption DEF StoreInv, StoreTypeOK, UpdateAsset, AssetCell, RelCell
  <1>1. /\ assets' = assets /\ rels' = rels /\ wr' = wr
        /\ wa' = [wa EXCEPT ![r][b] = row]
        /\ IsRow(row)
        BY DEF IsRow
  <1>2. IsRow(Asset(r, b)) /\ \A s \in Others(r) : wa[s][b] = Nil
        BY DEF AssetRows, RowHolders
  <1>3. /\ wa'[r][b] = row
        /\ \A s \in Requests, a \in AssetIds : s # r \/ a # b => wa'[s][a] = wa[s][a]
        BY <1>1
  <1>4. /\ assets[b] # Deleted
        /\ IsRow(assets[b]) => SameKey(row, assets[b])
        BY <1>2 DEF WritesFit, Asset, IsRow, SameKey
  <1>5. StoreTypeOK' /\ NoDuplicateRows' /\ EdgesStayInTenant' /\ EdgesApart'
        BY <1>1 DEF NoDuplicateRows, UniqueRows, EdgesStayInTenant, EdgesInTenant, EdgesApart
  <1>6. LocksExclusive'
        BY <1>1, <1>2, <1>3 DEF LocksExclusive, Others
  <1>7. WritesFit'
        BY <1>1, <1>3, <1>4 DEF WritesFit, IsRow
  <1>8. KeysApart'
    <2> SUFFICES ASSUME NEW s \in Requests, NEW a \in AssetIds, NEW c \in AssetIds,
                        IsRow(wa'[s][a]), a # c
                 PROVE  /\ IsRow(assets[c]) /\ SameKey(wa'[s][a], assets[c])
                               => wa'[s][c] = Deleted
                        /\ \A q \in Requests : IsRow(wa'[q][c])
                               => ~ SameKey(wa'[s][a], wa'[q][c])
        BY <1>1 DEF KeysApart
    <2>1. ASSUME NEW d \in AssetIds, NEW q \in Requests, IsRow(wa[q][d]), d # b
          PROVE  ~ SameKey(row, wa[q][d])
      <3>1. CASE wa[r][b] = Nil
        <4>1. IsRow(assets[b]) /\ SameKey(row, assets[b])
              BY <1>2, <3>1 DEF Asset, SameKey
        <4>2. SameKey(wa[q][d], assets[b]) => wa[q][b] = Deleted
              BY <2>1, <4>1 DEF KeysApart
        <4>3. wa[q][b] = Nil
              BY <1>2, <3>1 DEF Others
        <4> QED BY <4>1, <4>2, <4>3 DEF SameKey
      <3>2. CASE wa[r][b] # Nil
        <4>1. IsRow(wa[r][b]) /\ SameKey(row, wa[r][b])
              BY <1>2, <3>2 DEF Asset
        <4> QED BY <2>1, <4>1 DEF KeysApart, SameKey
      <3> QED BY <3>1, <3>2
    <2>2. ASSUME NEW d \in AssetIds, IsRow(assets[d]), d # b, wa[r][d] # Deleted
          PROVE  ~ SameKey(row, assets[d])
      <3>1. CASE wa[r][b] = Nil
        <4>1. IsRow(assets[b]) /\ SameKey(row, assets[b])
              BY <1>2, <3>1 DEF Asset, SameKey
        <4> QED BY <2>2, <4>1 DEF NoDuplicateRows, UniqueRows, SameKey
      <3>2. CASE wa[r][b] # Nil
        <4>1. IsRow(wa[r][b]) /\ SameKey(row, wa[r][b])
              BY <1>2, <3>2 DEF Asset
        <4> QED BY <2>2, <4>1 DEF KeysApart, SameKey
      <3> QED BY <3>1, <3>2
    <2>3. CASE s = r /\ a = b
      <3>1. \A q \in Requests : wa'[q][c] = wa[q][c]
            BY <1>3, <2>3
      <3> QED BY <1>3, <2>1, <2>2, <2>3, <3>1
    <2>4. CASE ~ (s = r /\ a = b)
      <3>1. wa'[s][a] = wa[s][a] /\ a # b
            BY <1>2, <1>3, <2>4 DEF IsRow, Others
      <3>2. CASE c = b
        <4>1. ASSUME NEW q \in Requests, IsRow(wa'[q][b])
              PROVE  ~ SameKey(wa[s][a], wa'[q][b])
          <5>1. CASE q = r
                BY <1>3, <2>1, <3>1, <5>1 DEF SameKey
          <5>2. CASE q # r
                BY <1>2, <1>3, <4>1, <5>2 DEF Others, IsRow
          <5> QED BY <5>1, <5>2
        <4>2. IsRow(assets[b]) => ~ SameKey(wa[s][a], assets[b])
              BY <1>4, <2>1, <3>1 DEF SameKey
        <4> QED BY <3>1, <3>2, <4>1, <4>2
      <3>3. CASE c # b
            BY <1>3, <3>1, <3>3 DEF KeysApart
      <3> QED BY <3>2, <3>3
    <2> QED BY <2>3, <2>4
  <1>9. EndpointsLocked'
    <2> SUFFICES ASSUME NEW s \in Requests, NEW x \in RelIds, IsRow(wr[s][x]),
                        NEW a \in {wr[s][x].src, wr[s][x].dst}
                 PROVE  /\ IsRow(Asset(s, a)') /\ Asset(s, a)'.tenant = wr[s][x].tenant
                        /\ \A q \in Others(s) : wa'[q][a] # Deleted
        BY <1>1 DEF EndpointsLocked
    <2>1. a \in AssetIds
          BY DEF RelRow, IsRow
    <2>2. /\ IsRow(Asset(s, a)) /\ Asset(s, a).tenant = wr[s][x].tenant
          /\ \A q \in Others(s) : wa[q][a] # Deleted
          BY DEF EndpointsLocked
    <2>3. \A q \in Others(s) : wa'[q][a] # Deleted
          BY <1>1, <1>3, <2>1, <2>2 DEF Others, IsRow
    <2>4. IsRow(Asset(s, a)') /\ Asset(s, a)'.tenant = Asset(s, a).tenant
          BY <1>1, <1>3, <2>1, <2>2 DEF Asset, SameKey, IsRow
    <2> QED BY <2>2, <2>3, <2>4
  <1>10. CascadeComplete'
        BY <1>1, <1>3 DEF CascadeComplete, IsRow
  <1> QED BY <1>5, <1>6, <1>7, <1>8, <1>9, <1>10

(* DELETE FROM assets, with its cascade.                                   *)
LEMMA DeleteAssetInv ==
    ASSUME StoreInv, NEW r \in Requests, NEW b \in AssetIds, DeleteAsset(r, b)
    PROVE  StoreInv'
  <1> USE NilAssumption DEF StoreInv, StoreTypeOK, DeleteAsset, AssetCell, RelCell
  <1>1. /\ assets' = assets /\ rels' = rels
        /\ wa' = [wa EXCEPT ![r][b] = Deleted]
        /\ wr' = [wr EXCEPT ![r] = Cascade(r, b)]
        OBVIOUS
  <1>2. /\ IsRow(Asset(r, b))
        /\ \A s \in Others(r) : wa[s][b] = Nil
        /\ \A s \in Others(r), x \in RelIds :
              wr[s][x] # Nil /\ IsRow(RelImage(s, x)) => ~ Touches(RelImage(s, x), b)
        BY DEF AssetRows, AssetDeleteHolders, RowHolders
  <1>3. /\ wa'[r][b] = Deleted
        /\ \A s \in Requests, a \in AssetIds : s # r \/ a # b => wa'[s][a] = wa[s][a]
        BY <1>1
  <1>4. /\ \A s \in Others(r) : wr'[s] = wr[s]
        /\ \A x \in RelIds : wr'[r][x] = IF IsRow(Rel(r, x)) /\ Touches(Rel(r, x), b)
                                         THEN Deleted ELSE wr[r][x]
        BY <1>1 DEF Cascade, RelRows, Others
  <1>5. \A s \in Requests, x \in RelIds : IsRow(wr'[s][x]) => wr'[s][x] = wr[s][x]
        BY <1>4 DEF IsRow, Others
  <1>6. StoreTypeOK'
        BY <1>1 DEF Cascade
  <1>7. NoDuplicateRows' /\ EdgesStayInTenant'
        BY <1>1 DEF NoDuplicateRows, UniqueRows, EdgesStayInTenant, EdgesInTenant
  <1>8. ASSUME NEW s \in Others(r), NEW x \in RelIds,
               IsRow(Rel(r, x)), Touches(Rel(r, x), b)
        PROVE  wr[s][x] = Nil
    <2>1. CASE wr[r][x] # Nil
          BY <2>1 DEF LocksExclusive, Others
    <2>2. CASE wr[r][x] = Nil /\ wr[s][x] # Nil
      <3>1. Rel(r, x) = rels[x] /\ IsRow(rels[x]) /\ Touches(rels[x], b)
            BY <1>8, <2>2 DEF Rel
      <3>2. ~ IsRow(wr[s][x])
            BY <3>1 DEF WritesFit, Others, IsRow
      <3> QED BY <1>2, <2>2, <3>1, <3>2 DEF RelImage
    <2> QED BY <2>1, <2>2
  <1>9. LocksExclusive'
    <2> SUFFICES ASSUME NEW s \in Requests, NEW q \in Requests, s # q
                 PROVE  /\ \A a \in AssetIds : wa'[s][a] = Nil \/ wa'[q][a] = Nil
                        /\ \A x \in RelIds : wr'[s][x] = Nil \/ wr'[q][x] = Nil
        BY DEF LocksExclusive
    <2>1. \A a \in AssetIds : wa'[s][a] = Nil \/ wa'[q][a] = Nil
          BY <1>2, <1>3 DEF LocksExclusive, Others
    <2>2. \A x \in RelIds : wr'[s][x] = Nil \/ wr'[q][x] = Nil
          BY <1>4, <1>8 DEF LocksExclusive, Others
    <2> QED BY <2>1, <2>2
  <1>10. WritesFit'
    <2>1. assets[b] # Deleted
          BY <1>2 DEF WritesFit, Asset, IsRow
    <2>2. \A s \in Requests, x \in RelIds : IsRow(wr'[s][x]) => rels'[x] = Nil
          BY <1>1, <1>5 DEF WritesFit
    <2>3. ASSUME NEW s \in Requests, NEW a \in AssetIds, wa'[s][a] # Nil
          PROVE  /\ assets'[a] # Deleted
                 /\ IsRow(wa'[s][a]) /\ IsRow(assets'[a]) => SameKey(wa'[s][a], assets'[a])
      <3>1. CASE s = r /\ a = b
            BY <1>1, <1>3, <2>1, <3>1 DEF IsRow
      <3>2. CASE ~ (s = r /\ a = b)
            BY <1>1, <1>3, <2>3, <3>2 DEF WritesFit
      <3> QED BY <3>1, <3>2
    <2> QED BY <2>2, <2>3 DEF WritesFit
  <1>11. KeysApart'
        BY <1>1, <1>2, <1>3 DEF KeysApart, IsRow
  <1>12. EdgesApart'
    <2> SUFFICES ASSUME NEW s \in Requests, NEW x \in RelIds, NEW y \in RelIds,
                        IsRow(wr'[s][x]), x # y
                 PROVE  /\ IsRow(rels[y]) /\ SameEdge(wr'[s][x], rels[y])
                               => wr'[s][y] = Deleted
                        /\ \A q \in Requests : IsRow(wr'[q][y])
                               => ~ SameEdge(wr'[s][x], wr'[q][y])
        BY <1>1 DEF EdgesApart
    <2>1. wr[s][y] = Deleted => wr'[s][y] = Deleted
          BY <1>4 DEF Others
    <2>2. wr'[s][x] = wr[s][x] /\ \A q \in Requests : IsRow(wr'[q][y]) => wr'[q][y] = wr[q][y]
          BY <1>5
    <2>3. /\ IsRow(rels[y]) /\ SameEdge(wr[s][x], rels[y]) => wr[s][y] = Deleted
          /\ \A q \in Requests : IsRow(wr[q][y]) => ~ SameEdge(wr[s][x], wr[q][y])
          BY <2>2 DEF EdgesApart
    <2> QED BY <2>1, <2>2, <2>3
  <1>13. EndpointsLocked'
    <2> SUFFICES ASSUME NEW s \in Requests, NEW x \in RelIds, IsRow(wr'[s][x]),
                        NEW a \in {wr'[s][x].src, wr'[s][x].dst}
                 PROVE  /\ IsRow(Asset(s, a)') /\ Asset(s, a)'.tenant = wr'[s][x].tenant
                        /\ \A q \in Others(s)' : wa'[q][a] # Deleted
        BY DEF EndpointsLocked
    <2>0. wr'[s][x] = wr[s][x] /\ IsRow(wr[s][x])
          BY <1>5
    <2>1. a \in AssetIds /\ wr'[s][x] = wr[s][x] /\ IsRow(wr[s][x])
          BY <2>0 DEF RelRow, IsRow
    <2>2. /\ IsRow(Asset(s, a)) /\ Asset(s, a).tenant = wr[s][x].tenant
          /\ \A q \in Others(s) : wa[q][a] # Deleted
          BY <2>1 DEF EndpointsLocked
    <2>3. a # b
      <3> SUFFICES ~ Touches(wr[s][x], b)
          BY <2>0 DEF Touches
      <3>1. CASE s = r
            BY <1>4, <2>1, <3>1 DEF Rel, IsRow
      <3>2. CASE s # r
            BY <1>2, <2>1, <3>2 DEF RelImage, Others, IsRow
      <3> QED BY <3>1, <3>2
    <2> QED BY <1>1, <1>3, <2>1, <2>2, <2>3 DEF Asset, Others
  <1>14. CascadeComplete'
    <2> SUFFICES ASSUME NEW s \in Requests, NEW a \in AssetIds, NEW x \in RelIds,
                        wa'[s][a] = Deleted, IsRow(rels[x]), Touches(rels[x], a)
                 PROVE  wr'[s][x] = Deleted
        BY <1>1 DEF CascadeComplete
    <2>1. CASE s = r /\ a = b
          BY <1>4, <2>1 DEF Rel, WritesFit, IsRow
    <2>2. CASE ~ (s = r /\ a = b)
      <3>1. wr[s][x] = Deleted
            BY <1>3, <2>2 DEF CascadeComplete
      <3> QED BY <1>4, <3>1 DEF Others
    <2> QED BY <2>1, <2>2
  <1> QED BY <1>6, <1>7, <1>9, <1>10, <1>11, <1>12, <1>13, <1>14

(* INSERT INTO relationships: the endpoints are rows of the tenant as far  *)
(* as this transaction sees, and nobody else is deleting them.             *)
LEMMA InsertRelInv ==
    ASSUME StoreInv, NEW r \in Requests, NEW y \in RelIds, NEW rel \in RelRow,
           InsertRel(r, y, rel),
           Asset(r, rel.src).tenant = rel.tenant, Asset(r, rel.dst).tenant = rel.tenant
    PROVE  StoreInv'
  <1> USE NilAssumption DEF StoreInv, StoreTypeOK, InsertRel, AssetCell, RelCell
  <1>1. /\ assets' = assets /\ rels' = rels /\ wa' = wa
        /\ wr' = [wr EXCEPT ![r][y] = rel]
        /\ IsRow(rel)
        BY DEF IsRow
  <1>2. rels[y] = Nil /\ \A s \in Requests : wr[s][y] = Nil
        BY DEF FreshRels
  <1>3. /\ wr'[r][y] = rel
        /\ \A s \in Requests, x \in RelIds : s # r \/ x # y => wr'[s][x] = wr[s][x]
        BY <1>1
  <1>4. StoreTypeOK' /\ NoDuplicateRows' /\ EdgesStayInTenant' /\ KeysApart'
        BY <1>1 DEF NoDuplicateRows, UniqueRows, EdgesStayInTenant, EdgesInTenant, KeysApart
  <1>5. LocksExclusive'
        BY <1>1, <1>2, <1>3 DEF LocksExclusive
  <1>6. WritesFit'
        BY <1>1, <1>2, <1>3 DEF WritesFit, IsRow
  <1>7. EdgesApart'
    <2> SUFFICES ASSUME NEW s \in Requests, NEW x \in RelIds, NEW z \in RelIds,
                        IsRow(wr'[s][x]), x # z
                 PROVE  /\ IsRow(rels[z]) /\ SameEdge(wr'[s][x], rels[z])
                               => wr'[s][z] = Deleted
                        /\ \A q \in Requests : IsRow(wr'[q][z])
                               => ~ SameEdge(wr'[s][x], wr'[q][z])
        BY <1>1 DEF EdgesApart
    <2>1. ASSUME NEW d \in RelIds, NEW q \in Requests, IsRow(wr[q][d]), d # y
          PROVE  ~ SameEdge(rel, wr[q][d])
      <3>1. CASE q = r
            BY <2>1, <3>1 DEF EdgeExists, RelRows, Rel, IsRow, SameEdge
      <3>2. CASE q # r
            BY <2>1, <3>2 DEF RelInsertHolders, EdgeHolders, Others, RelImage, IsRow, SameEdge
      <3> QED BY <3>1, <3>2
    <2>2. ASSUME NEW d \in RelIds, IsRow(rels[d]), d # y, wr[r][d] # Deleted
          PROVE  ~ SameEdge(rel, rels[d])
      <3>1. wr[r][d] = Nil
            BY <2>2 DEF WritesFit, IsRow
      <3> QED BY <2>2, <3>1 DEF EdgeExists, RelRows, Rel, SameEdge
    <2>3. CASE s = r /\ x = y
      <3>1. \A q \in Requests : wr'[q][z] = wr[q][z]
            BY <1>3, <2>3
      <3> QED BY <1>3, <2>1, <2>2, <2>3, <3>1
    <2>4. CASE ~ (s = r /\ x = y)
      <3>1. wr'[s][x] = wr[s][x] /\ x # y
            BY <1>2, <1>3, <2>4 DEF IsRow
      <3>2. CASE z = y
            BY <1>1, <1>2, <1>3, <2>1, <3>1, <3>2 DEF SameEdge, IsRow
      <3>3. CASE z # y
            BY <1>3, <3>1, <3>3 DEF EdgesApart
      <3> QED BY <3>2, <3>3
    <2> QED BY <2>3, <2>4
  <1>8. EndpointsLocked'
    <2> SUFFICES ASSUME NEW s \in Requests, NEW x \in RelIds, IsRow(wr'[s][x]),
                        NEW a \in {wr'[s][x].src, wr'[s][x].dst}
                 PROVE  /\ IsRow(Asset(s, a)') /\ Asset(s, a)'.tenant = wr'[s][x].tenant
                        /\ \A q \in Others(s)' : wa'[q][a] # Deleted
        BY DEF EndpointsLocked
    <2>0. Asset(s, a)' = Asset(s, a) /\ Others(s)' = Others(s) /\ wa' = wa
          BY <1>1 DEF Asset, Others
    <2> SUFFICES /\ IsRow(Asset(s, a)) /\ Asset(s, a).tenant = wr'[s][x].tenant
                 /\ \A q \in Others(s) : wa[q][a] # Deleted
        BY <2>0
    <2>1. CASE s = r /\ x = y
      <3>1. a \in AssetRows(r) /\ Asset(r, a).tenant = rel.tenant
            BY <1>3, <2>1 DEF EndpointsExist
      <3>2. \A q \in Others(r) : wa[q][a] # Deleted
            BY <1>3, <2>1 DEF RelInsertHolders, DeleteHolders
      <3> QED BY <1>3, <2>1, <3>1, <3>2 DEF AssetRows
    <2>2. CASE ~ (s = r /\ x = y)
          BY <1>3, <2>2 DEF EndpointsLocked
    <2> QED BY <2>1, <2>2
  <1>9. CascadeComplete'
        BY <1>1, <1>2, <1>3 DEF CascadeComplete, IsRow
  <1> QED BY <1>4, <1>5, <1>6, <1>7, <1>8, <1>9

(* DELETE FROM relationships.                                              *)
LEMMA DeleteRelInv ==
    ASSUME StoreInv, NEW r \in Requests, NEW y \in RelIds, DeleteRel(r, y)
    PROVE  StoreInv'
  <1> USE NilAssumption DEF StoreInv, StoreTypeOK, DeleteRel, AssetCell, RelCell
  <1>1. /\ assets' = assets /\ rels' = rels /\ wa' = wa
        /\ wr' = [wr EXCEPT ![r][y] = Deleted]
        OBVIOUS
  <1>2. \A s \in Others(r) : wr[s][y] = Nil
        BY DEF RelHolders
  <1>3. /\ wr'[r][y] = Deleted
        /\ \A s \in Requests, x \in RelIds : s # r \/ x # y => wr'[s][x] = wr[s][x]
        BY <1>1
  <1>4. StoreTypeOK' /\ NoDuplicateRows' /\ EdgesStayInTenant' /\ KeysApart'
        BY <1>1 DEF NoDuplicateRows, UniqueRows, EdgesStayInTenant, EdgesInTenant, KeysApart
  <1>5. LocksExclusive'
        BY <1>1, <1>2, <1>3 DEF LocksExclusive, Others
  <1>6. WritesFit'
        BY <1>1, <1>3 DEF WritesFit, IsRow
  <1>7. EdgesApart'
        BY <1>1, <1>3 DEF EdgesApart, IsRow
  <1>8. EndpointsLocked'
        BY <1>1, <1>3 DEF EndpointsLocked, IsRow, Asset, Others
  <1>9. CascadeComplete'
        BY <1>1, <1>3 DEF CascadeComplete
  <1> QED BY <1>4, <1>5, <1>6, <1>7, <1>8, <1>9

-----------------------------------------------------------------------------
(* COMMIT: what the transaction saw becomes what everybody sees.           *)
LEMMA CommitInv ==
    ASSUME StoreInv, NEW r \in Requests, CommitWrites(r)
    PROVE  StoreInv'
  <1> USE NilAssumption DEF StoreInv, StoreTypeOK, CommitWrites, ForgetWrites, AssetCell, RelCell
  <1>1. /\ \A a \in AssetIds : assets'[a] = Asset(r, a)
        /\ \A x \in RelIds : rels'[x] = Rel(r, x)
        OBVIOUS
  <1>2. /\ \A a \in AssetIds : wa'[r][a] = Nil
        /\ \A x \in RelIds : wr'[r][x] = Nil
        /\ \A s \in Others(r) : wa'[s] = wa[s] /\ wr'[s] = wr[s]
        BY DEF Others
  <1>3. StoreTypeOK'
        BY DEF Asset, Rel
  <1>4. \A a \in AssetIds : \/ wa[r][a] = Nil /\ assets'[a] = assets[a]
                            \/ wa[r][a] # Nil /\ assets'[a] = wa[r][a]
                                 /\ \A s \in Others(r) : wa[s][a] = Nil
        BY <1>1 DEF Asset, LocksExclusive, Others
  <1>5. \A x \in RelIds : \/ wr[r][x] = Nil /\ rels'[x] = rels[x]
                          \/ wr[r][x] # Nil /\ rels'[x] = wr[r][x]
                               /\ \A s \in Others(r) : wr[s][x] = Nil
        BY <1>1 DEF Rel, LocksExclusive, Others
  <1>6. NoDuplicateRows'
    <2>1. ASSUME NEW a \in AssetIds, NEW b \in AssetIds, a # b,
                 IsRow(assets'[a]), IsRow(assets'[b])
          PROVE  ~ SameKey(assets'[a], assets'[b])
      <3>1. CASE wa[r][a] = Nil /\ wa[r][b] = Nil
            BY <1>4, <2>1, <3>1 DEF NoDuplicateRows, UniqueRows
      <3>2. CASE wa[r][a] # Nil
            BY <1>4, <2>1, <3>2 DEF KeysApart, IsRow
      <3>3. CASE wa[r][a] = Nil /\ wa[r][b] # Nil
        <4>1. IsRow(assets[a]) /\ assets'[a] = assets[a]
              /\ IsRow(wa[r][b]) /\ assets'[b] = wa[r][b]
              BY <1>4, <2>1, <3>3
        <4>2. SameKey(wa[r][b], assets[a]) => wa[r][a] = Deleted
              BY <2>1, <4>1 DEF KeysApart
        <4> QED BY <3>3, <4>1, <4>2 DEF SameKey
      <3> QED BY <3>1, <3>2, <3>3
    <2>2. ASSUME NEW x \in RelIds, NEW y \in RelIds, x # y,
                 IsRow(rels'[x]), IsRow(rels'[y])
          PROVE  ~ SameEdge(rels'[x], rels'[y])
      <3>1. CASE wr[r][x] = Nil /\ wr[r][y] = Nil
            BY <1>5, <2>2, <3>1 DEF NoDuplicateRows, UniqueRows
      <3>2. CASE wr[r][x] # Nil
            BY <1>5, <2>2, <3>2 DEF EdgesApart, IsRow
      <3>3. CASE wr[r][x] = Nil /\ wr[r][y] # Nil
        <4>1. IsRow(rels[x]) /\ rels'[x] = rels[x]
              /\ IsRow(wr[r][y]) /\ rels'[y] = wr[r][y]
              BY <1>5, <2>2, <3>3
        <4>2. SameEdge(wr[r][y], rels[x]) => wr[r][x] = Deleted
              BY <2>2, <4>1 DEF EdgesApart
        <4> QED BY <3>3, <4>1, <4>2 DEF SameEdge
      <3> QED BY <3>1, <3>2, <3>3
    <2> QED BY <2>1, <2>2 DEF NoDuplicateRows, UniqueRows
  <1>7. EdgesStayInTenant'
    <2> SUFFICES ASSUME NEW x \in RelIds, IsRow(rels'[x]),
                        NEW a \in {rels'[x].src, rels'[x].dst}
                 PROVE  IsRow(assets'[a]) /\ assets'[a].tenant = rels'[x].tenant
        BY DEF EdgesStayInTenant, EdgesInTenant
    <2>1. a \in AssetIds
          BY <1>3 DEF RelRow, IsRow
    <2>2. CASE wr[r][x] # Nil
      <3>1. rels'[x] = wr[r][x] /\ IsRow(wr[r][x])
            BY <1>5, <2>2
      <3>2. IsRow(Asset(r, a)) /\ Asset(r, a).tenant = wr[r][x].tenant
            BY <3>1 DEF EndpointsLocked
      <3> QED BY <1>1, <2>1, <3>1, <3>2
    <2>3. CASE wr[r][x] = Nil
      <3>1. rels'[x] = rels[x] /\ Touches(rels[x], a)
            BY <1>5, <2>3 DEF Touches
      <3>2. IsRow(assets[a]) /\ assets[a].tenant = rels[x].tenant
            BY <3>1 DEF EdgesStayInTenant, EdgesInTenant
      <3>3. wa[r][a] # Deleted
            BY <2>1, <2>3, <3>1 DEF CascadeComplete
      <3> QED BY <1>4, <2>1, <3>1, <3>2, <3>3 DEF WritesFit, IsRow, SameKey
    <2> QED BY <2>2, <2>3
  <1>8. LocksExclusive'
        BY <1>2 DEF LocksExclusive, Others
  <1>9. WritesFit'
    <2>1. ASSUME NEW s \in Requests, NEW a \in AssetIds, wa'[s][a] # Nil
          PROVE  /\ assets'[a] # Deleted
                 /\ IsRow(wa'[s][a]) /\ IsRow(assets'[a]) => SameKey(wa'[s][a], assets'[a])
          BY <1>2, <1>4, <2>1 DEF WritesFit, Others
    <2>2. ASSUME NEW s \in Requests, NEW x \in RelIds, IsRow(wr'[s][x])
          PROVE  rels'[x] = Nil
          BY <1>2, <1>5, <2>2 DEF WritesFit, Others, IsRow
    <2> QED BY <2>1, <2>2 DEF WritesFit
  <1>10. KeysApart'
    <2> SUFFICES ASSUME NEW s \in Requests, NEW a \in AssetIds, NEW b \in AssetIds,
                        IsRow(wa'[s][a]), a # b
                 PROVE  /\ IsRow(assets'[b]) /\ SameKey(wa'[s][a], assets'[b])
                               => wa'[s][b] = Deleted
                        /\ \A q \in Requests : IsRow(wa'[q][b])
                               => ~ SameKey(wa'[s][a], wa'[q][b])
        BY DEF KeysApart
    <2>1. s # r /\ wa'[s] = wa[s]
          BY <1>2 DEF Others, IsRow
    <2>2. \A q \in Requests : IsRow(wa'[q][b]) => wa'[q][b] = wa[q][b]
          BY <1>2 DEF Others, IsRow
    <2>3. IsRow(assets'[b]) /\ SameKey(wa'[s][a], assets'[b]) => wa'[s][b] = Deleted
          BY <1>4, <2>1 DEF KeysApart
    <2> QED BY <2>1, <2>2, <2>3 DEF KeysApart
  <1>11. EdgesApart'
    <2> SUFFICES ASSUME NEW s \in Requests, NEW x \in RelIds, NEW y \in RelIds,
                        IsRow(wr'[s][x]), x # y
                 PROVE  /\ IsRow(rels'[y]) /\ SameEdge(wr'[s][x], rels'[y])
                               => wr'[s][y] = Deleted
                        /\ \A q \in Requests : IsRow(wr'[q][y])
                               => ~ SameEdge(wr'[s][x], wr'[q][y])
        BY DEF EdgesApart
    <2>1. s # r /\ wr'[s] = wr[s]
          BY <1>2 DEF Others, IsRow
    <2>2. \A q \in Requests : IsRow(wr'[q][y]) => wr'[q][y] = wr[q][y]
          BY <1>2 DEF Others, IsRow
    <2>3. IsRow(rels'[y]) /\ SameEdge(wr'[s][x], rels'[y]) => wr'[s][y] = Deleted
          BY <1>5, <2>1 DEF EdgesApart
    <2> QED BY <2>1, <2>2, <2>3 DEF EdgesApart
  <1>12. EndpointsLocked'
    <2> SUFFICES ASSUME NEW s \in Requests, NEW x \in RelIds, IsRow(wr'[s][x]),
                        NEW a \in {wr'[s][x].src, wr'[s][x].dst}
                 PROVE  /\ IsRow(Asset(s, a)') /\ Asset(s, a)'.tenant = wr'[s][x].tenant
                        /\ \A q \in Others(s)' : wa'[q][a] # Deleted
        BY DEF EndpointsLocked
    <2>1. s \in Others(r) /\ wa'[s] = wa[s] /\ wr'[s] = wr[s]
          BY <1>2 DEF Others, IsRow
    <2>2. a \in AssetIds
          BY <2>1 DEF RelRow, IsRow
    <2>3. /\ IsRow(Asset(s, a)) /\ Asset(s, a).tenant = wr[s][x].tenant
          /\ \A q \in Others(s) : wa[q][a] # Deleted
          BY <2>1 DEF EndpointsLocked
    <2>4. \A q \in Others(s)' : wa'[q][a] # Deleted
          BY <1>2, <2>2, <2>3 DEF Others
    <2>5. IsRow(Asset(s, a)') /\ Asset(s, a)'.tenant = Asset(s, a).tenant
      <3>1. CASE wa[s][a] # Nil
            BY <2>1, <2>3, <3>1 DEF Asset
      <3>2. CASE wa[s][a] = Nil
        <4>1. IsRow(assets[a]) /\ Asset(s, a) = assets[a] /\ Asset(s, a)' = assets'[a]
              BY <2>1, <2>3, <3>2 DEF Asset
        <4>2. wa[r][a] # Deleted
              BY <2>1, <2>3 DEF Others
        <4> QED BY <1>4, <2>2, <4>1, <4>2 DEF WritesFit, IsRow, SameKey
      <3> QED BY <3>1, <3>2
    <2> QED BY <2>1, <2>3, <2>4, <2>5
  <1>13. CascadeComplete'
    <2> SUFFICES ASSUME NEW s \in Requests, NEW a \in AssetIds, NEW x \in RelIds,
                        wa'[s][a] = Deleted, IsRow(rels'[x]), Touches(rels'[x], a)
                 PROVE  wr'[s][x] = Deleted
        BY DEF CascadeComplete
    <2>1. s \in Others(r) /\ wa'[s] = wa[s] /\ wr'[s] = wr[s]
          BY <1>2 DEF Others
    <2>2. CASE wr[r][x] = Nil
          BY <1>5, <2>1, <2>2 DEF CascadeComplete, Others
    <2>3. CASE wr[r][x] # Nil
      <3>1. IsRow(wr[r][x]) /\ a \in {wr[r][x].src, wr[r][x].dst}
            BY <1>5, <2>3 DEF Touches
      <3>2. wa[s][a] # Deleted
            BY <2>1, <3>1 DEF EndpointsLocked, Others
      <3> QED BY <2>1, <3>2
    <2> QED BY <2>2, <2>3
  <1> QED BY <1>3, <1>6, <1>7, <1>8, <1>9, <1>10, <1>11, <1>12, <1>13

(* ROLLBACK: as if the transaction had never been.                         *)
LEMMA RollbackInv ==
    ASSUME StoreInv, NEW r \in Requests, RollbackWrites(r)
    PROVE  StoreInv'
  <1> USE NilAssumption DEF StoreInv, StoreTypeOK, RollbackWrites, ForgetWrites, AssetCell, RelCell
  <1>1. /\ assets' = assets /\ rels' = rels
        /\ \A a \in AssetIds : wa'[r][a] = Nil
        /\ \A x \in RelIds : wr'[r][x] = Nil
        /\ \A s \in Requests : s # r => wa'[s] = wa[s] /\ wr'[s] = wr[s]
        OBVIOUS
  <1>2. StoreTypeOK' /\ NoDuplicateRows' /\ EdgesStayInTenant'
        BY <1>1 DEF NoDuplicateRows, UniqueRows, EdgesStayInTenant, EdgesInTenant
  <1>3. LocksExclusive' /\ WritesFit'
        BY <1>1 DEF LocksExclusive, WritesFit, IsRow
  <1>4. KeysApart' /\ EdgesApart'
        BY <1>1 DEF KeysApart, EdgesApart, IsRow
  <1>5. EndpointsLocked'
    <2> SUFFICES ASSUME NEW s \in Requests, NEW x \in RelIds, IsRow(wr'[s][x]),
                        NEW a \in {wr'[s][x].src, wr'[s][x].dst}
                 PROVE  /\ IsRow(Asset(s, a)') /\ Asset(s, a)'.tenant = wr'[s][x].tenant
                        /\ \A q \in Others(s)' : wa'[q][a] # Deleted
        BY DEF EndpointsLocked
    <2>1. s # r /\ wa'[s] = wa[s] /\ wr'[s] = wr[s]
          BY <1>1 DEF IsRow
    <2>2. a \in AssetIds
          BY <2>1 DEF RelRow, IsRow
    <2>3. /\ IsRow(Asset(s, a)) /\ Asset(s, a).tenant = wr[s][x].tenant
          /\ \A q \in Others(s) : wa[q][a] # Deleted
          BY <2>1 DEF EndpointsLocked
    <2> QED BY <1>1, <2>1, <2>2, <2>3 DEF Asset, Others
  <1>6. CascadeComplete'
        BY <1>1 DEF CascadeComplete
  <1> QED BY <1>2, <1>3, <1>4, <1>5, <1>6

-----------------------------------------------------------------------------
(* Everything a step of request r may do to the store.                     *)
StoreStep(r) ==
    \/ UNCHANGED storeVars
    \/ \E a \in AssetIds, row \in AssetRow : InsertAsset(r, a, row)
    \/ \E a \in AssetIds, row \in AssetRow :
           UpdateAsset(r, a, row) /\ SameKey(row, Asset(r, a))
    \/ \E a \in AssetIds : DeleteAsset(r, a)
    \/ \E x \in RelIds, rel \in RelRow :
           /\ InsertRel(r, x, rel)
           /\ Asset(r, rel.src).tenant = rel.tenant
           /\ Asset(r, rel.dst).tenant = rel.tenant
    \/ \E x \in RelIds : DeleteRel(r, x)
    \/ CommitWrites(r)
    \/ RollbackWrites(r)

LEMMA StoreStepInv ==
    ASSUME StoreInv, NEW r \in Requests, StoreStep(r)
    PROVE  StoreInv'
  BY StoreStutter, InsertAssetInv, UpdateAssetInv, DeleteAssetInv, InsertRelInv,
     DeleteRelInv, CommitInv, RollbackInv DEF StoreStep

(* What a request has seen of a tenant's asset stays sound, whatever the   *)
(* others do and whatever it writes itself, until it rolls back.           *)
LEMMA StoreStepSound ==
    ASSUME StoreInv, NEW r \in Requests, StoreStep(r),
           NEW s \in Requests, s # r \/ ~ RollbackWrites(r),
           NEW a \in AssetIds, NEW t, Sound(s, a, t)
    PROVE  Sound(s, a, t)'
  <1> USE NilAssumption DEF StoreInv, StoreTypeOK, AssetCell, Sound, Asset, IsRow
  <1>1. CASE UNCHANGED storeVars
        BY <1>1 DEF storeVars
  <1>2. CASE \E b \in AssetIds, row \in AssetRow : InsertAsset(r, b, row)
        BY <1>2 DEF InsertAsset, FreshAssets
  <1>3. CASE \E b \in AssetIds, row \in AssetRow :
                 UpdateAsset(r, b, row) /\ SameKey(row, Asset(r, b))
        BY <1>3 DEF UpdateAsset, SameKey, AssetRows
  <1>4. CASE \E b \in AssetIds : DeleteAsset(r, b)
        BY <1>4 DEF DeleteAsset
  <1>5. CASE \E x \in RelIds, rel \in RelRow : InsertRel(r, x, rel)
        BY <1>5 DEF InsertRel
  <1>6. CASE \E x \in RelIds : DeleteRel(r, x)
        BY <1>6 DEF DeleteRel
  <1>7. CASE CommitWrites(r)
    <2>1. /\ assets'[a] = Asset(r, a)
          /\ wa'[s][a] = IF s = r THEN Nil ELSE wa[s][a]
          BY <1>7 DEF CommitWrites, ForgetWrites
    <2>2. CASE s = r
          BY <2>1, <2>2
    <2>3. CASE s # r /\ wa[r][a] = Nil
          BY <2>1, <2>3
    <2>4. CASE s # r /\ wa[r][a] # Nil
      <3>1. wa[s][a] = Nil /\ assets[a] # Deleted /\ assets'[a] = wa[r][a]
            BY <2>1, <2>4 DEF LocksExclusive, WritesFit
      <3>2. IsRow(assets[a]) /\ assets[a].tenant = t
            BY <3>1
      <3>3. IsRow(wa[r][a]) => wa[r][a].tenant = t
            BY <3>2 DEF WritesFit, SameKey
      <3> QED BY <2>1, <2>4, <3>1, <3>3
    <2> QED BY <2>2, <2>3, <2>4
  <1>8. CASE RollbackWrites(r)
        BY <1>8 DEF RollbackWrites, ForgetWrites
  <1> QED BY <1>1, <1>2, <1>3, <1>4, <1>5, <1>6, <1>7, <1>8 DEF StoreStep

-----------------------------------------------------------------------------
(* The handlers.                                                           *)

LocalTypeOK ==
    SessionTypeOK /\ CacheTypeOK /\ GraphTypeOK /\ RelTypeOK /\ ImportTypeOK

(* A step of request r leaves the handlers of the others where they are.   *)
OthersStay(r) ==
    \A s \in Requests \ {r} :
        /\ pc'[s] = pc[s] /\ call'[s] = call[s] /\ orm'[s] = orm[s]
        /\ graph'[s] = graph[s] /\ imp'[s] = imp[s]

GoodStep(r) ==
    /\ StoreStep(r)
    /\ OthersStay(r)
    /\ LocalTypeOK'
    /\ HandlerInOrder(r)' /\ LookupsSound(r)'

(* Good steps preserve the invariant.                                      *)
LEMMA GoodStepInv ==
    ASSUME ApiInv, NEW r \in Requests, GoodStep(r)
    PROVE  ApiInv'
  <1>1. StoreInv /\ StoreInv'
        BY StoreStepInv DEF ApiInv, GoodStep
  <1>2. TypeOK'
        BY <1>1 DEF GoodStep, LocalTypeOK, TypeOK, StoreInv
  <1>3. ASSUME NEW s \in Requests, s # r
        PROVE  HandlerInOrder(s)' /\ LookupsSound(s)'
    <2>1. /\ pc'[s] = pc[s] /\ call'[s] = call[s] /\ orm'[s] = orm[s]
          /\ graph'[s] = graph[s] /\ imp'[s] = imp[s]
          BY <1>3 DEF GoodStep, OthersStay
    <2>2. HandlerInOrder(s) /\ LookupsSound(s)
          BY DEF ApiInv
    <2>3. LinkSet(s)' = LinkSet(s)
          BY <2>1 DEF LinkSet, Valid, Items, Target
    <2>4. HandlerInOrder(s)'
          BY <2>1, <2>2, <2>3 DEF HandlerInOrder
    <2>5. ASSUME NEW a \in AssetIds, NEW t, Sound(s, a, t)
          PROVE  Sound(s, a, t)'
          BY <1>1, <1>3, <2>5, StoreStepSound DEF GoodStep
    <2>6. /\ pc[s] \in {"rel_target", "rel_lookup", "insert_rel"} => call[s].src \in AssetIds
          /\ pc[s] \in {"rel_lookup", "insert_rel"} => call[s].dst \in AssetIds
          /\ \A t \in TempIds : imp[s].tmp[t] \in AssetIds \cup {Nil}
          BY <2>2 DEF HandlerInOrder, RelateCall, ApiInv, TypeOK, ImportTypeOK, Locals
    <2>7. LookupsSound(s)'
          BY <2>1, <2>2, <2>5, <2>6 DEF LookupsSound
    <2> QED BY <2>4, <2>7
  <1> QED BY <1>1, <1>2, <1>3 DEF ApiInv, GoodStep

(* A handler that has returned or raised relies on nothing any more.       *)
LEMMA Finished ==
    ASSUME NEW r \in Requests, pc'[r] \in {"commit", "done"}
    PROVE  HandlerInOrder(r)' /\ LookupsSound(r)'
  BY DEF HandlerInOrder, LookupsSound

-----------------------------------------------------------------------------
(* The session.                                                            *)

(* A request arrives: its handler is the one its call names.               *)
LEMMA ArriveGood ==
    ASSUME ApiInv, NEW r \in Requests, Arrive(r)
    PROVE  GoodStep(r)
  <1> USE DEF Arrive, Begin, sessionVars, graphVars
  <1>1. PICK c \in Calls : call' = [call EXCEPT ![r] = c] /\ pc' = [pc EXCEPT ![r] = c.op]
        OBVIOUS
  <1>2. StoreStep(r) /\ OthersStay(r)
        BY <1>1 DEF StoreStep, OthersStay, ApiInv, TypeOK, SessionTypeOK
  <1>3. LocalTypeOK'
        BY <1>1, SessionAssumption DEF LocalTypeOK, ApiInv, TypeOK, SessionTypeOK, CacheTypeOK, GraphTypeOK,
           RelTypeOK, ImportTypeOK
  <1>4. c \in ApiCalls /\ call'[r] = c /\ pc'[r] = c.op
        BY <1>1, CallAssumption DEF ApiInv, TypeOK, SessionTypeOK
  <1>5. HandlerInOrder(r)' /\ LookupsSound(r)'
        BY <1>4 DEF ApiCalls, CreateCall, UpdateCall, StatusCall, DeleteCall, GraphCall,
           RelateCall, UnrelateCall, ImportCall, HandlerInOrder, LookupsSound
  <1> QED BY <1>2, <1>3, <1>5 DEF GoodStep

(* The transaction of a handler that returned is committed.                *)
LEMMA CommitGood ==
    ASSUME ApiInv, NEW r \in Requests, Commit(r), UNCHANGED <<cache, graphVars, inval, imp>>
    PROVE  GoodStep(r)
  <1>1. pc'[r] = "done" /\ StoreStep(r) /\ OthersStay(r)
        BY DEF Commit, StoreStep, OthersStay, graphVars, ApiInv, TypeOK, SessionTypeOK
  <1>2. LocalTypeOK'
        BY DEF Commit, LocalTypeOK, ApiInv, TypeOK, SessionTypeOK, CacheTypeOK, GraphTypeOK,
           RelTypeOK, ImportTypeOK, Labels, graphVars
  <1> QED BY <1>1, <1>2, Finished DEF GoodStep

(* A handler raises, whatever for.                                         *)
LEMMA RaiseGood ==
    ASSUME ApiInv, NEW r \in Requests, NEW code \in Codes \cup {Nil}, Raise(r, code),
           UNCHANGED <<call, clock, cache, graphVars, inval, imp, orm, now>>
    PROVE  GoodStep(r)
  <1>1. pc'[r] = "done" /\ StoreStep(r) /\ OthersStay(r)
        BY DEF Raise, StoreStep, OthersStay, graphVars, ApiInv, TypeOK, SessionTypeOK
  <1>2. LocalTypeOK'
        BY DEF Raise, LocalTypeOK, ApiInv, TypeOK, SessionTypeOK, CacheTypeOK, GraphTypeOK,
           RelTypeOK, ImportTypeOK, Labels, graphVars
  <1> QED BY <1>1, <1>2, Finished DEF GoodStep

(* A handler returns after a statement of its own.                         *)
LEMMA ReplyGood ==
    ASSUME ApiInv, NEW r \in Requests, NEW code \in Codes, Reply(r, code), StoreStep(r),
           UNCHANGED <<call, clock, cache, graphVars, inval, imp, orm, now>>
    PROVE  GoodStep(r)
  <1>1. pc'[r] = "commit" /\ OthersStay(r)
        BY DEF Reply, OthersStay, graphVars, ApiInv, TypeOK, SessionTypeOK
  <1>2. LocalTypeOK'
        BY DEF Reply, LocalTypeOK, ApiInv, TypeOK, SessionTypeOK, CacheTypeOK, GraphTypeOK,
           RelTypeOK, ImportTypeOK, Labels, graphVars
  <1> QED BY <1>1, <1>2, Finished DEF GoodStep

-----------------------------------------------------------------------------
(* The operations on one asset.                                            *)

(* The columns an UPDATE writes make a row that keeps its tenant and key.  *)
LEMMA DirtyColumnsFit ==
    ASSUME NEW new \in AssetRow, NEW loaded \in AssetRow, NEW current \in AssetRow
    PROVE  /\ DirtyColumns(new, loaded, current) \in AssetRow
           /\ SameKey(DirtyColumns(new, loaded, current), current)
  BY DEF DirtyColumns, Dirty, AssetRow, SameKey

(* dict.update gives an object again.                                      *)
LEMMA MergeMetaType ==
    ASSUME NEW old \in [MetaKeys -> MetaVals \cup {Nil}],
           NEW new \in [MetaKeys -> MetaVals \cup {Nil}]
    PROVE  MergeMeta(old, new) \in [MetaKeys -> MetaVals \cup {Nil}]
  BY DEF MergeMeta

(* The row a PUT computes from what it loaded.                             *)
LEMMA UpdatedAssetType ==
    ASSUME NEW c \in UpdateCall, NEW row \in AssetRow, NEW t \in Times
    PROVE  UpdatedAsset(c, row, t) \in AssetRow
  <1>1. /\ c.tags = Nil \/ c.tags \in SUBSET Tags
        /\ c.meta = Nil \/ c.meta \in [MetaKeys -> MetaVals \cup {Nil}]
        /\ c.source = Nil \/ c.source \in Sources
        BY DEF UpdateCall
  <1>2. c.meta # Nil => MergeMeta(row.meta, c.meta) \in [MetaKeys -> MetaVals \cup {Nil}]
        BY <1>1, MergeMetaType DEF AssetRow
  <1> QED BY <1>1, <1>2 DEF UpdatedAsset, AssetRow

(* The flush of an object whose row is loaded is an UPDATE of the store.   *)
LEMMA FlushAssetStep ==
    ASSUME ApiInv, NEW r \in Requests, NEW a \in AssetIds, NEW new \in AssetRow,
           orm[r][a] # Nil, FlushAsset(r, a, new)
    PROVE  StoreStep(r) /\ ~ RollbackWrites(r)
  <1>1. orm[r][a] \in AssetRow /\ Asset(r, a) \in AssetRow /\ a \in AssetRows(r)
        BY DEF ApiInv, TypeOK, SessionTypeOK, StoreTypeOK, FlushAsset, UpdateAsset,
           AssetRows, IsRow, Asset, AssetCell
  <1> DEFINE row == DirtyColumns(new, orm[r][a], Asset(r, a))
  <1>2. row \in AssetRow /\ SameKey(row, Asset(r, a))
        BY <1>1, DirtyColumnsFit
  <1>3. UpdateAsset(r, a, row)
        BY DEF FlushAsset
  <1>4. wa'[r][a] = row
        BY <1>3 DEF UpdateAsset, ApiInv, TypeOK, StoreTypeOK
  <1>5. ~ RollbackWrites(r)
        BY <1>2, <1>4, NilAssumption DEF RollbackWrites, ForgetWrites, ApiInv, TypeOK, StoreTypeOK
  <1> HIDE DEF row
  <1> QED BY <1>2, <1>3, <1>5 DEF StoreStep

(* POST /assets, PUT /assets/{id}, PATCH /assets/{id}/status and           *)
(* DELETE /assets/{id}.                                                    *)
LEMMA AssetStepGood ==
    ASSUME ApiInv, NEW r \in Requests, AssetStep(r),
           UNCHANGED <<cache, graphVars, inval, imp>>
    PROVE  GoodStep(r)
  <1> USE DEF graphVars
  <1>0. /\ HandlerInOrder(r) /\ LookupsSound(r) /\ StoreInv
        /\ TypeOK /\ SessionTypeOK /\ StoreTypeOK
        BY DEF ApiInv, TypeOK
  <1>1. CASE CreateAsset(r)
    <2>1. CASE Raise(r, "409") /\ UNCHANGED now
          BY <1>1, <2>1, RaiseGood DEF CreateAsset, Codes, Declared
    <2>2. CASE /\ Goto(r, "insert_asset") /\ UNCHANGED storeVars
               /\ now' = [now EXCEPT ![r] = clock]
      <3> USE <1>1, <2>2 DEF CreateAsset, Goto
      <3>1. StoreStep(r) /\ OthersStay(r)
            BY <1>0 DEF StoreStep, OthersStay, SessionTypeOK
      <3>2. LocalTypeOK'
            BY <1>0 DEF LocalTypeOK, TypeOK, SessionTypeOK, CacheTypeOK, GraphTypeOK,
               RelTypeOK, ImportTypeOK, Labels
      <3>3. HandlerInOrder(r)' /\ LookupsSound(r)'
            BY <1>0 DEF HandlerInOrder, LookupsSound, SessionTypeOK
      <3> QED BY <3>1, <3>2, <3>3 DEF GoodStep
    <2> QED BY <1>1, <2>1, <2>2 DEF CreateAsset
  <1>2. CASE InsertNewAsset(r)
    <2> DEFINE row == NewAsset(call[r], now[r])
    <2>1. CASE \E a \in AssetIds : InsertAsset(r, a, row) /\ Reply(r, "201")
      <3>1. row \in AssetRow
            BY <1>0, <1>2 DEF InsertNewAsset, HandlerInOrder, CreateCall, NewAsset,
               AssetRow, SessionTypeOK
      <3>2. StoreStep(r)
            BY <2>1, <3>1 DEF StoreStep
      <3> QED BY <1>2, <2>1, <3>2, ReplyGood DEF InsertNewAsset, Codes, Declared
    <2>2. CASE Raise(r, "IntegrityError")
          BY <1>2, <2>2, RaiseGood DEF InsertNewAsset, Codes, Errors
    <2> QED BY <1>2, <2>1, <2>2 DEF InsertNewAsset
  <1>3. CASE GetAsset(r)
    <2>1. CASE Raise(r, "404") /\ UNCHANGED <<orm, now>>
          BY <1>3, <2>1, RaiseGood DEF GetAsset, Codes, Declared
    <2>2. CASE /\ HasAsset(r, call[r].tenant, call[r].asset)
               /\ orm' = [orm EXCEPT ![r][call[r].asset] = Asset(r, call[r].asset)]
               /\ now' = [now EXCEPT ![r] = clock]
               /\ Goto(r, "flush_asset") /\ UNCHANGED storeVars
      <3> USE <1>3, <2>2 DEF GetAsset, Goto
      <3>1. StoreStep(r) /\ OthersStay(r)
            BY <1>0 DEF StoreStep, OthersStay, SessionTypeOK
      <3>2. /\ call[r].asset \in AssetIds
            /\ Asset(r, call[r].asset) \in AssetRow /\ Asset(r, call[r].asset) # Nil
            BY <1>0 DEF HasAsset, AssetRows, Asset, IsRow, StoreTypeOK, AssetCell
      <3>3. LocalTypeOK'
            BY <1>0, <3>2 DEF LocalTypeOK, TypeOK, SessionTypeOK, CacheTypeOK, GraphTypeOK,
               RelTypeOK, ImportTypeOK, Labels
      <3>4. HandlerInOrder(r)' /\ LookupsSound(r)'
            BY <1>0, <3>2 DEF HandlerInOrder, LookupsSound, SessionTypeOK
      <3> QED BY <3>1, <3>3, <3>4 DEF GoodStep
    <2> QED BY <1>3, <2>1, <2>2 DEF GetAsset
  <1>4. CASE FlushUpdate(r)
    <2> DEFINE a   == call[r].asset
               row == UpdatedAsset(call[r], orm[r][a], now[r])
    <2>1. call[r] \in UpdateCall /\ a \in AssetIds /\ orm[r][a] # Nil
          BY <1>0, <1>4 DEF FlushUpdate, HandlerInOrder, UpdateCall
    <2>2. orm[r][a] \in AssetRow /\ row \in AssetRow
          BY <1>0, <2>1, UpdatedAssetType DEF SessionTypeOK
    <2>3. CASE FlushAsset(r, a, row) /\ Reply(r, "200")
      <3>1. StoreStep(r)
            BY <2>1, <2>2, <2>3, FlushAssetStep
      <3> QED BY <1>4, <2>3, <3>1, ReplyGood DEF FlushUpdate, Codes, Declared
    <2>4. CASE FlushFails(r, a)
          BY <1>4, <2>4, RaiseGood DEF FlushUpdate, FlushFails, Codes, Errors
    <2> QED BY <1>4, <2>3, <2>4 DEF FlushUpdate
  <1>5. CASE UpdateStatus(r)
    <2> DEFINE a   == call[r].asset
               row == [Asset(r, a) EXCEPT !.status = call[r].status]
    <2>1. CASE UpdateAsset(r, a, row) /\ Reply(r, "200")
      <3>1. call[r] \in StatusCall /\ a \in AssetIds /\ Asset(r, a) \in AssetRow
            BY <1>0, <1>5, <2>1 DEF UpdateStatus, HandlerInOrder, StatusCall, UpdateAsset,
               AssetRows, Asset, IsRow, StoreTypeOK, AssetCell
      <3>2. row \in AssetRow /\ SameKey(row, Asset(r, a))
            BY <3>1 DEF StatusCall, AssetRow, SameKey
      <3>3. StoreStep(r)
            BY <2>1, <3>1, <3>2 DEF StoreStep
      <3> QED BY <1>5, <2>1, <3>3, ReplyGood DEF UpdateStatus, Codes, Declared
    <2>2. CASE Raise(r, "404")
          BY <1>5, <2>2, RaiseGood DEF UpdateStatus, Codes, Declared
    <2> QED BY <1>5, <2>1, <2>2 DEF UpdateStatus
  <1>6. CASE RemoveAsset(r)
    <2>1. CASE DeleteAsset(r, call[r].asset) /\ Reply(r, "204")
      <3>1. StoreStep(r)
            BY <2>1 DEF StoreStep, DeleteAsset, AssetRows
      <3> QED BY <1>6, <2>1, <3>1, ReplyGood DEF RemoveAsset, Codes, Declared
    <2>2. CASE Raise(r, "404")
          BY <1>6, <2>2, RaiseGood DEF RemoveAsset, Codes, Declared
    <2> QED BY <1>6, <2>1, <2>2 DEF RemoveAsset
  <1>7. CASE AbortCascade(r)
        BY <1>7, RaiseGood DEF AbortCascade, Codes, Errors
  <1> QED BY <1>1, <1>2, <1>3, <1>4, <1>5, <1>6, <1>7 DEF AssetStep

-----------------------------------------------------------------------------
(* The graph and its cache.                                                *)

(* The response under assembly moves on to the next read.                  *)
LEMMA AssemblyGood ==
    ASSUME ApiInv, NEW r \in Requests, call[r] \in GraphCall, NEW g \in Graph,
           NEW label \in {"graph_rels", "graph_nodes", "graph_cache"}, Goto(r, label),
           graph' = [graph EXCEPT ![r] = g], todo' \in [Requests -> SUBSET AssetIds],
           UNCHANGED <<storeVars, call, orm, now, clock, cache, inval, imp>>
    PROVE  GoodStep(r)
  <1>0. /\ SessionTypeOK /\ CacheTypeOK /\ GraphTypeOK /\ RelTypeOK /\ ImportTypeOK
        BY DEF ApiInv, TypeOK
  <1>1. StoreStep(r) /\ OthersStay(r)
        BY <1>0 DEF StoreStep, OthersStay, Goto, SessionTypeOK, GraphTypeOK
  <1>2. LocalTypeOK'
        BY <1>0 DEF LocalTypeOK, Goto, SessionTypeOK, CacheTypeOK, GraphTypeOK,
           RelTypeOK, ImportTypeOK, Labels
  <1>3. pc'[r] = label /\ call'[r] \in GraphCall /\ graph'[r] # Nil
        BY <1>0, GraphAssumption DEF Goto, SessionTypeOK, GraphTypeOK
  <1>4. HandlerInOrder(r)' /\ LookupsSound(r)'
        BY <1>3 DEF HandlerInOrder, LookupsSound
  <1> QED BY <1>1, <1>2, <1>4 DEF GoodStep

(* GET /assets/{id}/graph writes nothing to the database.                  *)
LEMMA GraphStepGood ==
    ASSUME ApiInv, NEW r \in Requests, GraphStep(r), UNCHANGED <<inval, imp>>
    PROVE  GoodStep(r)
  <1>0. /\ HandlerInOrder(r) /\ LookupsSound(r) /\ StoreTypeOK /\ SessionTypeOK
        /\ CacheTypeOK /\ GraphTypeOK /\ RelTypeOK /\ ImportTypeOK
        BY DEF ApiInv, TypeOK
  <1>1. \A a \in AssetIds, row \in AssetRow : NodeOf(a, row) \in Node
        BY DEF NodeOf, Node, AssetRow
  <1>2. \A rel \in RelRow : EdgeOf(rel) \in Edge
        BY DEF EdgeOf, Edge, RelRow
  <1>3. \A a \in AssetRows(r) : a \in AssetIds /\ Asset(r, a) \in AssetRow
        BY <1>0 DEF AssetRows, Asset, IsRow, StoreTypeOK, AssetCell
  <1>4. CASE ReadCache(r)
    <2>1. call[r] \in GraphCall /\ GraphKey(call[r].tenant, call[r].asset) \in GraphKeys
          BY <1>0, <1>4 DEF ReadCache, HandlerInOrder, GraphCall, GraphKey, GraphKeys
    <2>2. graph' \in [Requests -> Graph \cup {Nil}]
          BY <1>0, <1>4, <2>1 DEF ReadCache, Cached, CacheTypeOK, GraphTypeOK
    <2> USE <1>4 DEF ReadCache, Goto, Reply
    <2>3. StoreStep(r) /\ OthersStay(r)
          BY <1>0 DEF StoreStep, OthersStay, SessionTypeOK, GraphTypeOK
    <2>4. LocalTypeOK'
          BY <1>0, <2>2 DEF LocalTypeOK, SessionTypeOK, CacheTypeOK, GraphTypeOK,
             RelTypeOK, ImportTypeOK, Labels, Codes, Declared
    <2>5. pc'[r] = "commit" \/ (pc'[r] = "graph_root" /\ call'[r] \in GraphCall)
          BY <1>0, <2>1 DEF SessionTypeOK
    <2>6. HandlerInOrder(r)' /\ LookupsSound(r)'
          BY <2>5 DEF HandlerInOrder, LookupsSound
    <2> QED BY <2>3, <2>4, <2>6 DEF GoodStep
  <1>5. CASE ReadRoot(r)
    <2> DEFINE a == call[r].asset
               g == [root |-> NodeOf(a, Asset(r, a)), nodes |-> {}, edges |-> {}]
    <2>1. CASE Raise(r, "404") /\ UNCHANGED graph
          BY <1>5, <2>1, RaiseGood DEF ReadRoot, graphVars, Codes, Declared
    <2>2. CASE /\ HasAsset(r, call[r].tenant, a)
               /\ graph' = [graph EXCEPT ![r] = g]
               /\ Goto(r, "graph_rels")
               /\ UNCHANGED storeVars
      <3>1. NodeOf(a, Asset(r, a)) \in Node
            BY <1>1, <1>3, <2>2 DEF HasAsset
      <3>2. g \in Graph
            BY <3>1 DEF Graph
      <3>3. call[r] \in GraphCall /\ todo' \in [Requests -> SUBSET AssetIds]
            BY <1>0, <1>5 DEF ReadRoot, HandlerInOrder, GraphTypeOK
      <3> HIDE DEF g
      <3> QED BY <1>5, <2>2, <3>2, <3>3, AssemblyGood DEF ReadRoot
    <2> QED BY <1>5, <2>1, <2>2 DEF ReadRoot
  <1>6. CASE ReadRels(r)
    <2> DEFINE edges == {EdgeOf(Rel(r, x)) : x \in AdjacentRels(r, call[r].tenant, call[r].asset)}
               g     == [graph[r] EXCEPT !.edges = edges]
               label == IF todo'[r] = {} THEN "graph_cache" ELSE "graph_nodes"
    <2>1. /\ call[r] \in GraphCall /\ graph[r] # Nil /\ graph[r] \in Graph
          BY <1>0, <1>6 DEF ReadRels, HandlerInOrder, GraphTypeOK
    <2>2. edges \subseteq Edge
          BY <1>0, <1>2 DEF AdjacentRels, HasRel, RelRows, Rel, IsRow, StoreTypeOK, RelCell
    <2>3. Neighbours(edges, call[r].asset) \subseteq AssetIds
          BY <2>2 DEF Neighbours, Edge
    <2>4. g \in Graph
          BY <2>1, <2>2 DEF Graph
    <2>5. graph' = [graph EXCEPT ![r] = g] /\ Goto(r, label)
          BY <1>6, <1>0 DEF ReadRels, GraphTypeOK
    <2>6. todo' \in [Requests -> SUBSET AssetIds]
          BY <1>0, <1>6, <2>3 DEF ReadRels, GraphTypeOK
    <2>7. label \in {"graph_rels", "graph_nodes", "graph_cache"}
          OBVIOUS
    <2> HIDE DEF edges, g, label
    <2> QED BY <1>6, <2>1, <2>4, <2>5, <2>6, <2>7, AssemblyGood DEF ReadRels
  <1>7. CASE ReadNode(r)
    <2>1. PICK a \in todo[r] :
             /\ todo' = [todo EXCEPT ![r] = @ \ {a}]
             /\ graph' = [graph EXCEPT ![r].nodes =
                    IF HasAsset(r, call[r].tenant, a)
                    THEN @ \cup {NodeOf(a, Asset(r, a))} ELSE @]
             /\ Goto(r, IF todo[r] = {a} THEN "graph_cache" ELSE "graph_nodes")
          BY <1>7 DEF ReadNode
    <2> DEFINE nodes == IF HasAsset(r, call[r].tenant, a)
                        THEN graph[r].nodes \cup {NodeOf(a, Asset(r, a))} ELSE graph[r].nodes
               g     == [graph[r] EXCEPT !.nodes = nodes]
               label == IF todo[r] = {a} THEN "graph_cache" ELSE "graph_nodes"
    <2>2. call[r] \in GraphCall /\ graph[r] # Nil /\ graph[r] \in Graph
          BY <1>0, <1>7 DEF ReadNode, HandlerInOrder, GraphTypeOK
    <2>3. graph' = [graph EXCEPT ![r] = g] /\ Goto(r, label)
          BY <1>0, <2>1 DEF GraphTypeOK
    <2>4. nodes \subseteq Node
          BY <1>1, <1>3, <2>2 DEF HasAsset, Graph
    <2>5. g \in Graph
          BY <2>2, <2>4 DEF Graph
    <2>6. todo' \in [Requests -> SUBSET AssetIds]
          BY <1>0, <2>1 DEF GraphTypeOK
    <2>7. label \in {"graph_rels", "graph_nodes", "graph_cache"}
          OBVIOUS
    <2> HIDE DEF nodes, g, label
    <2> QED BY <1>7, <2>2, <2>3, <2>5, <2>6, <2>7, AssemblyGood DEF ReadNode
  <1>8. CASE WriteCache(r)
    <2>1. graph[r] \in Graph
          BY <1>0, <1>8 DEF WriteCache, HandlerInOrder, GraphTypeOK
    <2>2. CacheTypeOK'
          BY <1>0, <1>8, <2>1 DEF WriteCache, SetCached, CacheTypeOK
    <2> USE <1>8 DEF WriteCache, Reply
    <2>3. StoreStep(r) /\ OthersStay(r) /\ pc'[r] = "commit"
          BY <1>0 DEF StoreStep, OthersStay, SessionTypeOK, GraphTypeOK
    <2>4. LocalTypeOK'
          BY <1>0, <2>2 DEF LocalTypeOK, SessionTypeOK, GraphTypeOK,
             RelTypeOK, ImportTypeOK, Labels, Codes, Declared
    <2> QED BY <2>3, <2>4, Finished DEF GoodStep
  <1> QED BY <1>4, <1>5, <1>6, <1>7, <1>8 DEF GraphStep

-----------------------------------------------------------------------------
(* The operations on one relationship.                                     *)

(* The handler of a relationship's creation moves on to the next await.    *)
LEMMA RelateGotoGood ==
    ASSUME ApiInv, NEW r \in Requests, call[r] \in RelateCall, StoreStep(r),
           NEW label \in {"rel_target", "rel_lookup", "insert_rel", "invalidate"},
           Goto(r, label), LookupsSound(r)',
           cache' \in [GraphKeys -> Graph \cup {Nil}],
           inval' \in [Requests -> SUBSET AssetIds],
           UNCHANGED <<call, orm, now, clock, graphVars, imp>>
    PROVE  GoodStep(r)
  <1>0. /\ SessionTypeOK /\ GraphTypeOK /\ ImportTypeOK
        BY DEF ApiInv, TypeOK
  <1>1. OthersStay(r)
        BY <1>0 DEF OthersStay, Goto, SessionTypeOK, graphVars
  <1>2. LocalTypeOK'
        BY <1>0 DEF LocalTypeOK, Goto, SessionTypeOK, CacheTypeOK, GraphTypeOK,
           RelTypeOK, ImportTypeOK, Labels, graphVars
  <1>3. pc'[r] = label /\ call'[r] \in RelateCall
        BY <1>0 DEF Goto, SessionTypeOK
  <1>4. HandlerInOrder(r)'
        BY <1>3 DEF HandlerInOrder
  <1> QED BY <1>1, <1>2, <1>4 DEF GoodStep

(* POST /relationships and DELETE /relationships/{id}.  What the two       *)
(* lookups saw is what makes the INSERT one of endpoints of the tenant.    *)
LEMMA RelStepGood ==
    ASSUME ApiInv, NEW r \in Requests, RelStep(r), UNCHANGED <<graphVars, imp>>
    PROVE  GoodStep(r)
  <1> DEFINE rel == NewRel(call[r])
  <1>0. /\ HandlerInOrder(r) /\ LookupsSound(r) /\ StoreInv /\ StoreTypeOK /\ SessionTypeOK
        /\ CacheTypeOK /\ GraphTypeOK /\ RelTypeOK /\ ImportTypeOK
        BY DEF ApiInv, TypeOK
  <1>1. ASSUME call[r] \in RelateCall
        PROVE  /\ rel \in RelRow /\ Endpoints(rel) \subseteq AssetIds
               /\ call[r].src \in AssetIds /\ call[r].dst \in AssetIds
        BY <1>1 DEF RelateCall, NewRel, RelRow, Endpoints
  <1>2. ASSUME UNCHANGED storeVars, NEW a \in AssetIds, NEW t, Sound(r, a, t)
        PROVE  Sound(r, a, t)'
        BY <1>2 DEF storeVars, Sound, Asset
  <1>3. ASSUME NEW a, HasAsset(r, call[r].tenant, a)
        PROVE  Sound(r, a, call[r].tenant)
        BY <1>3 DEF HasAsset, Sound, AssetRows
  <1>4. cache \in [GraphKeys -> Graph \cup {Nil}] /\ inval \in [Requests -> SUBSET AssetIds]
        BY <1>0 DEF CacheTypeOK, RelTypeOK
  <1>5. CASE VerifySource(r)
    <2>1. CASE Raise(r, "404")
          BY <1>5, <2>1, RaiseGood DEF VerifySource, Verify, Codes, Declared
    <2>2. CASE /\ HasAsset(r, call[r].tenant, call[r].src)
               /\ Goto(r, "rel_target") /\ UNCHANGED storeVars
      <3>1. call[r] \in RelateCall /\ UNCHANGED <<call, orm, now, clock, cache, inval>>
            BY <1>0, <1>5 DEF VerifySource, Verify, HandlerInOrder
      <3>2. Sound(r, call[r].src, call[r].tenant)'
            BY <1>1, <1>2, <1>3, <2>2, <3>1
      <3>3. LookupsSound(r)'
            BY <1>0, <2>2, <3>1, <3>2 DEF LookupsSound, Goto, SessionTypeOK
      <3> QED BY <1>4, <2>2, <3>1, <3>3, RelateGotoGood DEF StoreStep
    <2> QED BY <1>5, <2>1, <2>2 DEF VerifySource, Verify
  <1>6. CASE VerifyTarget(r)
    <2>1. CASE Raise(r, "404")
          BY <1>6, <2>1, RaiseGood DEF VerifyTarget, Verify, Codes, Declared
    <2>2. CASE /\ HasAsset(r, call[r].tenant, call[r].dst)
               /\ Goto(r, "rel_lookup") /\ UNCHANGED storeVars
      <3>1. call[r] \in RelateCall /\ UNCHANGED <<call, orm, now, clock, cache, inval>>
            BY <1>0, <1>6 DEF VerifyTarget, Verify, HandlerInOrder
      <3>2. Sound(r, call[r].src, call[r].tenant)
            BY <1>0, <1>6 DEF VerifyTarget, LookupsSound
      <3>3. /\ Sound(r, call[r].src, call[r].tenant)'
            /\ Sound(r, call[r].dst, call[r].tenant)'
            BY <1>1, <1>2, <1>3, <2>2, <3>1, <3>2
      <3>4. LookupsSound(r)'
            BY <1>0, <2>2, <3>1, <3>3 DEF LookupsSound, Goto, SessionTypeOK
      <3> QED BY <1>4, <2>2, <3>1, <3>4, RelateGotoGood DEF StoreStep
    <2> QED BY <1>6, <2>1, <2>2 DEF VerifyTarget, Verify
  <1>7. CASE LookupEdge(r)
    <2>1. CASE Raise(r, "409")
          BY <1>7, <2>1, RaiseGood DEF LookupEdge, Codes, Declared
    <2>2. CASE Goto(r, "insert_rel") /\ UNCHANGED storeVars
      <3>1. call[r] \in RelateCall /\ UNCHANGED <<call, orm, now, clock, cache, inval>>
            BY <1>0, <1>7 DEF LookupEdge, HandlerInOrder
      <3>2. /\ Sound(r, call[r].src, call[r].tenant)
            /\ Sound(r, call[r].dst, call[r].tenant)
            BY <1>0, <1>7 DEF LookupEdge, LookupsSound
      <3>3. /\ Sound(r, call[r].src, call[r].tenant)'
            /\ Sound(r, call[r].dst, call[r].tenant)'
            BY <1>1, <1>2, <2>2, <3>1, <3>2
      <3>4. LookupsSound(r)'
            BY <1>0, <2>2, <3>1, <3>3 DEF LookupsSound, Goto, SessionTypeOK
      <3> QED BY <1>4, <2>2, <3>1, <3>4, RelateGotoGood DEF StoreStep
    <2> QED BY <1>7, <2>1, <2>2 DEF LookupEdge
  <1>8. CASE InsertNewRel(r)
    <2>1. CASE RelInsertFails(r, rel) /\ UNCHANGED inval
          BY <1>8, <2>1, RaiseGood DEF InsertNewRel, RelInsertFails, Codes, Errors
    <2>2. CASE /\ \E x \in RelIds : InsertRel(r, x, rel)
               /\ inval' = [inval EXCEPT ![r] = Endpoints(rel)]
               /\ Goto(r, "invalidate")
      <3>1. call[r] \in RelateCall /\ UNCHANGED <<call, orm, now, clock, cache>>
            BY <1>0, <1>8 DEF InsertNewRel, HandlerInOrder
      <3>2. /\ Sound(r, rel.src, rel.tenant) /\ Sound(r, rel.dst, rel.tenant)
            BY <1>0, <1>8 DEF InsertNewRel, LookupsSound, NewRel
      <3>3. IsRow(Asset(r, rel.src)) /\ IsRow(Asset(r, rel.dst))
            BY <2>2 DEF InsertRel, EndpointsExist, AssetRows
      <3>4. Asset(r, rel.src).tenant = rel.tenant /\ Asset(r, rel.dst).tenant = rel.tenant
            BY <3>2, <3>3 DEF Sound, IsRow
      <3>5. StoreStep(r)
            BY <1>1, <2>2, <3>1, <3>4 DEF StoreStep
      <3>6. inval' \in [Requests -> SUBSET AssetIds]
            BY <1>1, <1>4, <2>2, <3>1
      <3>7. LookupsSound(r)'
            BY <1>0, <2>2 DEF LookupsSound, Goto, SessionTypeOK
      <3> HIDE DEF rel
      <3> QED BY <1>4, <2>2, <3>1, <3>5, <3>6, <3>7, RelateGotoGood
    <2> QED BY <1>8, <2>1, <2>2 DEF InsertNewRel
  <1>9. CASE InvalidateGraphs(r)
    <2>1. call[r] \in RelateCall /\ UNCHANGED <<storeVars, call, orm, now, clock>>
          BY <1>0, <1>9 DEF InvalidateGraphs, HandlerInOrder
    <2>2. /\ cache' \in [GraphKeys -> Graph \cup {Nil}]
          /\ inval' \in [Requests -> SUBSET AssetIds]
          /\ Reply(r, "201") \/ Goto(r, "invalidate")
          BY <1>4, <1>9 DEF InvalidateGraphs, Invalidate
    <2>3. CASE Reply(r, "201")
      <3>1. StoreStep(r) /\ OthersStay(r) /\ pc'[r] = "commit"
            BY <1>0, <2>1, <2>3 DEF StoreStep, OthersStay, Reply, SessionTypeOK, graphVars
      <3>2. LocalTypeOK'
            BY <1>0, <2>1, <2>2, <2>3 DEF LocalTypeOK, Reply, SessionTypeOK, CacheTypeOK,
               GraphTypeOK, RelTypeOK, ImportTypeOK, Labels, Codes, Declared, graphVars
      <3> QED BY <3>1, <3>2, Finished DEF GoodStep
    <2>4. CASE Goto(r, "invalidate")
      <3>1. LookupsSound(r)'
            BY <1>0, <2>4 DEF LookupsSound, Goto, SessionTypeOK
      <3> QED BY <2>1, <2>2, <2>4, <3>1, RelateGotoGood DEF StoreStep
    <2> QED BY <2>2, <2>3, <2>4
  <1>10. CASE RemoveRel(r)
    <2>1. CASE Raise(r, "404")
          BY <1>10, <2>1, RaiseGood DEF RemoveRel, Codes, Declared
    <2>2. CASE HasRel(r, call[r].tenant, call[r].rel) /\ DeleteRel(r, call[r].rel) /\ Reply(r, "204")
      <3>1. StoreStep(r)
            BY <2>2 DEF StoreStep, HasRel, RelRows
      <3> QED BY <1>10, <2>2, <3>1, ReplyGood DEF RemoveRel, Codes, Declared
    <2> QED BY <1>10, <2>1, <2>2 DEF RemoveRel
  <1> QED BY <1>5, <1>6, <1>7, <1>8, <1>9, <1>10 DEF RelStep

-----------------------------------------------------------------------------
(* The import.                                                             *)

(* What a batch is made of.                                                *)
LEMMA BatchFacts ==
    ASSUME NEW r \in Requests, call[r] \in ImportCall
    PROVE  /\ call[r].tenant \in Tenants
           /\ Valid(r) \subseteq Nat
           /\ \A i \in Valid(r) : Items(r)[i] \in Item
           /\ \A p \in LinkSet(r) :
                 /\ p \in Nat \X Links /\ p[1] \in Valid(r) /\ p[2] \in Links
                 /\ Target(r, p) \in TempIds
           /\ IsFiniteSet(LinkSet(r))
  <1>1. Items(r) \in Seq(Item) /\ call[r].tenant \in Tenants
        BY DEF ImportCall, Items
  <1>2. /\ DOMAIN Items(r) = 1 .. Len(Items(r)) /\ Len(Items(r)) \in Nat
        /\ \A i \in DOMAIN Items(r) : Items(r)[i] \in Item
        BY <1>1
  <1>3. Valid(r) \subseteq 1 .. Len(Items(r)) /\ \A i \in Valid(r) : Items(r)[i] \in Item
        BY <1>2 DEF Valid
  <1>4. ASSUME NEW p \in LinkSet(r)
        PROVE  /\ p \in Nat \X Links /\ p[1] \in Valid(r) /\ p[2] \in Links
               /\ Target(r, p) \in TempIds
    <2>1. p \in Valid(r) \X Links /\ Target(r, p) # Nil
          BY DEF LinkSet
    <2>2. p[1] \in Valid(r) /\ p[2] \in Links
          BY <2>1
    <2>3. Items(r)[p[1]].link \in [Links -> TempIds \cup {Nil}]
          BY <1>3, <2>2 DEF Item
    <2> QED BY <1>2, <1>3, <2>1, <2>2, <2>3 DEF Target
  <1>5. IsFiniteSet(Valid(r)) /\ IsFiniteSet(Links)
    <2>1. \A n \in Nat : IsFiniteSet(1 .. n)
          BY FS_Interval
    <2>2. IsFiniteSet(1 .. Len(Items(r))) /\ IsFiniteSet(1 .. 5)
          BY <1>2, <2>1
    <2> QED BY <1>3, <2>2, FS_Subset DEF Links
  <1>6. IsFiniteSet(Valid(r) \X Links)
        BY <1>5, FS_Product
  <1>7. IsFiniteSet(LinkSet(r))
        BY <1>6, FS_Subset DEF LinkSet
  <1> QED BY <1>1, <1>2, <1>3, <1>4, <1>7

(* The row stage 4 writes over one it loaded.                              *)
LEMMA MergedRow ==
    ASSUME NEW item \in Item, NEW row \in AssetRow, NEW time \in Times
    PROVE  Merged(item, row, time) \in AssetRow
  <1>1. MergeMeta(row.meta, item.meta) \in [MetaKeys -> MetaVals \cup {Nil}]
        BY MergeMetaType DEF Item, AssetRow
  <1>2. /\ row.status \in Statuses /\ "active" \in Statuses
        /\ row.tags \cup item.tags \in SUBSET Tags
        BY DEF AssetRow, Item, Statuses
  <1> QED BY <1>1, <1>2 DEF Merged, AssetRow

(* The row stage 4 inserts.                                                *)
LEMMA CreatedRow ==
    ASSUME NEW item \in Item, NEW t \in Tenants, NEW time \in Times
    PROVE  Created(t, item, time) \in AssetRow /\ Created(t, item, time).tenant = t
  <1>1. KeyOf(item) \in Keys
        BY CanonAssumption DEF KeyOf, Item
  <1> QED BY <1>1 DEF Created, Item, AssetRow

(* A step of an import touches no other request's variables.               *)
ImportFrame(r) ==
    /\ orm' \in [Requests -> [AssetIds -> AssetRow \cup {Nil}]]
    /\ imp' \in [Requests -> Locals]
    /\ now' \in [Requests -> Times]
    /\ \A s \in Requests \ {r} : orm'[s] = orm[s] /\ imp'[s] = imp[s]
    /\ UNCHANGED <<call, clock, cache, graphVars, inval>>

(* The import moves on, with what it has looked up still sound.            *)
LEMMA ImportGotoGood ==
    ASSUME ApiInv, NEW r \in Requests, call[r] \in ImportCall, StoreStep(r),
           NEW label \in {"import_item", "import_edges", "import_link"}, Goto(r, label),
           ImportFrame(r),
           label = "import_link" => imp'[r].edges \subseteq LinkSet(r),
           NEW tenant, tenant = call[r].tenant,
           \A a \in AssetIds : orm'[r][a] # Nil \/ (\E t \in TempIds : imp'[r].tmp[t] = a)
               => Sound(r, a, tenant)'
    PROVE  GoodStep(r)
  <1>0. /\ SessionTypeOK /\ CacheTypeOK /\ GraphTypeOK /\ RelTypeOK /\ ImportTypeOK
        BY DEF ApiInv, TypeOK
  <1> USE DEF ImportFrame
  <1>1. OthersStay(r)
        BY <1>0 DEF OthersStay, Goto, SessionTypeOK, graphVars
  <1>2. LocalTypeOK'
        BY <1>0 DEF LocalTypeOK, Goto, SessionTypeOK, CacheTypeOK, GraphTypeOK,
           RelTypeOK, ImportTypeOK, Labels, graphVars
  <1>3. pc'[r] = label /\ call'[r] = call[r]
        BY <1>0 DEF Goto, SessionTypeOK
  <1>4. LinkSet(r)' = LinkSet(r)
        BY DEF LinkSet, Valid, Items, Target
  <1>5. HandlerInOrder(r)'
        BY <1>3, <1>4 DEF HandlerInOrder
  <1>6. \A t \in TempIds : imp'[r].tmp[t] \in AssetIds \cup {Nil}
        BY DEF Locals
  <1>7. LookupsSound(r)'
        BY <1>3, <1>6 DEF LookupsSound
  <1> QED BY <1>1, <1>2, <1>5, <1>7 DEF GoodStep

(* The import returns.                                                     *)
LEMMA ImportReplyGood ==
    ASSUME ApiInv, NEW r \in Requests, StoreStep(r), Reply(r, "200"), ImportFrame(r)
    PROVE  GoodStep(r)
  <1>0. /\ SessionTypeOK /\ CacheTypeOK /\ GraphTypeOK /\ RelTypeOK /\ ImportTypeOK
        BY DEF ApiInv, TypeOK
  <1> USE DEF ImportFrame
  <1>1. OthersStay(r) /\ pc'[r] = "commit"
        BY <1>0 DEF OthersStay, Reply, SessionTypeOK, graphVars
  <1>2. LocalTypeOK'
        BY <1>0 DEF LocalTypeOK, Reply, SessionTypeOK, CacheTypeOK, GraphTypeOK,
           RelTypeOK, ImportTypeOK, Labels, Codes, Declared, graphVars
  <1> QED BY <1>1, <1>2, Finished DEF GoodStep

(* The end of stage 4 for one item: the asset it was flushed as is one of  *)
(* the tenant, and so are those flushed or loaded before it.               *)
LEMMA FlushedGood ==
    ASSUME ApiInv, NEW r \in Requests, pc[r] = "import_item", call[r] \in ImportCall,
           NEW i \in Valid(r), NEW a \in AssetIds, NEW row \in AssetRow,
           StoreStep(r), ~ RollbackWrites(r), Flushed(r, i, a, row),
           NEW tenant, tenant = call[r].tenant, Sound(r, a, tenant)',
           UNCHANGED <<call, now, clock, cache, graphVars, inval>>
    PROVE  GoodStep(r)
  <1> DEFINE id      == Items(r)[i].id
             rows    == [orm[r] EXCEPT ![a] = row]
             label   == IF imp[r].left = {i} THEN "import_edges" ELSE "import_item"
             tmp     == [imp[r].tmp EXCEPT ![id] = a]
             created == IF orm[r][a] = Nil THEN imp[r].created + 1 ELSE imp[r].created
             updated == IF orm[r][a] = Nil THEN imp[r].updated ELSE imp[r].updated + 1
             locals  == [imp[r] EXCEPT !.left = @ \ {i}, !.tmp = tmp,
                                       !.created = created, !.updated = updated]
  <1>0. /\ HandlerInOrder(r) /\ LookupsSound(r) /\ StoreInv /\ SessionTypeOK /\ ImportTypeOK
        BY DEF ApiInv, TypeOK
  <1>1. /\ imp[r] \in Locals /\ id \in TempIds /\ orm[r] \in [AssetIds -> AssetRow \cup {Nil}]
        /\ now \in [Requests -> Times]
        BY <1>0, BatchFacts DEF ImportTypeOK, SessionTypeOK, Item
  <1>2. rows \in [AssetIds -> AssetRow \cup {Nil}] /\ orm' = [orm EXCEPT ![r] = rows]
        BY <1>0, <1>1 DEF Flushed, SessionTypeOK
  <1>3. /\ tmp \in [TempIds -> AssetIds \cup {Nil}] /\ tmp[id] = a
        /\ \A t \in TempIds \ {id} : tmp[t] = imp[r].tmp[t]
        BY <1>1 DEF Locals
  <1>4. created \in Nat /\ updated \in Nat /\ imp[r].left \ {i} \in SUBSET Nat
        BY <1>1 DEF Locals
  <1>5. imp' = [imp EXCEPT ![r] = locals]
        BY <1>0, <1>1 DEF Flushed, ImportTypeOK, Locals
  <1>6. label \in {"import_item", "import_edges"} /\ Goto(r, label)
        BY DEF Flushed
  <1> HIDE DEF tmp, created, updated, label, id
  <1>7. locals \in Locals /\ locals.tmp = tmp
        BY <1>1, <1>3, <1>4 DEF Locals
  <1>8. \A b \in AssetIds : Sound(r, b, tenant) => Sound(r, b, tenant)'
        BY <1>0, StoreStepSound
  <1>9. ASSUME NEW b \in AssetIds, rows[b] # Nil \/ \E t \in TempIds : tmp[t] = b
        PROVE  Sound(r, b, tenant)'
    <2>1. CASE b = a
          BY <2>1
    <2>2. CASE b # a
      <3>1. orm[r][b] # Nil \/ \E t \in TempIds : imp[r].tmp[t] = b
            BY <1>1, <1>3, <1>9, <2>2
      <3>2. b # Nil
            BY NilAssumption
      <3>3. Sound(r, b, tenant)
            BY <1>0, <3>1, <3>2 DEF LookupsSound
      <3> QED BY <1>8, <3>3
    <2> QED BY <2>1, <2>2
  <1> HIDE DEF rows, locals
  <1>10. orm'[r] = rows /\ imp'[r] = locals /\ ImportFrame(r)
        BY <1>0, <1>1, <1>2, <1>5, <1>7 DEF ImportFrame, ImportTypeOK, SessionTypeOK
  <1>11. \A b \in AssetIds : orm'[r][b] # Nil \/ (\E t \in TempIds : imp'[r].tmp[t] = b)
             => Sound(r, b, tenant)'
        BY <1>7, <1>9, <1>10
  <1> QED BY <1>6, <1>10, <1>11, ImportGotoGood

(* POST /assets/import, one step.                                          *)
LEMMA ImportStepGood ==
    ASSUME ApiInv, NEW r \in Requests, ImportStep(r),
           UNCHANGED <<cache, graphVars, inval>>
    PROVE  GoodStep(r)
  <1>0. /\ HandlerInOrder(r) /\ LookupsSound(r) /\ StoreInv /\ StoreTypeOK
        /\ SessionTypeOK /\ ImportTypeOK
        BY DEF ApiInv, TypeOK
  <1>1. call[r] \in ImportCall
        BY <1>0 DEF ImportStep, LookupItems, MergeItem, CreateItem, MapEdges, InsertLink,
           HandlerInOrder
  <1>2. PICK tenant \in Tenants : tenant = call[r].tenant
        BY <1>1, BatchFacts
  <1>3. orm[r] \in [AssetIds -> AssetRow \cup {Nil}] /\ imp[r] \in Locals /\ now[r] \in Times
        BY <1>0 DEF SessionTypeOK, ImportTypeOK
  <1>4. CASE LookupItems(r)
    <2> DEFINE found == AssetsByKey(r, call[r].tenant, {KeyOf(Items(r)[i]) : i \in Valid(r)})
               rows  == [a \in AssetIds |-> IF a \in found THEN Asset(r, a) ELSE Nil]
    <2>1. CASE Raise(r, "ValidationError") /\ UNCHANGED <<orm, now, imp>>
          BY <1>4, <2>1, RaiseGood DEF LookupItems, Codes, Errors
    <2>2. CASE /\ orm' = [orm EXCEPT ![r] = rows]
               /\ now' = [now EXCEPT ![r] = clock]
               /\ imp' = [imp EXCEPT ![r] = StartOf(Valid(r))]
               /\ IF Valid(r) = {} THEN Reply(r, "200") ELSE Goto(r, "import_item")
               /\ UNCHANGED storeVars
      <3>1. \A a \in found : a \in AssetIds /\ Asset(r, a) \in AssetRow /\ Sound(r, a, tenant)
            BY <1>0, <1>2 DEF AssetsByKey, HasAsset, AssetRows, Asset, IsRow, Sound,
               StoreTypeOK, AssetCell
      <3> HIDE DEF found
      <3>2. rows \in [AssetIds -> AssetRow \cup {Nil}]
            BY <3>1
      <3>3. StartOf(Valid(r)) \in Locals
            BY <1>1, BatchFacts DEF StartOf, Locals
      <3>4. \A a \in AssetIds : rows[a] # Nil => Sound(r, a, tenant)
            BY <3>1
      <3>5. \A t \in TempIds : StartOf(Valid(r)).tmp[t] = Nil
            BY DEF StartOf
      <3> HIDE DEF rows
      <3>6. ImportFrame(r) /\ orm'[r] = rows /\ imp'[r] = StartOf(Valid(r))
            BY <1>0, <1>4, <2>2, <3>2, <3>3 DEF ImportFrame, LookupItems, SessionTypeOK,
               ImportTypeOK
      <3>7. StoreStep(r)
            BY <2>2 DEF StoreStep
      <3>8. \A a \in AssetIds : Sound(r, a, tenant) => Sound(r, a, tenant)'
            BY <2>2 DEF storeVars, Sound, Asset
      <3>9. \A a \in AssetIds : orm'[r][a] # Nil \/ (\E t \in TempIds : imp'[r].tmp[t] = a)
                => Sound(r, a, tenant)'
            BY <3>4, <3>5, <3>6, <3>8, NilAssumption
      <3> QED BY <1>1, <1>2, <2>2, <3>6, <3>7, <3>9, ImportGotoGood, ImportReplyGood
    <2> QED BY <1>4, <2>1, <2>2 DEF LookupItems
  <1>5. CASE MergeItem(r)
    <2>1. PICK i \in Valid(r), a \in AssetIds :
             /\ a \in Existing(r, KeyOf(Items(r)[i]))
             /\ \/ /\ FlushAsset(r, a, Merged(Items(r)[i], orm[r][a], now[r]))
                   /\ Flushed(r, i, a, Merged(Items(r)[i], orm[r][a], now[r]))
                \/ FlushFails(r, a) /\ UNCHANGED <<orm, imp>>
          BY <1>5 DEF MergeItem, Existing
    <2> DEFINE row == Merged(Items(r)[i], orm[r][a], now[r])
    <2>2. a \in AssetIds /\ orm[r][a] # Nil /\ orm[r][a] \in AssetRow
          BY <1>3, <2>1 DEF Existing
    <2>3. row \in AssetRow
          BY <1>1, <1>2, <1>3, <2>2, BatchFacts, MergedRow
    <2>4. CASE FlushFails(r, a) /\ UNCHANGED <<orm, imp>>
          BY <1>5, <2>4, RaiseGood DEF MergeItem, FlushFails, Codes, Errors
    <2>5. CASE FlushAsset(r, a, row) /\ Flushed(r, i, a, row)
      <3> HIDE DEF row
      <3>1. StoreStep(r) /\ ~ RollbackWrites(r)
            BY <2>2, <2>3, <2>5, FlushAssetStep
      <3>2. Sound(r, a, tenant)
            BY <1>0, <1>2, <1>5, <2>2 DEF MergeItem, LookupsSound
      <3>3. Sound(r, a, tenant)'
            BY <1>0, <2>2, <3>1, <3>2, StoreStepSound
      <3>4. pc[r] = "import_item" /\ UNCHANGED <<call, now, clock>>
            BY <1>5 DEF MergeItem
      <3> QED BY <1>1, <1>2, <2>2, <2>3, <2>5, <3>1, <3>3, <3>4, FlushedGood
    <2> QED BY <2>1, <2>4, <2>5
  <1>6. CASE CreateItem(r)
    <2>1. PICK i \in Valid(r) :
             LET row == Created(call[r].tenant, Items(r)[i], now[r]) IN
             \/ \E a \in AssetIds : InsertAsset(r, a, row) /\ Flushed(r, i, a, row)
             \/ Raise(r, "IntegrityError") /\ UNCHANGED <<orm, imp>>
          BY <1>6 DEF CreateItem
    <2> DEFINE row == Created(call[r].tenant, Items(r)[i], now[r])
    <2>2. row \in AssetRow /\ row.tenant = tenant
          BY <1>1, <1>2, <1>3, BatchFacts, CreatedRow
    <2>3. CASE Raise(r, "IntegrityError") /\ UNCHANGED <<orm, imp>>
          BY <1>6, <2>3, RaiseGood DEF CreateItem, Codes, Errors
    <2>4. ASSUME NEW a \in AssetIds, InsertAsset(r, a, row), Flushed(r, i, a, row)
          PROVE  GoodStep(r)
      <3> HIDE DEF row
      <3>1. wa'[r][a] = row /\ row # Nil /\ IsRow(row)
            BY <1>0, <2>2, <2>4, NilAssumption DEF InsertAsset, StoreTypeOK, IsRow
      <3>2. StoreStep(r) /\ ~ RollbackWrites(r)
            BY <1>0, <2>2, <2>4, <3>1 DEF StoreStep, RollbackWrites, ForgetWrites, StoreTypeOK
      <3>3. Sound(r, a, tenant)'
            BY <2>2, <3>1 DEF Sound, Asset
      <3>4. pc[r] = "import_item" /\ UNCHANGED <<call, now, clock>>
            BY <1>6 DEF CreateItem
      <3> QED BY <1>1, <1>2, <2>2, <2>4, <3>2, <3>3, <3>4, FlushedGood
    <2> QED BY <2>1, <2>3, <2>4
  <1>7. CASE MapEdges(r)
    <2> DEFINE new    == {p \in Candidates(r) : ~ EdgeExists(r, EdgeAt(r, p))}
               locals == [imp[r] EXCEPT !.edges = new, !.linked = Linked(r, new),
                                        !.unlinked = Unlinked(r)]
    <2>1. /\ imp' = [imp EXCEPT ![r] = locals]
          /\ IF new = {} THEN Reply(r, "200") ELSE Goto(r, "import_link")
          /\ UNCHANGED <<storeVars, call, orm, now, clock>>
          BY <1>0, <1>7 DEF MapEdges, ImportTypeOK
    <2>2. new \subseteq LinkSet(r) /\ LinkSet(r) \ Candidates(r) \subseteq LinkSet(r)
          BY DEF Candidates
    <2> HIDE DEF new
    <2>3. Linked(r, new) \in Nat /\ Unlinked(r) \in Nat
          BY <1>1, <2>2, BatchFacts, FS_Subset, FS_CardinalityType DEF Linked, Unlinked
    <2>4. new \in SUBSET (Nat \X Links)
          BY <1>1, <2>2, BatchFacts
    <2>5. locals \in Locals /\ locals.edges = new /\ locals.tmp = imp[r].tmp
          BY <1>3, <2>3, <2>4 DEF Locals
    <2> HIDE DEF locals
    <2>6. ImportFrame(r) /\ imp'[r] = locals /\ orm'[r] = orm[r]
          BY <1>0, <2>1, <2>5 DEF ImportFrame, SessionTypeOK, ImportTypeOK
    <2>7. StoreStep(r)
          BY <2>1 DEF StoreStep
    <2>8. \A a \in AssetIds : Sound(r, a, tenant) => Sound(r, a, tenant)'
          BY <2>1 DEF storeVars, Sound, Asset
    <2>9. \A a \in AssetIds : orm'[r][a] # Nil \/ (\E t \in TempIds : imp'[r].tmp[t] = a)
              => Sound(r, a, tenant)'
          BY <1>0, <1>2, <1>7, <2>5, <2>6, <2>8, NilAssumption DEF LookupsSound, MapEdges
    <2> QED BY <1>1, <1>2, <2>1, <2>2, <2>5, <2>6, <2>7, <2>9, ImportGotoGood, ImportReplyGood
  <1>8. CASE InsertLink(r)
    <2>1. PICK p \in imp[r].edges :
             \/ /\ \E x \in RelIds : InsertRel(r, x, EdgeAt(r, p))
                /\ imp' = [imp EXCEPT ![r].edges = @ \ {p}]
                /\ Reply(r, "200") \/ Goto(r, "import_link")
             \/ Raise(r, "IntegrityError") /\ UNCHANGED imp
          BY <1>8 DEF InsertLink
    <2> DEFINE rel    == EdgeAt(r, p)
               locals == [imp[r] EXCEPT !.edges = @ \ {p}]
    <2>2. UNCHANGED <<call, orm, now, clock>> /\ pc[r] = "import_link"
          BY <1>8 DEF InsertLink
    <2>3. CASE Raise(r, "IntegrityError") /\ UNCHANGED imp
          BY <2>2, <2>3, RaiseGood DEF Codes, Errors
    <2>4. ASSUME NEW x \in RelIds, InsertRel(r, x, rel),
                 imp' = [imp EXCEPT ![r].edges = @ \ {p}],
                 Reply(r, "200") \/ Goto(r, "import_link")
          PROVE  GoodStep(r)
      <3>1. p \in LinkSet(r) /\ imp[r].edges \subseteq LinkSet(r)
            BY <1>0, <2>2 DEF HandlerInOrder
      <3>2. /\ p[1] \in Valid(r) /\ p[2] \in Links /\ Target(r, p) \in TempIds
            /\ Items(r)[p[1]].id \in TempIds
            BY <1>1, <3>1, BatchFacts DEF Item
      <3>3. LinkTypes[p[2]] \in RelTypes
            BY <3>2 DEF Links, LinkTypes, RelTypes
      <3>4. /\ rel.tenant = tenant /\ rel.type = LinkTypes[p[2]]
            /\ rel.src = imp[r].tmp[Items(r)[p[1]].id]
            /\ rel.dst = imp[r].tmp[Target(r, p)]
            /\ rel = [tenant |-> rel.tenant, src |-> rel.src, dst |-> rel.dst, type |-> rel.type]
            BY <1>2 DEF EdgeAt
      <3> HIDE DEF rel
      <3>5. /\ rel.src \in AssetIds /\ IsRow(Asset(r, rel.src))
            /\ rel.dst \in AssetIds /\ IsRow(Asset(r, rel.dst))
            BY <2>4 DEF InsertRel, EndpointsExist, AssetRows
      <3>6. Sound(r, rel.src, tenant) /\ Sound(r, rel.dst, tenant)
            BY <1>0, <1>2, <2>2, <3>2, <3>4, <3>5, NilAssumption DEF LookupsSound
      <3>7. Asset(r, rel.src).tenant = rel.tenant /\ Asset(r, rel.dst).tenant = rel.tenant
            BY <3>4, <3>5, <3>6 DEF Sound, IsRow
      <3>8. rel \in RelRow
            BY <3>3, <3>4, <3>5 DEF RelRow
      <3>9. StoreStep(r)
            BY <2>4, <3>7, <3>8 DEF StoreStep
      <3>10. locals \in Locals /\ locals.edges \subseteq LinkSet(r) /\ locals.tmp = imp[r].tmp
            BY <1>3, <3>1 DEF Locals
      <3>11. imp' = [imp EXCEPT ![r] = locals]
            BY <1>0, <2>4 DEF ImportTypeOK
      <3> HIDE DEF locals
      <3>12. ImportFrame(r) /\ imp'[r] = locals /\ orm'[r] = orm[r]
            BY <1>0, <2>2, <3>10, <3>11 DEF ImportFrame, SessionTypeOK, ImportTypeOK
      <3>13. \A a \in AssetIds : Sound(r, a, tenant) => Sound(r, a, tenant)'
            BY <2>4 DEF InsertRel, Sound, Asset
      <3>14. \A a \in AssetIds : orm'[r][a] # Nil \/ (\E t \in TempIds : imp'[r].tmp[t] = a)
                 => Sound(r, a, tenant)'
            BY <1>0, <1>2, <2>2, <3>10, <3>12, <3>13, NilAssumption DEF LookupsSound
      <3> QED BY <1>1, <1>2, <2>4, <3>9, <3>10, <3>12, <3>14, ImportGotoGood, ImportReplyGood
    <2> QED BY <2>1, <2>3, <2>4
  <1> QED BY <1>4, <1>5, <1>6, <1>7, <1>8 DEF ImportStep

-----------------------------------------------------------------------------
(* The service.                                                            *)

(* The tables of the instance and an idle server satisfy the invariant.    *)
LEMMA InitInv == Init => ApiInv
  <1> SUFFICES ASSUME Init PROVE ApiInv
      OBVIOUS
  <1>1. StoreInv
        BY StoreInitInv DEF Init
  <1>2. SessionTypeOK
        BY TimeAssumption DEF Init, SessionInit, SessionTypeOK, Labels, NotLoaded, Times
  <1>3. CacheTypeOK /\ GraphTypeOK /\ RelTypeOK
        BY DEF Init, CacheInit, CacheTypeOK, GraphInit, GraphTypeOK, RelInit, RelTypeOK
  <1>4. ImportTypeOK
        BY DEF Init, ImportInit, ImportTypeOK, StartOf, Locals
  <1>5. \A r \in Requests : HandlerInOrder(r) /\ LookupsSound(r)
        BY DEF Init, SessionInit, HandlerInOrder, LookupsSound
  <1> QED BY <1>1, <1>2, <1>3, <1>4, <1>5 DEF ApiInv, TypeOK, StoreInv

(* A step in which no request moves.                                       *)
LEMMA QuietStep ==
    ASSUME ApiInv, UNCHANGED <<storeVars, call, pc, resp, orm, now, graphVars, inval, imp>>,
           clock' \in Times, CacheTypeOK'
    PROVE  ApiInv'
  <1>1. StoreInv' /\ StoreTypeOK'
        BY StoreStutter DEF ApiInv, StoreInv
  <1>2. TypeOK'
        BY <1>1 DEF ApiInv, TypeOK, SessionTypeOK, GraphTypeOK, RelTypeOK, ImportTypeOK, graphVars
  <1>3. \A r \in Requests : HandlerInOrder(r)'
        BY DEF ApiInv, HandlerInOrder, LinkSet, Valid, Items, Target, graphVars
  <1>4. \A r \in Requests : LookupsSound(r)'
        BY DEF ApiInv, LookupsSound, Sound, Asset, storeVars
  <1> QED BY <1>1, <1>2, <1>3, <1>4 DEF ApiInv

(* ApiInv is inductive.                                                    *)
LEMMA NextInv == ApiInv /\ [Next]_vars => ApiInv'
  <1> SUFFICES ASSUME ApiInv, [Next]_vars PROVE ApiInv'
      OBVIOUS
  <1>1. ASSUME NEW r \in Requests, Arrive(r)
        PROVE  ApiInv'
        BY <1>1, ArriveGood, GoodStepInv
  <1>2. ASSUME NEW r \in Requests, Serve(r)
        PROVE  ApiInv'
        BY <1>2, CommitGood, AssetStepGood, GraphStepGood, RelStepGood, ImportStepGood,
           GoodStepInv DEF Serve
  <1>3. ASSUME NEW r \in Requests, BreakDeadlock(r)
        PROVE  ApiInv'
    <2>1. "DeadlockDetected" \in Codes
          BY DEF Codes, Errors
    <2> QED BY <1>3, <2>1, RaiseGood, GoodStepInv DEF BreakDeadlock, DeadlockAbort
  <1>4. ASSUME NEW r \in Requests, LoseConnection(r)
        PROVE  ApiInv'
    <2> DEFINE code == IF Answered(r) THEN resp[r] ELSE "OperationalError"
    <2>1. code \in Codes \cup {Nil}
          BY DEF Codes, Errors, ApiInv, TypeOK, SessionTypeOK
    <2>2. Raise(r, code) /\ UNCHANGED <<call, clock, cache, graphVars, inval, imp, orm, now>>
          BY <1>4 DEF LoseConnection, Fail
    <2> HIDE DEF code
    <2> QED BY <2>1, <2>2, RaiseGood, GoodStepInv
  <1>5. ASSUME NEW k \in GraphKeys, ExpireGraph(k)
        PROVE  ApiInv'
    <2>1. CacheTypeOK' /\ clock' \in Times
          BY <1>5 DEF ExpireGraph, Expire, ApiInv, TypeOK, CacheTypeOK, SessionTypeOK, sessionVars
    <2> QED BY <1>5, <2>1, QuietStep DEF ExpireGraph, Expire, sessionVars
  <1>6. CASE PassTime
    <2>1. clock' \in Times
          BY <1>6, TimeAssumption DEF PassTime, Tick, ApiInv, TypeOK, SessionTypeOK, Times
    <2>2. CacheTypeOK'
          BY <1>6 DEF PassTime, ApiInv, TypeOK, CacheTypeOK
    <2> QED BY <1>6, <2>1, <2>2, QuietStep DEF PassTime, Tick
  <1>7. CASE UNCHANGED vars
    <2>1. clock' \in Times /\ CacheTypeOK'
          BY <1>7 DEF vars, sessionVars, ApiInv, TypeOK, SessionTypeOK, CacheTypeOK
    <2> QED BY <1>7, <2>1, QuietStep DEF vars, sessionVars
  <1> QED BY <1>1, <1>2, <1>3, <1>4, <1>5, <1>6, <1>7 DEF Next, Idle

(* The inductive invariant of the service.                                 *)
THEOREM Invariance == Spec => []ApiInv
  <1> QED BY InitInv, NextInv, PTL DEF Spec

(* Every variable keeps its type, whatever the requests do.                *)
THEOREM TypeCorrectness == Spec => []TypeOK
  <1>1. ApiInv => TypeOK
        BY DEF ApiInv
  <1> QED BY <1>1, Invariance, PTL

(* The unique constraints of the schema hold of the committed rows: the    *)
(* waiting of the INSERTs loses no duplicate, in any interleaving.         *)
THEOREM NoDuplicates == Spec => []NoDuplicateRows
  <1>1. ApiInv => NoDuplicateRows
        BY DEF ApiInv, StoreInv
  <1> QED BY <1>1, Invariance, PTL

(* Every edge joins two existing assets of its tenant: the lookups of the  *)
(* services, made statements before the INSERT, and the locks of the       *)
(* foreign keys suffice.                                                   *)
THEOREM TenantIsolation == Spec => []EdgesStayInTenant
  <1>1. ApiInv => EdgesStayInTenant
        BY DEF ApiInv, StoreInv
  <1> QED BY <1>1, Invariance, PTL
=============================================================================
