--------------------------- MODULE ListingProofs ---------------------------
(***************************************************************************)
(* A listing that only grows, and whose rows only move to the front, skips *)
(* nothing.  What a page has not shown yet has, in the table, at least as  *)
(* many rows before it as the pages read so far are long: whatever moves   *)
(* to the front pushes it back, and so keeps it before the client.         *)
(***************************************************************************)
EXTENDS Listing, ApiProofs

Ids == AssetIds \cup RelIds

Walks ==
    [query : Queries, offset : Nat, listed : SUBSET Ids, twice : SUBSET Ids, ended : BOOLEAN,
     start : SUBSET Ids, touched : SUBSET Ids, tied : SUBSET Ids, steady : BOOLEAN]

(* The rows that come before row i.                                        *)
Front(q, i) == {j \in Rows(q) : Seen(q, j) > Seen(q, i)}

(* The rows a walk must show.                                              *)
Awaited(w) == w.start \ (w.touched \cup w.tied)

Ahead(w, i) ==
    /\ i \in Rows(w.query)
    /\ i \in w.listed \/ Cardinality(Front(w.query, i)) >= w.offset

WalkInv ==
    walk # Nil =>
        /\ walk \in Walks
        /\ walk.ended \/ Tied(walk.query) \subseteq walk.tied
        /\ walk.steady => \A i \in Awaited(walk) :
               IF walk.ended THEN i \in walk.listed ELSE Ahead(walk, i)

-----------------------------------------------------------------------------
(* Rows and pages.                                                         *)

LEMMA RowsAreSeen ==
    ASSUME StoreTypeOK, NEW q \in Queries
    PROVE  /\ DOMAIN Table(q) \subseteq Ids
           /\ Rows(q) \subseteq DOMAIN Table(q)
           /\ \A i \in Rows(q) : Seen(q, i) \in Nat
  <1>1. /\ assets \in [AssetIds -> AssetCell] /\ rels \in [RelIds -> RelCell]
        BY DEF StoreTypeOK
  <1>2. CASE q.table = "assets"
    <2>1. Table(q) = assets
          BY <1>2 DEF Table
    <2>2. \A i \in AssetIds : IsRow(assets[i]) => assets[i].last_seen \in Nat
          BY <1>1, TimeAssumption DEF AssetCell, IsRow, AssetRow, Times
    <2> QED BY <1>1, <1>2, <2>1, <2>2 DEF Rows, Matches, Seen, Ids
  <1>3. CASE q.table # "assets"
    <2>1. Table(q) = rels
          BY <1>3 DEF Table
    <2> QED BY <1>1, <1>3, <2>1 DEF Rows, Seen, Ids
  <1> QED BY <1>2, <1>3

LEMMA RowsAreFinite ==
    ASSUME IsFiniteSet(AssetIds), IsFiniteSet(RelIds), StoreTypeOK, NEW q \in Queries
    PROVE  IsFiniteSet(Rows(q))
  <1>1. IsFiniteSet(Ids)
        BY FS_Union DEF Ids
  <1>2. Rows(q) \subseteq Ids
        BY RowsAreSeen
  <1> QED BY <1>1, <1>2, FS_Subset

(* A page shows a row that has as many rows before it as were skipped, or  *)
(* it is full, and the row has all of it before it as well.                *)
LEMMA PageShows ==
    ASSUME IsFiniteSet(AssetIds), IsFiniteSet(RelIds), StoreTypeOK,
           NEW q \in Queries, NEW offset \in Nat, NEW P \in SUBSET Rows(q), IsPage(P, q, offset),
           NEW i \in Rows(q), i \notin Tied(q), i \notin P,
           Cardinality(Front(q, i)) >= offset
    PROVE  /\ Cardinality(P) = PageSize
           /\ Cardinality(Front(q, i)) >= offset + PageSize
  <1>1. IsFiniteSet(Rows(q)) /\ PageSize \in Nat /\ \A j \in Rows(q) : Seen(q, j) \in Nat
        BY RowsAreFinite, RowsAreSeen, ListingAssumption
  <1>2. PICK skipped \in SUBSET (Rows(q) \ P) :
           /\ Cardinality(skipped) = Smaller(offset, Cardinality(Rows(q)))
           /\ Cardinality(P) = Smaller(PageSize, Cardinality(Rows(q)) - Cardinality(skipped))
           /\ \A k \in skipped, j \in P : MayPrecede(q, k, j)
           /\ \A k \in skipped \cup P, j \in Rows(q) \ (skipped \cup P) : MayPrecede(q, k, j)
        BY DEF IsPage
  <1> DEFINE front == Front(q, i)
             shown == skipped \cup P
  <1>3. front \in SUBSET Rows(q) /\ i \notin front
        BY <1>1 DEF Front
  <1>4. /\ IsFiniteSet(skipped) /\ IsFiniteSet(P) /\ IsFiniteSet(front) /\ IsFiniteSet(shown)
        BY <1>1, <1>3, FS_Subset, FS_Union
  <1>5. /\ Cardinality(skipped) \in Nat /\ Cardinality(P) \in Nat /\ Cardinality(front) \in Nat
        /\ Cardinality(Rows(q)) \in Nat
        BY <1>1, <1>4, FS_CardinalityType
  <1>6. Cardinality(shown) = Cardinality(skipped) + Cardinality(P)
    <2>1. skipped \cap P = {}
          OBVIOUS
    <2>2. Cardinality(shown) = Cardinality(skipped) + Cardinality(P) - Cardinality(skipped \cap P)
          BY <1>4, FS_Union
    <2> QED BY <1>5, <2>1, <2>2, FS_EmptySet
  <1>7. i \notin skipped
    <2> SUFFICES ASSUME i \in skipped PROVE FALSE
        OBVIOUS
    <2>1. \A j \in Rows(q) \ skipped : Seen(q, j) <= Seen(q, i)
          BY <1>1, <1>2 DEF MayPrecede
    <2>2. front \subseteq skipped
          BY <1>1, <2>1 DEF Front
    <2>3. Cardinality(front) < Cardinality(skipped)
      <3>1. front # skipped
            BY <1>3
      <3> QED BY <1>4, <1>5, <2>2, <3>1, FS_Subset
    <2> QED BY <1>2, <1>5, <2>3 DEF Smaller
  <1>8. shown \subseteq front
    <2>1. \A k \in shown : Seen(q, k) >= Seen(q, i)
          BY <1>2, <1>7 DEF MayPrecede
    <2>2. \A k \in Rows(q) \ {i} : Seen(q, k) # Seen(q, i)
          BY DEF Tied
    <2> QED BY <1>1, <1>7, <2>1, <2>2 DEF Front
  <1>9. Cardinality(shown) <= Cardinality(front)
        BY <1>4, <1>8, FS_Subset
  <1>10. Cardinality(front) < Cardinality(Rows(q))
    <2>1. front # Rows(q)
          BY <1>3
    <2> QED BY <1>1, <1>3, <1>5, <2>1, FS_Subset
  <1>11. Cardinality(skipped) = offset
         BY <1>2, <1>5, <1>10 DEF Smaller
  <1>12. Cardinality(P) = PageSize
         BY <1>1, <1>2, <1>5, <1>6, <1>9, <1>10 DEF Smaller
  <1> QED BY <1>1, <1>5, <1>6, <1>9, <1>11, <1>12

-----------------------------------------------------------------------------
(* The steps.                                                              *)

(* The table stays as it is for the query.                                 *)
LEMMA SameRows ==
    ASSUME UNCHANGED <<assets, rels>>, NEW q
    PROVE  /\ Rows(q)' = Rows(q) /\ Tied(q)' = Tied(q)
           /\ \A i : Front(q, i)' = Front(q, i)
  BY DEF Rows, Tied, Front, Table, Seen

LEMMA StartWalk ==
    ASSUME IsFiniteSet(AssetIds), IsFiniteSet(RelIds), StoreTypeOK, StartListing
    PROVE  WalkInv'
  <1>1. PICK q \in Queries :
           walk' = [query |-> q, offset |-> 0, listed |-> {}, twice |-> {}, ended |-> FALSE,
                    start |-> Rows(q), touched |-> {}, tied |-> Tied(q), steady |-> TRUE]
        BY DEF StartListing
  <1>2. UNCHANGED <<assets, rels>>
        BY DEF StartListing, vars, storeVars
  <1>3. /\ Tied(q)' = Tied(q) /\ Rows(q)' = Rows(q)
        /\ \A i : Front(q, i)' = Front(q, i)
        BY <1>2, SameRows
  <1>4. walk' \in Walks
        BY <1>1, RowsAreSeen DEF Walks, Tied
  <1>5. Tied(walk.query)' \subseteq walk'.tied
        BY <1>1, <1>3
  <1>6. ASSUME NEW i \in Awaited(walk)'
        PROVE  Ahead(walk, i)'
    <2>1. i \in Rows(q)' /\ walk'.query = q /\ walk'.offset = 0
          BY <1>1, <1>3, <1>6 DEF Awaited
    <2>2. Cardinality(Front(q, i)) \in Nat
      <3>1. Front(q, i) \in SUBSET Rows(q)
            BY DEF Front
      <3> QED BY <3>1, RowsAreFinite, FS_Subset, FS_CardinalityType
    <2>3. Cardinality(Front(walk.query, i))' \in Nat
          BY <1>3, <2>1, <2>2
    <2> QED BY <2>1, <2>3 DEF Ahead
  <1> QED BY <1>1, <1>4, <1>5, <1>6 DEF WalkInv

LEMMA PageWalk ==
    ASSUME IsFiniteSet(AssetIds), IsFiniteSet(RelIds), StoreTypeOK, WalkInv, ReadPage
    PROVE  WalkInv'
  <1>1. /\ walk \in Walks /\ ~ walk.ended
        /\ Tied(walk.query) \subseteq walk.tied
        /\ walk.steady => \A i \in Awaited(walk) : Ahead(walk, i)
        BY DEF ReadPage, WalkInv
  <1>2. PICK P \in SUBSET Rows(walk.query) :
           /\ IsPage(P, walk.query, walk.offset)
           /\ walk' = [walk EXCEPT
                  !.offset = @ + PageSize,
                  !.listed = @ \cup P,
                  !.twice = @ \cup (walk.listed \cap P),
                  !.ended = Cardinality(P) < PageSize]
        BY DEF ReadPage
  <1>3. UNCHANGED <<assets, rels>>
        BY DEF ReadPage, vars, storeVars
  <1>4. PICK q : q = walk.query
        OBVIOUS
  <1>5. q \in Queries /\ walk.offset \in Nat
        BY <1>1, <1>4 DEF Walks
  <1>6. /\ walk'.query = q /\ walk'.offset = walk.offset + PageSize
        /\ walk'.listed = walk.listed \cup P /\ (walk'.ended <=> Cardinality(P) < PageSize)
        /\ walk'.start = walk.start /\ walk'.touched = walk.touched /\ walk'.tied = walk.tied
        /\ walk'.steady = walk.steady
        BY <1>1, <1>2, <1>4 DEF Walks
  <1>7. walk' \in Walks
    <2>1. P \subseteq Ids
          BY <1>2, <1>4, <1>5, RowsAreSeen
    <2>2. PageSize \in Nat
          BY ListingAssumption
    <2> DEFINE last == Cardinality(P) < PageSize
               twice == walk.listed \cap P
    <2>3. last \in BOOLEAN /\ twice \subseteq Ids
          BY <2>1
    <2>4. walk' = [walk EXCEPT !.offset = @ + PageSize, !.listed = @ \cup P,
                               !.twice = @ \cup twice, !.ended = last]
          BY <1>2
    <2> HIDE DEF last, twice
    <2>5. walk.offset + PageSize \in Nat /\ walk.listed \cup P \subseteq Ids
              /\ walk.twice \cup twice \subseteq Ids
          BY <1>1, <2>1, <2>2, <2>3 DEF Walks
    <2>6. PICK offset, listed, both :
             /\ offset = walk.offset + PageSize /\ listed = walk.listed \cup P
             /\ both = walk.twice \cup twice
          OBVIOUS
    <2>7. walk' = [walk EXCEPT !.offset = offset, !.listed = listed, !.twice = both, !.ended = last]
          BY <2>4, <2>6
    <2>8. walk' = [query |-> walk.query, offset |-> offset, listed |-> listed, twice |-> both,
                   ended |-> last, start |-> walk.start, touched |-> walk.touched,
                   tied |-> walk.tied, steady |-> walk.steady]
          BY <1>1, <2>7 DEF Walks
    <2>9. /\ walk.query \in Queries /\ walk.start \in SUBSET Ids /\ walk.touched \in SUBSET Ids
          /\ walk.tied \in SUBSET Ids /\ walk.steady \in BOOLEAN
          BY <1>1 DEF Walks
    <2>10. offset \in Nat /\ listed \in SUBSET Ids /\ both \in SUBSET Ids
           BY <2>5, <2>6
    <2> QED BY <2>3, <2>8, <2>9, <2>10 DEF Walks
  <1>8. /\ Tied(q)' = Tied(q) /\ Rows(q)' = Rows(q)
        /\ \A i : Front(q, i)' = Front(q, i)
        BY <1>3, SameRows
  <1>9. Tied(walk.query)' \subseteq walk'.tied
        BY <1>1, <1>4, <1>6, <1>8
  <1>10. ASSUME walk.steady, NEW i \in Awaited(walk)
         PROVE  IF walk'.ended THEN i \in walk'.listed ELSE Ahead(walk, i)'
    <2>1. i \in Rows(q) /\ (i \in walk.listed \/ Cardinality(Front(q, i)) >= walk.offset)
          BY <1>1, <1>4, <1>10 DEF Ahead
    <2>2. CASE i \in walk'.listed
          BY <1>6, <1>8, <2>1, <2>2 DEF Ahead
    <2>3. CASE i \notin walk'.listed
      <3>1. i \notin P /\ i \notin walk.listed /\ i \notin Tied(q)
            BY <1>1, <1>4, <1>6, <1>10, <2>3 DEF Awaited
      <3>2. Cardinality(P) = PageSize /\ Cardinality(Front(q, i)) >= walk.offset + PageSize
            BY <1>2, <1>4, <1>5, <2>1, <3>1, PageShows
      <3>3. ~ walk'.ended
            BY <1>6, <3>2, ListingAssumption
      <3>4. Front(walk.query, i)' = Front(q, i)
            BY <1>6, <1>8
      <3> QED BY <1>6, <1>8, <2>1, <3>2, <3>3, <3>4 DEF Ahead
    <2> QED BY <2>2, <2>3
  <1>11. Awaited(walk)' = Awaited(walk)
         BY <1>6 DEF Awaited
  <1> QED BY <1>6, <1>7, <1>9, <1>10, <1>11 DEF WalkInv

(* Rows that nobody touched are pushed back, never forward.                *)
LEMMA FollowWalk ==
    ASSUME IsFiniteSet(AssetIds), IsFiniteSet(RelIds), StoreTypeOK, StoreTypeOK', WalkInv, Follow
    PROVE  WalkInv'
  <1>1. CASE UNCHANGED walk /\ (walk = Nil \/ walk.ended)
        BY <1>1 DEF WalkInv, Awaited
  <1>2. CASE walk # Nil /\ ~ walk.ended
    <2>1. /\ walk \in Walks
          /\ Tied(walk.query) \subseteq walk.tied
          /\ walk.steady => \A i \in Awaited(walk) : Ahead(walk, i)
          BY <1>2 DEF WalkInv
    <2>2. PICK q \in {walk.query} :
             walk' = [walk EXCEPT
                 !.touched = @ \cup {i \in DOMAIN Table(q) : Table(q)'[i] # Table(q)[i]},
                 !.tied = @ \cup Tied(q)',
                 !.steady = @ /\ Rows(q) \subseteq Rows(q)'
                              /\ \A i \in Rows(q) : Seen(q, i) <= Seen(q, i)']
          BY <1>2 DEF Follow
    <2> DEFINE changed == {i \in DOMAIN Table(q) : Table(q)'[i] # Table(q)[i]}
               level == Tied(q)'
               onward == /\ Rows(q) \subseteq Rows(q)'
                         /\ \A i \in Rows(q) : Seen(q, i) <= Seen(q, i)'
    <2>3. q \in Queries /\ q = walk.query
          BY <2>1, <2>2 DEF Walks
    <2>4. changed \subseteq Ids /\ level \subseteq Ids
      <3>1. Rows(q)' \subseteq Ids
            BY DEF StoreTypeOK, Rows, Table, Ids
      <3> QED BY <2>3, <3>1, RowsAreSeen DEF Tied
    <2>5. walk' = [walk EXCEPT !.touched = @ \cup changed, !.tied = @ \cup level,
                               !.steady = @ /\ onward]
          BY <2>2
    <2> HIDE DEF changed, level, onward
    <2>6. /\ walk' \in Walks
          /\ walk'.query = q /\ walk'.offset = walk.offset
          /\ walk'.listed = walk.listed /\ walk'.ended = walk.ended
          /\ walk'.start = walk.start /\ walk'.touched = walk.touched \cup changed
          /\ walk'.tied = walk.tied \cup level
          /\ walk'.steady = (walk.steady /\ onward)
          BY <2>1, <2>3, <2>4, <2>5 DEF Walks
    <2>7. Tied(walk.query)' \subseteq walk'.tied
          BY <2>6 DEF level
    <2>8. ASSUME walk'.steady, NEW i \in Awaited(walk)'
          PROVE  Ahead(walk, i)'
      <3>1. walk.steady /\ onward
            BY <2>6, <2>8
      <3>2. i \in Awaited(walk) /\ i \notin changed /\ i \notin Tied(q)
            BY <2>1, <2>3, <2>6, <2>8 DEF Awaited
      <3>3. i \in Rows(q) /\ (i \in walk.listed \/ Cardinality(Front(q, i)) >= walk.offset)
            BY <2>1, <2>3, <3>1, <3>2 DEF Ahead
      <3>4. i \in Rows(q)' /\ Seen(q, i)' = Seen(q, i)
        <4>1. Table(q)'[i] = Table(q)[i]
              BY <2>3, <3>2, <3>3, RowsAreSeen DEF changed
        <4> QED BY <3>1, <3>3, <4>1 DEF onward, Seen, Table
      <3>5. Front(q, i) \subseteq Front(q, i)'
        <4> SUFFICES ASSUME NEW j \in Rows(q), Seen(q, j) > Seen(q, i)
                     PROVE  j \in Rows(q)' /\ Seen(q, j)' > Seen(q, i)'
            BY DEF Front
        <4>1. j \in Rows(q)' /\ Seen(q, j) <= Seen(q, j)'
              BY <3>1 DEF onward
        <4>2. Seen(q, i) \in Nat /\ Seen(q, j) \in Nat
              BY <2>3, <3>3, RowsAreSeen
        <4>3. Seen(q, j)' \in Nat
          <5>1. CASE q.table = "assets"
            <6>1. j \in AssetIds /\ IsRow(assets'[j])
                  BY <4>1, <5>1 DEF StoreTypeOK, Rows, Table, Matches
            <6>2. assets'[j].last_seen \in Nat
                  BY <6>1, TimeAssumption DEF StoreTypeOK, AssetCell, IsRow, AssetRow, Times
            <6> QED BY <5>1, <6>2 DEF Seen
          <5>2. CASE q.table # "assets"
                BY <5>2 DEF Seen
          <5> QED BY <5>1, <5>2
        <4> QED BY <3>4, <4>1, <4>2, <4>3
      <3>6. Cardinality(Front(q, i)) <= Cardinality(Front(q, i)')
            /\ Cardinality(Front(q, i)) \in Nat /\ Cardinality(Front(q, i)') \in Nat
        <4>1. IsFiniteSet(Front(q, i)')
          <5>1. Front(q, i)' \in SUBSET Ids
                BY DEF StoreTypeOK, Front, Rows, Table, Ids
          <5> QED BY <5>1, FS_Union, FS_Subset DEF Ids
        <4> QED BY <3>5, <4>1, FS_Subset, FS_CardinalityType
      <3>7. walk.offset \in Nat /\ walk'.query = q
            BY <2>1, <2>6 DEF Walks
      <3> QED BY <2>6, <3>3, <3>4, <3>6, <3>7 DEF Ahead
    <2> QED BY <1>2, <2>6, <2>7, <2>8 DEF WalkInv
  <1> QED BY <1>1, <1>2 DEF Follow

-----------------------------------------------------------------------------
(* The requests of Api go on under the client as they do without it.       *)
LEMMA Underneath == ListSpec => Spec
  <1>1. ListInit => Init
        BY DEF ListInit
  <1>2. [ListNext]_listVars => [Next]_vars
        BY DEF ListNext, StartListing, ReadPage, listVars
  <1> QED BY <1>1, <1>2, PTL DEF ListSpec, Spec

(* A client that reads page after page of a table into which rows only     *)
(* arrive, and in which they only move to the front, sees every row that   *)
(* was there at the start and was not touched, whatever the page size, the *)
(* query and the requests that are served meanwhile                        *)
(* (asset_repository.py:49-55).                                            *)
THEOREM PagesSkipNothing ==
    ASSUME IsFiniteSet(AssetIds), IsFiniteSet(RelIds)
    PROVE  ListSpec => []NothingSkipped
  <1>1. IsFiniteSet(AssetIds) /\ IsFiniteSet(RelIds)
        OBVIOUS
  <1>2. ListInit => WalkInv
        BY DEF ListInit, WalkInv
  <1>3. ApiInv /\ ApiInv' /\ WalkInv /\ [ListNext]_listVars => WalkInv'
    <2> SUFFICES ASSUME ApiInv, ApiInv', WalkInv, [ListNext]_listVars
                 PROVE  WalkInv'
        OBVIOUS
    <2>1. StoreTypeOK /\ StoreTypeOK'
          BY DEF ApiInv, TypeOK
    <2>2. CASE UNCHANGED listVars
          BY <2>2, SameRows DEF listVars, vars, storeVars, WalkInv, Ahead, Awaited
    <2> QED BY <1>1, <2>1, <2>2, StartWalk, PageWalk, FollowWalk DEF ListNext
  <1>4. WalkInv => NothingSkipped
        BY DEF WalkInv, NothingSkipped, Awaited
  <1> QED BY <1>2, <1>3, <1>4, Underneath, Invariance, PTL DEF ListSpec
=============================================================================
