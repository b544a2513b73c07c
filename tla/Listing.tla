------------------------------ MODULE Listing ------------------------------
(***************************************************************************)
(* A client lists assets or relationships page by page (GET /assets and    *)
(* GET /relationships), while the requests of Api go on.  A page is one    *)
(* SELECT on the rows committed when it runs: the rows that match, assets  *)
(* by descending last_seen, relationships in no order, cut by OFFSET and   *)
(* LIMIT.  Rows that the order leaves level may be cut anywhere, and by    *)
(* the next page elsewhere.                                                *)
(***************************************************************************)
EXTENDS Api

CONSTANTS
    Queries,    \* what the client may list
    PageSize    \* the `limit` of its pages

VARIABLE walk   \* the pages read so far; Nil before the first

listVars == <<vars, walk>>

(* `keys` stands for the filters on type and value.                        *)
AssetQuery == [table : {"assets"}, tenant : Tenants, keys : SUBSET Keys,
               status : Statuses \cup {Nil}, tag : Tags \cup {Nil}]
RelQuery   == [table : {"relationships"}, tenant : Tenants]

ASSUME ListingAssumption ==
    /\ Queries \subseteq AssetQuery \cup RelQuery
    /\ PageSize \in 1 .. 100
    /\ Nil \notin Statuses \cup Tags

Matches(q, row) ==
    /\ IsRow(row) /\ row.tenant = q.tenant
    /\ q.table = "assets" =>
          /\ row.key \in q.keys
          /\ q.status \in {Nil, row.status}
          /\ q.tag \in {Nil} \cup row.tags

Table(q) == IF q.table = "assets" THEN assets ELSE rels
Rows(q)  == {i \in DOMAIN Table(q) : Matches(q, Table(q)[i])}

Seen(q, i) == IF q.table = "assets" THEN assets[i].last_seen ELSE 0

(* Mutant: the oldest come first.                                          *)
OldestFirst(q, i, j) == Seen(q, i) <= Seen(q, j)

(* Row i may come before row j.                                            *)
MayPrecede(q, i, j) == Seen(q, i) >= Seen(q, j)

Smaller(m, n) == IF m < n THEN m ELSE n

(* P is a page of query q at an offset: `skipped` rows come before it.     *)
IsPage(P, q, offset) ==
    \E skipped \in SUBSET (Rows(q) \ P) :
        /\ Cardinality(skipped) = Smaller(offset, Cardinality(Rows(q)))
        /\ Cardinality(P) = Smaller(PageSize, Cardinality(Rows(q)) - Cardinality(skipped))
        /\ \A i \in skipped, j \in P : MayPrecede(q, i, j)
        /\ \A i \in skipped \cup P, j \in Rows(q) \ (skipped \cup P) : MayPrecede(q, i, j)

-----------------------------------------------------------------------------
(* The steps of the client.                                                *)

Tied(q) == {i \in Rows(q) : \E j \in Rows(q) \ {i} : Seen(q, i) = Seen(q, j)}

(* listed, twice: the rows on its pages, and those on two of them.  The    *)
(* rest is history: the rows there at the start, those touched since,      *)
(* those that were level with another, and whether the listing only grew   *)
(* and its rows only moved to the front.                                   *)
StartListing ==
    /\ walk = Nil
    /\ \E q \in Queries :
          walk' = [query |-> q, offset |-> 0, listed |-> {}, twice |-> {}, ended |-> FALSE,
                   start |-> Rows(q), touched |-> {}, tied |-> Tied(q), steady |-> TRUE]
    /\ UNCHANGED vars

(* The route answers a page, and as `total` no more than its length: the   *)
(* client stops at the first page that is not full.                        *)
ReadPage ==
    /\ walk # Nil /\ ~ walk.ended
    /\ \E P \in SUBSET Rows(walk.query) :
          /\ IsPage(P, walk.query, walk.offset)
          /\ walk' = [walk EXCEPT
                 !.offset = @ + PageSize,
                 !.listed = @ \cup P,
                 !.twice = @ \cup (walk.listed \cap P),
                 !.ended = Cardinality(P) < PageSize]
    /\ UNCHANGED vars

Follow ==
    IF walk = Nil \/ walk.ended THEN UNCHANGED walk
    ELSE \E q \in {walk.query} :
         walk' = [walk EXCEPT
             !.touched = @ \cup {i \in DOMAIN Table(q) : Table(q)'[i] # Table(q)[i]},
             !.tied = @ \cup Tied(q)',
             !.steady = @ /\ Rows(q) \subseteq Rows(q)'
                          /\ \A i \in Rows(q) : Seen(q, i) <= Seen(q, i)']

ListInit == Init /\ walk = Nil

ListNext == (Next /\ Follow) \/ StartListing \/ ReadPage

ListSpec == ListInit /\ [][ListNext]_listVars

-----------------------------------------------------------------------------
(* Listing while others write: as long as assets only arrive, and move to  *)
(* the front as they are updated, every asset that nobody touched is on a  *)
(* page, however the pages shift; to skip one takes a deletion, a change   *)
(* that a filter tells apart, an update that sets last_seen back, or two   *)
(* assets seen at one time (asset_repository.py:49-55).                    *)
NothingSkipped ==
    walk # Nil /\ walk.ended /\ walk.steady =>
        walk.start \ (walk.touched \cup walk.tied) \subseteq walk.listed

(* "No overlap between pages" of a table that nobody writes to             *)
(* (tests/test_assets.py:252, tests/test_relationships.py:202).            *)
NoOverlap == walk # Nil /\ walk.touched = {} => walk.twice = {}
=============================================================================
