--------------------------- MODULE ImportPipeline ---------------------------
(***************************************************************************)
(* POST /assets/import (app/services/import_pipeline.py): five stages over *)
(* a batch of items, in one transaction.  The lookup of stage 3 reads      *)
(* every asset of the batch once; stage 4 then flushes item by item from   *)
(* what was loaded; stage 5 looks the candidate edges up once and flushes  *)
(* the new ones.                                                           *)
(***************************************************************************)
EXTENDS Sessions

VARIABLE imp   \* imp[r]: the local variables of execute()

(* left: items stage 4 has yet to flush; tmp: temp_id_to_uuid; edges: new  *)
(* edges to flush, as <<item, link>> positions; the rest are counters.     *)
Locals ==
    [left : SUBSET Nat, tmp : [TempIds -> AssetIds \cup {Nil}],
     edges : SUBSET (Nat \X Links), created : Nat, updated : Nat,
     linked : Nat, unlinked : Nat]

StartOf(valid) ==
    [left |-> valid, tmp |-> [t \in TempIds |-> Nil], edges |-> {},
     created |-> 0, updated |-> 0, linked |-> 0, unlinked |-> 0]

ImportInit == imp = [r \in Requests |-> StartOf({})]

-----------------------------------------------------------------------------
Items(r)   == call[r].items
Valid(r)   == {i \in DOMAIN Items(r) : Items(r)[i].form = "valid"}

(* Stages 1 to 3.                                                          *)
LookupItems(r) ==
    LET found == AssetsByKey(r, call[r].tenant, {KeyOf(Items(r)[i]) : i \in Valid(r)})
    IN
    /\ pc[r] = "import_assets"
    /\ \/ /\ \E i \in DOMAIN Items(r) : Items(r)[i].form = "unreportable"
          /\ Raise(r, "ValidationError")
          /\ UNCHANGED <<orm, now, imp>>
       \/ /\ \A i \in DOMAIN Items(r) : Items(r)[i].form # "unreportable"
          /\ orm' = [orm EXCEPT ![r] =
                        [a \in AssetIds |-> IF a \in found THEN Asset(r, a) ELSE Nil]]
          /\ now' = [now EXCEPT ![r] = clock]
          /\ imp' = [imp EXCEPT ![r] = StartOf(Valid(r))]
          /\ IF Valid(r) = {} THEN Reply(r, "200") ELSE Goto(r, "import_item")
          /\ UNCHANGED storeVars
    /\ UNCHANGED <<call, clock>>

-----------------------------------------------------------------------------
(* Stage 4, one item: existing_map is what the session has loaded.         *)

Existing(r, key) == {a \in AssetIds : orm[r][a] # Nil /\ orm[r][a].key = key}

IsNext(i, left) == i \in left /\ \A j \in left : i <= j

(* Mutant: archived assets are not reactivated.                            *)
MergedStaleOnly(item, row, t) ==
    [row EXCEPT !.status = IF @ = "stale" THEN "active" ELSE @,
                !.last_seen = t,
                !.meta = MergeMeta(@, item.meta),
                !.tags = @ \cup item.tags]

Merged(item, row, t) ==
    [row EXCEPT
        !.status = IF @ \in {"stale", "archived"} THEN "active" ELSE @,
        !.last_seen = t,
        !.meta = MergeMeta(@, item.meta),
        !.tags = @ \cup item.tags]

(* Mutant: the key is stored as it was sent, not normalized.               *)
CreatedRaw(t, item, time) ==
    [tenant |-> t, key |-> item.key, status |-> item.status,
     source |-> item.source, tags |-> item.tags, meta |-> item.meta,
     first_seen |-> time, last_seen |-> time]

Created(t, item, time) ==
    [tenant |-> t, key |-> KeyOf(item), status |-> item.status,
     source |-> item.source, tags |-> item.tags, meta |-> item.meta,
     first_seen |-> time, last_seen |-> time]

(* Mutant: only created assets enter temp_id_to_uuid.                      *)
FlushedCreatedOnly(r, i, a, row) ==
    /\ orm' = [orm EXCEPT ![r][a] = row]
    /\ imp' = [imp EXCEPT
           ![r].left = @ \ {i},
           ![r].tmp[Items(r)[i].id] = IF orm[r][a] = Nil THEN a ELSE @,
           ![r].created = IF orm[r][a] = Nil THEN @ + 1 ELSE @,
           ![r].updated = IF orm[r][a] = Nil THEN @ ELSE @ + 1]
    /\ Goto(r, IF imp[r].left = {i} THEN "import_edges" ELSE "import_item")

(* The item is flushed as asset a: remember the row and the temporary id.  *)
Flushed(r, i, a, row) ==
    /\ orm' = [orm EXCEPT ![r][a] = row]
    /\ imp' = [imp EXCEPT
           ![r].left = @ \ {i},
           ![r].tmp[Items(r)[i].id] = a,
           ![r].created = IF orm[r][a] = Nil THEN @ + 1 ELSE @,
           ![r].updated = IF orm[r][a] = Nil THEN @ ELSE @ + 1]
    /\ Goto(r, IF imp[r].left = {i} THEN "import_edges" ELSE "import_item")

MergeItem(r) ==
    /\ pc[r] = "import_item"
    /\ \E i \in Valid(r) : \E a \in Existing(r, KeyOf(Items(r)[i])) :
          LET row == Merged(Items(r)[i], orm[r][a], now[r]) IN
          /\ IsNext(i, imp[r].left)
          /\ \/ FlushAsset(r, a, row) /\ Flushed(r, i, a, row)
             \/ FlushFails(r, a) /\ UNCHANGED <<orm, imp>>
    /\ UNCHANGED <<call, now, clock>>

CreateItem(r) ==
    /\ pc[r] = "import_item"
    /\ \E i \in Valid(r) :
          LET row == Created(call[r].tenant, Items(r)[i], now[r]) IN
          /\ IsNext(i, imp[r].left)
          /\ Existing(r, row.key) = {}
          /\ \/ \E a \in AssetIds : InsertAsset(r, a, row) /\ Flushed(r, i, a, row)
             \/ /\ KeyHolders(r, row) = {} /\ KeyTaken(r, row)
                /\ Raise(r, "IntegrityError")
                /\ UNCHANGED <<orm, imp>>
    /\ UNCHANGED <<call, now, clock>>

-----------------------------------------------------------------------------
(* Stage 5.  A link is written when both of its ends were flushed.         *)

Target(r, p) == Items(r)[p[1]].link[p[2]]

LinkSet(r) == {p \in Valid(r) \X Links : Target(r, p) # Nil}

Candidates(r) == {p \in LinkSet(r) : imp[r].tmp[Target(r, p)] # Nil}

EdgeAt(r, p) ==
    [tenant |-> call[r].tenant,
     src |-> imp[r].tmp[Items(r)[p[1]].id],
     dst |-> imp[r].tmp[Target(r, p)],
     type |-> LinkTypes[p[2]]]

(* Mutant: edges that exist already are counted as created.                *)
LinkedAll(r, new) == Cardinality(Candidates(r))

(* The two edge statistics: edges to write, references not in the batch.   *)
Linked(r, new) == Cardinality(new)
Unlinked(r)    == Cardinality(LinkSet(r) \ Candidates(r))

MapEdges(r) ==
    LET new == {p \in Candidates(r) : ~ EdgeExists(r, EdgeAt(r, p))} IN
    /\ pc[r] = "import_edges"
    /\ imp' = [imp EXCEPT ![r].edges = new,
                          ![r].linked = Linked(r, new),
                          ![r].unlinked = Unlinked(r)]
    /\ IF new = {} THEN Reply(r, "200") ELSE Goto(r, "import_link")
    /\ UNCHANGED <<storeVars, call, orm, now, clock>>

Before(p, q) == p[1] < q[1] \/ (p[1] = q[1] /\ p[2] <= q[2])

(* One row of the flush of stage 5; nothing is invalidated in the cache.   *)
InsertLink(r) ==
    /\ pc[r] = "import_link"
    /\ \E p \in imp[r].edges :
          LET rel == EdgeAt(r, p) IN
          /\ \A q \in imp[r].edges : Before(p, q)
          /\ \/ /\ \E x \in RelIds : InsertRel(r, x, rel)
                /\ imp' = [imp EXCEPT ![r].edges = @ \ {p}]
                /\ IF imp[r].edges = {p} THEN Reply(r, "200") ELSE Goto(r, "import_link")
             \/ /\ RelInsertHolders(r, rel) = {}
                /\ EdgeExists(r, rel) \/ ~ EndpointsExist(r, rel)
                /\ Raise(r, "IntegrityError")
                /\ UNCHANGED imp
    /\ UNCHANGED <<call, orm, now, clock>>

-----------------------------------------------------------------------------
(* Deadlock.  Only an import's transaction waits in one statement while it *)
(* holds locks from another, so every cycle of waiting transactions is of  *)
(* imports, save those of cascades alone (AbortCascade).                   *)

ItemBlockers(r) ==
    UNION {LET found == Existing(r, KeyOf(Items(r)[i])) IN
           IF found = {} THEN KeyHolders(r, Created(call[r].tenant, Items(r)[i], now[r]))
                         ELSE UNION {RowHolders(r, a) : a \in found}
           : i \in {j \in Valid(r) : IsNext(j, imp[r].left)}}

LinkBlockers(r) ==
    UNION {RelInsertHolders(r, EdgeAt(r, p))
           : p \in {q \in imp[r].edges : \A o \in imp[r].edges : Before(q, o)}}

Blockers(r) ==
    CASE pc[r] = "import_item" -> ItemBlockers(r)
      [] pc[r] = "import_link" -> LinkBlockers(r)
      [] OTHER -> {}

(* r waits, directly or through others, for itself.                        *)
Deadlocked(r) ==
    \E S \in SUBSET Requests :
        /\ r \in S
        /\ \A s \in S : Blockers(s) \cap S # {} /\ \E t \in S : s \in Blockers(t)

(* PostgreSQL's deadlock detector makes the statement of one member raise. *)
DeadlockAbort(r) ==
    /\ Deadlocked(r)
    /\ Raise(r, "DeadlockDetected")
    /\ UNCHANGED <<call, orm, now, clock, imp>>

ImportStep(r) ==
    LookupItems(r) \/ MergeItem(r) \/ CreateItem(r) \/ MapEdges(r) \/ InsertLink(r)

ImportTypeOK == imp \in [Requests -> Locals]
=============================================================================
