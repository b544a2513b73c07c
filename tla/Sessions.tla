------------------------------ MODULE Sessions ------------------------------
(***************************************************************************)
(* The life of a request around its handler (app/core/database.py,         *)
(* get_db): a session is opened when the request arrives; when the handler *)
(* returns its transaction is committed; when the handler raises it is     *)
(* rolled back and the exception becomes the response.                     *)
(*                                                                         *)
(* The commit is the code after the `yield` of a dependency.  FastAPI 0.106*)
(* to 0.117 runs it before the response is sent, 0.118 and later after it; *)
(* pyproject.toml allows both, hence AnswerFirst.                          *)
(*                                                                         *)
(* A handler runs from one `await` on the database or on Redis to the next *)
(* as one step; pc[r] names the await it stands at.                        *)
(***************************************************************************)
EXTENDS Store

CONSTANTS
    MaxInFlight,  \* bound on the clients waiting for an answer at the same time
    AnswerFirst,  \* is the response sent before the commit?
    Faults        \* the failures of the instance: "db", "redis"

VARIABLES
    call,   \* call[r]: the call request r carries
    pc,     \* pc[r]: where its handler stands
    resp,   \* resp[r]: the response, or the exception that becomes a 500
    orm,    \* orm[r]: the session's identity map, the rows as loaded
    now,    \* now[r]: the handler's datetime.now()
    clock   \* the wall clock

sessionVars == <<call, pc, resp, orm, now, clock>>

Labels ==
    {"idle", "commit", "done",
     "create_asset", "insert_asset", "update_asset", "flush_asset",
     "update_status", "delete_asset",
     "get_graph", "graph_root", "graph_rels", "graph_nodes", "graph_cache",
     "create_relationship", "rel_target", "rel_lookup", "insert_rel",
     "invalidate", "delete_relationship",
     "import_assets", "import_item", "import_edges", "import_link"}

Declared == {"200", "201", "204", "404", "409"}
Errors   == {"IntegrityError", "StaleDataError", "DeadlockDetected",
             "OperationalError", "ValidationError"}
Codes    == Declared \cup Errors

ASSUME SessionAssumption ==
    /\ Faults \subseteq {"db", "redis"}
    /\ AnswerFirst \in BOOLEAN
    /\ MaxInFlight \in Nat
    /\ Nil \notin Codes
    /\ \A c \in Calls : c.op \in Labels /\ c.tenant \in Tenants

NotLoaded == [a \in AssetIds |-> Nil]

SessionInit ==
    /\ call = [r \in Requests |-> Nil]
    /\ pc = [r \in Requests |-> "idle"]
    /\ resp = [r \in Requests |-> Nil]
    /\ orm = [r \in Requests |-> NotLoaded]
    /\ now = [r \in Requests |-> 0]
    /\ clock \in {t \in Times : \A a \in AssetIds :
                    IsRow(SeedAssets[a]) => SeedAssets[a].last_seen <= t}

InFlight == {r \in Requests : pc[r] \notin {"idle", "done"}}

(* The response has been sent.                                             *)
Answered(r) == pc[r] = "done" \/ (AnswerFirst /\ pc[r] = "commit")

Waiting == {r \in InFlight : ~ Answered(r)}

-----------------------------------------------------------------------------
(* How a step of a handler ends.                                           *)

Goto(r, label) ==
    /\ pc' = [pc EXCEPT ![r] = label]
    /\ UNCHANGED resp

(* The handler returns: the session is committed next.                     *)
Reply(r, code) ==
    /\ pc' = [pc EXCEPT ![r] = "commit"]
    /\ resp' = [resp EXCEPT ![r] = code]

(* Mutants: the exception is not followed by a rollback, or by a commit.   *)
RaiseWithoutRollback(r, code) ==
    /\ pc' = [pc EXCEPT ![r] = "done"]
    /\ resp' = [resp EXCEPT ![r] = code]
    /\ UNCHANGED storeVars
RaiseAndCommit(r, code) ==
    /\ pc' = [pc EXCEPT ![r] = "done"]
    /\ resp' = [resp EXCEPT ![r] = code]
    /\ CommitWrites(r)

(* The handler raises: rollback, and the exception goes to the client.     *)
Raise(r, code) ==
    /\ pc' = [pc EXCEPT ![r] = "done"]
    /\ resp' = [resp EXCEPT ![r] = code]
    /\ RollbackWrites(r)

-----------------------------------------------------------------------------
(* The unit of work: an attribute that was assigned is dirty only when its *)
(* value differs from the one loaded, and UPDATE writes dirty columns only.*)

Dirty(new, loaded, current) == IF new # loaded THEN new ELSE current

DirtyColumns(new, loaded, current) ==
    [current EXCEPT
        !.status = Dirty(new.status, loaded.status, current.status),
        !.source = Dirty(new.source, loaded.source, current.source),
        !.tags   = Dirty(new.tags, loaded.tags, current.tags),
        !.meta   = Dirty(new.meta, loaded.meta, current.meta),
        !.last_seen = new.last_seen]

(* Mutants: every column of the object is written, dirty or not; an object *)
(* whose data did not change is not written at all.                        *)
FlushAllColumns(r, a, new) == UpdateAsset(r, a, new)
FlushIfChanged(r, a, new) ==
    IF [new EXCEPT !.last_seen = 0] = [orm[r][a] EXCEPT !.last_seen = 0]
    THEN a \in AssetRows(r) /\ UNCHANGED storeVars
    ELSE UpdateAsset(r, a, DirtyColumns(new, orm[r][a], Asset(r, a)))

(* flush() of one changed object: the row may have changed since it was    *)
(* loaded; when it is gone the UPDATE matches no row and the flush raises. *)
FlushAsset(r, a, new) ==
    UpdateAsset(r, a, DirtyColumns(new, orm[r][a], Asset(r, a)))

(* Mutant: nobody looks at how many rows the UPDATE matched.               *)
FlushMissesSilently(r, a) ==
    a \notin AssetRows(r) /\ Reply(r, "200") /\ UNCHANGED storeVars

FlushFails(r, a) == a \notin AssetRows(r) /\ Raise(r, "StaleDataError")

(* dict.update: incoming keys override, the others stay.                   *)
MergeMeta(old, new) ==
    [k \in MetaKeys |-> IF new[k] # Nil THEN new[k] ELSE old[k]]

-----------------------------------------------------------------------------
(* Steps of the session itself.                                            *)

Begin(r) ==
    /\ pc[r] = "idle"
    /\ Cardinality(Waiting) < MaxInFlight
    /\ \E c \in Calls :
          /\ call' = [call EXCEPT ![r] = c]
          /\ pc' = [pc EXCEPT ![r] = c.op]
    /\ UNCHANGED <<storeVars, resp, orm, now, clock>>

Commit(r) ==
    /\ pc[r] = "commit"
    /\ CommitWrites(r)
    /\ pc' = [pc EXCEPT ![r] = "done"]
    /\ UNCHANGED <<call, resp, orm, now, clock>>

(* The database connection is lost while the request is served: whatever   *)
(* await it stands at raises, and the server rolls the transaction back.   *)
(* A response that was sent before cannot be taken back.                   *)
Fail(r) ==
    /\ "db" \in Faults
    /\ r \in InFlight
    /\ Raise(r, IF Answered(r) THEN resp[r] ELSE "OperationalError")
    /\ UNCHANGED <<call, orm, now, clock>>

Tick ==
    /\ clock < MaxTime
    /\ clock' = clock + 1
    /\ UNCHANGED <<storeVars, call, pc, resp, orm, now>>

SessionTypeOK ==
    /\ call \in [Requests -> Calls \cup {Nil}]
    /\ pc \in [Requests -> Labels]
    /\ resp \in [Requests -> Codes \cup {Nil}]
    /\ orm \in [Requests -> [AssetIds -> AssetRow \cup {Nil}]]
    /\ now \in [Requests -> Times]
    /\ clock \in Times
=============================================================================
