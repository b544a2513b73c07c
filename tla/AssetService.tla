---------------------------- MODULE AssetService ----------------------------
(***************************************************************************)
(* The operations on one asset (app/services/asset_service.py): create,    *)
(* update, patch the status, delete.  Each is the handler of a route of    *)
(* app/api/v1/assets.py.                                                   *)
(***************************************************************************)
EXTENDS Sessions

-----------------------------------------------------------------------------
(* POST /assets: look the key up, then insert.                             *)

(* Mutants: last_seen is left out; first_seen is filled in by the server.  *)
UnseenAsset(c, t) ==
    [tenant |-> c.tenant, key |-> c.key, status |-> c.status,
     source |-> c.source, tags |-> c.tags, meta |-> c.meta,
     first_seen |-> t, last_seen |-> Nil]
ServerStamped(c, t) ==
    [tenant |-> c.tenant, key |-> c.key, status |-> c.status,
     source |-> c.source, tags |-> c.tags, meta |-> c.meta,
     first_seen |-> clock, last_seen |-> t]

NewAsset(c, t) ==
    [tenant |-> c.tenant, key |-> c.key, status |-> c.status,
     source |-> c.source, tags |-> c.tags, meta |-> c.meta,
     first_seen |-> t, last_seen |-> t]

CreateAsset(r) ==
    /\ pc[r] = "create_asset"
    /\ \/ /\ AssetsByKey(r, call[r].tenant, {call[r].key}) # {}
          /\ Raise(r, "409")
          /\ UNCHANGED now
       \/ /\ AssetsByKey(r, call[r].tenant, {call[r].key}) = {}
          /\ now' = [now EXCEPT ![r] = clock]
          /\ Goto(r, "insert_asset")
          /\ UNCHANGED storeVars
    /\ UNCHANGED <<call, orm, clock>>

InsertNewAsset(r) ==
    LET row == NewAsset(call[r], now[r]) IN
    /\ pc[r] = "insert_asset"
    /\ \/ \E a \in AssetIds : InsertAsset(r, a, row) /\ Reply(r, "201")
       \/ /\ KeyHolders(r, row) = {} /\ KeyTaken(r, row)
          /\ Raise(r, "IntegrityError")
    /\ UNCHANGED <<call, orm, now, clock>>

-----------------------------------------------------------------------------
(* PUT /assets/{id}: read the row, merge in memory, flush.                 *)

GetAsset(r) ==
    /\ pc[r] = "update_asset"
    /\ \/ /\ ~ HasAsset(r, call[r].tenant, call[r].asset)
          /\ Raise(r, "404")
          /\ UNCHANGED <<orm, now>>
       \/ /\ HasAsset(r, call[r].tenant, call[r].asset)
          /\ orm' = [orm EXCEPT ![r][call[r].asset] = Asset(r, call[r].asset)]
          /\ now' = [now EXCEPT ![r] = clock]
          /\ Goto(r, "flush_asset")
          /\ UNCHANGED storeVars
    /\ UNCHANGED <<call, clock>>

(* Mutant: the tags of the payload replace those of the asset.             *)
OverwrittenAsset(c, row, t) ==
    [row EXCEPT !.tags = IF c.tags = Nil THEN @ ELSE c.tags, !.last_seen = t]

UpdatedAsset(c, row, t) ==
    [row EXCEPT
        !.tags = IF c.tags = Nil THEN @ ELSE @ \cup c.tags,
        !.meta = IF c.meta = Nil THEN @ ELSE MergeMeta(@, c.meta),
        !.source = IF c.source = Nil THEN @ ELSE c.source,
        !.last_seen = t]

FlushUpdate(r) ==
    LET a == call[r].asset IN
    /\ pc[r] = "flush_asset"
    /\ \/ /\ FlushAsset(r, a, UpdatedAsset(call[r], orm[r][a], now[r]))
          /\ Reply(r, "200")
       \/ FlushFails(r, a)
    /\ UNCHANGED <<call, orm, now, clock>>

-----------------------------------------------------------------------------
(* PATCH /assets/{id}/status: one UPDATE ... RETURNING.                    *)

UpdateStatus(r) ==
    LET a == call[r].asset IN
    /\ pc[r] = "update_status"
    /\ \/ /\ HasAsset(r, call[r].tenant, a)
          /\ UpdateAsset(r, a, [Asset(r, a) EXCEPT !.status = call[r].status])
          /\ Reply(r, "200")
       \/ /\ ~ HasAsset(r, call[r].tenant, a)
          /\ Raise(r, "404")
    /\ UNCHANGED <<call, orm, now, clock>>

-----------------------------------------------------------------------------
(* DELETE /assets/{id}: one DELETE.  The cached graphs stay.               *)

RemoveAsset(r) ==
    LET a == call[r].asset IN
    /\ pc[r] = "delete_asset"
    /\ \/ /\ HasAsset(r, call[r].tenant, a)
          /\ DeleteAsset(r, a)
          /\ Reply(r, "204")
       \/ /\ ~ HasAsset(r, call[r].tenant, a)
          /\ Raise(r, "404")
    /\ UNCHANGED <<call, orm, now, clock>>

(* DELETEs of assets that relationships join in a circle: each cascade     *)
(* removes one of these and waits for another; one of them is aborted.     *)
AbortCascade(r) ==
    /\ pc[r] = "delete_asset"
    /\ HasAsset(r, call[r].tenant, call[r].asset)
    /\ \E S \in SUBSET Others(r) :
          /\ S # {}
          /\ \A s \in S : pc[s] = "delete_asset" /\ call[s].tenant = call[r].tenant
          /\ CascadesCross(r, {call[s].asset : s \in S \cup {r}})
    /\ Raise(r, "DeadlockDetected")
    /\ UNCHANGED <<call, orm, now, clock>>

AssetStep(r) ==
    CreateAsset(r) \/ InsertNewAsset(r) \/ GetAsset(r) \/ FlushUpdate(r)
    \/ UpdateStatus(r) \/ RemoveAsset(r) \/ AbortCascade(r)
=============================================================================
