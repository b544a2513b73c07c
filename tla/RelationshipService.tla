------------------------ MODULE RelationshipService ------------------------
(***************************************************************************)
(* The operations on one relationship (app/services/                       *)
(* relationship_service.py): create, with three lookups before the INSERT  *)
(* and two concurrent invalidations after it, before the commit; delete,   *)
(* which invalidates nothing.                                              *)
(***************************************************************************)
EXTENDS GraphCache

VARIABLE inval   \* inval[r]: the endpoints whose invalidation is under way

RelInit == inval = [r \in Requests |-> {}]

(* Mutant: only the graph of the source is invalidated.                    *)
SourceOnly(rel) == {rel.src}

Endpoints(rel) == {rel.src, rel.dst}

NewRel(c) == [tenant |-> c.tenant, src |-> c.src, dst |-> c.dst, type |-> c.type]

-----------------------------------------------------------------------------
(* One lookup of the validation: on to `next`, or 404.                     *)
Verify(r, asset, next) ==
    /\ \/ HasAsset(r, call[r].tenant, asset) /\ Goto(r, next) /\ UNCHANGED storeVars
       \/ ~ HasAsset(r, call[r].tenant, asset) /\ Raise(r, "404")
    /\ UNCHANGED <<call, orm, now, clock, cache, inval>>

VerifySource(r) ==
    pc[r] = "create_relationship" /\ Verify(r, call[r].src, "rel_target")

VerifyTarget(r) ==
    pc[r] = "rel_target" /\ Verify(r, call[r].dst, "rel_lookup")

LookupEdge(r) ==
    /\ pc[r] = "rel_lookup"
    /\ \/ EdgeExists(r, NewRel(call[r])) /\ Raise(r, "409")
       \/ ~ EdgeExists(r, NewRel(call[r])) /\ Goto(r, "insert_rel") /\ UNCHANGED storeVars
    /\ UNCHANGED <<call, orm, now, clock, cache, inval>>

(* The INSERT fails on a duplicate edge and on an endpoint that is gone.   *)
RelInsertFails(r, rel) ==
    /\ RelInsertHolders(r, rel) = {}
    /\ EdgeExists(r, rel) \/ ~ EndpointsExist(r, rel)
    /\ Raise(r, "IntegrityError")

InsertNewRel(r) ==
    LET rel == NewRel(call[r]) IN
    /\ pc[r] = "insert_rel"
    /\ \/ /\ \E x \in RelIds : InsertRel(r, x, rel)
          /\ inval' = [inval EXCEPT ![r] = Endpoints(rel)]
          /\ Goto(r, "invalidate")
       \/ /\ RelInsertFails(r, rel)
          /\ UNCHANGED inval
    /\ UNCHANGED <<call, orm, now, clock, cache>>

(* asyncio.gather: both invalidations are under way, in either order; the  *)
(* handler returns after the second.                                       *)
InvalidateGraphs(r) ==
    /\ pc[r] = "invalidate"
    /\ \E a \in inval[r] :
          /\ Invalidate(call[r].tenant, a)
          /\ inval' = [inval EXCEPT ![r] = @ \ {a}]
          /\ IF inval[r] = {a} THEN Reply(r, "201") ELSE Goto(r, "invalidate")
    /\ UNCHANGED <<storeVars, call, orm, now, clock>>

RemoveRel(r) ==
    LET c == call[r] IN
    /\ pc[r] = "delete_relationship"
    /\ \/ HasRel(r, c.tenant, c.rel) /\ DeleteRel(r, c.rel) /\ Reply(r, "204")
       \/ ~ HasRel(r, c.tenant, c.rel) /\ Raise(r, "404")
    /\ UNCHANGED <<call, orm, now, clock, cache, inval>>

RelStep(r) ==
    VerifySource(r) \/ VerifyTarget(r) \/ LookupEdge(r) \/ InsertNewRel(r)
    \/ InvalidateGraphs(r) \/ RemoveRel(r)

RelTypeOK == inval \in [Requests -> SUBSET AssetIds]
=============================================================================
