------------------------------- MODULE MCApi -------------------------------
(***************************************************************************)
(* Small instances of Api: the tables an instance starts with, the calls   *)
(* its clients may make, and the symmetries of its identifiers.            *)
(***************************************************************************)
EXTENDS Api, TLC

CONSTANTS a1, a2, a3, a4, a5,   \* members of AssetIds
          x1, x2, x3, x4, x5    \* members of RelIds

NoMeta == [k \in MetaKeys |-> Nil]
Meta(v) == [k \in MetaKeys |-> v]

Row(t, k, st) ==
    [tenant |-> t, key |-> k, status |-> st, source |-> "manual", tags |-> {},
     meta |-> NoMeta, first_seen |-> 0, last_seen |-> 0]

Tbl(ids, row) == [i \in ids |-> IF i \in DOMAIN row THEN row[i] ELSE Nil]

NoAssets == Tbl(AssetIds, << >>)
NoRels   == Tbl(RelIds, << >>)

(* One asset of one tenant.                                                *)
OneAsset == Tbl(AssetIds, a1 :> Row("t1", "k1", "active"))
TwoAssets == Tbl(AssetIds, a1 :> Row("t1", "k1", "active") @@ a2 :> Row("t1", "k2", "stale"))
(* Two tenants that know one key.                                          *)
TwoTenants == Tbl(AssetIds,
    a1 :> Row("t1", "k1", "active") @@ a2 :> Row("t1", "k2", "active")
    @@ a3 :> Row("t2", "k1", "active"))

EdgeRow(s, d, type) == [tenant |-> "t1", src |-> s, dst |-> d, type |-> type]
OneEdge == Tbl(RelIds, x1 :> EdgeRow(a1, a2, "RESOLVES_TO"))
UsesEdge == Tbl(RelIds, x1 :> EdgeRow(a1, a2, "USES"))
BothWays == Tbl(RelIds, x1 :> EdgeRow(a1, a2, "USES") @@ x2 :> EdgeRow(a2, a1, "USES"))

-----------------------------------------------------------------------------
(* Calls.                                                                  *)

Create(k) ==
    [op |-> "create_asset", tenant |-> "t1", key |-> k, status |-> "active",
     source |-> "manual", tags |-> {}, meta |-> NoMeta]
Put(a, tags, meta, src) ==
    [op |-> "update_asset", tenant |-> "t1", asset |-> a, tags |-> tags,
     meta |-> meta, source |-> src]
Patch(a, st) ==
    [op |-> "update_status", tenant |-> "t1", asset |-> a, status |-> st]
Delete(a)   == [op |-> "delete_asset", tenant |-> "t1", asset |-> a]
Ask(t, a)   == [op |-> "get_graph", tenant |-> t, asset |-> a]
Relate(t, a, b) ==
    [op |-> "create_relationship", tenant |-> t, src |-> a, dst |-> b,
     type |-> "RESOLVES_TO"]
Unrelate(x) == [op |-> "delete_relationship", tenant |-> "t1", rel |-> x]

Import(items) == [op |-> "import_assets", tenant |-> "t1", items |-> items]
NoLinks == [l \in Links |-> Nil]
To(t)   == [NoLinks EXCEPT ![2] = t]     \* resolves_to
Asset0(id, k, link) ==
    [form |-> "valid", id |-> id, key |-> k, status |-> "active",
     source |-> "import", tags |-> {}, meta |-> NoMeta, link |-> link]
Tagged(id, k, tags, meta) ==
    [Asset0(id, k, NoLinks) EXCEPT !.tags = tags, !.meta = meta]
Bad(form) == [Asset0("i1", "k1", NoLinks) EXCEPT !.form = form]

(* The keys are host names; "K1" is another spelling of "k1".              *)
Spelled(k) ==
    CASE k = "k1" -> <<"a">>
      [] k = "K1" -> <<" ", "A", ".", " ">>
      [] k = "k2" -> <<"a", ".", "a">>
      [] k = "k3" -> <<"a", "a">>
N == INSTANCE Normalization WITH AddressOf <- << >>, TextOf <- << >>
NormalForm ==
    CHOOSE f \in [Keys -> Keys] :
        \A k \in Keys : Spelled(f[k]) = N!Normalize("domain", Spelled(k))
Normalized == NormalForm

-----------------------------------------------------------------------------
(* Everything that writes rows, with deletions under way; two tenants ask  *)
(* for the graph of one id.                                                *)
IntegrityCalls ==
    {Create("k3"), Delete(a1), Delete(a2), Relate("t1", a1, a2), Relate("t1", a1, a3),
     Ask("t1", a1), Ask("t2", a1),
     Import(<<Asset0("i1", "k3", To("i2")), Asset0("i2", "k1", NoLinks)>>)}

(* Writers of one asset.                                                   *)
MergeCalls ==
    {Put(a1, {"g1"}, Nil, Nil), Put(a1, Nil, Meta("v1"), "manual"),
     Patch(a1, "stale"), Import(<<Tagged("i1", "k1", {"g2"}, Meta("v2"))>>),
     Delete(a1), Create("k1")}

(* One request at a time: every operation, on assets that come and go.     *)
(* The link of the import leads to no item of its batch.                   *)
AloneCalls ==
    {Create("k1"), Put(a1, {"g1"}, Meta("v1"), Nil), Patch(a1, "archived"),
     Delete(a1), Relate("t1", a1, a2), Unrelate(x1), Ask("t1", a2),
     Import(<<Bad("invalid"), Tagged("i1", "K1", {"g2"}, NoMeta),
              Tagged("i2", "k1", {"g1"}, Meta("v2")), Asset0("i2", "k2", To("i3"))>>)}

(* Imports that overlap: one batch sent twice, one that shares its keys in *)
(* the opposite order, and one whose error report fails.  The last item of *)
(* the batch merges into the first and links to it: an edge to itself.     *)
Batch == <<Tagged("i1", "K1", {"g1"}, Meta("v1")),
           [Tagged("i2", "k2", {}, NoMeta) EXCEPT !.link = To("i1")],
           [Tagged("i1", "k1", {"g2"}, Meta("v2")) EXCEPT
               !.link = [To("i2") EXCEPT ![5] = "i1"]]>>
ImportCalls ==
    {Import(Batch), Import(<<Asset0("i1", "k2", To("i2")), Asset0("i2", "k1", NoLinks)>>),
     Import(<<Bad("unreportable"), Asset0("i2", "k2", NoLinks)>>)}

(* Imports that lock the rows of two assets in opposite orders, beside     *)
(* requests that change those assets, and a cached graph.                  *)
CrossCalls ==
    {Import(<<Asset0("i1", "k1", To("i2")), Asset0("i2", "k2", NoLinks)>>),
     Import(<<Asset0("i1", "k2", NoLinks), Asset0("i2", "k1", NoLinks)>>),
     Delete(a2), Relate("t1", a1, a2), Unrelate(x1), Ask("t1", a1)}

-----------------------------------------------------------------------------
(* Calls that meet one hazard each.                                        *)
TwoPuts      == {Put(a1, {"g1"}, Nil, Nil), Put(a1, {"g2"}, Nil, Nil)}
SameCreate   == {Create("k1")}
AskAndRelate == {Ask("t1", a1), Relate("t1", a1, a2)}
LinkTwice    ==
    {Import(<<Asset0("i1", "k1", To("i3")), Asset0("i2", "K1", To("i3")),
              Asset0("i3", "k2", NoLinks)>>)}

SymIds == Permutations(Requests)
(* Of tables that start empty, the identifiers of the rows as well.        *)
SymRows == SymIds \cup Permutations(AssetIds) \cup Permutations(RelIds)
=============================================================================
