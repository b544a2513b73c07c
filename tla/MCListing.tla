----------------------------- MODULE MCListing -----------------------------
(***************************************************************************)
(* Small instances of Listing.                                             *)
(***************************************************************************)
EXTENDS MCApi, Listing

(* Two assets that were seen one after the other.                          *)
SeenApart ==
    Tbl(AssetIds, a1 :> Row("t1", "k1", "active")
                  @@ a2 :> [Row("t1", "k2", "active") EXCEPT !.last_seen = 1])

List(status) ==
    [table |-> "assets", tenant |-> "t1", keys |-> Keys, status |-> status, tag |-> Nil]
Listed == {List(Nil), List("active")}

ListedAnyway == {List(Nil), [table |-> "relationships", tenant |-> "t1"]}
Pair == {Import(<<Asset0("i1", "k1", NoLinks), Asset0("i2", "k2", NoLinks)>>)}
=============================================================================
