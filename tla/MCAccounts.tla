----------------------------- MODULE MCAccounts -----------------------------
(***************************************************************************)
(* A small instance of Accounts: two clients want one name, one of them    *)
(* types it with a blank.                                                  *)
(***************************************************************************)
EXTENDS Accounts, TLC

Strip == [n \in Names |-> IF n = "bob " THEN "bob" ELSE n]

Client(op, name, pw) == [op |-> op, username |-> name, password |-> pw]
Clients ==
    {Client("register", "bob", "p1"), Client("register", "bob ", "p2"),
     Client("login", "bob", "p1"), Client("login", "bob", "p2")}
=============================================================================
