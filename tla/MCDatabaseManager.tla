------------------------- MODULE MCDatabaseManager -------------------------
(***************************************************************************)
(* Four bootstraps: two of one id, two of one database that take it by     *)
(* different policies, and one that wants the default's database.          *)
(***************************************************************************)
EXTENDS DatabaseManager

MCTarget ==
    [b1 |-> [id |-> "x", db |-> "px"],
     b2 |-> [id |-> "x", db |-> "px"],
     b3 |-> [id |-> "y", db |-> "px"],
     b4 |-> [id |-> "y", db |-> "pd"]]

MCPolicy == [b1 |-> "fail", b2 |-> "fail", b3 |-> "use_existing", b4 |-> "use_existing"]

MCScripts == [b1 |-> 2, b2 |-> 1, b3 |-> 2, b4 |-> 1]
=============================================================================
