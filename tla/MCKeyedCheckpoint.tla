-------------------------- MODULE MCKeyedCheckpoint --------------------------
(***************************************************************************)
(* KeyedCheckpoint on small instances: two clients of the id "orders" and  *)
(* one of the id "Orders".                                                 *)
(***************************************************************************)
EXTENDS KeyedCheckpoint

CONSTANTS a, b, c

TwoIds == {"orders", "Orders"}

Assigned == [d \in Clients |-> IF d = c THEN "Orders" ELSE "orders"]

\* Ids compared byte by byte: PostgreSQL, SQLite, object stores.
Exact == [id \in Ids |-> id]

\* Ids compared by a collation that ignores case: the default of a MySQL
\* database, for a column that names none.
IgnoringCase == [id \in Ids |-> "orders"]
===============================================================================
