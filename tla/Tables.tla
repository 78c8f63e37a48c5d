-------------------------------- MODULE Tables --------------------------------
(***************************************************************************)
(* A PostgreSQL table as the services see it through drizzle: a function   *)
(* from the primary keys of the rows that exist to those rows.  DOMAIN t   *)
(* is the set of keys of the table t.                                      *)
(***************************************************************************)

\* t is a table with keys in K and rows in R.
IsTable(t, K, R) == DOMAIN t \subseteq K /\ t \in [DOMAIN t -> R]

EmptyTable == [k \in {} |-> k]

\* INSERT of a row under key k, or UPDATE of the row that k already has.
Put(t, k, row) == [x \in DOMAIN t \cup {k} |-> IF x = k THEN row ELSE t[x]]

\* DELETE of the rows whose key is in D.
Drop(t, D) == [x \in DOMAIN t \ D |-> t[x]]

===============================================================================
