----------------------------- MODULE InsertQuery -----------------------------
(****************************************************************************)
(* Table::insert_query and the bind loops that fill it.                     *)
(*                                                                          *)
(* A table is its number of columns n, the position of its auto increment   *)
(* column, 0 when it has none (is_auto_inc_column: an INTEGER primary key,  *)
(* of which SQL allows one), and which clauses among its UNIQUE and NOT     *)
(* NULL constraints let an INSERT go on without some of its rows: IGNORE    *)
(* skips a row, REPLACE deletes the rows that stood in its way.  The text   *)
(* of the query decides which column is NULL and which are ?, the loops in  *)
(* insert_record_impl and insert_many_records decide which members are      *)
(* bound, and both have to agree on the columns.                            *)
(****************************************************************************)
EXTENDS Naturals

Clauses == {"ignore", "replace"}

Tables(maxColumns) ==
    {t \in [n : 1..maxColumns, auto : 0..maxColumns, onConflict : SUBSET Clauses] :
        t.auto <= t.n}

(****************************************************************************)
(* `bool auto_inc_idx` starts as -1, which is true, that is 1, and keeps    *)
(* any index above 0 as 1.  Positions count from 1 here.                    *)
(****************************************************************************)
NullColumn(t) == IF t.auto = 1 THEN 1 ELSE 2

\* how many ? a row has in the query, and how many members the loops bind
Placeholders(t) == IF NullColumn(t) <= t.n THEN t.n - 1 ELSE t.n
Members(t) == IF t.auto = 0 THEN t.n ELSE t.n - 1

\* the column of the j-th bound member, and the number of the ? of column c
MemberColumn(t, j) == IF t.auto = 0 \/ j < t.auto THEN j ELSE j + 1
PlaceholderOf(t, c) == IF c < NullColumn(t) THEN c ELSE c - 1
=============================================================================
