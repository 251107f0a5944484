------------------------------ MODULE Contents ------------------------------
(****************************************************************************)
(* The rows of the mapped tables, and what SQLite does to them (external).  *)
(* A table is cut down to what the library's promises tell apart: its rowid *)
(* primary key and one UNIQUE column declared with a conflict clause of     *)
(* constraints.hpp.                                                         *)
(****************************************************************************)
EXTENDS Naturals

CONSTANTS
    Tables,
    Keys,        \* values of the UNIQUE column
    NoRow,       \* no row has this id
    MaxId,       \* bound: largest rowid
    OnConflict   \* conflict_t of each table's UNIQUE column

Policies == {"abort", "rollback", "fail", "ignore", "replace"}

ASSUME ContentsAssumption ==
    /\ MaxId \in Nat \ {0}
    /\ NoRow \notin Keys
    /\ OnConflict \in [Tables -> Policies]

Ids == 1..MaxId

Contents == [Tables -> [Ids -> Keys \cup {NoRow}]]

NoRows == [t \in Tables |-> [i \in Ids |-> NoRow]]

RowIds(c, t) == {i \in Ids : c[t][i] # NoRow}

(****************************************************************************)
(* The id SQLite picks when NULL is inserted into an INTEGER PRIMARY KEY    *)
(* without AUTOINCREMENT: one more than the largest in the table.           *)
(****************************************************************************)
IsNextId(c, t, n) ==
    /\ \A i \in RowIds(c, t) : i < n
    /\ n = 1 \/ (n - 1) \in RowIds(c, t)

\* some other row of the table holds the value of the UNIQUE column
Clashes(c, t, i, k) == \E j \in Ids \ {i} : c[t][j] = k

\* the row is written, and REPLACE deletes the rows that stood in its way
WithRow(c, t, i, k) ==
    [c EXCEPT ![t] = [j \in Ids |->
        IF j = i THEN k ELSE IF c[t][j] = k THEN NoRow ELSE c[t][j]]]

WithoutRow(c, t, i) == [c EXCEPT ![t][i] = NoRow]

WithoutRows(c, t) == [c EXCEPT ![t] = [i \in Ids |-> NoRow]]

(****************************************************************************)
(* The three fates of a row written into a table.                           *)
(****************************************************************************)
IsWritten(c, t, i, k) == ~Clashes(c, t, i, k) \/ OnConflict[t] = "replace"
IsIgnored(c, t, i, k) == Clashes(c, t, i, k) /\ OnConflict[t] = "ignore"
IsRefused(c, t, i, k) ==
    Clashes(c, t, i, k) /\ OnConflict[t] \in {"abort", "rollback", "fail"}
=============================================================================
