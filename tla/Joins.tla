-------------------------------- MODULE Joins --------------------------------
(****************************************************************************)
(* What the library concludes, at compile time, about a query over joined   *)
(* tables, and what SQLite returns for it (external).                       *)
(*                                                                          *)
(* Table 1 is the one selected from, and join k adds table k + 1: its type, *)
(* the table `left` it is joined to, and the pairs of rows its ON condition *)
(* relates (JoinOn takes any two fields).                                   *)
(****************************************************************************)
EXTENDS Naturals, Sequences

CONSTANTS
    Rows,    \* a table's rows
    NULL     \* the outer join found no row of the table

JoinTypes == {"INNER", "LEFT_OUTER", "RIGHT_OUTER", "FULL_OUTER", "CROSS"}

LeftIsOptional(type) == type \in {"FULL_OUTER", "RIGHT_OUTER"}
RightIsOptional(type) == type \in {"FULL_OUTER", "LEFT_OUTER"}

Positions(q) == 1..(Len(q) + 1)

\* the queries over n tables whose joins have one of the types
Queries(n, types) ==
    {q \in [1..(n - 1) -> [type : types, left : 1..n, on : SUBSET (Rows \X Rows)]] :
        \A k \in DOMAIN q : q[k].left <= k}

-----------------------------------------------------------------------------
(****************************************************************************)
(* make_joins, selectables_from_joins, selection_is_optional: a query is    *)
(* nested when a table is joined to another one than the first.             *)
(****************************************************************************)
IsNested(q) == \E k \in DOMAIN q : q[k].left > 1

Selectables(q) ==
    {[table |-> q[k].left, optional |-> LeftIsOptional(q[k].type)] : k \in DOMAIN q}
    \cup {[table |-> k + 1, optional |-> RightIsOptional(q[k].type)] : k \in DOMAIN q}

\* slip: nested queries are treated like the others
NeverAllOptional(q) == FALSE

ResultsAreOptional(q) == IsNested(q) /\ \E s \in Selectables(q) : s.optional

IsOptional(q, t) ==
    \/ ResultsAreOptional(q)
    \/ \E s \in Selectables(q) : s.table = t /\ s.optional

-----------------------------------------------------------------------------
(****************************************************************************)
(* The rows of the query, one entry per table: every pair the ON condition  *)
(* relates, and the rows that found no partner on the side an outer join    *)
(* preserves.  An ON condition is never true of a NULL.                     *)
(****************************************************************************)
Matches(l, r, join) == l[join.left] # NULL /\ <<l[join.left], r>> \in join.on

JoinedTo(lefts, join, width) ==
    LET matched == {m \in lefts \X Rows : Matches(m[1], m[2], join)}
        lonelyLefts == {l \in lefts : \A r \in Rows : ~Matches(l, r, join)}
        lonelyRights == {r \in Rows : \A l \in lefts : ~Matches(l, r, join)}
    IN  {Append(m[1], m[2]) : m \in matched}
        \cup (IF RightIsOptional(join.type)
              THEN {Append(l, NULL) : l \in lonelyLefts} ELSE {})
        \cup (IF LeftIsOptional(join.type)
              THEN {Append([i \in 1..width |-> NULL], r) : r \in lonelyRights} ELSE {})

JoinedRows(q) ==
    LET after[k \in 0..Len(q)] ==
            IF k = 0 THEN {<<r>> : r \in Rows} ELSE JoinedTo(after[k - 1], q[k], k)
    IN  after[Len(q)]
=============================================================================
