--------------------------- MODULE MCColumnValues ---------------------------
(* Programs of two tables: the first has every kind of member with every    *)
(* clause, or the second refers to it with every foreign key action, or     *)
(* both are mapped to one name.                                             *)
EXTENDS ColumnValues

IntegerTypes ==
    [kind : {"integer"}, bytes : {1, 2, 4, 8}, signed : BOOLEAN, optional : BOOLEAN]
    \cup [kind : {"bool"}, bytes : {1}, signed : {FALSE}, optional : BOOLEAN]

OtherTypes ==
    [kind : {"real"}, optional : BOOLEAN]
    \cup [kind : {"text"}, element : {1, 4}, fixed : {0}, optional : BOOLEAN]
    \cup [kind : {"blob"}, element : {1, 4}, fixed : {0, 2}, optional : BOOLEAN]

NotNulls == {NoClause, "abort", "ignore", "replace"}

Plain(m) == [table |-> "one", member |-> m, notNull |-> NoClause, default |-> NoClause, action |-> NoClause]

\* numbers differ in their type, the other members in their clauses as well
Columns ==
    {Plain(m) : m \in IntegerTypes}
    \cup [table : {"one"}, member : OtherTypes, notNull : NotNulls,
          default : {NoClause, "value"}, action : {NoClause}]
    \cup {[Plain([kind |-> "text", element |-> 1, fixed |-> 0, optional |-> o])
            EXCEPT !.notNull = n, !.default = "empty"] : n \in NotNulls, o \in BOOLEAN}

Keys ==
    {[Plain([kind |-> "integer", bytes |-> 4, signed |-> TRUE, optional |-> TRUE])
        EXCEPT !.action = a]
     : a \in {"no_action", "restrict", "set_null", "set_default", "cascade"}}

ANumber == Plain([kind |-> "integer", bytes |-> 2, signed |-> TRUE, optional |-> FALSE])

Second(col) == [col EXCEPT !.table = "two"]

Programs ==
    {<<col, Second(ANumber)>> : col \in Columns}
    \cup {<<ANumber, Second(key)>> : key \in Keys}
    \cup {<<ANumber, ANumber>>}
=============================================================================
