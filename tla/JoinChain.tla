------------------------------ MODULE JoinChain ------------------------------
(****************************************************************************)
(* make_joins and __join_impl: a query is put together from Join<T> clauses *)
(* one by one, and for each the library looks for a foreign key between T   *)
(* and a table that was joined before.  All of it happens in the compiler:  *)
(* a clause for which the search goes wrong is a program that does not      *)
(* compile.                                                                 *)
(****************************************************************************)
EXTENDS Naturals, Sequences

CONSTANTS
    Tables,     \* the tables of the connection
    MaxTables   \* bound: tables of one query

ASSUME ChainAssumption == MaxTables \in Nat

VARIABLES
    references,  \* <<a, b>>: a column of a has ForeignKey<b>; a reference of
                 \* a table to itself is never looked at
    joined,      \* the tables of the query so far, in order
    clauses,     \* of each further table: the table it is joined to, and the
                 \* side of the ON condition that is the foreign key
    refused      \* "no", or what the compiler refused: a clause for an
                 \* "unrelated" table, or for a "related" one

chainVars == <<references, joined, clauses, refused>>

ChainInit ==
    /\ references \in SUBSET {p \in Tables \X Tables : p[1] # p[2]}
    /\ \E t \in Tables : joined = <<t>>
    /\ clauses = <<>>
    /\ refused = "no"

-----------------------------------------------------------------------------
References(a, b) == <<a, b>> \in references

\* the places of joined tables that reference t, and that t references
Referencing(t) == {i \in DOMAIN joined : References(joined[i], t)}
Referenced(t) == {i \in DOMAIN joined : References(t, joined[i])}

\* slip: the search goes on when it has found a place
LastOf(places) == CHOOSE i \in places : \A j \in places : i >= j

First(places) == CHOOSE i \in places : \A j \in places : i <= j

\* static_assert(referenced_by_one_of)
IsRelated(t) == Referencing(t) \cup Referenced(t) # {}

\* slip: the second search is left out
OnlyReferencing(t) == First(Referencing(t) \cup {1})

Found(t) == First(IF Referencing(t) # {} THEN Referencing(t) ELSE Referenced(t))

(****************************************************************************)
(* `static constexpr bool index()` returns the place of the other table as  *)
(* a bool.  Places count from 1 here, so every place after the second       *)
(* becomes the second.                                                      *)
(****************************************************************************)
Index(t) == IF Found(t) = 1 THEN 1 ELSE 2

\* fk_is_already_joined: no joined table has the foreign key, so t has it
ForeignKeySide(t) == IF Referencing(t) = {} THEN "new" ELSE "other"

\* foreign_column<...> of the other table exists
HasForeignColumn(t) ==
    IF ForeignKeySide(t) = "new"
    THEN References(t, joined[Index(t)])
    ELSE References(joined[Index(t)], t)

-----------------------------------------------------------------------------
\* the program has one more clause, Join<t>
IsNext(t) ==
    /\ refused = "no" /\ Len(joined) < MaxTables
    /\ \A i \in DOMAIN joined : joined[i] # t

Join(t) ==
    /\ IsNext(t) /\ IsRelated(t) /\ HasForeignColumn(t)
    /\ clauses' = Append(clauses, <<joined[Index(t)], ForeignKeySide(t)>>)
    /\ joined' = Append(joined, t)
    /\ UNCHANGED <<references, refused>>

JoinRefused(t) ==
    /\ IsNext(t)
    /\ \/ ~IsRelated(t) /\ refused' = "unrelated"
       \/ IsRelated(t) /\ ~HasForeignColumn(t) /\ refused' = "related"
    /\ UNCHANGED <<references, joined, clauses>>

ChainNext == \E t \in Tables : Join(t) \/ JoinRefused(t)

ChainSpec == ChainInit /\ [][ChainNext]_chainVars

-----------------------------------------------------------------------------
(****************************************************************************)
(* "Each join should refer to a table that was already joined in a previous *)
(* clause" is "the only limitation" (README).  The first two Join clauses   *)
(* of a query keep to it: a table that a foreign key relates to one of the  *)
(* tables joined before is not refused, whichever side the key is on.       *)
(****************************************************************************)
TwoJoinsAreFound == refused = "related" => Len(joined) > 2

(****************************************************************************)
(* When several foreign keys could make the ON condition, a clause that     *)
(* compiles has the one of the first joined table that references the new   *)
(* one, and a key of the new table only if there is none: to the first      *)
(* table it references.  The place that was found is returned as a bool;    *)
(* where that spoils it no other table with a key takes its turn.           *)
(****************************************************************************)
TakesFirstKey(k) ==
    LET other == clauses[k][1]
        new == joined[k + 1]
    IN  \E i \in 1..k :
            /\ joined[i] = other
            /\ \/ /\ clauses[k][2] = "other" /\ References(other, new)
                  /\ \A j \in 1..(i - 1) : ~References(joined[j], new)
               \/ /\ clauses[k][2] = "new" /\ References(new, other)
                  /\ \A j \in 1..(i - 1) : ~References(new, joined[j])
                  /\ \A j \in 1..k : ~References(joined[j], new)

FirstKeyIsTaken == \A k \in DOMAIN clauses : TakesFirstKey(k)
=============================================================================
