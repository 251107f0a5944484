------------------------------- MODULE ReadRow -------------------------------
(****************************************************************************)
(* BasePreparedSelect::read_row: from a row of a joined query to the tuple  *)
(* the caller gets.  Of each table either the whole record is selected, or  *)
(* one field of type int, or nothing.                                       *)
(*                                                                          *)
(* A row of a table is a number, and the number is the value of its primary *)
(* key and of the field that may be selected in place of the record.        *)
(****************************************************************************)
EXTENDS Joins

CONSTANTS
    QuerySet,    \* the queries of the program
    SelectLists, \* what it selects: "record", "field" or "nothing" per table
    Unread,      \* no row was read yet
    Thrown       \* std::bad_optional_access

\* what read_row may return for a query
Results(q) ==
    UNION {[s -> Rows \cup {0, NULL}] : s \in SUBSET Positions(q)}

ASSUME ReadRowAssumption ==
    /\ Rows \subseteq Nat /\ NULL \notin Nat
    /\ Unread # Thrown
    /\ SelectLists \subseteq Seq({"record", "field", "nothing"})
    /\ \A q \in QuerySet :
        /\ Len(q) \in Nat \ {0} /\ q \in Queries(Len(q) + 1, JoinTypes)
        /\ {Unread, Thrown} \cap Results(q) = {}

VARIABLES
    query,    \* the joins
    list,     \* the selections
    row,      \* the row the statement is on, or Unread
    result    \* what read_row made of it

vars == <<query, list, row, result>>

Selected == {t \in DOMAIN list : list[t] # "nothing"}
Fields == {t \in DOMAIN list : list[t] = "field"}

TypeOK ==
    /\ query \in QuerySet /\ list \in SelectLists
    /\ row \in [Positions(query) -> Rows \cup {NULL}] \cup {Unread}
    /\ result \in Results(query) \cup {Unread, Thrown}
    /\ result # Unread => row # Unread

Init ==
    /\ query \in QuerySet
    /\ list \in SelectLists /\ DOMAIN list = Positions(query)
    /\ Selected # {}
    /\ row = Unread /\ result = Unread

-----------------------------------------------------------------------------
(****************************************************************************)
(* get_row and row_is_null.  A NULL is read as a record of zeros, as a      *)
(* nullopt into an optional field and as 0 into another one.  A record      *)
(* counts as missing when its primary key is 0, a field when it is falsey:  *)
(* nullopt if it is optional, 0 if not.                                     *)
(****************************************************************************)
ZeroIfNull(t) == IF row[t] = NULL THEN 0 ELSE row[t]

IsOptionalField(t) == list[t] = "field" /\ IsOptional(query, t)

\* slip: a record is never found missing
OnlyFieldsMissing(t) ==
    list[t] = "field" /\ IF IsOptionalField(t) THEN row[t] = NULL ELSE ZeroIfNull(t) = 0

Missing(t) == IF IsOptionalField(t) THEN row[t] = NULL ELSE ZeroIfNull(t) = 0

(****************************************************************************)
(* row_res_to_row is given the index of the first selection of the same     *)
(* type, and that one decides whether a missing value may be returned.  The *)
(* records of different tables have different types, the fields have one.   *)
(****************************************************************************)
Decides(t) ==
    IF list[t] = "field" THEN CHOOSE f \in Fields : \A g \in Fields : f <= g ELSE t

MayBeMissing(t) == IsOptional(query, Decides(t))

\* the tuple's conversions exist, so the query compiles
Compiles == \A t \in Selected : MayBeMissing(t) => IsOptional(query, t)

\* the only selection is read without any of that
IsSingle == \A t, u \in Selected : t = u

SingleResult(t) == IF IsOptionalField(t) THEN row[t] ELSE ZeroIfNull(t)

-----------------------------------------------------------------------------
\* the statement is stepped to a row
StepToRow ==
    /\ row = Unread /\ Compiles
    /\ row' \in JoinedRows(query)
    /\ UNCHANGED <<query, list, result>>

\* slip: read before the statement is stepped, when every column is NULL
ReadsUnstepped ==
    /\ result = Unread
    /\ IsSingle
    /\ result' = [t \in Selected |-> 0]
    /\ UNCHANGED <<query, list, row>>

ReadSingle ==
    /\ row # Unread /\ result = Unread
    /\ IsSingle
    /\ result' = [t \in Selected |-> SingleResult(t)]
    /\ UNCHANGED <<query, list, row>>

ReadTuple ==
    /\ row # Unread /\ result = Unread
    /\ ~IsSingle
    /\ \A t \in Selected : Missing(t) => MayBeMissing(t)
    /\ result' = [t \in Selected |-> IF Missing(t) THEN NULL ELSE ZeroIfNull(t)]
    /\ UNCHANGED <<query, list, row>>

\* .value() of an empty optional
ReadThrows ==
    /\ row # Unread /\ result = Unread
    /\ ~IsSingle
    /\ \E t \in Selected : Missing(t) /\ ~MayBeMissing(t)
    /\ result' = Thrown
    /\ UNCHANGED <<query, list, row>>

Next == StepToRow \/ ReadSingle \/ ReadTuple \/ ReadThrows

Spec == Init /\ [][Next]_vars

-----------------------------------------------------------------------------
(****************************************************************************)
(* Every row the engine returns reaches the caller, "many joins can be      *)
(* used" (README): read_row does not throw because of what is in a row.     *)
(****************************************************************************)
EveryRowIsRead == result # Thrown

(****************************************************************************)
(* The tables a join preserves and the ones it may miss are told apart well *)
(* enough unless several tables are joined to the first one: with at most   *)
(* one field, a row that cannot be read is of such a query, or the field or *)
(* the primary key of a table that the joins cannot miss is 0.              *)
(****************************************************************************)
IsStar(q) == Len(q) > 1 /\ ~IsNested(q)

OnlyStarsAndZerosThrow ==
    result = Thrown =>
        IsStar(query) \/ \E t \in Selected : row[t] = 0 /\ ~IsOptional(query, t)

(****************************************************************************)
(* What the caller gets is the row: the record or the value of the field of *)
(* every selected table, and nullopt exactly for the tables the outer joins *)
(* found no row of.  Only what is selected alone may come back as zeros in  *)
(* place of nullopt: a record of any query, and a field of one that joins   *)
(* several tables to the first.  And a record of a tuple may be nullopt     *)
(* although it is there, if its primary key is 0 and a join might miss it.  *)
(****************************************************************************)
IsZeroed(t) ==
    /\ IsSingle /\ row[t] = NULL /\ result[t] = 0
    /\ list[t] = "record" \/ IsStar(query)

IsHidden(t) ==
    /\ ~IsSingle /\ row[t] = 0 /\ result[t] = NULL
    /\ list[t] = "record" /\ IsOptional(query, t)

ResultIsRow ==
    result \notin {Unread, Thrown} =>
        \A t \in Selected : result[t] = row[t] \/ IsZeroed(t) \/ IsHidden(t)
=============================================================================
