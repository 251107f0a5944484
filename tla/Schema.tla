------------------------------- MODULE Schema -------------------------------
(****************************************************************************)
(* What Column and Table make of a mapped class, and create_tables.         *)
(*                                                                          *)
(* A column is its member's type and the constraints in its declaration;    *)
(* the library infers more of them from the type.  A member is arithmetic   *)
(* ("integer", "bool" or "real") or a container ("text" for strings, "blob" *)
(* for vectors and arrays).  A table is its name and one column.            *)
(*                                                                          *)
(* create_tables prepares the statement of every table, and then runs them  *)
(* in one transaction; other processes may create some of them meanwhile.   *)
(****************************************************************************)
EXTENDS Naturals, Sequences

CONSTANTS
    Databases,   \* the tables a program may map, each a sequence of columns
    NoClause     \* a constraint that is not declared

VARIABLES
    mapped,      \* the tables of this program
    tables,      \* those that are in the file
    open,        \* the connection has a transaction open
    pending,     \* the tables it has created
    creating,    \* create_tables: "idle", "prepared" or "running"
    strict,      \* it was called without IF NOT EXISTS
    made,        \* the statements it has run
    others,      \* history: the tables other processes have created
    returned     \* history: a call of create_tables has returned

schemaVars == <<mapped, tables, open, pending, creating, strict, made, others, returned>>
callVars == <<creating, strict, made>>
historyVars == <<others, returned>>

-----------------------------------------------------------------------------
(****************************************************************************)
(* Constraints inferred from the member: a string that is not optional gets *)
(* an empty default, any other member that is not optional and has no       *)
(* default is NOT NULL.  Of two NOT NULL clauses SQLite takes the later,    *)
(* which is the declared one.                                               *)
(****************************************************************************)
IsContainer(m) == m.kind \in {"text", "blob"}

\* slip: a string is treated as any other member
InferredWithoutStrings(col) ==
    IF col.member.optional \/ col.default # NoClause \/ col.notNull # NoClause
    THEN [notNull |-> col.notNull, default |-> col.default]
    ELSE [notNull |-> "abort", default |-> NoClause]

Inferred(col) ==
    IF col.member.optional \/ col.default # NoClause \/ col.notNull # NoClause
    THEN [notNull |-> col.notNull, default |-> col.default]
    ELSE IF col.member.kind = "text"
    THEN [notNull |-> NoClause, default |-> "empty"]
    ELSE [notNull |-> "abort", default |-> NoClause]

(****************************************************************************)
(* Two foreign key actions are written with an underscore, "SET_NULL" and   *)
(* "SET_DEFAULT", which is no SQL.                                          *)
(****************************************************************************)
IsSql(col) == col.action \notin {"set_null", "set_default"}

-----------------------------------------------------------------------------
NameOf(i) == mapped[i].table
Names == {NameOf(i) : i \in DOMAIN mapped}

SchemaTypeOK ==
    /\ mapped \in Databases
    /\ tables \subseteq Names /\ pending \subseteq Names /\ others \subseteq Names
    /\ open \in BOOLEAN /\ strict \in BOOLEAN /\ returned \in BOOLEAN
    /\ creating \in {"idle", "prepared", "running"}
    /\ made \in 0..Len(mapped)

SchemaInit ==
    /\ mapped \in Databases
    /\ tables = {} /\ pending = {} /\ open = FALSE
    /\ creating = "idle" /\ strict = FALSE /\ made = 0
    /\ others = {} /\ returned = FALSE

\* what the connection finds: the file, and what it has created itself
Visible == tables \cup pending

\* every statement is prepared; one that cannot be makes the call throw
PrepareTables(withoutIf) ==
    /\ creating = "idle"
    /\ \A i \in DOMAIN mapped : IsSql(mapped[i])
    /\ withoutIf => Visible = {}
    /\ creating' = "prepared" /\ strict' = withoutIf
    /\ UNCHANGED <<mapped, tables, open, pending, made, historyVars>>

Ends == creating' = "idle" /\ made' = 0 /\ strict' = FALSE

BeginTables ==
    /\ creating = "prepared" /\ ~open
    /\ creating' = "running" /\ open' = TRUE
    /\ UNCHANGED <<mapped, tables, pending, strict, made, historyVars>>

\* BEGIN inside a transaction is an error, thrown before the try block
BeginTablesRefused ==
    /\ creating = "prepared" /\ open
    /\ Ends
    /\ UNCHANGED <<mapped, tables, open, pending, historyVars>>

(****************************************************************************)
(* A step: SQLite prepares an outdated statement again, so that it finds a  *)
(* table that was created since, by another process or, when two classes    *)
(* are mapped to one name, by this call.                                    *)
(****************************************************************************)
Steps ==
    /\ creating = "running" /\ made < Len(mapped)
    /\ NameOf(made + 1) \in Visible => ~strict
    /\ made' = made + 1

Missing == {NameOf(made + 1)} \ Visible

\* slip: there is no transaction
CreateTableAtOnce ==
    /\ Steps
    /\ tables' = tables \cup Missing
    /\ UNCHANGED <<mapped, open, pending, creating, strict, historyVars>>

CreateTable ==
    /\ Steps
    /\ pending' = pending \cup Missing
    /\ UNCHANGED <<mapped, tables, open, creating, strict, historyVars>>

CommitTables ==
    /\ creating = "running" /\ made = Len(mapped)
    /\ tables' = Visible /\ pending' = {} /\ open' = FALSE
    /\ returned' = TRUE
    /\ Ends
    /\ UNCHANGED <<mapped, others>>

(****************************************************************************)
(* COMMIT while another connection reads is SQLITE_BUSY: it is thrown from  *)
(* outside the try block, and the transaction stays open with its tables.   *)
(****************************************************************************)
CommitTablesRefused ==
    /\ creating = "running" /\ made = Len(mapped)
    /\ pending # {}
    /\ Ends
    /\ UNCHANGED <<mapped, tables, open, pending, historyVars>>

(****************************************************************************)
(* A step fails, because the table exists or another connection is writing, *)
(* and transaction() rolls back; or COMMIT fails for another reason, and    *)
(* SQLite rolls back.                                                       *)
(****************************************************************************)
AbandonTables ==
    /\ creating = "running"
    /\ pending' = {} /\ open' = FALSE
    /\ Ends
    /\ UNCHANGED <<mapped, tables, historyVars>>

\* the process dies, and the next one finds what is in the file
CrashTables ==
    /\ open \/ creating # "idle"
    /\ pending' = {} /\ open' = FALSE
    /\ Ends
    /\ UNCHANGED <<mapped, tables, historyVars>>

(****************************************************************************)
(* Another process, with the same classes or some of them, creates tables   *)
(* while this connection has no lock: before its first step.                *)
(****************************************************************************)
OthersCreate ==
    /\ made = 0 /\ pending = {}
    /\ \E new \in SUBSET {NameOf(i) : i \in {j \in DOMAIN mapped : IsSql(mapped[j])}} :
        /\ new \cap tables = {} /\ new # {}
        /\ tables' = tables \cup new /\ others' = others \cup new
    /\ UNCHANGED <<mapped, open, pending, callVars, returned>>

SchemaNext ==
    \/ \E withoutIf \in BOOLEAN : PrepareTables(withoutIf)
    \/ BeginTables \/ BeginTablesRefused \/ CreateTable
    \/ CommitTables \/ CommitTablesRefused \/ AbandonTables \/ CrashTables
    \/ OthersCreate

(****************************************************************************)
(* create_tables makes all tables or none (the test AllOrNothingTransaction *)
(* of table_creation.cpp): once a call has returned every table is in the   *)
(* file, and before that only those of other processes, also when COMMIT    *)
(* was refused and the tables are still waiting in the open transaction.    *)
(****************************************************************************)
TablesTogether == tables = IF returned THEN Names ELSE others
=============================================================================
