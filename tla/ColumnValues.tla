---------------------------- MODULE ColumnValues ----------------------------
(****************************************************************************)
(* What a member of an object becomes in its column, and what is read back: *)
(* the widths that bind and read_column use for integers, NULL, strings and *)
(* blobs, and the constraints the library inferred for the column.          *)
(*                                                                          *)
(* The first table of the program is used.  An object is inserted with      *)
(* insert_record, and its row is read with find_record.                     *)
(****************************************************************************)
EXTENDS Schema, Integers

CONSTANTS
    ByteLimit,    \* scale: a signed byte is less than 128 in the code
    MaxElements,  \* bound: elements of a vector or a string
    Null,         \* std::nullopt, SQL NULL
    NaN, Finite,  \* floating point numbers, besides 0
    TheDefault,   \* a declared default that is not empty
    NotYet,       \* no object, no row, nothing read
    InternalError \* thrown by read_column

VARIABLES
    object,   \* the member's value in the program's object
    inserted, \* what became of insert_record: "no", or its outcome
    row,      \* the column in the row
    result    \* what find_record returned

vars == <<schemaVars, object, inserted, row, result>>

-----------------------------------------------------------------------------
(****************************************************************************)
(* Integers of a width: the signed ones are less than its limit, of the     *)
(* unsigned ones there are twice as many.                                   *)
(****************************************************************************)
Widths == {1, 2, 4, 8}

Limit(bytes) ==
    LET two == 2 * ByteLimit * ByteLimit
        four == 2 * two * two
    IN  CASE bytes = 1 -> ByteLimit
          [] bytes = 2 -> two
          [] bytes = 4 -> four
          [] bytes = 8 -> 2 * four * four

AsUnsigned(n, bytes) == n % (2 * Limit(bytes))

AsSigned(n, bytes) ==
    LET u == AsUnsigned(n, bytes) IN
    IF u >= Limit(bytes) THEN u - 2 * Limit(bytes) ELSE u

(****************************************************************************)
(* Members.  An optional is twice as large as what it holds, and bind and   *)
(* read_column choose between 4 and 8 bytes by the size of the whole.       *)
(****************************************************************************)
MemberTypes ==
    [kind : {"integer"}, bytes : Widths, signed : BOOLEAN, optional : BOOLEAN]
    \cup [kind : {"bool"}, bytes : {1}, signed : {FALSE}, optional : BOOLEAN]
    \cup [kind : {"real"}, optional : BOOLEAN]
    \cup [kind : {"text"}, element : Nat \ {0}, fixed : {0}, optional : BOOLEAN]
    \cup [kind : {"blob"}, element : Nat \ {0}, fixed : Nat, optional : BOOLEAN]

SizeOf(m) == IF m.optional THEN 2 * m.bytes ELSE m.bytes

\* slip: every integer goes through sqlite3_bind_int
AlwaysNarrow(m) == 4

SqlBytes(m) == IF SizeOf(m) <= 4 THEN 4 ELSE 8

IntegersOf(m) ==
    IF m.kind = "bool" THEN {0, 1}
    ELSE IF m.signed THEN -Limit(m.bytes) .. Limit(m.bytes) - 1
    ELSE 0 .. 2 * Limit(m.bytes) - 1

IsInteger(m) == m.kind \in {"integer", "bool"}

\* a container: its elements, numbered so that they differ
Containers(m) ==
    LET lengths == IF m.fixed > 0 THEN {m.fixed} ELSE 0..MaxElements
    IN {[i \in 1..n |-> i] : n \in lengths}

ValuesOf(m) ==
    (IF m.optional THEN {Null} ELSE {})
    \cup (IF IsInteger(m) THEN IntegersOf(m)
          ELSE IF m.kind = "real" THEN {NaN, Finite}
          ELSE Containers(m))

-----------------------------------------------------------------------------
(****************************************************************************)
(* bind(): integers are cut to 4 or 8 bytes and signed.  sqlite3_bind_text  *)
(* and _blob are given data() of an empty vector, a null pointer, which     *)
(* SQLite takes for NULL, and SQLite has no NaN either.                     *)
(****************************************************************************)
BindsAsNull(m, v) ==
    v \in {Null, NaN} \/ (IsContainer(m) /\ v = <<>>)

Bound(m, v) ==
    IF BindsAsNull(m, v) THEN Null
    ELSE IF IsInteger(m) THEN AsSigned(v, SqlBytes(m))
    ELSE v

(****************************************************************************)
(* read_column().  A container is resized to the number of bytes of the     *)
(* column and its first bytes overwritten: with elements of one byte these  *)
(* are all of it.  An array that has fewer elements than there are bytes    *)
(* makes the read throw.                                                    *)
(****************************************************************************)
Zeros(n) == [i \in 1..n |-> 0]

Cleared(m) ==
    IF m.optional THEN Null
    ELSE IF IsContainer(m) THEN Zeros(m.fixed)
    ELSE 0

ReadInteger(m, n) ==
    LET narrow == AsSigned(n, SqlBytes(m)) IN
    IF m.kind = "bool" THEN (IF narrow = 0 THEN 0 ELSE 1)
    ELSE IF m.signed THEN AsSigned(narrow, m.bytes)
    ELSE AsUnsigned(narrow, m.bytes)

ReadContainer(m, s) ==
    LET bytes == Len(s) * m.element IN
    IF m.fixed = 0 THEN s \o Zeros(bytes - Len(s))
    ELSE IF m.fixed < bytes THEN InternalError
    ELSE s

Read(m, stored) ==
    IF stored = Null THEN Cleared(m)
    ELSE IF stored = TheDefault \/ m.kind = "real" THEN stored
    ELSE IF IsInteger(m) THEN ReadInteger(m, stored)
    ELSE ReadContainer(m, stored)

-----------------------------------------------------------------------------
(****************************************************************************)
(* What can be mapped.  A default other than the empty string of a string   *)
(* is a "value" here, whatever it is.                                       *)
(****************************************************************************)
IsColumn(col) ==
    /\ col.member \in MemberTypes
    /\ col.notNull \in {NoClause, "abort", "ignore", "replace"}
    /\ col.default \in {NoClause, "value", "empty"}
    /\ col.default = "empty" => col.member.kind = "text"

ASSUME ColumnAssumption ==
    /\ ByteLimit \in Nat \ {0} /\ MaxElements \in Nat
    /\ \A db \in Databases :
        Len(db) \in Nat \ {0} /\ DOMAIN db = 1..Len(db) /\ IsColumn(db[1])
    /\ {Null, NaN, Finite, TheDefault, NotYet} \cap (Int \cup Seq(Nat)) = {}
    /\ Finite # Null
    /\ NotYet \notin {Null, NaN, Finite, TheDefault}

Column == mapped[1]
Member == Column.member

\* the tables are there, and no call of create_tables is running or has left
\* its transaction open
Ready == tables = Names /\ creating = "idle" /\ ~open

\* the default of the column, which NOT NULL ON CONFLICT REPLACE falls back on
DefaultOf(clauses) ==
    IF clauses.default = "empty" THEN <<>> ELSE TheDefault

(****************************************************************************)
(* insert_record: a NULL meets the NOT NULL clause of the column.           *)
(****************************************************************************)
Stores(value) == inserted' = "returned" /\ row' = value

MeetsNotNull(clauses) ==
    \/ /\ clauses.notNull = "ignore"
       /\ inserted' = "skipped"
       /\ UNCHANGED row
    \/ /\ clauses.notNull = "replace" /\ clauses.default # NoClause
       /\ Stores(DefaultOf(clauses))
    \/ /\ clauses.notNull # "ignore"
       /\ clauses.notNull = "replace" => clauses.default = NoClause
       /\ inserted' = "SQLConstraintError"
       /\ UNCHANGED row

InsertRecord(v) ==
    LET clauses == Inferred(Column) IN
    /\ Ready /\ inserted = "no"
    /\ object' = v
    /\ IF BindsAsNull(Member, v) /\ clauses.notNull # NoClause
       THEN MeetsNotNull(clauses)
       ELSE Stores(Bound(Member, v))
    /\ UNCHANGED <<schemaVars, result>>

HasRow == inserted = "returned"

FindRecord ==
    /\ HasRow /\ result = NotYet
    /\ result' = Read(Member, row)
    /\ UNCHANGED <<schemaVars, object, inserted, row>>

Init ==
    /\ SchemaInit
    /\ object = NotYet /\ inserted = "no"
    /\ row = NotYet /\ result = NotYet

Next ==
    \/ SchemaNext /\ UNCHANGED <<object, inserted, row, result>>
    \/ \E v \in ValuesOf(Member) : InsertRecord(v)
    \/ FindRecord

Spec == Init /\ [][Next]_vars

-----------------------------------------------------------------------------
TypeOK ==
    /\ SchemaTypeOK
    /\ object \in ValuesOf(Member) \cup {NotYet}
    /\ inserted \in {"no", "returned", "skipped", "SQLConstraintError"}
    /\ inserted = "no" <=> object = NotYet
    /\ HasRow <=> row # NotYet
    /\ result # NotYet => HasRow
    /\ HasRow /\ IsInteger(Member) /\ row \notin {Null, TheDefault} =>
        row \in -Limit(8) .. Limit(8) - 1

(****************************************************************************)
(* What is read back is what was inserted, for every type that can be       *)
(* mapped ("containers with continuous memory, or std::optional containing  *)
(* either type", types.hpp), every value and every constraint.  Four cases  *)
(* come back altered: a container with elements of several bytes, an        *)
(* optional that holds an empty container or NaN and comes back without a   *)
(* value, NaN itself, and a missing value that the column's default         *)
(* replaced.                                                                *)
(****************************************************************************)
HasWideElements(m) == IsContainer(m) /\ m.element > 1

IsEmpty(m, v) == IsContainer(m) /\ v = <<>>

IsReplaced(v) ==
    Column.notNull = "replace" /\ Column.default # NoClause /\ Bound(Member, v) = Null

ReadsWhatWasInserted ==
    result # NotYet =>
        \/ result = object
        \/ HasWideElements(Member) /\ object # Null
        \/ object = NaN
        \/ IsEmpty(Member, object) /\ Member.optional
        \/ IsReplaced(object)

(****************************************************************************)
(* An object is refused or skipped only for a value it does not have, and   *)
(* never by a column of its own making: an optional member without NOT NULL *)
(* takes nullopt, a string that declares nothing takes the empty string.    *)
(****************************************************************************)
RefusedForCause ==
    inserted \in {"skipped", "SQLConstraintError"} =>
        /\ object \in {Null, NaN} \/ IsEmpty(Member, object)
        /\ Member.optional => Column.notNull # NoClause
        /\ Member.kind = "text" => Column.notNull # NoClause
=============================================================================
