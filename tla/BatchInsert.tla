----------------------------- MODULE BatchInsert -----------------------------
(****************************************************************************)
(* The loop of Connection::insert_many_records: records are inserted        *)
(* batch_size rows at a time through one statement, and a statement of its  *)
(* own is made for the rest.  It runs inside transaction(), so whatever is  *)
(* thrown leaves nothing behind (module Connection).                        *)
(*                                                                          *)
(* A member is named by its record and its column.  The j-th ? of the r-th  *)
(* row of a statement is parameter (r-1) * Placeholders + j of the engine   *)
(* and the j-th member of the r-th record is bound to parameter             *)
(* (r-1) * Members + j: the two are one when the counts are equal, and when *)
(* they are not the statement has fewer parameters and a bind is refused.   *)
(****************************************************************************)
EXTENDS InsertQuery, Sequences

CONSTANTS
    TableSet,      \* the tables records are inserted into
    MaxRecords,    \* bound: records of one call
    MaxBatch,      \* bound: batch_size
    MaxParameters, \* SQLITE_MAX_VARIABLE_NUMBER
    NULL

ASSUME BatchAssumption ==
    /\ \A t \in TableSet :
        /\ t.n \in Nat \ {0} /\ t.auto \in 0..t.n
        /\ t.onConflict \subseteq Clauses
    /\ MaxRecords \in Nat /\ MaxBatch \in Nat /\ MaxParameters \in Nat

VARIABLES
    table,     \* the table of the call
    size,      \* records.size()
    batch,     \* batch_size, a parameter the loop changes
    inserted,  \* records behind the loop
    rows,      \* rows of the prepared statement, 0 when there is none
    params,    \* what the statement's rows are bound to
    given,     \* the rows of the INSERTs that succeeded, in their order
    kept,      \* which of them are in the table
    pc         \* "prepare", "bind", "run", then "returned" or "threw"

vars == <<table, size, batch, inserted, rows, params, given, kept, pc>>

Init ==
    /\ table \in TableSet
    /\ size \in 0..MaxRecords
    /\ batch \in 0..MaxBatch
    /\ inserted = 0
    /\ rows = 0
    /\ params = <<>>
    /\ given = <<>> /\ kept = {}
    /\ pc = "prepare"

\* an exception leaves the loop, and transaction() rolls back
Threw ==
    /\ pc' = "threw"
    /\ given' = <<>> /\ kept' = {}
    /\ UNCHANGED <<table, size, batch, inserted, rows, params>>

Remaining == size - inserted

\* slip: the loop ends when the next batch would be the last
AllButLastIn == inserted + batch >= size

AllIn == inserted >= size

Return ==
    /\ pc = "prepare" /\ AllIn
    /\ pc' = "returned"
    /\ UNCHANGED <<table, size, batch, inserted, rows, params, given, kept>>

(****************************************************************************)
(* The first branch shrinks batch_size to what is left, the second is the   *)
(* first iteration, the third reuses the statement after reset().           *)
(****************************************************************************)
\* slip: the last batch is not cut down to what is left
NextBatchKeeps == batch

NextBatch == IF Remaining < batch THEN Remaining ELSE batch

Reuses == Remaining >= batch /\ inserted # 0

\* no row makes a syntax error, too many parameters are refused
CanPrepare(n) == n > 0 /\ n * Placeholders(table) <= MaxParameters

\* slip: a statement that cannot be prepared is tried again
PrepareRetries ==
    /\ pc = "prepare" /\ ~AllIn
    /\ ~Reuses /\ ~CanPrepare(NextBatch)
    /\ UNCHANGED vars

PrepareFails ==
    /\ pc = "prepare" /\ ~AllIn
    /\ ~Reuses /\ ~CanPrepare(NextBatch)
    /\ Threw

Prepare ==
    /\ pc = "prepare" /\ ~AllIn
    /\ Reuses \/ CanPrepare(NextBatch)
    /\ batch' = NextBatch
    /\ rows' = IF Reuses THEN rows ELSE NextBatch
    /\ params' = <<>>
    /\ pc' = "bind"
    /\ UNCHANGED <<table, size, inserted, given, kept>>

(****************************************************************************)
(* Row r of the batch is bound to the members of records[row + inserted].   *)
(****************************************************************************)
\* slip: the batches all start at the first record
MembersOfRow(r) == [j \in 1..Members(table) |-> <<r, MemberColumn(table, j)>>]

MembersOf(r) ==
    [j \in 1..Members(table) |-> <<inserted + r, MemberColumn(table, j)>>]

Fits == batch * Members(table) <= rows * Placeholders(table)

Bind ==
    /\ pc = "bind" /\ Fits
    /\ params' = [r \in 1..batch |-> MembersOf(r)]
    /\ pc' = "run"
    /\ UNCHANGED <<table, size, batch, inserted, rows, given, kept>>

BindRefused == pc = "bind" /\ ~Fits /\ Threw

(****************************************************************************)
(* step(): the statement is refused and undone, or it succeeds with every   *)
(* row in the table but those that the table's conflict clauses sacrifice.  *)
(****************************************************************************)
RowOf(r) ==
    [c \in 1..table.n |->
        IF c = NullColumn(table) THEN NULL
        ELSE params[r][PlaceholderOf(table, c)]]

(****************************************************************************)
(* What may be left of the old rows and the new ones.  IGNORE skips new     *)
(* rows only; REPLACE deletes old rows and rows of the same statement, but  *)
(* never the last one.                                                      *)
(****************************************************************************)
MayRemain(left, old, new) ==
    /\ "replace" \notin table.onConflict => old \subseteq left
    /\ table.onConflict = {} => new \subseteq left
    /\ table.onConflict = {"replace"} => \E r \in left : \A s \in new : r >= s

Run ==
    /\ pc = "run"
    /\ given' = given \o [r \in 1..rows |-> RowOf(r)]
    /\ \E left \in SUBSET (kept \cup (Len(given) + 1)..(Len(given) + rows)) :
        /\ MayRemain(left, kept, (Len(given) + 1)..(Len(given) + rows))
        /\ kept' = left
    /\ inserted' = inserted + batch
    /\ pc' = "prepare"
    /\ UNCHANGED <<table, size, batch, rows, params>>

RunFails == pc = "run" /\ Threw

Next ==
    \/ Return
    \/ PrepareFails \/ Prepare
    \/ BindRefused \/ Bind
    \/ RunFails \/ Run

(****************************************************************************)
(* The loop is one thread's code and nothing in it waits.                   *)
(****************************************************************************)
Spec == Init /\ [][Next]_vars /\ WF_vars(Next)

-----------------------------------------------------------------------------
Cells == {NULL} \cup ((1..MaxRecords) \X (1..MaxParameters))

\* Every variable has the type of the local variable or row it stands for.
TypeOK ==
    /\ table \in TableSet
    /\ size \in 0..MaxRecords /\ inserted \in 0..size
    /\ batch \in 0..MaxBatch /\ rows \in 0..MaxBatch
    /\ DOMAIN params \in {1..b : b \in 0..MaxBatch}
    /\ DOMAIN given \in {1..m : m \in 0..size}
    /\ kept \subseteq DOMAIN given
    /\ pc \in {"prepare", "bind", "run", "returned", "threw"}

(****************************************************************************)
(* The i-th row given to SQLite is the i-th record, every member in its own *)
(* column and NULL in the auto increment column only ("auto inc column gets *)
(* a null", table.hpp): batches neither skip, repeat nor reorder records,   *)
(* and the last, shorter statement goes on where the others stopped.  What  *)
(* a column makes of its member is module ColumnValues.                     *)
(****************************************************************************)
Stored(i, t) == [c \in 1..t.n |-> IF c = t.auto THEN NULL ELSE <<i, c>>]

RecordsInTheirColumns ==
    \A i \in DOMAIN given : given[i] = Stored(i, table)

(****************************************************************************)
(* The call returns when every record has been given to SQLite, and then    *)
(* all of them are in the table unless it is declared with a clause that    *)
(* sacrifices rows; or it throws, and none is.                              *)
(****************************************************************************)
AllOrNone ==
    /\ pc = "returned" =>
        /\ Len(given) = size
        /\ table.onConflict = {} => kept = 1..size
        /\ table.onConflict = {"replace"} /\ size > 0 => size \in kept
    /\ pc = "threw" => kept = {}

(****************************************************************************)
(* A statement has a parameter for every member that is bound to it: the    *)
(* InternalError "Unable to bind parameter to statement" is never thrown.   *)
(****************************************************************************)
EveryMemberFits == pc = "bind" => Fits

\* The loop comes to an end, whatever batch size it is called with.
Terminates == <>(pc \in {"returned", "threw"})
=============================================================================
