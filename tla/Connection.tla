----------------------------- MODULE Connection -----------------------------
(****************************************************************************)
(* zxorm::Connection used by one thread: the record operations with their   *)
(* cached statements, transaction(), and insert_many_records, over one      *)
(* SQLite database.                                                         *)
(*                                                                          *)
(* A public call is one action.  transaction(run) is not: run is the        *)
(* caller's code and may make any other call, so the call is split into its *)
(* BEGIN, the calls of run, and its end (COMMIT when run returns, the catch *)
(* handler when run throws).  insert_many_records is split the same way,    *)
(* row by row, but its run is library code, so nothing comes in between.    *)
(*                                                                          *)
(* A cached statement is represented by its phase (module Phases, which     *)
(* Statement implements).                                                   *)
(****************************************************************************)
EXTENDS Contents, Phases

CONSTANTS
    Objects,        \* record objects of the calling program
    TableOf,        \* the table each object's class is mapped to
    Slots,          \* the cached statements the program uses: kind and table
    MaxRows,        \* bound: records of one insert_many_records
    MaxDepth,       \* bound: transaction() calls running at once
    Contended,      \* other connections hold locks: SQLITE_BUSY happens
    ForeignThrows,  \* run may throw what is not a zxorm::Error
    NoJob,          \* no insert_many_records is running
    NoPromise       \* no call has the file to leave as it was

Jobs == [table : Tables, left : 0..MaxRows]

ReadKinds == {"find_record", "first", "last"}
WriteKinds == {"insert", "update", "delete_record"}

ASSUME ConnectionAssumption ==
    /\ TableOf \in [Objects -> Tables]
    /\ Slots \subseteq (ReadKinds \cup WriteKinds) \X Tables
    /\ MaxRows \in Nat /\ MaxDepth \in Nat
    /\ Contended \in BOOLEAN /\ ForeignThrows \in BOOLEAN
    /\ NoJob \notin Jobs
    /\ NoPromise \notin Contents

VARIABLES
    disk,        \* the committed contents of the database file
    view,        \* what a query of this connection reads
    mode,        \* the engine: "autocommit", or inside a "transaction"
    lastRowid,   \* sqlite3_last_insert_rowid
    slots,       \* the statement and query caches: "none" or a phase
    depth,       \* transaction() calls whose run is executing
    job,         \* rows an insert_many_records still has to insert
    thrown,      \* the exception in flight, or "nothing"
    held,        \* the id member of each object, 0 when never set
    before       \* history: the file when the transaction() or the
                 \* insert_many_records began whose transaction is open;
                 \* NoPromise once the engine has ended that transaction

vars == <<disk, view, mode, lastRowid, slots, depth, job, thrown, held, before>>

(****************************************************************************)
(* UnknownRowid is the InternalError update_record throws on purpose for a  *)
(* record that was never inserted; "foreign" is no zxorm::Error.            *)
(****************************************************************************)
ZxormErrors == StatementErrors \cup {"InternalError", "UnknownRowid"}

TypeOK ==
    /\ disk \in Contents /\ view \in Contents
    /\ mode \in {"autocommit", "transaction"}
    /\ lastRowid \in Ids \cup {0}
    /\ slots \in [Slots -> Phases \cup {"none"}]
    /\ depth \in 0..MaxDepth
    /\ job \in Jobs \cup {NoJob}
    /\ thrown \in ZxormErrors \cup {"nothing", "foreign"}
    /\ held \in [Objects -> Ids \cup {0}]
    /\ before \in Contents \cup {NoPromise}

\* a new connection to a database whose tables exist
Init ==
    /\ disk = NoRows /\ view = NoRows
    /\ mode = "autocommit"
    /\ lastRowid = 0
    /\ slots = [s \in Slots |-> "none"]
    /\ depth = 0
    /\ job = NoJob
    /\ thrown = "nothing"
    /\ held = [o \in Objects |-> 0]
    /\ before = NoPromise

-----------------------------------------------------------------------------
(****************************************************************************)
(* What a call leaves alone.                                                *)
(****************************************************************************)
SameRows == UNCHANGED <<disk, view, mode, before>>
SameData == SameRows /\ UNCHANGED lastRowid
SameControl == UNCHANGED <<depth, job>>
Returns == thrown' = "nothing"
Throws(error) == thrown' = error

\* the caller's code runs: nothing in flight, no library call half done
CallerRuns == thrown = "nothing" /\ job = NoJob

(****************************************************************************)
(* A statement that changed the contents to c: at once on disk when the     *)
(* engine is in autocommit mode, in the open transaction otherwise.         *)
(****************************************************************************)
Change(c) ==
    /\ view' = c
    /\ disk' = IF mode = "autocommit" THEN c ELSE disk
    /\ UNCHANGED <<mode, before>>

\* the engine rolls back: what is left is what is on disk
RollsBack ==
    /\ view' = disk
    /\ mode' = "autocommit"
    /\ UNCHANGED disk

(****************************************************************************)
(* A row of table t is refused by its constraint.  The statement is undone  *)
(* (it wrote one row), and ON CONFLICT ROLLBACK takes the open transaction  *)
(* with it.                                                                 *)
(****************************************************************************)
RefusalUndoes(t) ==
    IF OnConflict[t] = "rollback"
    THEN RollsBack /\ before' = NoPromise
    ELSE SameRows

(****************************************************************************)
(* The statement of a slot.  Poisoned: its last run failed, so the rewind   *)
(* in reset() or exec() throws and nothing else happens.  Fails: SQLITE_BUSY*)
(* when it is prepared (the slot stays empty) or when it is run.            *)
(****************************************************************************)
Leaves(slot, phase) == slots' = [slots EXCEPT ![slot] = phase]

Poisoned(slot) ==
    /\ slots[slot] # "none"
    /\ RewindOutcome(slots[slot]) = "InternalError"
    /\ Throws("InternalError")
    /\ Leaves(slot, "ready")
    /\ SameData /\ SameControl /\ UNCHANGED held

Runs(slot) == slots[slot] = "none" \/ RewindOutcome(slots[slot]) = "returned"

Fails(slot) ==
    /\ Contended
    /\ Throws("SQLExecutionError")
    /\ \/ slots[slot] = "none" /\ UNCHANGED slots
       \/ Leaves(slot, "failed")
    /\ SameData /\ SameControl /\ UNCHANGED held

-----------------------------------------------------------------------------
(****************************************************************************)
(* insert_record(o) with o's UNIQUE member equal to k.  The id of the       *)
(* record is ignored (the query has NULL for it) and afterwards set from    *)
(* sqlite3_last_insert_rowid, whether or not a row was inserted.            *)
(****************************************************************************)
\* slip: the id is read before the statement ran
InsertReturnsOldId(o) ==
    /\ Returns
    /\ held' = [held EXCEPT ![o] = lastRowid]

InsertReturns(o) ==
    /\ Returns
    /\ held' = [held EXCEPT ![o] = lastRowid']

InsertsRow(o, k, n) ==
    LET t == TableOf[o] IN
    \/ /\ IsWritten(view, t, n, k)
       /\ Change(WithRow(view, t, n, k))
       /\ lastRowid' = n
       /\ Leaves(<<"insert", t>>, "done")
       /\ InsertReturns(o)
    \/ /\ IsIgnored(view, t, n, k)
       /\ SameData
       /\ Leaves(<<"insert", t>>, "done")
       /\ InsertReturns(o)
    \/ /\ IsRefused(view, t, n, k)
       /\ RefusalUndoes(t)
       /\ Leaves(<<"insert", t>>, "failed")
       /\ Throws("SQLConstraintError")
       /\ UNCHANGED <<lastRowid, held>>

InsertRecord(o, k) ==
    LET slot == <<"insert", TableOf[o]>> IN
    /\ CallerRuns
    /\ slot \in Slots
    /\ \/ Poisoned(slot)
       \/ Runs(slot) /\ Fails(slot)
       \/ /\ Runs(slot)
          /\ \E n \in Ids : IsNextId(view, TableOf[o], n) /\ InsertsRow(o, k, n)
          /\ SameControl

(****************************************************************************)
(* update_record(o) with k.  It refuses an id of 0, and an id no row has    *)
(* updates nothing and is no error.                                         *)
(****************************************************************************)
UpdatesRow(o, k) ==
    LET t == TableOf[o]
        i == held[o]
        slot == <<"update", TableOf[o]>>
    IN
    \/ /\ i \notin RowIds(view, t) \/ IsIgnored(view, t, i, k)
       /\ SameRows
       /\ Leaves(slot, "done")
       /\ Returns
    \/ /\ i \in RowIds(view, t) /\ IsWritten(view, t, i, k)
       /\ Change(WithRow(view, t, i, k))
       /\ Leaves(slot, "done")
       /\ Returns
    \/ /\ i \in RowIds(view, t) /\ IsRefused(view, t, i, k)
       /\ RefusalUndoes(t)
       /\ Leaves(slot, "failed")
       /\ Throws("SQLConstraintError")

UpdateRecord(o, k) ==
    LET slot == <<"update", TableOf[o]>> IN
    /\ CallerRuns
    /\ slot \in Slots
    /\ \/ /\ held[o] = 0
          /\ Throws("UnknownRowid")
          /\ SameData /\ SameControl /\ UNCHANGED <<slots, held>>
       \/ held[o] # 0 /\ Poisoned(slot)
       \/ held[o] # 0 /\ Runs(slot) /\ Fails(slot)
       \/ /\ held[o] # 0 /\ Runs(slot)
          /\ UpdatesRow(o, k)
          /\ SameControl /\ UNCHANGED <<lastRowid, held>>

(****************************************************************************)
(* delete_record<T>(i): reset, bind, rewind, step.                          *)
(****************************************************************************)
DeleteRecord(t, i) ==
    LET slot == <<"delete_record", t>> IN
    /\ CallerRuns
    /\ slot \in Slots
    /\ \/ Poisoned(slot)
       \/ Runs(slot) /\ Fails(slot)
       \/ /\ Runs(slot)
          /\ Change(WithoutRow(view, t, i))
          /\ Leaves(slot, "done")
          /\ Returns
          /\ SameControl /\ UNCHANGED <<lastRowid, held>>

(****************************************************************************)
(* find_record, first and last run their cached query one step: on a row    *)
(* the statement is left there, not reset.                                  *)
(****************************************************************************)
Finds(kind, t, i) ==
    IF kind = "find_record" THEN i \in RowIds(view, t) ELSE RowIds(view, t) # {}

ReadRecord(kind, t, i) ==
    LET slot == <<kind, t>> IN
    /\ CallerRuns
    /\ slot \in Slots
    /\ \/ Poisoned(slot)
       \/ Runs(slot) /\ Fails(slot)
       \/ /\ Runs(slot)
          /\ Leaves(slot, IF Finds(kind, t, i) THEN "row" ELSE "done")
          /\ Returns
          /\ SameData /\ SameControl /\ UNCHANGED held

\* truncate<T>(): exec of an uncached statement
Truncate(t) ==
    /\ CallerRuns
    /\ \/ /\ Change(WithoutRows(view, t))
          /\ Returns
          /\ UNCHANGED lastRowid
       \/ /\ Contended
          /\ Throws("SQLExecutionError")
          /\ SameData
    /\ SameControl /\ UNCHANGED <<slots, held>>

-----------------------------------------------------------------------------
\* slip: no transaction is begun, and every statement of run stands alone
BeginIsForgotten ==
    /\ mode = "autocommit"
    /\ before' = disk
    /\ Returns
    /\ UNCHANGED mode

(****************************************************************************)
(* exec("BEGIN TRANSACTION;"), outside the try block of transaction().      *)
(* SQLite refuses it while a transaction is open.                           *)
(****************************************************************************)
BeginSucceeds ==
    /\ mode = "autocommit" /\ mode' = "transaction"
    /\ before' = disk
    /\ Returns

BeginFails ==
    /\ mode = "transaction"
    /\ Throws("SQLExecutionError")
    /\ UNCHANGED <<mode, before>>

(****************************************************************************)
(* exec("COMMIT TRANSACTION;"), outside the try block as well.  It throws   *)
(* when the transaction is gone already, and when another connection reads  *)
(* what it has to write, or a statement that met a lock is still active:    *)
(* SQLite then keeps the transaction open.                                  *)
(****************************************************************************)
CommitRuns ==
    \/ /\ mode = "transaction"
       /\ disk' = view /\ mode' = "autocommit"
       /\ Returns
       /\ UNCHANGED view
    \/ /\ mode = "autocommit" \/ Contended
       /\ Throws("SQLExecutionError")
       /\ UNCHANGED <<disk, view, mode>>

(****************************************************************************)
(* The catch handler: exec("ROLLBACK TRANSACTION;"), then throw.  When the  *)
(* engine has rolled back already the exec throws, and its error replaces   *)
(* the one in flight.                                                       *)
(****************************************************************************)
\* slips: the handler commits, or throws an error of its own
HandlerCommits ==
    /\ disk' = view /\ mode' = "autocommit"
    /\ UNCHANGED <<view, thrown>>

HandlerThrowsItsOwn == RollsBack /\ Throws("SQLExecutionError")

HandlerRuns ==
    \/ mode = "transaction" /\ RollsBack /\ UNCHANGED thrown
    \/ /\ mode = "autocommit"
       /\ Throws("SQLExecutionError")
       /\ UNCHANGED <<disk, view, mode>>

\* transaction(run), up to the call of run
BeginTransaction ==
    /\ CallerRuns
    /\ depth < MaxDepth
    /\ \/ BeginSucceeds /\ depth' = depth + 1
       \/ BeginFails /\ UNCHANGED depth
    /\ UNCHANGED <<disk, view, lastRowid, slots, job, held>>

\* run returned
EndTransaction ==
    /\ CallerRuns
    /\ depth > 0 /\ depth' = depth - 1
    /\ CommitRuns
    /\ before' = NoPromise
    /\ UNCHANGED <<lastRowid, slots, job, held>>

(****************************************************************************)
(* run threw.  The handler catches zxorm::Error only; anything else passes  *)
(* through transaction() and no statement is executed.                      *)
(****************************************************************************)
\* slip: the handler catches constraint errors alone
HandledConstraint == thrown = "SQLConstraintError"

Handled == thrown \in ZxormErrors

RunThrew ==
    /\ thrown # "nothing" /\ job = NoJob
    /\ depth > 0 /\ depth' = depth - 1
    /\ \/ Handled /\ HandlerRuns
       \/ ~Handled /\ UNCHANGED <<disk, view, mode, thrown>>
    /\ before' = NoPromise
    /\ UNCHANGED <<lastRowid, slots, job, held>>

\* the caller's code throws an exception of its own inside run
CallerThrows ==
    /\ CallerRuns /\ ForeignThrows
    /\ depth > 0
    /\ Throws("foreign")
    /\ SameData /\ SameControl /\ UNCHANGED <<slots, held>>

\* the caller's code catches what a call threw, inside run or outside
CallerCatches ==
    /\ thrown # "nothing" /\ job = NoJob
    /\ Returns
    /\ SameData /\ SameControl /\ UNCHANGED <<slots, held>>

-----------------------------------------------------------------------------
(****************************************************************************)
(* insert_many_records of n rows of table t: a transaction whose run        *)
(* inserts the rows through statements of its own, none of them cached.     *)
(* How the rows are grouped into statements is module BatchInsert; here it  *)
(* makes no difference how much of a refused statement is undone, because   *)
(* the handler runs next.                                                   *)
(****************************************************************************)
InsertManyBegins(t, n) ==
    /\ CallerRuns
    /\ \/ BeginSucceeds /\ job' = [table |-> t, left |-> n]
       \/ BeginFails /\ UNCHANGED job
    /\ UNCHANGED <<disk, view, lastRowid, slots, depth, held>>

InsertManyRow(k, n) ==
    LET t == job.table IN
    /\ IsNextId(view, t, n)
    /\ \/ /\ IsWritten(view, t, n, k)
          /\ Change(WithRow(view, t, n, k))
          /\ lastRowid' = n
          /\ Returns
       \/ /\ IsIgnored(view, t, n, k)
          /\ SameData
          /\ Returns
       \/ /\ IsRefused(view, t, n, k)
          /\ RefusalUndoes(t)
          /\ Throws("SQLConstraintError")
          /\ UNCHANGED lastRowid
    /\ job' = [job EXCEPT !.left = job.left - 1]

\* slip: the loop runs once more when every row is in
InsertManyOneTooMany ==
    /\ thrown = "nothing" /\ job # NoJob
    /\ job.left >= 0
    /\ \E k \in Keys, n \in Ids : InsertManyRow(k, n)
    /\ UNCHANGED <<slots, depth, held>>

InsertManySteps ==
    /\ thrown = "nothing" /\ job # NoJob
    /\ job.left > 0
    /\ \/ \E k \in Keys, n \in Ids : InsertManyRow(k, n)
       \/ /\ Contended
          /\ Throws("SQLExecutionError")
          /\ SameData /\ UNCHANGED job
    /\ UNCHANGED <<slots, depth, held>>

\* every row inserted: run returns and transaction() commits
InsertManyEnds ==
    /\ thrown = "nothing" /\ job # NoJob
    /\ job.left = 0
    /\ job' = NoJob
    /\ CommitRuns
    /\ before' = NoPromise
    /\ UNCHANGED <<lastRowid, slots, depth, held>>

\* a row was refused: the catch handler of transaction()
InsertManyThrew ==
    /\ thrown # "nothing" /\ job # NoJob
    /\ job' = NoJob
    /\ HandlerRuns
    /\ before' = NoPromise
    /\ UNCHANGED <<lastRowid, slots, depth, held>>

(****************************************************************************)
(* The process dies and a new one opens the file: SQLite's journal undoes   *)
(* the open transaction, everything in memory is gone.                      *)
(****************************************************************************)
Reopen ==
    /\ view' = disk /\ mode' = "autocommit"
    /\ lastRowid' = 0
    /\ slots' = [s \in Slots |-> "none"]
    /\ depth' = 0 /\ job' = NoJob
    /\ thrown' = "nothing"
    /\ held' = [o \in Objects |-> 0]
    /\ before' = NoPromise
    /\ UNCHANGED disk

Next ==
    \/ \E o \in Objects, k \in Keys : InsertRecord(o, k) \/ UpdateRecord(o, k)
    \/ \E t \in Tables, i \in Ids : DeleteRecord(t, i)
    \/ \E kind \in ReadKinds, t \in Tables, i \in Ids : ReadRecord(kind, t, i)
    \/ \E t \in Tables : Truncate(t)
    \/ BeginTransaction \/ EndTransaction \/ RunThrew
    \/ CallerThrows \/ CallerCatches
    \/ \E t \in Tables, n \in 0..MaxRows : InsertManyBegins(t, n)
    \/ InsertManySteps \/ InsertManyEnds \/ InsertManyThrew
    \/ Reopen

Spec == Init /\ [][Next]_vars

-----------------------------------------------------------------------------
Idle == depth = 0 /\ job = NoJob

(****************************************************************************)
(* Between calls nothing is pending: no transaction was left open and what  *)
(* the connection reads is what is on disk.  transaction() has to see to it *)
(* on every way out: run returned, run threw, COMMIT or ROLLBACK threw.     *)
(****************************************************************************)
NothingPending == Idle => mode = "autocommit" /\ view = disk

(****************************************************************************)
(* A call that throws leaves the file as it was when the call began.  For   *)
(* transaction() and insert_many_records that is the file before all that   *)
(* was done inside, whichever statement, BEGIN, COMMIT or ROLLBACK of it    *)
(* failed, and also when the process dies before they return.  The one      *)
(* exception is a call whose transaction SQLite has ended in the middle (ON *)
(* CONFLICT ROLLBACK, caught inside run): what run does then is no longer   *)
(* undone, and before is NoPromise.                                         *)
(****************************************************************************)
EndsUndone ==
    \/ /\ EndTransaction \/ RunThrew \/ InsertManyEnds \/ InsertManyThrew
       /\ thrown' # "nothing"
    \/ Reopen

FailedCallsLeaveDisk ==
    [][/\ thrown = "nothing" /\ thrown' # "nothing" => disk' = disk
       /\ EndsUndone /\ before # NoPromise => disk' = before]_vars

(****************************************************************************)
(* A transaction() whose transaction SQLite has ended in the middle of run  *)
(* does not return, even when run caught the error and returned: COMMIT     *)
(* finds nothing to commit and throws, so that a call that returns has kept *)
(* all that was done inside it.                                             *)
(****************************************************************************)
LossIsReported ==
    [][(EndTransaction \/ InsertManyEnds) /\ before = NoPromise
        => thrown' # "nothing"]_vars

(****************************************************************************)
(* "when the table has a rowid column we set the id after insertion"        *)
(* (connection.hpp): after insert_record returns, the record's id names the *)
(* row that holds the record.                                               *)
(****************************************************************************)
InsertedIdNamesRow ==
    [][\A o \in Objects, k \in Keys :
        InsertRecord(o, k) /\ thrown' = "nothing" =>
            \E i \in Ids : held'[o] = i /\ view'[TableOf[o]][i] = k]_vars

(****************************************************************************)
(* transaction() ends with `throw;`: its caller gets the exception that run *)
(* threw, so that a constraint error stays a constraint error.              *)
(****************************************************************************)
RethrowsCause == [][RunThrew \/ InsertManyThrew => thrown' = thrown]_vars

(****************************************************************************)
(* transaction() is all or nothing, also seen from inside the program: all  *)
(* when it returns, nothing when it throws or the process dies.             *)
(****************************************************************************)
Scope == IF Idle THEN "none" ELSE "open"
Raised == thrown # "nothing"

Atomic == INSTANCE AtomicStore
    WITH States <- Contents, store <- disk, seen <- view, scope <- Scope,
         raised <- Raised

AllOrNothing == Atomic!Spec
=============================================================================
