# A TLA+ model of zxorm

zxorm is a header-only C++20 object-relational mapper over SQLite. A program
describes its classes with `Table` and `Column` templates and opens a
`Connection<Tables...>`; everything else is generated at compile time or sent to
SQLite as text with bound parameters. This directory holds TLA+ modules for the
parts of it that have state or take decisions, TLC configurations that check
them on small instances, and proofs, checked by TLAPS, of what matters most.

Source paths below are relative to `src/include/zxorm/` unless they say otherwise.

## 1. The system

| Component | Source | State | Operations |
|---|---|---|---|
| Statement | `orm/statement.hpp` | the `sqlite3_stmt`, `_is_bound`, `_done`, `_step_count` | constructor, `bind`, `rewind`, `reset`, `step`, `read_column` |
| Connection, records | `orm/connection.hpp` | the database handle, `_query_cache`, `_insert_statement_cache`, `_update_statement_cache` | `insert_record`, `update_record`, `delete_record`, `find_record`, `first`, `last`, `truncate` |
| Connection, transactions | `orm/connection.hpp` 591-603 | the engine's open transaction | `transaction(run)` |
| Batch insertion | `orm/connection.hpp` 647-696, `orm/table.hpp` 167-210 | the loop's counters, one statement | `insert_many_records`, `Table::insert_query` |
| Prepared queries and iterators | `orm/record_iterator.hpp`, `orm/query/prepared_query/` | a `Statement` shared by all of them, `_current` | `exec`, `rebind`, `begin`, `++`, `==`, `to_vector`, `read_row` |
| Joins | `orm/query/clause.hpp`, `orm/connection.hpp` 307-548 | none at run time: types | `Join`, `JoinOn`, `make_joins`, optionality of results |
| Query builders | `orm/query/builder/` | clauses, the statement once prepared | `where_one/many`, `one`, `many`, `limit`, `order_by`, `group_by` |
| Schema | `orm/connection.hpp` 739-762, `orm/table.hpp` 143-165 | none | `create_tables`, `count_tables` |
| Columns, types, constraints | `orm/column.hpp`, `orm/types.hpp`, `orm/constraints.hpp` | none | text of a column, type inference, conflict clauses |
| Expressions, fields | `orm/expression.hpp`, `orm/field.hpp` | none | text and bindings of WHERE |
| Errors, logger, helpers | `error.hpp`, `logger.hpp`, `common.hpp`, `helpers/` | none | |

How they interact. Every call ends in a `Statement`. `transaction`, `truncate`
and `create_tables` make statements for one use; the record operations keep one
statement for each table and operation in the caches, for as long as the
connection lives, and reset it before they use it again; a query builder keeps
one statement and hands it, as a `shared_ptr`, to every prepared query made from
it, and a prepared query hands it on to every `RecordIterator`. `transaction`
calls back into the program (`run`), which may call the connection again.
Errors are exceptions: whatever a statement throws passes through the record
operations, through `run` and through the catch handler of `transaction`.

What is hard in it. No thread is ever started, and the README's rule is one
connection per thread. What is concurrent are the loops over one statement,
callbacks inside `transaction`, and other connections, in other threads or
processes, on the same file: which locks a connection holds depends on the
statements the library leaves in its caches. The states that tests hardly reach come from failures: a statement after
a failed step, a transaction after an exception, a batch whose last statement
fails. The other source of trouble is what is computed at compile time for every
schema and every query, where a test covers one schema: the layout of an INSERT,
the search for a foreign key, which tables of an outer join may be missing, which
constraints a column gets and how wide its integers are.

What makes each part correct:

- Statement: its flags say what the engine's state is; no step with an unset parameter.
- Connection: after any call nothing is pending; a call that throws leaves the file as it was when
  the call began, whole transactions included; ids name rows.
- `transaction`: all of its effects when it returns, none when it throws, and the cause of a failure reaches the caller.
- `insert_many_records`: every record in its row, every member in its column; it returns when SQLite was given all, or throws with none stored.
- Iterators: no row handed out twice, none lost but those the row reader throws at, and every loop ends.
- Several connections: the file holds every increment that was committed, and a record that was found stays true.
- Query builders: a value runs in the place it was meant for, together with values of the same bind only.
- Schema: all tables once `create_tables` has returned, none of its own before; a column takes every value its member can have.
- Values: what was inserted is read back.
- Joins: what is related can be joined, and of several foreign keys the one of the earliest table decides; every row the engine returns is read as it is.

## 2. Modules

| Module | Models | Composed of |
|---|---|---|
| `Phases` | the phases of a statement and what a rewind and a step make of them | |
| `StatementPhase` | abstract: a statement as its callers see it | `Phases` |
| `Statement` | `zxorm::Statement` beside the engine's statement | `Phases`, implements `StatementPhase` |
| `Contents` | the rows of the tables and what SQLite does to them (external) | |
| `AtomicStore` | abstract: what `transaction` promises of its effects when it returns, throws or dies | |
| `Connection` | record operations, caches, transactions, batch insertion row by row | `Contents`, `Phases`, implements `AtomicStore` |
| `InsertQuery` | where `insert_query` puts NULL and ?, where the bind loops put members, which clauses sacrifice rows | |
| `BatchInsert` | the loop of `insert_many_records` | `InsertQuery` |
| `Cursor` | a prepared select and the loops over its results | `Phases` |
| `SharedDb` | several connections on one file, with SQLite's locks | |
| `QueryBuilder` | a query builder used again, and the prepared queries made from it | `Phases` |
| `Schema` | constraint inference and `create_tables` | |
| `ColumnValues` | a member's value from `insert_record` to `find_record` | `Schema` |
| `Joins` | joined queries, what the library concludes and what SQLite returns | |
| `ReadRow` | `read_row`: from a row of a joined query to the caller's tuple | `Joins` |
| `JoinChain` | `make_joins` and `__join_impl`: the search for foreign keys | |

`MC*` modules and `MC*.cfg` give the constants values. `*Proofs` modules hold the
theorems.

### Statement

`done`, `stepCount`, `known` (the keys of `_is_bound`) and `isBound` (those
mapped to true) are the wrapper's members; `vm`, `rc` and `bindings` are the
engine's statement as the wrapper uses it. Each public method is an action, and
callers may call them in any order, also in orders no query class uses. `outcome`
is how the last call ended. Three facts of SQLite are built in: a bind is refused
while a statement is between its first step and a reset, `sqlite3_reset`
repeats the error of the last failed step and rewinds all the same, and a step of
a halted statement starts it again. The constructor is translated as it is
written, `for (size_t i = 1; i == _parameter_count; i++)`.

A step that fails throws before `_done` is assigned, and a rewind that
throws leaves every flag as it was. `StatementPhase` says what is left for
callers to know: `ready`, `row`, `done` or `failed`, a rewind that throws exactly
from `failed`. `Connection` and `Cursor` use those phases in place of whole
statements, which is sound because `Statement` implements `StatementPhase`.

### Connection

A public call is an action, except `transaction(run)`, whose `run` is the caller's
code: it is `BeginTransaction`, whatever calls the caller makes, and
`EndTransaction` or `RunThrew`. The caller may throw an exception of its own
(`CallerThrows`), or catch one (`CallerCatches`), inside `run` or outside.
`insert_many_records` runs the library's own `run`, so it is split into
`InsertManyBegins`, one step for each row, and its two ends, with no other call in between.

`disk` is the committed file and `view` what this connection reads; they differ
only inside a transaction. `mode` is SQLite's own idea of whether a transaction is
open, `depth` and `job` the library's. A table is cut down to its rowid and one
UNIQUE column: any constraint error of a row is a clash in that column, and the
table's conflict clause decides the row's fate. ABORT and FAIL differ only in
statements of several rows, which occur only inside `insert_many_records`, where
the rollback follows at once. `slots` are the caches: `none` before first use, then
the phase of the cached statement, and a `failed` one throws at the next call
(`Poisoned`). `Slots` says which of them the program uses. `Fails` is SQLITE_BUSY,
when other connections are `Contended`; what those connections do is in `SharedDb`.
`Reopen` is a crash and a new process.

`before` is a history variable: the file when the `transaction` or `insert_many_records` began
whose transaction is open, and `NoPromise` once SQLite has ended that transaction, by COMMIT,
ROLLBACK or a conflict clause. `FailedCallsLeaveDisk` compares the file with it at the end of every
call that throws, and at a crash. `AtomicStore` ties outcomes to effects: a transaction that returns
(`Succeed`) keeps what was done inside, one that throws (`Abandon`) drops it, and so does a crash; its
`raised` is the exception in flight in `Connection`, so that a handler which commits and rethrows,
or an end which rolls back and returns, is not a behaviour of it.

### InsertQuery and BatchInsert

A table is its number of columns, the position of its auto increment column, and which of IGNORE and
REPLACE its UNIQUE and NOT NULL constraints declare.
`NullColumn` is what `bool auto_inc_idx` makes of that position; `Members` is
what the bind loops bind. A member is named by its record and column, so that a
stored row shows which value went where. `BatchInsert` is the loop: the three
branches (shrink, first, reuse), the binds, the step. It may fail at every
statement (syntax error for no rows, too many parameters, a refused bind, a
failed step); `transaction` then rolls back, which is `Threw`. `given` are the rows of the
INSERTs that succeeded and `kept` those of them that are in the table: a step with a conflict
clause that sacrifices rows may leave fewer (`MayRemain`), since IGNORE skips rows of the
statement, and REPLACE deletes rows that were there or came before in the same statement, though
never the last.

### Cursor

All loops of the program over one prepared query share `phase`, `at` and
`binding`. `handed` and `alone` are history variables: which loop got which row since the
query last started, and which loop, if any, nobody has interfered with since its
`begin()`. The model contains nested loops, loops left by `break` or by an
exception, `exec` and `rebind` in the body of a loop, steps that fail and the
rewinds that throw after them. The row reader may throw after the step (`Unreadable` are the rows it
throws at, `ReadRow` says when): the engine has gone on, the exception leaves the loop, and the row
is in `handed` as `Lost`.

### SharedDb

Every connection finds one record, counts it up and updates it, inside
`transaction` or outside. A call is two steps of its thread, the reset of the
cached statement and its `sqlite3_step`, because other threads run in between:
`FindRebinds` and `FindSteps`, `UpdateRebinds` and `UpdateSteps`; `Begin`,
`RunReturned` and `RunThrew` are `transaction`. `find` and `update` are the two cached
statements: `find` stays on its "row" after a call that found one, as the library
leaves it, and holds the SHARED lock with it; `update` stays "busy" (active) after a
lock stopped it half way, and "failed" after SQLite undid it. `lock` is SQLite's lock,
`view` the connection's page cache, `disk` the file. The locks are those of a rollback
journal without a busy handler, which is what the constructor sets up; EXCLUSIVE is
never seen, since a step or a COMMIT takes and leaves it. A process may die
at any point (`Restarts`). `committed` is a history variable: the increments of the updates and COMMITs
that went through, whatever the file holds.

### QueryBuilder

`where` and `clauses` are the builder's members, `text` what its statement was
prepared from, `slots` and `known` the parameters of the engine and of the
wrapper. A call of `where_one`, `where_many`, `one` or `many` sets them and runs `prepare`,
whole: the text is made by the first and only bound by the others. `rebind` takes
values of the types a prepared query was made with, and containers of any size.
A value is named by the field it is compared with and its index there, so that it shows in whose
place it runs. The program's expressions are numbered in the order it builds them
(`Built`): one made by `&&` or `||` has operands with lower numbers. The ? of a text and the
tuple of its bindings are computed by two walks through an expression, as in the code
(`Places`, `Bindings`), which are recursive functions of its number; `PlacesOf` and
`BindingsOf` add the query without a WHERE.

### Schema and ColumnValues

A column is its member's type and its declared constraints; `Inferred` adds the ones
of `column.hpp`. A table is its name and one column. `create_tables` is split into the preparation of
all statements, the BEGIN, each statement and the COMMIT, since other processes may create some
of the tables in between. `tables` are those in the file, `pending` those in the transaction of this
connection, `others` and `returned` history. A statement may fail, and the handler rolls back; COMMIT may
be refused with SQLITE_BUSY, outside the try block, and the transaction stays open with its tables
(`CommitTablesRefused`), so that later calls fail at BEGIN; the process may die. Two classes mapped to
one name make the second statement fail, unless it says IF NOT EXISTS. `ColumnValues` takes every value of every member type through
`insert_record` (`Bound`, then the NOT NULL clause) and `find_record` (`Read`). An integer is
cut to 4 or 8 bytes by the size of the member, where an optional counts double, and
read back the same way, modulo 2^w. A container is its elements; it binds as NULL
when it is empty and reads back as many elements as the column has bytes. `ByteLimit` is the
scale: 128 in the code, where a byte has eight bits.

### Joins, ReadRow, JoinChain

These are compile-time computations with an answer at run time. `Joins` has both
sides: `ResultsAreOptional` and `IsOptional` are the library's conclusion,
`JoinedRows` is the SQL semantics of the join, one table after the other. `ReadRow` takes every query, every
ON condition, every select list and every resulting row through `read_row`. A row of a table is a
number, which is both its primary key and its field, so that 0 is a record that `row_is_null` takes for a
missing one.
`JoinChain` takes every set of foreign keys and every order of `Join` clauses
through the search; a clause for which it goes wrong does not compile, and
`refused` says whether the table was related to one of the query all the same.

## 3. What the runs check

| Run | Checks | Bounds | States |
|---|---|---|---|
| `statement` | `TypeOK`, `DoneMeansCompleted`, `FlagsMatchEngine`, `ReboundBeforeRun`, `PhaseSpec` | 3 parameters, 2 values, 3 steps between rewinds | 854 |
| `connection` | `TypeOK`, `NothingPending`, `AllOrNothing`, `InsertedIdNamesRow`, `RethrowsCause` | 2 tables (ABORT, REPLACE), 2 keys, 2 ids, 2 objects, cached insert and update, crashes | 339 000 |
| `connection_contended` | `FailedCallsLeaveDisk` | 2 tables (ROLLBACK, IGNORE), 1 key, 5 cached operations, SQLITE_BUSY, foreign exceptions, crashes | 1 113 000 |
| `shared_db` | `TypeOK`, `ReadsStayTrue`, `NoLostUpdates` | 3 connections (interchangeable), 3 increments | 655 000 |
| `batch_insert` | `TypeOK`, `RecordsInTheirColumns`, `AllOrNone`, `Terminates` | tables of 1 to 3 columns with IGNORE, REPLACE, both or neither, up to 7 records, batches up to 5, 9 parameters | 45 000 |
| `cursor` | `TypeOK`, `RowsAreSharedOut`, `AloneGetsAll`, `LoopsEnd` | 2 loops, queries of 0, 1 and 3 rows, failing steps, unreadable rows (the only one, the middle one) | 3 848 |
| `query_builder` | `TypeOK`, `BoundTogether`, `ValuesInTheirPlaces`, `ClausesAsAsked` | conditions with one container of 0 to 2 values or two of 1 and 2, one with its fields in the other order, LIMIT 1 and 2, 2 queries | 166 000 |
| `read_row` | `TypeOK`, `ResultIsRow`, `OnlyStarsAndZerosThrow` | 2 and 3 tables of 2 rows (one with a key and a field of 0), all join types, all ON conditions, 11 select lists | 504 000 |
| `join_chain` | `TwoJoinsAreFound`, `FirstKeyIsTaken` | 4 tables, all foreign keys, all orders of clauses | 205 000 |
| `column_values` | `TypeOK`, `TablesTogether`, `ReadsWhatWasInserted`, `RefusedForCause` | integers of 1, 2, 4 and 8 bytes of one bit, bool, real, text and blob with elements of 1 and 4 bytes; optional or not; all NOT NULL clauses and defaults; all foreign key actions; two tables, of two names or one | 80 000 |

Why the bounds are enough. Statement: the code treats parameters alike, except
that the constructor registers the only parameter of a query that has one; three
parameters give none bound, some and all, and three steps allow row, row, end and every
failure between them. Connection: two ids and two keys give a clash with another
row, with the row itself, and a full table (at `MaxId` the model inserts no
more); two rows per batch give a failure before, between and after rows; depth 2
gives the refused nested transaction and, after ON CONFLICT ROLLBACK, an accepted
one. The two tables are there for transactions over two tables,
`last_insert_rowid` of another table, and two conflict clauses at once;
`connection_contended` gives up the second key (a second row of one key clashes all the
same) for five cached operations, lock conflicts and foreign exceptions, because the
caches multiply the states. FAIL behaves as ABORT here (section 2), so no run has it.
SharedDb: three connections give a writer, a reader that keeps it from
committing, and one that comes in between; three increments let each of them commit
one. Batches: 7 records and batches up to 5
give no batch, an exact one, several and a remainder, and 9 parameters are too
few for 5 rows of 2; which rows a clause sacrifices is left open, so every subset occurs. Cursor: the smallest counts with an empty result, one row,
and a middle row, each of the latter two also unreadable. QueryBuilder: a container of 0, 1 and 2 values is refused by the
text, shorter, or longer than another; two queries are the first and a later
one; `order_by` and `group_by` are set and frozen in the same way as `limit` and are left
to `ClauseNames`, as adding them only multiplies the states. Joins: a star and a chain
need three tables. In `JoinChain` the
third clause, the first that the search may get wrong, needs four tables.
ColumnValues: `ByteLimit` = 1, a byte of one bit, keeps the order of the widths and the cut at 4 bytes,
so that 4 and 8 bytes have 16 and 256 values and every one is tried; the code
depends on a width only through those sizes. Containers have up to `MaxElements` = 2 elements: none,
one, and more than one. Two tables are enough for a first statement to succeed and a second to fail.

`CHECK_DEADLOCK FALSE` stands in the configurations whose system ends: a call of
`insert_many_records` returns, a row is read once, a query has its last clause, a
value is inserted and read once. In the others, states with no successor are errors.

### Disagreements between the code and what is said of it

Two runs are ones that TLC refutes, each listed with its line under "findings" in
`PROJECT.json`.

| Run | Property | What happens |
|---|---|---|
| `batch_insert_late_auto` | `RecordsInTheirColumns` | the integer primary key is the third column; NULL goes to the second |
| `shared_db_stuck` | `TransactionsEnd` | another connection's `find_record` has left its query on a row; COMMIT fails with SQLITE_BUSY outside the try block, the transaction and its PENDING lock stay |

The models show more of them. Each of the following has no run of its own; the last column says
which constants of which configuration to change, and TLC then gives the behaviour.

| Property | What happens | To see it |
|---|---|---|
| `AllBoundBeforeRun` | a query of two parameters runs with none bound: the loop of the constructor registers none | `MCStatement`, as a property |
| `InsertedIdNamesRow` | the insertion is ignored, the record gets another row's id | `MCConnection`, `OnConflict <- EndingPolicies` |
| `RethrowsCause` | after ON CONFLICT ROLLBACK the handler's own ROLLBACK throws in place of the constraint error | the same |
| `AllOrNothing` | ON CONFLICT ROLLBACK inside `run`, caught there; what follows is committed call by call | the same |
| `LossIsReported` | as before, but `run` then calls `insert_many_records`, whose COMMIT is refused with SQLITE_BUSY and leaves its transaction open; the outer COMMIT ends that one and `transaction` returns; an inner `transaction` left open by a foreign exception does the same | `MCConnectionContended.cfg`, as a property; also with one of `Contended`, `ForeignThrows` set to FALSE (with both the property holds) |
| `NothingPending` | `run` throws what is not a `zxorm::Error`; the transaction stays open | `MCConnection`, `ForeignThrows = TRUE` |
| `NothingPending` | COMMIT is refused with SQLITE_BUSY; the transaction stays open | `MCConnection`, `Contended = TRUE` |
| `EveryMemberFits` | no integer primary key; the second column has NULL for ?, and a bind is refused | `MCBatchInsert`, `TableSet <- PlainTables`, as an invariant |
| `EveryRowIsRead` | INNER, then RIGHT join to the first table, a selected field or a primary key that is 0, or two fields selected under a LEFT join: `read_row` throws `bad_optional_access` | `MCReadRow`, as an invariant |
| `ValuesInTheirPlaces`, with `TypesOf[asked.where] = TypesOf[text.where]` for `SameComparisons` | a query rebound with values of the same types for other fields, or in another order of the fields, runs with them in each other's places | `MCQueryBuilder` |
| `refused # "related"` | the related table is the third of the query or a later one; the clause does not compile | `MCJoinChain`, as an invariant |

Some are named by the passing properties themselves. Two IN clauses rebound with sizes that add up to the old
ones run with values in each other's places (`ValuesInTheirPlaces` asks for one
container), as values of the same types for the fields in another order do
(`SameComparisons`), and a `where_one` that threw leaves its LIMIT 1 behind (`ClausesAsAsked`). A single
record of a missing table is read as zeros, and so, in a star, is a single field of a
table for which a later RIGHT or FULL join to the first one found no row: only the table's own join says whether
the field is optional; and a record whose primary key is 0 comes back from an outer join as nullopt
although it is there (`ResultIsRow`). Containers with
wide elements, optionals of an empty container, and NaN do not come back as they were
(`ReadsWhatWasInserted`). With IGNORE or REPLACE `insert_many_records` returns with fewer rows than
records (`AllOrNone`), and a row whose read throws is consumed (`RowsAreSharedOut`). After an ON CONFLICT
ROLLBACK caught inside `run` the promise of `FailedCallsLeaveDisk` is void for that
transaction; that the call at least does not return is proved (`LostTransactionsThrow`). A foreign key action of set_null or set_default
makes `create_tables` throw (`TablesTogether` holds: there are none).

What the passing runs leave out is exactly this:

- `connection` has no ROLLBACK and no IGNORE clause, no SQLITE_BUSY and no foreign exceptions, which
  `connection_contended` has; its five properties are refuted or void with them, as the table shows.
- `batch_insert` has no late auto increment column.
- `ReboundBeforeRun` speaks of parameters that were bound once: a query of several parameters that
  none was ever bound to is `AllBoundBeforeRun` in the table above, and no run has a query of one parameter.
- `ClausesAsAsked` excuses a builder whose `where_one` threw, and its run has LIMIT as the only clause.
- No select list of `read_row` has two fields, so that the index found by type is never a wrong one there,
  and `OnlyStarsAndZerosThrow` excuses every star, also those that are read well.
- `TwoJoinsAreFound` says nothing of the third `Join` clause, which may be refused.
- `RefusedForCause` lets an empty vector be refused by the NOT NULL the library infers for it.

### Fairness

`BatchInsert` has weak fairness of `Next`: the loop is straight-line code of one
thread and nothing in it waits. `Cursor` has weak fairness of `Advance` of every
loop: a range-for goes on by itself as long as its body returns; nothing is
assumed of `exec`, `rebind` or other loops' begins, which is why `LoopsEnd` speaks
of a loop nobody interferes with. A loop that is interfered with may indeed go
on for ever: two loops that rewind each other's statement do. `SharedDb` has, for
every connection, weak fairness of what goes on by itself once called (the step after a
reset, the catch handler), and strong fairness of the end of `run`, which returns or
throws: a program that finds and updates again and again inside `run` still leaves it.
Nothing is assumed of calls the program may or may not make. With less fairness
`TransactionsEnd` would be refuted by a thread that stops. The other modules are
safety only.

## 4. What is proved

`StatementProofs` proves, for every number of parameters and every set of values,
`DoneMeansCompleted`, `FlagsMatchEngine`, `ReboundBeforeRun` and the refinement
`PhaseSpec`, besides the type invariant. None is inductive alone. A reset that throws sets `rc` to ok and leaves
`_done` as it was, so `_done` is faithful only because a failed run was a halted
one that never set it: `FailedRunIsHalted` is added, and the four conjuncts of
`IInv` are inductive together.

`ConnectionProofs` proves, for every database, conflict clause and program:

- `TypeCorrect` and `FailuresAreHarmless` (`FailedCallsLeaveDisk`), without assumptions. The second
  describes every record call by its effect on data (`DataEffect`) and goes through
  the ways a step may change the disk (`DiskNeedsReturn`). Its inductive invariant `PromiseIsKept` says that
  as long as `before` stands the engine's transaction is open and the file is `before`, so that a call
  that ends with an exception, or a crash, finds the file it began with.
- `IdsNameRows` (`InsertedIdNamesRow`), assuming that no table is declared ON CONFLICT
  IGNORE (`NoIgnoreClause`), without which TLC refutes it.
- `NothingIsLeftPending`, assuming `Undisturbed` (no SQLITE_BUSY at COMMIT, no
  foreign exception); each is needed, since setting `Contended` or `ForeignThrows`
  to TRUE in `MCConnection.cfg` makes TLC refute the property. The
  inductive `PendingInv` adds that outside a transaction `view = disk`.
- `LostTransactionsThrow` (`LossIsReported`, which no run checks), also assuming `Undisturbed`, which the
  table above shows to be needed. `OpenIsPromised` says that an open transaction is always one that `before` stands for: when
  the promise is gone, so is the transaction, and COMMIT fails.
- `CauseIsRethrown` and `TransactionsAreAtomic` (the refinement of
  `AtomicStore`), assuming also `NoRollbackClause`. The strengthening `ScopeInv`
  says that the library's idea of an open transaction and the engine's are the
  same, and that they never nest; it is what ON CONFLICT ROLLBACK breaks. The refinement has one step
  for each way out: a COMMIT that returns is `Succeed`, the handler is `Abandon`.

`BatchInsertProofs` proves, for every table, batch size, record count and parameter
limit, `RecordsInTheirColumns` and `AllOrNone` under `EarlyAuto` (the auto
increment column is the first or second, or there is none) and `EveryMemberFits`
under `Agreeing` (the layout of the query agrees with the members). The inductive
`BatchInv` says how many rows SQLite was given at each point of the loop
(`LoopInv`), what is in them and in the parameters (`DataInv`), and which of them the clauses of the table
have left (`KeptInv`: all of them, or with REPLACE alone at least the last). Without an auto
increment column and with two columns or more, a full statement has too few
parameters; the proof shows that no row is then ever given to SQLite. `BatchTypeCorrect` needs
the invariant too: that `inserted` never exceeds `size` rests on the batch shrinking first.

`SharedDbProofs` proves, for any number of connections and any number of increments,
`ReadsStayTrue` and `NoLostUpdates`. Neither is inductive. `SoundDb` says what every
connection's locks stand for: whoever holds one reads the file and its own
increments (`Cached`), increments are made under a write lock in a
transaction (`AddsUnderLock`, `WritesInside`), and the record the program holds is that
of a query on its row, which has a lock (`SeenIsRow`, `RowIsLocked`). No update is lost
because an UPDATE that succeeds outside a transaction, or a COMMIT, needs all other
locks to be gone, and the locks of the queries left on their rows are among them: what is then written is the file and one's own
increments, which is what `EachIsCounted` adds to `committed`. The same
statement left on its row is what `shared_db_stuck` blames; the library gets its
consistency and its stuck COMMIT from one cause.

`CursorProofs` proves `RowsAreSharedOut` and `AloneGetsAll` for every set of loops and
queries of any length, with one more conjunct: as many rows have been handed out as
the engine has gone through (`HandedAsFarAsEngine`), the row a reader threw at included.

`JoinsProofs` has two parts. Over `JoinChain` it proves `TwoJoinsAreFound` and
`FirstKeyIsTaken` for every set of tables and foreign keys and chains of any length.
The first rests on what a place in a chain of at most two is (`EarlySearch`: the `bool` holds it). The second holds in spite of the
`bool`: the search finds the least place (`SearchFindsFirst`), every place after the second becomes the second,
and there the new table's key is missing, because the search would have stopped (`FoundIsTaken`), so a clause
that compiles is one the `bool` did not spoil. Over `ReadRow` it proves `TypeOK`, `ResultIsRow` and
`OnlyStarsAndZerosThrow` for every number of joins, any rows, ON conditions and select lists (the
last under `OneFieldAtMost`, without which the index by type goes wrong). What `JoinedRows` returns is
found by a walk along the joins: a table may be NULL in a row only if an outer join says so, and
in a nested query every result is optional. The library's induction theorems
cannot be used, so the walk is an induction of its own: `LeastElement` gives the
first join for which a claim would fail, and that one follows from the join before. The proof found
the case of a single field of a star query, which an earlier `ResultIsRow` denied and no select list of
the run had; it is in the property and in the run now.

`ColumnValuesProofs` proves `TypeOK`, `TablesTogether`, `ReadsWhatWasInserted` and `RefusedForCause`
for every set of mapped tables, member types, constraints and
values, and for a byte of any size. `TablesTogether` needs to know what waits in an open transaction and how far a
call has come (`SchemaInv`): COMMIT is reached when every table is in the file or pending, and a
transaction that a refused COMMIT left open shuts out every later call. `RefusedForCause` rests on `InferredForCause`: inference
adds NOT NULL only to a member that is neither optional nor a string. The two about values rest on
`RowIsStored`: the row holds what `bind` makes of the object, unless a default stands in for it. The
rest is arithmetic modulo 2^w: the limits of the widths divide one another (`LimitsDivide`), so an
integer that was cut to 4 or 8 bytes and then to its own width is itself again (`IntegerComesBack`).

`QueryBuilderProofs` proves `TypeOK`, `BoundTogether`, `ValuesInTheirPlaces` and `ClausesAsAsked` for
every set of expressions, of any size and nesting, and any number of calls. `BuilderInv` says which
values the statement holds, all of one bind (`StatementOK`, `SetTogether`), that they are those asked for
last unless that bind was refused (`HoldsAsked`), and that before the first query the clauses are those asked
for (`FirstQuery`). About the walks through an expression it needs that they are what their
equations say (`FoldExists`, `FoldIsUnique`), that the text's places and the bindings are one
sequence (`PlacesAreBindings`), and that the place where a comparison's values begin is the sum of the sizes
before it (`BindingsAreLaid`). With the same fields, the same types and one container at most, a bind that
fits has the sizes of the text (`AlikeEnds`, `SameValues`), which is why one longer container is
refused and one shorter leaves a parameter unset. These too are inductions by a
least element, over the numbers of the expressions.

With them every safety invariant, action property and refinement of the passing runs is stated by a
theorem. Only model-checked is liveness (`Terminates`, `LoopsEnd`, the refutation of
`TransactionsEnd`), which is out of the prover's reach, and what the two violation runs refute.
`OneFieldAtMost`, `EarlyAuto`, `Agreeing`, `Undisturbed`, `NoRollbackClause` and `NoIgnoreClause` are
hypotheses of single theorems, each with states that satisfy it and needed as said above; the runs
keep to them by their constants.

## 5. What is not modelled

- What SQLite does for a foreign key, COLLATE, and `set_foreign_keys`, which only
  turns the former on; `count_tables`, which changes no state.
- Which operator a comparison has, the order of a query's rows, messages of errors, the logger.
- The failure of `sqlite3_open_v2`, and the exception of a connection's deleter.
- Lifetimes and casts of C++ objects: expressions kept in a variable, the cache entry
  of `find_record` cast to the type of another id, a moved connection.
- SQLite's WAL journal and busy handlers, which the library never sets, and what
  a program does with the database handle of its own.
- In `SharedDb`, statements other than `find_record` and `update_record`: the others take
  locks in one of those two ways.
- In `Schema`, mapped tables that differ from those in the file, and what a program may still do in a
  transaction that a refused COMMIT of `create_tables` left open.
- How a WHERE compares a stored number with one of another type.
- In `BatchInsert`, which rows clash: which of them IGNORE and REPLACE sacrifice is open. Clauses of
  foreign keys do not exist, and ROLLBACK and FAIL end in the handler.

## 6. Plan

The order is by how much of the program rests on the part: statements first, then
the connection that caches them and its transactions, then batch insertion,
cursors, what the compile-time computations promise, query builders, several
connections, and values and schema. All of that is done. What could follow:

1. `Cursor` as the refinement of a query's rows handed out once, and as what
   `Connection`'s `ReadRecord` does; and the proof of that refinement.
2. `SharedDb` with `insert_many_records` and loops over a cursor as further holders of locks,
   and `create_tables` of `Schema` as one of its transactions.
3. Which select lists with two fields of one type are read right: `OnlyStarsAndZerosThrow` without
   `OneFieldAtMost`, and the stars for which it holds.
