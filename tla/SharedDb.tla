------------------------------ MODULE SharedDb ------------------------------
(****************************************************************************)
(* Several zxorm::Connections on one database file, one to a thread, as the *)
(* README allows: each finds a record, counts it up and updates it, inside  *)
(* transaction() or outside.  What stands between two of them is SQLite's   *)
(* lock protocol (a rollback journal and no busy handler, which is what the *)
(* constructor leaves), and which locks a connection holds depends on the   *)
(* statements the library keeps in its caches.                              *)
(*                                                                          *)
(* A call of find_record or update_record is two steps of its thread, the   *)
(* reset of the cached statement and the sqlite3_step; calls of other       *)
(* threads come in between.                                                 *)
(****************************************************************************)
EXTENDS Integers

CONSTANTS
    Connections,
    MaxValue,    \* bound: how far the record is counted up
    NotRead      \* the program holds no record

ASSUME SharedAssumption == MaxValue \in Nat /\ NotRead \notin Int

VARIABLES
    disk,     \* the record's value in the file
    lock,     \* SQLite's lock of each connection on the file
    open,     \* the engine has an explicit transaction open
    running,  \* transaction() is executing run
    calling,  \* the record call that has reset its statement, if any
    find,     \* the cached SELECT: "idle", on a "row", or "busy"
    update,   \* the cached UPDATE: "idle", "busy" or "failed"
    thrown,   \* an exception is in flight
    seen,     \* the value in the record the program holds
    view,     \* the record's value as the connection's page cache has it
    added,    \* history: increments of the open transaction
    committed \* history: update_record calls that returned and were committed

vars == <<disk, lock, open, running, calling, find, update, thrown, seen,
          view, added, committed>>

Locks == {"none", "shared", "reserved", "pending"}
Values == 0..MaxValue

TypeOK ==
    /\ disk \in Values
    /\ lock \in [Connections -> Locks]
    /\ open \in [Connections -> BOOLEAN]
    /\ running \in [Connections -> BOOLEAN]
    /\ calling \in [Connections -> {"none", "find", "update"}]
    /\ find \in [Connections -> {"idle", "row", "busy"}]
    /\ update \in [Connections -> {"idle", "busy", "failed"}]
    /\ thrown \in [Connections -> BOOLEAN]
    /\ \A c \in Connections : thrown[c] => calling[c] = "none"
    /\ seen \in [Connections -> Values \cup {NotRead}]
    /\ view \in [Connections -> Values]
    /\ added \in [Connections -> Values]
    /\ committed \in Nat

\* every connection is open, and its statements are prepared
Init ==
    /\ disk = 0
    /\ lock = [c \in Connections |-> "none"]
    /\ open = [c \in Connections |-> FALSE]
    /\ running = [c \in Connections |-> FALSE]
    /\ calling = [c \in Connections |-> "none"]
    /\ find = [c \in Connections |-> "idle"]
    /\ update = [c \in Connections |-> "idle"]
    /\ thrown = [c \in Connections |-> FALSE]
    /\ seen = [c \in Connections |-> NotRead]
    /\ view = [c \in Connections |-> 0]
    /\ added = [c \in Connections |-> 0]
    /\ committed = 0

-----------------------------------------------------------------------------
(****************************************************************************)
(* SQLite's locks.  Others are InStep while they may hold a lock for the    *)
(* time of a step only, or be about to commit.                              *)
(****************************************************************************)
Others(c) == Connections \ {c}

InStep(c) == \E d \in Others(c) : calling[d] # "none" \/ lock[d] = "reserved"

MayShare(c) == lock[c] # "none" \/ \A d \in Others(c) : lock[d] # "pending"

MayReserve(c) ==
    /\ MayShare(c)
    /\ \A d \in Others(c) : lock[d] \notin {"reserved", "pending"}

Writes(c) == lock[c] \in {"reserved", "pending"}

MayWriteFile(c) == \A d \in Others(c) : lock[d] = "none"

\* what the connection reads: a cache without a lock is not trusted
Reads(c) == IF lock[c] = "none" THEN disk ELSE view[c]

(****************************************************************************)
(* The lock after a statement or a transaction ended: none, but a statement *)
(* of the same connection that is still active keeps a read lock.           *)
(****************************************************************************)
Released(c, active) ==
    IF active /\ lock[c] # "none" THEN "shared" ELSE "none"

AfterStatement(c, active) ==
    IF open[c] THEN lock[c] ELSE Released(c, active)

FindIsActive(c) == find[c] # "idle"
UpdateIsActive(c) == update[c] = "busy"

Throws(c) == thrown' = [thrown EXCEPT ![c] = TRUE]

\* the program's turn in the thread of c
ProgramRuns(c) == ~thrown[c] /\ calling[c] = "none"

-----------------------------------------------------------------------------
\* slip: the error of the reset is ignored
FindGoesOn(c) ==
    /\ ProgramRuns(c)
    /\ find' = [find EXCEPT ![c] = "idle"]
    /\ lock' = [lock EXCEPT ![c] = AfterStatement(c, UpdateIsActive(c))]
    /\ seen' = [seen EXCEPT ![c] = NotRead]
    /\ calling' = [calling EXCEPT ![c] = "find"]
    /\ thrown' = [thrown EXCEPT ![c] = find[c] = "busy"]
    /\ UNCHANGED <<disk, open, running, update, view, added, committed>>

(****************************************************************************)
(* find_record, first and last: rebind() or exec() resets the cached query. *)
(* The program forgets the record it had found before.                      *)
(****************************************************************************)
FindRebinds(c) ==
    /\ ProgramRuns(c)
    /\ find' = [find EXCEPT ![c] = "idle"]
    /\ lock' = [lock EXCEPT ![c] = AfterStatement(c, UpdateIsActive(c))]
    /\ seen' = [seen EXCEPT ![c] = NotRead]
    /\ IF find[c] = "busy"
       THEN Throws(c) /\ UNCHANGED calling
       ELSE /\ calling' = [calling EXCEPT ![c] = "find"]
            /\ UNCHANGED thrown
    /\ UNCHANGED <<disk, open, running, update, view, added, committed>>

\* slip: the query is reset when its row has been read
FindsAndResets(c) ==
    /\ MayShare(c)
    /\ view' = [view EXCEPT ![c] = Reads(c)]
    /\ seen' = [seen EXCEPT ![c] = Reads(c)]
    /\ lock' = [lock EXCEPT ![c] =
                    IF open[c] /\ lock[c] = "none" THEN "shared"
                    ELSE AfterStatement(c, UpdateIsActive(c))]
    /\ UNCHANGED <<find, thrown>>

\* the statement is left on its row, and with it the read lock
Finds(c) ==
    /\ MayShare(c)
    /\ view' = [view EXCEPT ![c] = Reads(c)]
    /\ seen' = [seen EXCEPT ![c] = Reads(c)]
    /\ find' = [find EXCEPT ![c] = "row"]
    /\ lock' = [lock EXCEPT ![c] = IF lock[c] = "none" THEN "shared" ELSE lock[c]]
    /\ UNCHANGED thrown

\* no such record: the query ran to its end
FindsNothing(c) ==
    /\ MayShare(c)
    /\ view' = [view EXCEPT ![c] = Reads(c)]
    /\ lock' = [lock EXCEPT ![c] =
                    IF lock[c] # "none" THEN AfterStatement(c, UpdateIsActive(c))
                    ELSE IF open[c] \/ UpdateIsActive(c) THEN "shared"
                    ELSE "none"]
    /\ UNCHANGED <<seen, find, thrown>>

FindIsBusy(c) ==
    /\ lock[c] = "none"
    /\ ~MayShare(c) \/ InStep(c)
    /\ find' = [find EXCEPT ![c] = "busy"]
    /\ Throws(c)
    /\ UNCHANGED <<view, seen, lock>>

FindSteps(c) ==
    /\ calling[c] = "find"
    /\ Finds(c) \/ FindsNothing(c) \/ FindIsBusy(c)
    /\ calling' = [calling EXCEPT ![c] = "none"]
    /\ UNCHANGED <<disk, open, running, update, added, committed>>

-----------------------------------------------------------------------------
(****************************************************************************)
(* update_record of the record that was found, counted up by one.           *)
(****************************************************************************)
UpdateRebinds(c) ==
    /\ ProgramRuns(c)
    /\ seen[c] # NotRead /\ seen[c] < MaxValue
    /\ update' = [update EXCEPT ![c] = "idle"]
    /\ lock' = [lock EXCEPT ![c] = AfterStatement(c, FindIsActive(c))]
    /\ IF update[c] # "idle"
       THEN Throws(c) /\ UNCHANGED calling
       ELSE /\ calling' = [calling EXCEPT ![c] = "update"]
            /\ UNCHANGED thrown
    /\ UNCHANGED <<disk, open, running, find, seen, view, added, committed>>

\* inside a transaction the new value waits for COMMIT
UpdatesInTransaction(c) ==
    /\ open[c]
    /\ MayReserve(c) \/ Writes(c)
    /\ view' = [view EXCEPT ![c] = seen[c] + 1]
    /\ added' = [added EXCEPT ![c] = added[c] + 1]
    /\ seen' = [seen EXCEPT ![c] = NotRead]
    /\ lock' = [lock EXCEPT ![c] = IF Writes(c) THEN lock[c] ELSE "reserved"]
    /\ UNCHANGED <<disk, update, thrown, committed>>

UpdatesFile(c) ==
    /\ ~open[c] /\ MayReserve(c) /\ MayWriteFile(c)
    /\ disk' = seen[c] + 1
    /\ committed' = committed + 1
    /\ view' = [view EXCEPT ![c] = seen[c] + 1]
    /\ seen' = [seen EXCEPT ![c] = NotRead]
    /\ lock' = [lock EXCEPT ![c] = Released(c, FindIsActive(c))]
    /\ UNCHANGED <<added, update, thrown>>

(****************************************************************************)
(* SQLITE_BUSY.  Where another connection is writing the statement stops in *)
(* the middle and stays active; where the statement did its work and others *)
(* still read, SQLite undoes it.                                            *)
(****************************************************************************)
UpdateIsBusy(c) ==
    /\ ~Writes(c)
    /\ ~MayReserve(c) \/ InStep(c)
    /\ update' = [update EXCEPT ![c] = "busy"]
    /\ Throws(c)
    /\ UNCHANGED <<disk, lock, seen, view, added, committed>>

UpdateIsUndone(c) ==
    /\ ~open[c] /\ MayReserve(c)
    /\ ~MayWriteFile(c) \/ InStep(c)
    /\ update' = [update EXCEPT ![c] = "failed"]
    /\ lock' = [lock EXCEPT ![c] = Released(c, FindIsActive(c))]
    /\ Throws(c)
    /\ UNCHANGED <<disk, seen, view, added, committed>>

UpdateSteps(c) ==
    /\ calling[c] = "update"
    /\ \/ UpdatesInTransaction(c) \/ UpdatesFile(c)
       \/ UpdateIsBusy(c) \/ UpdateIsUndone(c)
    /\ calling' = [calling EXCEPT ![c] = "none"]
    /\ UNCHANGED <<open, running, find>>

-----------------------------------------------------------------------------
(****************************************************************************)
(* transaction(run).  BEGIN takes no lock; an engine that has a transaction *)
(* open refuses another.                                                    *)
(****************************************************************************)
Begin(c) ==
    /\ ProgramRuns(c) /\ ~running[c]
    /\ IF open[c]
       THEN Throws(c) /\ UNCHANGED <<open, running>>
       ELSE /\ open' = [open EXCEPT ![c] = TRUE]
            /\ running' = [running EXCEPT ![c] = TRUE]
            /\ UNCHANGED thrown
    /\ UNCHANGED <<disk, lock, calling, find, update, seen, view, added, committed>>

Closes(c) ==
    /\ open' = [open EXCEPT ![c] = FALSE]
    /\ lock' = [lock EXCEPT ![c] =
                    Released(c, FindIsActive(c) \/ UpdateIsActive(c))]
    /\ added' = [added EXCEPT ![c] = 0]

Commits(c) ==
    /\ ~UpdateIsActive(c)
    /\ Writes(c) => MayWriteFile(c)
    /\ disk' = IF Writes(c) THEN view[c] ELSE disk
    /\ committed' = committed + added[c]
    /\ Closes(c)
    /\ UNCHANGED thrown

(****************************************************************************)
(* COMMIT throws, outside the try block of transaction(): a busy UPDATE is  *)
(* still in progress, or others hold locks.  Nothing is rolled back.        *)
(****************************************************************************)
CommitIsRefused(c) ==
    /\ UpdateIsActive(c)
    /\ Throws(c)
    /\ UNCHANGED <<disk, open, lock, added, committed>>

CommitIsBusy(c) ==
    /\ ~UpdateIsActive(c) /\ Writes(c)
    /\ ~MayWriteFile(c) \/ InStep(c)
    /\ Throws(c)
    /\ lock' = [lock EXCEPT ![c] = "pending"]
    /\ UNCHANGED <<disk, open, added, committed>>

RunReturned(c) ==
    /\ ProgramRuns(c) /\ running[c]
    /\ Commits(c) \/ CommitIsRefused(c) \/ CommitIsBusy(c)
    /\ running' = [running EXCEPT ![c] = FALSE]
    /\ UNCHANGED <<calling, find, update, seen, view>>

\* the catch handler: ROLLBACK and throw; what run had found is gone with it
RunThrew(c) ==
    /\ thrown[c] /\ running[c]
    /\ Closes(c)
    /\ view' = [view EXCEPT ![c] = disk]
    /\ seen' = [seen EXCEPT ![c] = NotRead]
    /\ running' = [running EXCEPT ![c] = FALSE]
    /\ UNCHANGED <<disk, calling, find, update, thrown, committed>>

\* the program catches the exception, in run or outside
Catches(c) ==
    /\ thrown[c]
    /\ thrown' = [thrown EXCEPT ![c] = FALSE]
    /\ UNCHANGED <<disk, lock, open, running, calling, find, update, seen,
                   view, added, committed>>

\* the process of c dies and a new one connects: SQLite undoes what was open
Restarts(c) ==
    /\ lock' = [lock EXCEPT ![c] = "none"]
    /\ open' = [open EXCEPT ![c] = FALSE]
    /\ running' = [running EXCEPT ![c] = FALSE]
    /\ calling' = [calling EXCEPT ![c] = "none"]
    /\ find' = [find EXCEPT ![c] = "idle"]
    /\ update' = [update EXCEPT ![c] = "idle"]
    /\ thrown' = [thrown EXCEPT ![c] = FALSE]
    /\ seen' = [seen EXCEPT ![c] = NotRead]
    /\ view' = [view EXCEPT ![c] = 0]
    /\ added' = [added EXCEPT ![c] = 0]
    /\ UNCHANGED <<disk, committed>>

Continues(c) == FindSteps(c) \/ UpdateSteps(c) \/ RunThrew(c)

Next ==
    \E c \in Connections :
        \/ FindRebinds(c) \/ UpdateRebinds(c) \/ Begin(c) \/ RunReturned(c)
        \/ Catches(c) \/ Restarts(c)
        \/ Continues(c)

Spec == Init /\ [][Next]_vars

(****************************************************************************)
(* A call goes on by itself, an exception reaches transaction() or is       *)
(* caught, and run returns or throws: it does not call the connection for   *)
(* ever.                                                                    *)
(****************************************************************************)
Fairness ==
    \A c \in Connections :
        /\ WF_vars(Continues(c))
        /\ SF_vars(RunReturned(c) \/ RunThrew(c))

FairSpec == Spec /\ Fairness

-----------------------------------------------------------------------------
(****************************************************************************)
(* No increment is lost: the file counts every update_record that returned  *)
(* to its program, outside a transaction or in one that was committed, and  *)
(* none that was rolled back.  Two connections that find the same value and *)
(* both write it back counted up by one would be two calls and one count.   *)
(* The library never asks for this: it is the read lock of the SELECT that  *)
(* find_record leaves on its row that sees to it outside transactions.      *)
(****************************************************************************)
NoLostUpdates == disk = committed

(****************************************************************************)
(* A record that find_record returned is still what the connection would    *)
(* read, whatever the others have done since: the file's value and the      *)
(* increments of the transaction it is in.                                  *)
(****************************************************************************)
ReadsStayTrue ==
    \A c \in Connections : seen[c] # NotRead => seen[c] = disk + added[c]

(****************************************************************************)
(* "in theory it should work fine as long as you follow the golden rule: 1  *)
(* connection per thread" (README): a transaction that has begun is ended   *)
(* by its transaction() call, one way or the other.                         *)
(****************************************************************************)
TransactionsEnd == \A c \in Connections : open[c] ~> ~open[c]
=============================================================================
