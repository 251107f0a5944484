-------------------------- MODULE ConnectionProofs --------------------------
(****************************************************************************)
(* Proofs about zxorm::Connection, for any tables, keys, objects, conflict  *)
(* clauses and cached operations.                                           *)
(****************************************************************************)
EXTENDS Connection, TLAPS

(****************************************************************************)
(* What the engine does to the rows yields rows.                            *)
(****************************************************************************)
LEMMA ContentsOps ==
    ASSUME NEW c \in Contents, NEW t \in Tables, NEW i \in Ids, NEW k \in Keys
    PROVE  /\ WithRow(c, t, i, k) \in Contents
           /\ WithoutRow(c, t, i) \in Contents
           /\ WithoutRows(c, t) \in Contents
<1>1. WithRow(c, t, i, k) \in Contents
  <2> DEFINE row == [j \in Ids |-> IF j = i THEN k ELSE IF c[t][j] = k THEN NoRow ELSE c[t][j]]
  <2>1. c[t] \in [Ids -> Keys \cup {NoRow}]
    BY DEF Contents
  <2>2. row \in [Ids -> Keys \cup {NoRow}]
    BY <2>1
  <2>3. [c EXCEPT ![t] = row] \in Contents
    BY <2>2 DEF Contents
  <2>4. QED
    BY <2>3 DEF WithRow
<1>2. WithoutRow(c, t, i) \in Contents
  BY DEF WithoutRow, Contents
<1>3. WithoutRows(c, t) \in Contents
  BY DEF WithoutRows, Contents
<1>4. QED
  BY <1>1, <1>2, <1>3

LEMMA NoRowsIsContents == NoRows \in Contents
  BY DEF NoRows, Contents

(****************************************************************************)
(* Leaving a slot in some phase keeps the caches well formed.               *)
(****************************************************************************)
LEMMA LeavesType ==
    ASSUME slots \in [Slots -> Phases \cup {"none"}],
           NEW slot \in Slots, NEW p \in Phases, Leaves(slot, p)
    PROVE  slots' \in [Slots -> Phases \cup {"none"}]
  BY DEF Leaves

(****************************************************************************)
(* Every action keeps the types.                                            *)
(****************************************************************************)
DataType ==
    /\ disk \in Contents /\ view \in Contents
    /\ mode \in {"autocommit", "transaction"}
    /\ lastRowid \in Ids \cup {0}
    /\ before \in Contents \cup {NoPromise}
SlotType == slots \in [Slots -> Phases \cup {"none"}]
ControlType ==
    /\ depth \in 0..MaxDepth
    /\ job \in Jobs \cup {NoJob}
ThrownType == thrown \in ZxormErrors \cup {"nothing", "foreign"}
HeldType == held \in [Objects -> Ids \cup {0}]

LEMMA TypeParts ==
    TypeOK <=> DataType /\ SlotType /\ ControlType /\ ThrownType /\ HeldType
  BY DEF TypeOK, DataType, SlotType, ControlType, ThrownType, HeldType

LEMMA PoisonedType ==
    ASSUME TypeOK, NEW slot \in Slots, Poisoned(slot)
    PROVE  TypeOK'
  BY LeavesType DEF TypeOK, Poisoned, SameData, SameRows, SameControl, Throws, ZxormErrors, Leaves, Phases

LEMMA FailsType ==
    ASSUME TypeOK, NEW slot \in Slots, Fails(slot)
    PROVE  TypeOK'
  BY LeavesType DEF TypeOK, Fails, SameData, SameRows, SameControl, Throws, ZxormErrors,
     StatementErrors, Leaves, Phases

LEMMA ChangeType ==
    ASSUME TypeOK, NEW c \in Contents, Change(c)
    PROVE  /\ disk' \in Contents /\ view' \in Contents
           /\ mode' \in {"autocommit", "transaction"}
           /\ before' \in Contents \cup {NoPromise}
  BY DEF TypeOK, Change

LEMMA RefusalType ==
    ASSUME TypeOK, NEW t \in Tables, RefusalUndoes(t)
    PROVE  /\ disk' \in Contents /\ view' \in Contents
           /\ mode' \in {"autocommit", "transaction"}
           /\ before' \in Contents \cup {NoPromise}
  BY DEF TypeOK, RefusalUndoes, RollsBack, SameRows

LEMMA InsertType ==
    ASSUME TypeOK, NEW o \in Objects, NEW k \in Keys, InsertRecord(o, k)
    PROVE  TypeOK'
<1> DEFINE t == TableOf[o]
           slot == <<"insert", t>>
<1>1. t \in Tables /\ slot \in Slots
  BY ConnectionAssumption DEF InsertRecord
<1>2. CASE Poisoned(slot) \/ Fails(slot)
  BY <1>1, <1>2, PoisonedType, FailsType
<1>3. ASSUME NEW n \in Ids, InsertsRow(o, k, n), SameControl
      PROVE  TypeOK'
  <2>1. CASE Change(WithRow(view, t, n, k)) /\ lastRowid' = n
             /\ Leaves(slot, "done") /\ InsertReturns(o)
    <3>1. WithRow(view, t, n, k) \in Contents
      BY <1>1, ContentsOps DEF TypeOK
    <3>2. DataType'
      BY <2>1, <3>1, ChangeType DEF DataType
    <3>3. SlotType'
      BY <1>1, <2>1, LeavesType DEF TypeOK, SlotType, Phases
    <3>4. HeldType'
      BY <2>1 DEF TypeOK, HeldType, InsertReturns
    <3>5. ControlType' /\ ThrownType'
      BY <1>3, <2>1 DEF TypeOK, SameControl, ControlType, InsertReturns, Returns, ThrownType
    <3>6. QED
      BY <3>2, <3>3, <3>4, <3>5, TypeParts DEF TypeOK, DataType, SlotType, ControlType,
         ThrownType, HeldType
  <2>2. CASE SameData /\ Leaves(slot, "done") /\ InsertReturns(o)
    <3>1. SlotType'
      BY <1>1, <2>2, LeavesType DEF TypeOK, SlotType, Phases
    <3>2. HeldType'
      BY <2>2 DEF TypeOK, HeldType, InsertReturns, SameData
    <3>3. QED
      BY <1>3, <2>2, <3>1, <3>2 DEF TypeOK, SlotType, HeldType, SameData, SameRows, SameControl,
         InsertReturns, Returns
  <2>3. CASE RefusalUndoes(t) /\ Leaves(slot, "failed") /\ Throws("SQLConstraintError")
             /\ UNCHANGED <<lastRowid, held>>
    <3>1. SlotType'
      BY <1>1, <2>3, LeavesType DEF TypeOK, SlotType, Phases
    <3>2. QED
      BY <1>1, <1>3, <2>3, <3>1, RefusalType DEF TypeOK, SlotType, SameControl, Throws,
         ZxormErrors, StatementErrors
  <2>4. QED
    BY <1>3, <2>1, <2>2, <2>3 DEF InsertsRow
<1>4. QED
  BY <1>2, <1>3 DEF InsertRecord

LEMMA UpdateType ==
    ASSUME TypeOK, NEW o \in Objects, NEW k \in Keys, UpdateRecord(o, k)
    PROVE  TypeOK'
<1> DEFINE t == TableOf[o]
           i == held[o]
           slot == <<"update", t>>
<1>1. t \in Tables /\ slot \in Slots
  BY ConnectionAssumption DEF UpdateRecord
<1>2. CASE Poisoned(slot) \/ Fails(slot)
  BY <1>1, <1>2, PoisonedType, FailsType
<1>3. CASE Throws("UnknownRowid") /\ SameData /\ SameControl /\ UNCHANGED <<slots, held>>
  BY <1>3 DEF TypeOK, Throws, SameData, SameRows, SameControl, ZxormErrors
<1>4. ASSUME UpdatesRow(o, k), SameControl, UNCHANGED <<lastRowid, held>>
      PROVE  TypeOK'
  <2>1. /\ disk' \in Contents /\ view' \in Contents
        /\ mode' \in {"autocommit", "transaction"}
        /\ before' \in Contents \cup {NoPromise}
    <3>1. CASE SameRows
      BY <3>1 DEF TypeOK, SameRows
    <3>2. CASE i \in RowIds(view, t) /\ Change(WithRow(view, t, i, k))
      <4>1. i \in Ids
        BY <3>2 DEF RowIds
      <4>2. WithRow(view, t, i, k) \in Contents
        BY <1>1, <4>1, ContentsOps DEF TypeOK
      <4>3. QED
        BY <3>2, <4>2, ChangeType
    <3>3. CASE RefusalUndoes(t)
      BY <1>1, <3>3, RefusalType
    <3>4. QED
      BY <1>4, <3>1, <3>2, <3>3 DEF UpdatesRow
  <2>2. \/ Leaves(slot, "done") /\ Returns
        \/ Leaves(slot, "failed") /\ Throws("SQLConstraintError")
    BY <1>4 DEF UpdatesRow
  <2>3. SlotType'
    BY <1>1, <2>2, LeavesType DEF TypeOK, SlotType, Phases
  <2>4. ThrownType'
    BY <2>2 DEF ThrownType, Returns, Throws, ZxormErrors, StatementErrors
  <2>5. QED
    BY <1>4, <2>1, <2>3, <2>4 DEF TypeOK, SlotType, ThrownType, SameControl
<1>5. QED
  BY <1>2, <1>3, <1>4 DEF UpdateRecord

LEMMA DeleteType ==
    ASSUME TypeOK, NEW t \in Tables, NEW i \in Ids, DeleteRecord(t, i)
    PROVE  TypeOK'
<1> DEFINE slot == <<"delete_record", t>>
<1>1. slot \in Slots
  BY DEF DeleteRecord
<1>2. CASE Poisoned(slot) \/ Fails(slot)
  BY <1>1, <1>2, PoisonedType, FailsType
<1>3. CASE Change(WithoutRow(view, t, i)) /\ Leaves(slot, "done") /\ Returns
           /\ SameControl /\ UNCHANGED <<lastRowid, held>>
  <2>1. WithoutRow(view, t, i) \in Contents
    <3>1. CASE Keys = {}
      BY <3>1 DEF TypeOK, WithoutRow, Contents
    <3>2. QED
      BY <3>1, ContentsOps DEF TypeOK
  <2>2. SlotType'
    BY <1>1, <1>3, LeavesType DEF TypeOK, SlotType, Phases
  <2>3. QED
    BY <1>3, <2>1, <2>2, ChangeType DEF TypeOK, SlotType, Returns, SameControl
<1>4. QED
  BY <1>2, <1>3 DEF DeleteRecord

LEMMA ReadType ==
    ASSUME TypeOK, NEW kind \in ReadKinds, NEW t \in Tables, NEW i \in Ids,
           ReadRecord(kind, t, i)
    PROVE  TypeOK'
<1> DEFINE slot == <<kind, t>>
<1>1. slot \in Slots
  BY DEF ReadRecord
<1>2. CASE Poisoned(slot) \/ Fails(slot)
  BY <1>1, <1>2, PoisonedType, FailsType
<1>3. ASSUME NEW p \in {"row", "done"}, Leaves(slot, p), Returns,
             SameData, SameControl, UNCHANGED held
      PROVE  TypeOK'
  <2>1. SlotType'
    BY <1>1, <1>3, LeavesType DEF TypeOK, SlotType, Phases
  <2>2. QED
    BY <1>3, <2>1 DEF TypeOK, SlotType, Returns, SameData, SameRows, SameControl
<1>4. QED
  BY <1>2, <1>3 DEF ReadRecord

LEMMA InsertManyType ==
    ASSUME TypeOK, InsertManySteps
    PROVE  TypeOK'
<1>1. job \in Jobs /\ job.left \in 1..MaxRows /\ job.table \in Tables
  BY ConnectionAssumption DEF TypeOK, InsertManySteps, Jobs
<1>2. ASSUME NEW k \in Keys, NEW n \in Ids, InsertManyRow(k, n)
      PROVE  TypeOK'
  <2> DEFINE t == job.table
  <2>1. job' \in Jobs
    BY <1>1, <1>2, ConnectionAssumption DEF InsertManyRow, Jobs
  <2>2. DataType' /\ ThrownType'
    <3>1. CASE Change(WithRow(view, t, n, k)) /\ lastRowid' = n /\ Returns
      <4>1. WithRow(view, t, n, k) \in Contents
        BY <1>1, ContentsOps DEF TypeOK
      <4>2. QED
        BY <3>1, <4>1, ChangeType DEF DataType, Returns, ThrownType
    <3>2. CASE SameData /\ Returns
      BY <3>2 DEF TypeOK, DataType, ThrownType, SameData, SameRows, Returns
    <3>3. CASE RefusalUndoes(t) /\ Throws("SQLConstraintError") /\ UNCHANGED lastRowid
      BY <1>1, <3>3, RefusalType DEF TypeOK, DataType, ThrownType, Throws, ZxormErrors,
         StatementErrors
    <3>4. QED
      BY <1>2, <3>1, <3>2, <3>3 DEF InsertManyRow
  <2>3. UNCHANGED <<slots, depth, held>>
    BY DEF InsertManySteps
  <2>4. QED
    BY <2>1, <2>2, <2>3 DEF TypeOK, DataType, ThrownType
<1>3. CASE Throws("SQLExecutionError") /\ SameData /\ UNCHANGED job
  BY <1>3 DEF TypeOK, InsertManySteps, Throws, SameData, SameRows, ZxormErrors, StatementErrors
<1>4. QED
  BY <1>2, <1>3 DEF InsertManySteps

LEMMA TransactionType ==
    ASSUME TypeOK,
           \/ BeginTransaction \/ EndTransaction \/ RunThrew
           \/ InsertManyEnds \/ InsertManyThrew
           \/ \E t \in Tables, n \in 0..MaxRows : InsertManyBegins(t, n)
    PROVE  TypeOK'
<1> USE ConnectionAssumption DEF TypeOK, ZxormErrors, StatementErrors, Throws, Returns
<1>1. CASE BeginTransaction
  BY <1>1 DEF BeginTransaction, BeginSucceeds, BeginFails
<1>2. CASE EndTransaction
  BY <1>2 DEF EndTransaction, CommitRuns
<1>3. CASE RunThrew
  BY <1>3 DEF RunThrew, HandlerRuns, RollsBack
<1>4. CASE InsertManyEnds
  BY <1>4 DEF InsertManyEnds, CommitRuns
<1>5. CASE InsertManyThrew
  BY <1>5 DEF InsertManyThrew, HandlerRuns, RollsBack
<1>6. ASSUME NEW t \in Tables, NEW n \in 0..MaxRows, InsertManyBegins(t, n)
      PROVE  TypeOK'
  BY <1>6 DEF InsertManyBegins, BeginSucceeds, BeginFails, Jobs
<1>7. QED
  BY <1>1, <1>2, <1>3, <1>4, <1>5, <1>6

LEMMA RestType ==
    ASSUME TypeOK,
           \/ CallerThrows \/ CallerCatches \/ Reopen
           \/ \E t \in Tables : Truncate(t)
           \/ UNCHANGED vars
    PROVE  TypeOK'
<1>1. CASE CallerThrows \/ CallerCatches
  BY <1>1 DEF CallerThrows, CallerCatches, TypeOK, Throws, Returns, SameData, SameRows, SameControl
<1>2. CASE Reopen
  BY <1>2, ConnectionAssumption DEF Reopen, TypeOK
<1>3. ASSUME NEW t \in Tables, Truncate(t)
      PROVE  TypeOK'
  <2>1. WithoutRows(view, t) \in Contents
    BY DEF TypeOK, WithoutRows, Contents
  <2>2. QED
    BY <1>3, <2>1, ChangeType DEF Truncate, TypeOK, Returns, Throws, SameData, SameRows, SameControl,
       ZxormErrors, StatementErrors
<1>4. CASE UNCHANGED vars
  BY <1>4 DEF vars, TypeOK
<1>5. QED
  BY <1>1, <1>2, <1>3, <1>4

LEMMA InitType == Init => TypeOK
  BY NoRowsIsContents, ConnectionAssumption DEF Init, TypeOK

LEMMA NextType == TypeOK /\ [Next]_vars => TypeOK'
  BY InsertType, UpdateType, DeleteType, ReadType, InsertManyType, TransactionType, RestType
  DEF Next

(****************************************************************************)
(* Every member of the connection, and everything the engine shows it,      *)
(* keeps its type.                                                          *)
(****************************************************************************)
THEOREM TypeCorrect == Spec => []TypeOK
  BY InitType, NextType, PTL DEF Spec

-----------------------------------------------------------------------------
(****************************************************************************)
(* The calls on records, seen from outside: whatever the statement, the     *)
(* data is left alone, or changed by a call that returns, or rolled back by *)
(* a call that throws and a table declared ON CONFLICT ROLLBACK.            *)
(****************************************************************************)
RecordCall ==
    \/ \E o \in Objects, k \in Keys : InsertRecord(o, k) \/ UpdateRecord(o, k)
    \/ \E t \in Tables, i \in Ids : DeleteRecord(t, i)
    \/ \E kind \in ReadKinds, t \in Tables, i \in Ids : ReadRecord(kind, t, i)
    \/ \E t \in Tables : Truncate(t)

DataEffect ==
    \/ SameRows
    \/ Returns /\ \E c \in Contents : Change(c)
    \/ /\ thrown' # "nothing" /\ RollsBack
       /\ before' = NoPromise
       /\ \E t \in Tables : OnConflict[t] = "rollback"

LEMMA RefusalEffect ==
    ASSUME NEW t \in Tables, RefusalUndoes(t), thrown' = "SQLConstraintError"
    PROVE  DataEffect
  BY DEF RefusalUndoes, DataEffect

LEMMA StatementEffect ==
    ASSUME NEW slot, Poisoned(slot) \/ Fails(slot)
    PROVE  DataEffect /\ SameControl /\ thrown' # "foreign"
  BY DEF Poisoned, Fails, DataEffect, SameData, Throws

LEMMA InsertEffect ==
    ASSUME TypeOK, NEW o \in Objects, NEW k \in Keys, InsertRecord(o, k)
    PROVE  DataEffect /\ SameControl /\ thrown' # "foreign"
<1> DEFINE t == TableOf[o]
           slot == <<"insert", t>>
<1>1. t \in Tables
  BY ConnectionAssumption
<1>2. CASE Poisoned(slot) \/ Fails(slot)
  BY <1>2, StatementEffect
<1>3. ASSUME NEW n \in Ids, InsertsRow(o, k, n), SameControl
      PROVE  DataEffect /\ SameControl /\ thrown' # "foreign"
  <2>1. CASE Change(WithRow(view, t, n, k)) /\ InsertReturns(o)
    <3>1. WithRow(view, t, n, k) \in Contents
      BY <1>1, ContentsOps DEF TypeOK
    <3>2. QED
      BY <1>3, <2>1, <3>1 DEF DataEffect, InsertReturns, Returns
  <2>2. CASE SameData /\ InsertReturns(o)
    BY <1>3, <2>2 DEF DataEffect, SameData, InsertReturns, Returns
  <2>3. CASE RefusalUndoes(t) /\ Throws("SQLConstraintError")
    BY <1>1, <1>3, <2>3, RefusalEffect DEF Throws
  <2>4. QED
    BY <1>3, <2>1, <2>2, <2>3 DEF InsertsRow
<1>4. QED
  BY <1>2, <1>3 DEF InsertRecord

LEMMA UpdateEffect ==
    ASSUME TypeOK, NEW o \in Objects, NEW k \in Keys, UpdateRecord(o, k)
    PROVE  DataEffect /\ SameControl /\ thrown' # "foreign"
<1> DEFINE t == TableOf[o]
           i == held[o]
           slot == <<"update", t>>
<1>1. t \in Tables
  BY ConnectionAssumption
<1>2. CASE Poisoned(slot) \/ Fails(slot)
  BY <1>2, StatementEffect
<1>3. CASE Throws("UnknownRowid") /\ SameData /\ SameControl
  BY <1>3 DEF DataEffect, SameData, Throws
<1>4. ASSUME UpdatesRow(o, k), SameControl
      PROVE  DataEffect /\ SameControl /\ thrown' # "foreign"
  <2>1. CASE SameRows /\ Returns
    BY <1>4, <2>1 DEF DataEffect, Returns
  <2>2. CASE i \in RowIds(view, t) /\ Change(WithRow(view, t, i, k)) /\ Returns
    <3>1. WithRow(view, t, i, k) \in Contents
      BY <1>1, <2>2, ContentsOps DEF TypeOK, RowIds
    <3>2. QED
      BY <1>4, <2>2, <3>1 DEF DataEffect, Returns
  <2>3. CASE RefusalUndoes(t) /\ Throws("SQLConstraintError")
    BY <1>1, <1>4, <2>3, RefusalEffect DEF Throws
  <2>4. QED
    BY <1>4, <2>1, <2>2, <2>3 DEF UpdatesRow
<1>5. QED
  BY <1>2, <1>3, <1>4 DEF UpdateRecord

LEMMA CallEffect ==
    ASSUME TypeOK, RecordCall
    PROVE  CallerRuns /\ DataEffect /\ SameControl /\ thrown' # "foreign"
<1>1. CASE \E o \in Objects, k \in Keys : InsertRecord(o, k) \/ UpdateRecord(o, k)
  BY <1>1, InsertEffect, UpdateEffect DEF InsertRecord, UpdateRecord
<1>2. ASSUME NEW t \in Tables, NEW i \in Ids, DeleteRecord(t, i)
      PROVE  CallerRuns /\ DataEffect /\ SameControl /\ thrown' # "foreign"
  <2>1. WithoutRow(view, t, i) \in Contents
    BY DEF TypeOK, WithoutRow, Contents
  <2>2. QED
    BY <1>2, <2>1, StatementEffect DEF DeleteRecord, DataEffect, Returns
<1>3. ASSUME NEW kind \in ReadKinds, NEW t \in Tables, NEW i \in Ids, ReadRecord(kind, t, i)
      PROVE  CallerRuns /\ DataEffect /\ SameControl /\ thrown' # "foreign"
  BY <1>3, StatementEffect DEF ReadRecord, DataEffect, Returns, SameData
<1>4. ASSUME NEW t \in Tables, Truncate(t)
      PROVE  CallerRuns /\ DataEffect /\ SameControl /\ thrown' # "foreign"
  <2>1. WithoutRows(view, t) \in Contents
    BY DEF TypeOK, WithoutRows, Contents
  <2>2. QED
    BY <1>4, <2>1 DEF Truncate, DataEffect, Returns, Throws, SameData
<1>5. QED
  BY <1>1, <1>2, <1>3, <1>4 DEF RecordCall

LEMMA InsertManyEffect ==
    ASSUME TypeOK, InsertManySteps
    PROVE  /\ DataEffect /\ UNCHANGED depth /\ job' # NoJob
           /\ thrown' # "foreign"
<1>1. job \in Jobs /\ job.left \in 1..MaxRows /\ job.table \in Tables
  BY ConnectionAssumption DEF TypeOK, InsertManySteps, Jobs
<1>2. ASSUME NEW k \in Keys, NEW n \in Ids, InsertManyRow(k, n)
      PROVE  DataEffect /\ job' # NoJob /\ thrown' # "foreign"
  <2> DEFINE t == job.table
  <2>1. job' \in Jobs
    BY <1>1, <1>2, ConnectionAssumption DEF InsertManyRow, Jobs
  <2>2. job' # NoJob
    BY <2>1, ConnectionAssumption
  <2>3. CASE Change(WithRow(view, t, n, k)) /\ Returns
    <3>1. WithRow(view, t, n, k) \in Contents
      BY <1>1, ContentsOps DEF TypeOK
    <3>2. QED
      BY <2>2, <2>3, <3>1 DEF DataEffect, Returns
  <2>4. CASE SameData /\ Returns
    BY <2>2, <2>4 DEF DataEffect, SameData, Returns
  <2>5. CASE RefusalUndoes(t) /\ Throws("SQLConstraintError")
    BY <1>1, <2>2, <2>5, RefusalEffect DEF Throws
  <2>6. QED
    BY <1>2, <2>3, <2>4, <2>5 DEF InsertManyRow
<1>3. CASE Throws("SQLExecutionError") /\ SameData /\ UNCHANGED job
  BY <1>3 DEF InsertManySteps, DataEffect, SameData, Throws
<1>4. QED
  BY <1>2, <1>3 DEF InsertManySteps

(****************************************************************************)
(* The steps of a connection, in the groups the proofs below tell apart.    *)
(****************************************************************************)
LEMMA StepCases ==
    ASSUME [Next]_vars
    PROVE  \/ RecordCall \/ InsertManySteps
           \/ BeginTransaction \/ EndTransaction \/ RunThrew
           \/ \E t \in Tables, n \in 0..MaxRows : InsertManyBegins(t, n)
           \/ InsertManyEnds \/ InsertManyThrew
           \/ CallerThrows \/ CallerCatches \/ Reopen \/ UNCHANGED vars
  BY DEF Next, RecordCall

-----------------------------------------------------------------------------
(****************************************************************************)
(* A call that throws leaves the disk as it was: for every conflict clause, *)
(* with other connections in the way and foreign exceptions in flight.      *)
(****************************************************************************)
PromiseIsKept == before # NoPromise => before = disk /\ mode = "transaction"

LEMMA EffectSparesDisk ==
    ASSUME DataEffect
    PROVE  /\ disk' # disk => thrown' = "nothing"
           /\ PromiseIsKept => PromiseIsKept'
<1>1. CASE SameRows
  BY <1>1 DEF SameRows, PromiseIsKept
<1>2. ASSUME NEW c \in Contents, Returns, Change(c)
      PROVE  /\ disk' # disk => thrown' = "nothing"
             /\ PromiseIsKept => PromiseIsKept'
  BY <1>2 DEF Returns, Change, PromiseIsKept
<1>3. CASE RollsBack /\ before' = NoPromise
  BY <1>3 DEF RollsBack, PromiseIsKept
<1>4. QED
  BY <1>1, <1>2, <1>3 DEF DataEffect

LEMMA PromiseInductive ==
    ASSUME TypeOK, PromiseIsKept, [Next]_vars
    PROVE  PromiseIsKept'
<1>1. CASE RecordCall
  BY <1>1, CallEffect, EffectSparesDisk
<1>2. CASE InsertManySteps
  BY <1>2, InsertManyEffect, EffectSparesDisk
<1>3. CASE BeginTransaction \/ \E t \in Tables, n \in 0..MaxRows : InsertManyBegins(t, n)
  BY <1>3 DEF BeginTransaction, InsertManyBegins, BeginSucceeds, BeginFails, PromiseIsKept
<1>4. CASE EndTransaction \/ RunThrew \/ InsertManyEnds \/ InsertManyThrew \/ Reopen
  BY <1>4 DEF EndTransaction, RunThrew, InsertManyEnds, InsertManyThrew, Reopen, PromiseIsKept
<1>5. CASE CallerThrows \/ CallerCatches \/ UNCHANGED vars
  BY <1>5 DEF CallerThrows, CallerCatches, vars, SameData, SameRows, PromiseIsKept
<1>6. QED
  BY <1>1, <1>2, <1>3, <1>4, <1>5, StepCases

LEMMA DiskNeedsReturn ==
    ASSUME TypeOK, [Next]_vars, disk' # disk
    PROVE  thrown' = "nothing"
<1>1. CASE RecordCall
  BY <1>1, CallEffect, EffectSparesDisk
<1>2. CASE InsertManySteps
  BY <1>2, InsertManyEffect, EffectSparesDisk
<1>3. CASE EndTransaction \/ InsertManyEnds
  BY <1>3 DEF EndTransaction, InsertManyEnds, CommitRuns, Returns
<1>4. CASE RunThrew \/ InsertManyThrew
  BY <1>4 DEF RunThrew, InsertManyThrew, HandlerRuns, RollsBack
<1>5. CASE BeginTransaction \/ \E t \in Tables, n \in 0..MaxRows : InsertManyBegins(t, n)
  BY <1>5 DEF BeginTransaction, InsertManyBegins
<1>6. CASE CallerThrows \/ CallerCatches \/ Reopen \/ UNCHANGED vars
  BY <1>6 DEF CallerThrows, CallerCatches, Reopen, vars, SameData, SameRows
<1>7. QED
  BY <1>1, <1>2, <1>3, <1>4, <1>5, <1>6, StepCases

(****************************************************************************)
(* FailedCallsLeaveDisk: a call that throws, or that the process does not   *)
(* live to finish, leaves the file as it was when it began, unless a        *)
(* conflict clause took its transaction away.                               *)
(****************************************************************************)
THEOREM FailuresAreHarmless == Spec => FailedCallsLeaveDisk
<1> DEFINE Harmless ==
        /\ thrown = "nothing" /\ thrown' # "nothing" => disk' = disk
        /\ EndsUndone /\ before # NoPromise => disk' = before
<1>1. Init => PromiseIsKept
  BY DEF Init, PromiseIsKept
<1>2. TypeOK /\ PromiseIsKept /\ [Next]_vars => PromiseIsKept'
  BY PromiseInductive
<1>3. TypeOK /\ PromiseIsKept /\ [Next]_vars => [Harmless]_vars
  <2> SUFFICES ASSUME TypeOK, PromiseIsKept, [Next]_vars
               PROVE  Harmless
    OBVIOUS
  <2>1. thrown' # "nothing" => disk' = disk
    BY DiskNeedsReturn
  <2>2. Reopen => disk' = disk
    BY DEF Reopen
  <2>3. EndsUndone => disk' = disk
    BY <2>1, <2>2 DEF EndsUndone
  <2>4. QED
    BY <2>1, <2>3 DEF PromiseIsKept
<1>4. QED
  BY <1>1, <1>2, <1>3, TypeCorrect, PTL DEF Spec, FailedCallsLeaveDisk

-----------------------------------------------------------------------------
(****************************************************************************)
(* Nothing is left pending between calls, whatever the conflict clauses,    *)
(* as long as no other connection is in the way and run throws zxorm errors *)
(* only.  NothingPending is not inductive: it needs that autocommit mode    *)
(* always means nothing is pending, also while transaction() runs, and that *)
(* the handler sees every exception.                                        *)
(****************************************************************************)
Undisturbed == Contended = FALSE /\ ForeignThrows = FALSE

AutocommitIsClean == mode = "autocommit" => view = disk
ScopeIsClosed == Idle => mode = "autocommit"
PendingInv == TypeOK /\ AutocommitIsClean /\ ScopeIsClosed /\ thrown # "foreign"

LEMMA EffectKeepsClean ==
    ASSUME DataEffect, AutocommitIsClean, TypeOK
    PROVE  AutocommitIsClean' /\ (mode = "autocommit" => mode' = "autocommit")
<1>1. CASE \E c \in Contents : Change(c)
  BY <1>1 DEF Change, AutocommitIsClean
<1>2. QED
  BY <1>1 DEF DataEffect, SameRows, RollsBack, AutocommitIsClean

LEMMA PendingInductive ==
    ASSUME Undisturbed, PendingInv, [Next]_vars
    PROVE  PendingInv'
<1> USE DEF PendingInv
<1>1. TypeOK'
  BY NextType
<1>2. CASE RecordCall
  <2>1. DataEffect /\ SameControl /\ thrown' # "foreign"
    BY <1>2, CallEffect
  <2>2. QED
    BY <1>1, <2>1, EffectKeepsClean DEF ScopeIsClosed, Idle, SameControl
<1>3. CASE InsertManySteps
  <2>1. DataEffect /\ job' # NoJob /\ thrown' # "foreign"
    BY <1>3, InsertManyEffect
  <2>2. QED
    BY <1>1, <2>1, EffectKeepsClean DEF ScopeIsClosed, Idle
<1>4. CASE BeginTransaction
  <2>1. CASE BeginSucceeds /\ depth' = depth + 1
    BY <1>1, <1>4, <2>1 DEF BeginTransaction, BeginSucceeds, AutocommitIsClean, ScopeIsClosed,
       Idle, TypeOK, Returns
  <2>2. CASE BeginFails /\ UNCHANGED depth
    BY <1>1, <1>4, <2>2 DEF BeginTransaction, BeginFails, AutocommitIsClean, ScopeIsClosed,
       Idle, Throws
  <2>3. QED
    BY <1>4, <2>1, <2>2 DEF BeginTransaction
<1>5. ASSUME NEW t \in Tables, NEW n \in 0..MaxRows, InsertManyBegins(t, n)
      PROVE  PendingInv'
  <2>1. CASE BeginSucceeds /\ job' = [table |-> t, left |-> n]
    <3>1. job' # NoJob
      BY <2>1, ConnectionAssumption DEF Jobs
    <3>2. QED
      BY <1>1, <1>5, <2>1, <3>1 DEF InsertManyBegins, BeginSucceeds, AutocommitIsClean,
         ScopeIsClosed, Idle, Returns
  <2>2. CASE BeginFails /\ UNCHANGED job
    BY <1>1, <1>5, <2>2 DEF InsertManyBegins, BeginFails, AutocommitIsClean, ScopeIsClosed,
       Idle, Throws
  <2>3. QED
    BY <1>5, <2>1, <2>2 DEF InsertManyBegins
<1>6. CASE EndTransaction \/ InsertManyEnds
  <2>1. CommitRuns
    BY <1>6 DEF EndTransaction, InsertManyEnds
  <2>2. mode' = "autocommit" /\ view' = disk'
    BY <2>1 DEF Undisturbed, CommitRuns, AutocommitIsClean
  <2>3. QED
    BY <1>1, <2>1, <2>2 DEF CommitRuns, AutocommitIsClean, ScopeIsClosed, Returns, Throws
<1>7. CASE RunThrew \/ InsertManyThrew
  <2>1. HandlerRuns
    BY <1>7 DEF RunThrew, InsertManyThrew, Handled, TypeOK
  <2>2. mode' = "autocommit" /\ view' = disk' /\ thrown' # "foreign"
    BY <2>1 DEF HandlerRuns, RollsBack, AutocommitIsClean, Throws, TypeOK
  <2>3. QED
    BY <1>1, <2>2 DEF AutocommitIsClean, ScopeIsClosed
<1>8. CASE CallerThrows \/ CallerCatches \/ Reopen \/ UNCHANGED vars
  BY <1>1, <1>8 DEF Undisturbed, CallerThrows, CallerCatches, Reopen, vars, SameData, SameRows, SameControl,
     Returns, AutocommitIsClean, ScopeIsClosed, Idle
<1>9. QED
  BY <1>2, <1>3, <1>4, <1>5, <1>6, <1>7, <1>8, StepCases

LEMMA PendingInit == Init => PendingInv
  BY InitType DEF Init, PendingInv, AutocommitIsClean, ScopeIsClosed

LEMMA PendingInvariance == ASSUME Undisturbed PROVE Spec => []PendingInv
<1>1. PendingInv /\ [Next]_vars => PendingInv'
  BY PendingInductive
<1>2. QED
  BY <1>1, PendingInit, PTL DEF Spec

(* NothingPending: between calls no transaction is open. *)
THEOREM NothingIsLeftPending == ASSUME Undisturbed PROVE Spec => []NothingPending
<1>1. PendingInv => NothingPending
  BY DEF PendingInv, AutocommitIsClean, ScopeIsClosed, NothingPending
<1>2. QED
  BY <1>1, PendingInvariance, PTL

-----------------------------------------------------------------------------
(****************************************************************************)
(* LossIsReported: under the same assumptions an open transaction is always *)
(* that of a call in progress, so a call that has lost its own finds none   *)
(* to commit.                                                               *)
(****************************************************************************)
OpenIsPromised == mode = "transaction" => before # NoPromise

LEMMA OpenInductive ==
    ASSUME Undisturbed, PendingInv, OpenIsPromised, [Next]_vars
    PROVE  OpenIsPromised'
<1> USE DEF OpenIsPromised
<1>1. TypeOK
  BY DEF PendingInv
<1>2. CASE RecordCall \/ InsertManySteps
  <2>1. DataEffect
    BY <1>1, <1>2, CallEffect, InsertManyEffect
  <2>2. QED
    BY <2>1 DEF DataEffect, SameRows, Change, RollsBack
<1>3. CASE BeginTransaction \/ \E t \in Tables, n \in 0..MaxRows : InsertManyBegins(t, n)
  <2>1. BeginSucceeds \/ BeginFails
    BY <1>3 DEF BeginTransaction, InsertManyBegins
  <2>2. disk # NoPromise
    BY <1>1, ConnectionAssumption DEF TypeOK
  <2>3. QED
    BY <2>1, <2>2 DEF BeginSucceeds, BeginFails
<1>4. CASE EndTransaction \/ InsertManyEnds
  BY <1>4 DEF Undisturbed, EndTransaction, InsertManyEnds, CommitRuns
<1>5. CASE RunThrew \/ InsertManyThrew
  <2>1. HandlerRuns
    BY <1>1, <1>5 DEF RunThrew, InsertManyThrew, Handled, TypeOK, PendingInv
  <2>2. QED
    BY <2>1 DEF HandlerRuns, RollsBack
<1>6. CASE CallerThrows \/ CallerCatches \/ Reopen \/ UNCHANGED vars
  BY <1>6 DEF CallerThrows, CallerCatches, Reopen, vars, SameData, SameRows
<1>7. QED
  BY <1>2, <1>3, <1>4, <1>5, <1>6, StepCases

(* LossIsReported: a transaction() that SQLite ended in its run throws. *)
THEOREM LostTransactionsThrow == ASSUME Undisturbed PROVE Spec => LossIsReported
<1>1. Init => OpenIsPromised
  BY DEF Init, OpenIsPromised
<1>2. PendingInv /\ OpenIsPromised /\ [Next]_vars => OpenIsPromised'
  BY OpenInductive
<1>3. PendingInv /\ OpenIsPromised =>
        [(EndTransaction \/ InsertManyEnds) /\ before = NoPromise => thrown' # "nothing"]_vars
  BY DEF Undisturbed, PendingInv, TypeOK, OpenIsPromised, EndTransaction, InsertManyEnds,
     CommitRuns, Throws
<1>4. QED
  BY <1>1, <1>2, <1>3, PendingInvariance, PTL DEF Spec, LossIsReported

-----------------------------------------------------------------------------
(****************************************************************************)
(* Without ON CONFLICT ROLLBACK the engine's transaction lives exactly as   *)
(* long as one transaction() or insert_many_records call: SQLite refuses    *)
(* the BEGIN of a second one, and nothing but the end of the call closes    *)
(* the first.                                                               *)
(****************************************************************************)
NoRollbackClause == \A t \in Tables : OnConflict[t] # "rollback"

ScopeIsOpen == ~Idle => mode = "transaction"
OneScope == depth = 0 \/ (depth = 1 /\ job = NoJob)
ScopeInv == PendingInv /\ ScopeIsOpen /\ OneScope

LEMMA EffectKeepsMode ==
    ASSUME NoRollbackClause, DataEffect
    PROVE  mode' = mode
  BY DEF NoRollbackClause, DataEffect, SameRows, Change

LEMMA ScopeInductive ==
    ASSUME Undisturbed, NoRollbackClause, ScopeInv, [Next]_vars
    PROVE  ScopeInv'
<1> USE DEF ScopeInv
<1>1. PendingInv'
  BY PendingInductive
<1>2. TypeOK
  BY DEF PendingInv
<1>3. CASE RecordCall
  <2>1. SameControl /\ mode' = mode
    BY <1>2, <1>3, CallEffect, EffectKeepsMode
  <2>2. QED
    BY <1>1, <2>1 DEF SameControl, ScopeIsOpen, OneScope, Idle
<1>4. CASE InsertManySteps
  <2>1. UNCHANGED depth /\ mode' = mode
    BY <1>2, <1>4, InsertManyEffect, EffectKeepsMode
  <2>2. job # NoJob
    BY <1>4 DEF InsertManySteps
  <2>3. QED
    BY <1>1, <2>1, <2>2 DEF ScopeIsOpen, OneScope, Idle
<1>5. CASE BeginTransaction
  <2>1. CASE BeginSucceeds /\ depth' = depth + 1
    BY <1>1, <1>5, <2>1 DEF BeginTransaction, BeginSucceeds, CallerRuns, ScopeIsOpen, OneScope,
       Idle
  <2>2. CASE BeginFails /\ UNCHANGED depth
    BY <1>1, <1>5, <2>2 DEF BeginTransaction, BeginFails, ScopeIsOpen, OneScope, Idle
  <2>3. QED
    BY <1>5, <2>1, <2>2 DEF BeginTransaction
<1>6. ASSUME NEW t \in Tables, NEW n \in 0..MaxRows, InsertManyBegins(t, n)
      PROVE  ScopeInv'
  <2>1. CASE BeginSucceeds
    BY <1>1, <1>6, <2>1 DEF InsertManyBegins, BeginSucceeds, CallerRuns, ScopeIsOpen, OneScope,
       Idle
  <2>2. CASE BeginFails /\ UNCHANGED job
    BY <1>1, <1>6, <2>2 DEF InsertManyBegins, BeginFails, ScopeIsOpen, OneScope, Idle
  <2>3. QED
    BY <1>6, <2>1, <2>2 DEF InsertManyBegins
<1>7. CASE EndTransaction \/ RunThrew \/ InsertManyEnds \/ InsertManyThrew
  <2>1. depth' = 0 /\ job' = NoJob
    BY <1>2, <1>7 DEF EndTransaction, RunThrew, InsertManyEnds, InsertManyThrew, CallerRuns,
       OneScope, TypeOK
  <2>2. QED
    BY <1>1, <2>1 DEF ScopeIsOpen, OneScope, Idle
<1>8. CASE CallerThrows \/ CallerCatches \/ UNCHANGED vars
  BY <1>1, <1>8 DEF CallerThrows, CallerCatches, vars, SameData, SameRows, SameControl, ScopeIsOpen,
     OneScope, Idle
<1>9. CASE Reopen
  BY <1>1, <1>9 DEF Reopen, ScopeIsOpen, OneScope, Idle
<1>10. QED
  BY <1>3, <1>4, <1>5, <1>6, <1>7, <1>8, <1>9, StepCases

LEMMA ScopeInvariance ==
    ASSUME Undisturbed, NoRollbackClause
    PROVE  Spec => []ScopeInv
<1>1. Init => ScopeInv
  BY PendingInit DEF Init, ScopeInv, ScopeIsOpen, OneScope, Idle
<1>2. ScopeInv /\ [Next]_vars => ScopeInv'
  BY ScopeInductive
<1>3. QED
  BY <1>1, <1>2, PTL DEF Spec

(****************************************************************************)
(* The exception that leaves transaction() is the one that left run.        *)
(****************************************************************************)
THEOREM CauseIsRethrown ==
    ASSUME Undisturbed, NoRollbackClause
    PROVE  Spec => RethrowsCause
<1>1. ScopeInv /\ [Next]_vars => [RunThrew \/ InsertManyThrew => thrown' = thrown]_vars
  <2> SUFFICES ASSUME ScopeInv, RunThrew \/ InsertManyThrew
               PROVE  thrown' = thrown
    OBVIOUS
  <2>1. mode = "transaction"
    BY DEF ScopeInv, ScopeIsOpen, PendingInv, TypeOK, RunThrew, InsertManyThrew, Idle
  <2>2. QED
    BY <2>1 DEF RunThrew, InsertManyThrew, HandlerRuns
<1>2. QED
  BY <1>1, ScopeInvariance, PTL DEF Spec, RethrowsCause

(****************************************************************************)
(* transaction() is all or nothing: the connection implements AtomicStore.  *)
(****************************************************************************)
LEMMA EffectIsAtomic ==
    ASSUME ScopeInv, NoRollbackClause, DataEffect, Scope' = Scope, thrown = "nothing"
    PROVE  \/ Atomic!Alone \/ Atomic!Within \/ Atomic!Refuse
           \/ UNCHANGED <<disk, view, Scope, Raised>>
<1>1. CASE SameRows
  <2>1. CASE thrown' = "nothing"
    BY <1>1, <2>1 DEF SameRows, Raised
  <2>2. CASE thrown' # "nothing"
    BY <1>1, <2>2 DEF SameRows, Raised, Atomic!Refuse
  <2>3. QED
    BY <2>1, <2>2
<1>2. ASSUME NEW c \in Contents, Returns, Change(c)
      PROVE  Atomic!Alone \/ Atomic!Within
  <2>1. ~Raised /\ ~Raised'
    BY <1>2 DEF Returns, Raised
  <2>2. CASE Idle
    <3>1. mode = "autocommit" /\ Scope = "none"
      BY <2>2 DEF ScopeInv, PendingInv, ScopeIsClosed, Scope
    <3>2. QED
      BY <1>2, <2>1, <3>1 DEF Change, Raised, Atomic!Alone
  <2>3. CASE ~Idle
    <3>1. mode = "transaction" /\ Scope = "open"
      BY <2>3 DEF ScopeInv, ScopeIsOpen, Scope
    <3>2. QED
      BY <1>2, <2>1, <3>1 DEF Change, Raised, Atomic!Within
  <2>4. QED
    BY <2>2, <2>3
<1>3. QED
  BY <1>1, <1>2 DEF DataEffect, NoRollbackClause

(* AllOrNothing: transaction() implements AtomicStore. *)
THEOREM TransactionsAreAtomic ==
    ASSUME Undisturbed, NoRollbackClause
    PROVE  Spec => AllOrNothing
<1>1. Init => Atomic!Init
  BY NoRowsIsContents DEF Init, Atomic!Init, Scope, Idle, Raised
<1>2. ASSUME ScopeInv, [Next]_vars
      PROVE  [Atomic!Next]_(Atomic!vars)
  <2> USE <1>2 DEF Atomic!vars
  <2>1. TypeOK /\ ScopeInv'
    BY ScopeInductive DEF ScopeInv, PendingInv
  <2>2. CASE RecordCall
    <3>1. DataEffect /\ Scope' = Scope /\ thrown = "nothing"
      BY <2>1, <2>2, CallEffect DEF CallerRuns, SameControl, Scope, Idle
    <3>2. QED
      BY <3>1, EffectIsAtomic DEF Atomic!Next
  <2>3. CASE InsertManySteps
    <3>1. DataEffect /\ Scope' = Scope /\ thrown = "nothing"
      BY <2>1, <2>3, InsertManyEffect DEF InsertManySteps, Scope, Idle
    <3>2. QED
      BY <3>1, EffectIsAtomic DEF Atomic!Next
  <2>4. ASSUME BeginTransaction \/ \E t \in Tables, n \in 0..MaxRows : InsertManyBegins(t, n)
        PROVE  [Atomic!Next]_(Atomic!vars)
    <3>1. UNCHANGED <<disk, view>> /\ ~Raised
      BY <2>4 DEF BeginTransaction, InsertManyBegins, CallerRuns, Raised
    <3>2. CASE BeginFails
      <4>1. Scope' = Scope
        BY <2>4, <3>2 DEF BeginTransaction, InsertManyBegins, BeginSucceeds, BeginFails, Scope,
           Idle
      <4>2. Raised' = TRUE
        BY <3>2 DEF BeginFails, Throws, Raised
      <4>3. QED
        BY <3>1, <4>1, <4>2 DEF Atomic!Next, Atomic!Refuse
    <3>3. CASE BeginSucceeds
      <4>1. mode = "autocommit" /\ mode' = "transaction" /\ Raised' = FALSE
        BY <3>3 DEF BeginSucceeds, Returns, Raised
      <4>2. Idle /\ ~Idle'
        BY <2>1, <4>1 DEF ScopeInv, ScopeIsOpen, PendingInv, ScopeIsClosed
      <4>3. QED
        BY <3>1, <4>1, <4>2 DEF Scope, Raised, Atomic!Next, Atomic!Begin
    <3>4. QED
      BY <2>4, <3>2, <3>3 DEF BeginTransaction, InsertManyBegins
  <2>5. ASSUME EndTransaction \/ InsertManyEnds \/ RunThrew \/ InsertManyThrew
        PROVE  Scope = "open" /\ Scope' = "none" /\ mode = "transaction"
    <3>1. ~Idle
      BY <2>1, <2>5 DEF EndTransaction, InsertManyEnds, RunThrew, InsertManyThrew, Idle, TypeOK
    <3>2. depth' = 0 /\ job' = NoJob
      BY <2>1, <2>5 DEF EndTransaction, RunThrew, InsertManyEnds, InsertManyThrew, CallerRuns,
         ScopeInv, OneScope, TypeOK
    <3>3. QED
      BY <3>1, <3>2 DEF ScopeInv, ScopeIsOpen, Scope, Idle
  <2>6. CASE EndTransaction \/ InsertManyEnds
    <3>1. disk' = view /\ view' = view /\ ~Raised /\ Raised' = FALSE
      BY <2>5, <2>6 DEF Undisturbed, EndTransaction, InsertManyEnds, CommitRuns, CallerRuns,
         Returns, Raised
    <3>2. QED
      BY <2>5, <2>6, <3>1 DEF Raised, Atomic!Next, Atomic!Succeed
  <2>7. CASE RunThrew \/ InsertManyThrew
    <3>1. HandlerRuns
      BY <2>1, <2>7 DEF RunThrew, InsertManyThrew, Handled, TypeOK, ScopeInv, PendingInv
    <3>2. view' = disk /\ disk' = disk /\ Raised /\ Raised' = TRUE
      BY <2>5, <2>7, <3>1 DEF HandlerRuns, RollsBack, RunThrew, InsertManyThrew, Raised
    <3>3. QED
      BY <2>5, <2>7, <3>2 DEF Atomic!Next, Atomic!Abandon
  <2>8. CASE CallerThrows \/ CallerCatches \/ UNCHANGED vars
    <3>1. UNCHANGED <<disk, view>> /\ Scope' = Scope
      BY <2>8 DEF CallerThrows, CallerCatches, vars, SameData, SameRows, SameControl, Scope, Idle
    <3>2. CASE CallerThrows
      BY <3>1, <3>2 DEF CallerThrows, CallerRuns, Throws, Raised, Atomic!Next, Atomic!Refuse
    <3>3. CASE CallerCatches
      BY <3>1, <3>3 DEF CallerCatches, Returns, Raised, Atomic!Next, Atomic!Catch
    <3>4. CASE UNCHANGED vars
      BY <3>1, <3>4 DEF vars, Raised
    <3>5. QED
      BY <2>8, <3>2, <3>3, <3>4
  <2>9. CASE Reopen
    BY <2>9 DEF Reopen, Scope, Idle, Raised, Atomic!Next, Atomic!Crash
  <2>10. QED
    BY <2>2, <2>3, <2>4, <2>6, <2>7, <2>8, <2>9, StepCases
<1>3. ScopeInv /\ [Next]_vars => [Atomic!Next]_(Atomic!vars)
  BY <1>2
<1>4. QED
  BY <1>1, <1>3, ScopeInvariance, PTL DEF Spec, AllOrNothing, Atomic!Spec

-----------------------------------------------------------------------------
(****************************************************************************)
(* The id insert_record gives a record is the id of its row, whatever else  *)
(* happens and whatever was inserted into other tables before, as long as   *)
(* no table ignores a row: sqlite3_last_insert_rowid then speaks of it.     *)
(****************************************************************************)
NoIgnoreClause == \A t \in Tables : OnConflict[t] # "ignore"

LEMMA WrittenRowIsThere ==
    ASSUME TypeOK, NEW t \in Tables, NEW n \in Ids, NEW k
    PROVE  WithRow(view, t, n, k)[t][n] = k
  BY DEF TypeOK, Contents, WithRow

(* InsertedIdNamesRow: the id of the record is the id of its row. *)
THEOREM IdsNameRows ==
    ASSUME NoIgnoreClause
    PROVE  Spec => InsertedIdNamesRow
<1>1. TypeOK => [\A o \in Objects, k \in Keys :
                    InsertRecord(o, k) /\ thrown' = "nothing" =>
                        \E i \in Ids : held'[o] = i /\ view'[TableOf[o]][i] = k]_vars
  <2> SUFFICES ASSUME TypeOK, NEW o \in Objects, NEW k \in Keys,
                      InsertRecord(o, k), thrown' = "nothing"
               PROVE  \E i \in Ids : held'[o] = i /\ view'[TableOf[o]][i] = k
    OBVIOUS
  <2> DEFINE t == TableOf[o]
  <2>1. t \in Tables
    BY ConnectionAssumption
  <2>2. PICK n \in Ids : InsertsRow(o, k, n)
    BY DEF InsertRecord, Poisoned, Fails, Throws
  <2>3. /\ view' = WithRow(view, t, n, k)
        /\ held' = [held EXCEPT ![o] = n]
    BY <2>1, <2>2
       DEF InsertsRow, NoIgnoreClause, IsIgnored, Throws, Change, InsertReturns
  <2> QED
    BY <2>1, <2>3, WrittenRowIsThere DEF TypeOK
<1>2. QED
  BY <1>1, TypeCorrect, PTL DEF Spec, InsertedIdNamesRow
=============================================================================
