--------------------------- MODULE SharedDbProofs ---------------------------
(****************************************************************************)
(* Proofs about several connections on one database file, for any number of *)
(* connections and however far the record is counted up.                    *)
(****************************************************************************)
EXTENDS SharedDb, TLAPS

(****************************************************************************)
(* The inductive invariant.  A connection that holds a lock knows the       *)
(* record: its cache is the file and its own increments.  Everything the    *)
(* program holds is read under such a lock, which the query that stands on  *)
(* its row keeps.                                                           *)
(****************************************************************************)
Cached(c) == lock[c] # "none" => view[c] = disk + added[c]
AddsUnderLock(c) == Writes(c) \/ added[c] = 0
WritesInside(c) == Writes(c) => open[c]
RowIsLocked(c) == find[c] = "row" => lock[c] # "none"
SeenIsRow(c) == seen[c] # NotRead => find[c] = "row" /\ seen[c] = view[c]
FindStartsAnew(c) == calling[c] = "find" => seen[c] = NotRead /\ find[c] = "idle"
UpdateHasRecord(c) == calling[c] = "update" => seen[c] # NotRead /\ seen[c] < MaxValue

Sound(c) ==
    /\ Cached(c) /\ AddsUnderLock(c) /\ WritesInside(c) /\ RowIsLocked(c)
    /\ SeenIsRow(c) /\ FindStartsAnew(c) /\ UpdateHasRecord(c)

SoundDb == \A c \in Connections : Sound(c)

LEMMA InitIsSound == Init => TypeOK /\ SoundDb
  BY SharedAssumption DEF Init, TypeOK, SoundDb, Sound, Cached, AddsUnderLock,
     WritesInside, RowIsLocked, SeenIsRow, FindStartsAnew, UpdateHasRecord,
     Writes, Locks, Values

(****************************************************************************)
(* The lock a statement or a transaction leaves behind.                     *)
(****************************************************************************)
LEMMA LockAfter ==
    ASSUME TypeOK, NEW c \in Connections, NEW active \in BOOLEAN
    PROVE  /\ Released(c, active) \in {"none", "shared"}
           /\ AfterStatement(c, active) \in {"none", "shared", lock[c]}
           /\ AfterStatement(c, active) \in Locks
  BY DEF TypeOK, Released, AfterStatement, Locks

(****************************************************************************)
(* Every action keeps the types and the invariant.                          *)
(****************************************************************************)
LEMMA FindRebindsKeeps ==
    ASSUME TypeOK, SoundDb, NEW c \in Connections, FindRebinds(c)
    PROVE  TypeOK' /\ SoundDb'
<1>1. TypeOK'
  <2>1. lock' \in [Connections -> Locks]
    BY LockAfter DEF FindRebinds, TypeOK, UpdateIsActive
  <2>2. CASE find[c] = "busy"
    BY <2>1, <2>2 DEF TypeOK, FindRebinds, ProgramRuns, Throws
  <2>3. CASE find[c] # "busy"
    BY <2>1, <2>3 DEF TypeOK, FindRebinds, ProgramRuns
  <2>4. QED
    BY <2>2, <2>3
<1>2. ASSUME NEW d \in Connections PROVE Sound(d)'
  BY DEF TypeOK, SoundDb, Sound, Cached, AddsUnderLock, WritesInside,
     RowIsLocked, SeenIsRow, FindStartsAnew, UpdateHasRecord, Writes,
     FindRebinds, ProgramRuns, Throws, AfterStatement, Released, UpdateIsActive
<1>3. QED
  BY <1>1, <1>2 DEF SoundDb

LEMMA FindStepsKeeps ==
    ASSUME TypeOK, SoundDb, NEW c \in Connections, FindSteps(c)
    PROVE  TypeOK' /\ SoundDb'
<1>1. CASE Finds(c)
  <2>1. Reads(c) \in Values
    BY DEF TypeOK, Reads
  <2>2. TypeOK'
    BY <1>1, <2>1 DEF TypeOK, FindSteps, Finds, Locks
  <2>3. Reads(c) = disk + added[c]
    BY DEF TypeOK, Values, Reads, SoundDb, Sound, Cached, AddsUnderLock, Writes
  <2>4. ASSUME NEW d \in Connections PROVE Sound(d)'
    BY <1>1, <2>3 DEF TypeOK, SoundDb, Sound, Cached, AddsUnderLock,
       WritesInside, RowIsLocked, SeenIsRow,
     FindStartsAnew, UpdateHasRecord, Writes,
     FindSteps, Finds
  <2>5. QED
    BY <2>2, <2>4 DEF SoundDb
<1>2. CASE FindsNothing(c)
  <2>1. Reads(c) \in Values
    BY DEF TypeOK, Reads
  <2>2. lock' \in [Connections -> Locks]
    BY <1>2, LockAfter DEF FindsNothing, TypeOK, Locks, UpdateIsActive
  <2>3. TypeOK'
    BY <1>2, <2>1, <2>2 DEF TypeOK, FindSteps, FindsNothing
  <2>4. Reads(c) = disk + added[c]
    BY DEF TypeOK, Values, Reads, SoundDb, Sound, Cached, AddsUnderLock, Writes
  <2>5. ASSUME NEW d \in Connections PROVE Sound(d)'
    BY <1>2, <2>4 DEF TypeOK, SoundDb, Sound, Cached, AddsUnderLock,
       WritesInside, RowIsLocked, SeenIsRow,
     FindStartsAnew, UpdateHasRecord, Writes,
     FindSteps, FindsNothing,
       AfterStatement, Released, UpdateIsActive
  <2>6. QED
    BY <2>3, <2>5 DEF SoundDb
<1>3. CASE FindIsBusy(c)
  <2>1. TypeOK'
    BY <1>3 DEF TypeOK, FindSteps, FindIsBusy, Throws
  <2>2. ASSUME NEW d \in Connections PROVE Sound(d)'
    BY <1>3 DEF TypeOK, SoundDb, Sound, Cached, AddsUnderLock, WritesInside,
       RowIsLocked, SeenIsRow,
     FindStartsAnew, UpdateHasRecord, Writes,
     FindSteps, FindIsBusy
  <2>3. QED
    BY <2>1, <2>2 DEF SoundDb
<1>4. QED
  BY <1>1, <1>2, <1>3 DEF FindSteps

LEMMA UpdateRebindsKeeps ==
    ASSUME TypeOK, SoundDb, NEW c \in Connections, UpdateRebinds(c)
    PROVE  TypeOK' /\ SoundDb'
<1>1. TypeOK'
  <2>1. lock' \in [Connections -> Locks]
    BY LockAfter DEF UpdateRebinds, TypeOK, FindIsActive
  <2>2. CASE update[c] # "idle"
    BY <2>1, <2>2 DEF TypeOK, UpdateRebinds, ProgramRuns, Throws
  <2>3. CASE update[c] = "idle"
    BY <2>1, <2>3 DEF TypeOK, UpdateRebinds, ProgramRuns
  <2>4. QED
    BY <2>2, <2>3
<1>2. ASSUME NEW d \in Connections PROVE Sound(d)'
  BY DEF TypeOK, SoundDb, Sound, Cached, AddsUnderLock, WritesInside,
     RowIsLocked, SeenIsRow, FindStartsAnew, UpdateHasRecord, Writes,
     UpdateRebinds, ProgramRuns, Throws, AfterStatement, Released, FindIsActive
<1>3. QED
  BY <1>1, <1>2 DEF SoundDb

(****************************************************************************)
(* What an UPDATE writes is one more than the file and the increments of    *)
(* the transaction, because the record is the one under the read lock.      *)
(****************************************************************************)
LEMMA UpdateCountsUp ==
    ASSUME TypeOK, SoundDb, NEW c \in Connections, calling[c] = "update"
    PROVE  /\ lock[c] # "none"
           /\ seen[c] \in Values /\ seen[c] + 1 \in Values
           /\ seen[c] = disk + added[c]
           /\ ~Writes(c) => seen[c] = disk
           /\ added[c] + 1 \in Values
<1>1. seen[c] \in Int /\ 0 <= seen[c] /\ seen[c] < MaxValue
  BY DEF TypeOK, Values, SoundDb, Sound, UpdateHasRecord
<1>2. lock[c] # "none" /\ seen[c] = view[c] /\ view[c] = disk + added[c]
  BY DEF SoundDb, Sound, UpdateHasRecord, SeenIsRow, RowIsLocked, Cached
<1>3. disk \in Int /\ 0 <= disk /\ added[c] \in Int /\ 0 <= added[c]
  BY DEF TypeOK, Values
<1>4. MaxValue \in Nat
  BY SharedAssumption
<1>5. ~Writes(c) => added[c] = 0
  BY DEF SoundDb, Sound, AddsUnderLock
<1>6. QED
  BY <1>1, <1>2, <1>3, <1>4, <1>5 DEF Values

LEMMA UpdateStepsKeeps ==
    ASSUME TypeOK, SoundDb, NEW c \in Connections, UpdateSteps(c)
    PROVE  TypeOK' /\ SoundDb'
<1>0. calling[c] = "update"
  BY DEF UpdateSteps
<1>1. CASE UpdatesInTransaction(c)
  <2>1. TypeOK'
    BY <1>0, <1>1, UpdateCountsUp DEF TypeOK, UpdateSteps, UpdatesInTransaction,
       Locks
  <2>2. ASSUME NEW d \in Connections PROVE Sound(d)'
    BY <1>0, <1>1, UpdateCountsUp DEF TypeOK, SoundDb, Sound, Cached,
       AddsUnderLock, WritesInside, RowIsLocked, SeenIsRow,
     FindStartsAnew, UpdateHasRecord, Writes,
     Values,
       UpdateSteps, UpdatesInTransaction
  <2>3. QED
    BY <2>1, <2>2 DEF SoundDb
<1>2. CASE UpdatesFile(c)
  <2>1. lock' \in [Connections -> Locks]
    BY <1>2, LockAfter DEF UpdatesFile, TypeOK, FindIsActive, Locks
  <2>2. TypeOK'
    BY <1>0, <1>2, <2>1, UpdateCountsUp DEF TypeOK, UpdateSteps, UpdatesFile
  <2>3. ASSUME NEW d \in Connections PROVE Sound(d)'
    BY <1>0, <1>2, UpdateCountsUp DEF TypeOK, SoundDb, Sound, Cached,
       AddsUnderLock, WritesInside, RowIsLocked, SeenIsRow,
     FindStartsAnew, UpdateHasRecord, Writes,
     Values,
       UpdateSteps, UpdatesFile, MayWriteFile, Others, Released, FindIsActive
  <2>4. QED
    BY <2>2, <2>3 DEF SoundDb
<1>3. CASE UpdateIsBusy(c)
  <2>1. TypeOK'
    BY <1>3 DEF TypeOK, UpdateSteps, UpdateIsBusy, Throws
  <2>2. ASSUME NEW d \in Connections PROVE Sound(d)'
    BY <1>3 DEF TypeOK, SoundDb, Sound, Cached, AddsUnderLock, WritesInside,
       RowIsLocked, SeenIsRow,
     FindStartsAnew, UpdateHasRecord, Writes,
     UpdateSteps, UpdateIsBusy
  <2>3. QED
    BY <2>1, <2>2 DEF SoundDb
<1>4. CASE UpdateIsUndone(c)
  <2>1. lock' \in [Connections -> Locks]
    BY <1>4, LockAfter DEF UpdateIsUndone, TypeOK, FindIsActive, Locks
  <2>2. TypeOK'
    BY <1>4, <2>1 DEF TypeOK, UpdateSteps, UpdateIsUndone, Throws
  <2>3. ASSUME NEW d \in Connections PROVE Sound(d)'
    BY <1>4 DEF TypeOK, SoundDb, Sound, Cached, AddsUnderLock, WritesInside,
       RowIsLocked, SeenIsRow,
     FindStartsAnew, UpdateHasRecord, Writes,
     UpdateSteps, UpdateIsUndone,
       Released, FindIsActive
  <2>4. QED
    BY <2>2, <2>3 DEF SoundDb
<1>5. QED
  BY <1>1, <1>2, <1>3, <1>4 DEF UpdateSteps

LEMMA BeginKeeps ==
    ASSUME TypeOK, SoundDb, NEW c \in Connections, Begin(c)
    PROVE  TypeOK' /\ SoundDb'
<1>1. TypeOK'
  BY DEF TypeOK, Begin, ProgramRuns, Throws
<1>2. ASSUME NEW d \in Connections PROVE Sound(d)'
  BY DEF TypeOK, SoundDb, Sound, Cached, AddsUnderLock, WritesInside,
     RowIsLocked, SeenIsRow, FindStartsAnew, UpdateHasRecord, Writes, Begin
<1>3. QED
  BY <1>1, <1>2 DEF SoundDb

LEMMA RunReturnedKeeps ==
    ASSUME TypeOK, SoundDb, NEW c \in Connections, RunReturned(c)
    PROVE  TypeOK' /\ SoundDb'
<1>1. CASE Commits(c)
  <2>1. lock' \in [Connections -> Locks]
    BY <1>1, LockAfter DEF Commits, Closes, TypeOK, FindIsActive,
       UpdateIsActive, Locks
  <2>2. disk' \in Values /\ added' \in [Connections -> Values] /\ committed' \in Nat
    BY <1>1, SharedAssumption DEF TypeOK, Commits, Closes, Values
  <2>3. TypeOK'
    BY <1>1, <2>1, <2>2 DEF TypeOK, RunReturned, Commits, Closes
  <2>4. disk' = disk + added[c]
    BY <1>1 DEF TypeOK, SoundDb, Sound, Cached, AddsUnderLock, WritesInside,
       RowIsLocked, SeenIsRow,
     FindStartsAnew, UpdateHasRecord, Writes,
     Commits, Values
  <2>5. ASSUME NEW d \in Connections PROVE Sound(d)'
    <3>1. CASE d = c
      BY <1>1, <2>4, <3>1 DEF TypeOK, SoundDb, Sound, Cached, AddsUnderLock,
         WritesInside, RowIsLocked, SeenIsRow,
     FindStartsAnew, UpdateHasRecord, Writes,
     Values, RunReturned,
         Commits, Closes, Released, FindIsActive, UpdateIsActive
    <3>2. CASE d # c
      BY <1>1, <2>4, <3>2 DEF TypeOK, SoundDb, Sound, Cached, AddsUnderLock,
         WritesInside, RowIsLocked, SeenIsRow,
     FindStartsAnew, UpdateHasRecord, Writes,
     Values, RunReturned,
         Commits, Closes, MayWriteFile, Others
    <3>3. QED
      BY <3>1, <3>2
  <2>6. QED
    BY <2>3, <2>5 DEF SoundDb
<1>2. CASE CommitIsRefused(c)
  <2>1. TypeOK'
    BY <1>2 DEF TypeOK, RunReturned, ProgramRuns, CommitIsRefused, Throws
  <2>2. ASSUME NEW d \in Connections PROVE Sound(d)'
    BY <1>2 DEF TypeOK, SoundDb, Sound, Cached, AddsUnderLock, WritesInside,
       RowIsLocked, SeenIsRow,
     FindStartsAnew, UpdateHasRecord, Writes,
     RunReturned, CommitIsRefused
  <2>3. QED
    BY <2>1, <2>2 DEF SoundDb
<1>3. CASE CommitIsBusy(c)
  <2>1. TypeOK'
    BY <1>3 DEF TypeOK, RunReturned, ProgramRuns, CommitIsBusy, Throws, Locks
  <2>2. ASSUME NEW d \in Connections PROVE Sound(d)'
    BY <1>3 DEF TypeOK, SoundDb, Sound, Cached, AddsUnderLock, WritesInside,
       RowIsLocked, SeenIsRow,
     FindStartsAnew, UpdateHasRecord, Writes,
     RunReturned, CommitIsBusy
  <2>3. QED
    BY <2>1, <2>2 DEF SoundDb
<1>4. QED
  BY <1>1, <1>2, <1>3 DEF RunReturned

LEMMA RunThrewKeeps ==
    ASSUME TypeOK, SoundDb, NEW c \in Connections, RunThrew(c)
    PROVE  TypeOK' /\ SoundDb'
<1>1. TypeOK'
  <2>1. lock' \in [Connections -> Locks]
    BY LockAfter DEF RunThrew, Closes, TypeOK, FindIsActive, UpdateIsActive,
       Locks
  <2>2. added' \in [Connections -> Values]
    BY SharedAssumption DEF TypeOK, RunThrew, Closes, Values
  <2>3. QED
    BY <2>1, <2>2 DEF TypeOK, RunThrew, Closes
<1>2. ASSUME NEW d \in Connections PROVE Sound(d)'
  BY DEF TypeOK, SoundDb, Sound, Cached, AddsUnderLock, WritesInside,
     RowIsLocked, SeenIsRow, FindStartsAnew, UpdateHasRecord, Writes, Values,
     RunThrew, Closes, Released, FindIsActive, UpdateIsActive
<1>3. QED
  BY <1>1, <1>2 DEF SoundDb

LEMMA CatchesKeeps ==
    ASSUME TypeOK, SoundDb, NEW c \in Connections, Catches(c)
    PROVE  TypeOK' /\ SoundDb'
<1>1. TypeOK'
  BY DEF TypeOK, Catches
<1>2. ASSUME NEW d \in Connections PROVE Sound(d)'
  BY DEF TypeOK, SoundDb, Sound, Cached, AddsUnderLock, WritesInside,
     RowIsLocked, SeenIsRow, FindStartsAnew, UpdateHasRecord, Writes, Catches
<1>3. QED
  BY <1>1, <1>2 DEF SoundDb

LEMMA RestartsKeeps ==
    ASSUME TypeOK, SoundDb, NEW c \in Connections, Restarts(c)
    PROVE  TypeOK' /\ SoundDb'
<1>1. TypeOK'
  BY SharedAssumption DEF TypeOK, Restarts, Locks, Values
<1>2. ASSUME NEW d \in Connections PROVE Sound(d)'
  BY DEF TypeOK, SoundDb, Sound, Cached, AddsUnderLock, WritesInside,
     RowIsLocked, SeenIsRow, FindStartsAnew, UpdateHasRecord, Writes, Restarts
<1>3. QED
  BY <1>1, <1>2 DEF SoundDb

LEMMA NextKeeps == TypeOK /\ SoundDb /\ [Next]_vars => TypeOK' /\ SoundDb'
<1> SUFFICES ASSUME TypeOK, SoundDb, [Next]_vars
             PROVE  TypeOK' /\ SoundDb'
  OBVIOUS
<1>1. CASE UNCHANGED vars
  BY <1>1 DEF vars, TypeOK, SoundDb, Sound, Cached, AddsUnderLock, WritesInside,
     RowIsLocked, SeenIsRow, FindStartsAnew, UpdateHasRecord, Writes, Values,
     Locks
<1>2. ASSUME NEW c \in Connections,
             \/ FindRebinds(c) \/ UpdateRebinds(c) \/ Begin(c) \/ RunReturned(c)
             \/ Catches(c) \/ Restarts(c) \/ Continues(c)
      PROVE  TypeOK' /\ SoundDb'
  BY <1>2, FindRebindsKeeps, UpdateRebindsKeeps, BeginKeeps, RunReturnedKeeps,
     CatchesKeeps, RestartsKeeps, FindStepsKeeps, UpdateStepsKeeps,
     RunThrewKeeps DEF Continues
<1>3. QED
  BY <1>1, <1>2 DEF Next

(****************************************************************************)
(* The state of every connection keeps its type, and what the connections   *)
(* know of the file stays sound.                                            *)
(****************************************************************************)
THEOREM SharedTypeCorrect == Spec => []TypeOK
  BY InitIsSound, NextKeeps, PTL DEF Spec

THEOREM AlwaysSound == Spec => []SoundDb
  BY InitIsSound, NextKeeps, PTL DEF Spec

(****************************************************************************)
(* A found record stays what the connection would read (find_record).       *)
(****************************************************************************)
THEOREM FoundRecordsStayTrue == Spec => []ReadsStayTrue
<1>1. SoundDb => ReadsStayTrue
  BY DEF SoundDb, Sound, SeenIsRow, RowIsLocked, Cached, ReadsStayTrue
<1>2. QED
  BY <1>1, AlwaysSound, PTL

(****************************************************************************)
(* Only an UPDATE outside a transaction and a COMMIT change the file, and   *)
(* they write what they found and counted up under a lock.                  *)
(****************************************************************************)
LEMMA EachIsCounted ==
    ASSUME TypeOK, SoundDb, NoLostUpdates, [Next]_vars
    PROVE  NoLostUpdates'
<1> USE DEF NoLostUpdates
<1>1. CASE UNCHANGED <<disk, committed>>
  BY <1>1
<1>2. ASSUME NEW c \in Connections, UpdateSteps(c), UpdatesFile(c)
      PROVE  NoLostUpdates'
  <2>1. ~Writes(c)
    BY <1>2 DEF UpdatesFile, SoundDb, Sound, WritesInside
  <2>2. seen[c] = disk
    BY <1>2, <2>1, UpdateCountsUp DEF UpdateSteps
  <2>3. QED
    BY <1>2, <2>2 DEF UpdatesFile
<1>3. ASSUME NEW c \in Connections, Commits(c)
      PROVE  NoLostUpdates'
  <2>1. disk' = disk + added[c]
    BY <1>3 DEF Commits, Writes, SoundDb, Sound, Cached, AddsUnderLock, TypeOK, Values
  <2>2. QED
    BY <1>3, <2>1 DEF Commits
<1>4. \/ UNCHANGED <<disk, committed>>
      \/ \E c \in Connections : UpdateSteps(c) /\ UpdatesFile(c)
      \/ \E c \in Connections : Commits(c)
  <2>1. CASE UNCHANGED vars
    BY <2>1 DEF vars
  <2>2. ASSUME NEW c \in Connections,
               FindRebinds(c) \/ UpdateRebinds(c) \/ Begin(c) \/ Catches(c) \/ Restarts(c)
        PROVE  UNCHANGED <<disk, committed>>
    BY <2>2 DEF FindRebinds, UpdateRebinds, Begin, Catches, Restarts
  <2>3. ASSUME NEW c \in Connections, FindSteps(c) \/ RunThrew(c)
        PROVE  UNCHANGED <<disk, committed>>
    BY <2>3 DEF FindSteps, RunThrew
  <2>4. ASSUME NEW c \in Connections, UpdateSteps(c)
        PROVE  UpdatesFile(c) \/ UNCHANGED <<disk, committed>>
    BY <2>4 DEF UpdateSteps, UpdatesInTransaction, UpdateIsBusy, UpdateIsUndone
  <2>5. ASSUME NEW c \in Connections, RunReturned(c)
        PROVE  Commits(c) \/ UNCHANGED <<disk, committed>>
    BY <2>5 DEF RunReturned, CommitIsRefused, CommitIsBusy
  <2>6. QED
    BY <2>1, <2>2, <2>3, <2>4, <2>5 DEF Next, Continues
<1>5. QED
  BY <1>1, <1>2, <1>3, <1>4

(****************************************************************************)
(* No increment is lost, however the calls of the threads interleave and    *)
(* whichever of them is refused (find_record, update_record, transaction).  *)
(****************************************************************************)
THEOREM IncrementsAreKept == Spec => []NoLostUpdates
<1>1. Init => NoLostUpdates
  BY DEF Init, NoLostUpdates
<1>2. TypeOK /\ SoundDb /\ NoLostUpdates /\ [Next]_vars => NoLostUpdates'
  BY EachIsCounted
<1>3. QED
  BY <1>1, <1>2, SharedTypeCorrect, AlwaysSound, PTL DEF Spec
=============================================================================
