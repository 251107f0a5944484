-------------------------- MODULE BatchInsertProofs --------------------------
(****************************************************************************)
(* insert_many_records puts every record in its place, for any number of    *)
(* records, columns and rows per statement, into the tables whose auto      *)
(* increment column is not the third or a later one.                        *)
(****************************************************************************)
EXTENDS BatchInsert, SequenceTheorems, TLAPS

EarlyAuto == \A t \in TableSet : t.auto <= 2

\* the tables whose query has a ? for every bound member
Agreeing == \A t \in TableSet : t.auto \in {1, 2} \/ (t.auto = 0 /\ t.n = 1)

TableRow == [1..table.n -> {NULL} \cup (Nat \X Nat)]

(****************************************************************************)
(* The inductive invariant.  The loop's arithmetic: a statement has as many *)
(* rows as the batch, and the batch ends within the records.  The contents: *)
(* the rows given to SQLite are the first `inserted` records, the bound     *)
(* members are those of the records that come next, and what is not in the  *)
(* table was sacrificed by a conflict clause.                               *)
(****************************************************************************)
LoopInv ==
    /\ table \in TableSet
    /\ size \in Nat /\ batch \in Nat /\ inserted \in Nat /\ rows \in Nat
    /\ inserted <= size
    /\ pc \in {"prepare", "bind", "run", "returned", "threw"}
    /\ pc \in {"bind", "run"} =>
        rows = batch /\ batch > 0 /\ inserted + batch <= size
    /\ pc = "prepare" /\ inserted > 0 => rows = batch /\ batch > 0
    /\ pc = "returned" => inserted = size

DataInv ==
    /\ given \in Seq(TableRow)
    /\ pc # "threw" => Len(given) = inserted
    /\ \A i \in 1..Len(given) : given[i] = Stored(i, table)
    /\ pc = "run" => Fits /\ params = [r \in 1..batch |-> MembersOf(r)]

KeptInv ==
    /\ kept \subseteq 1..Len(given)
    /\ pc = "threw" => given = <<>> /\ kept = {}
    /\ pc # "threw" /\ table.onConflict = {} => 1..Len(given) \subseteq kept
    /\ table.onConflict = {"replace"} /\ Len(given) > 0 => Len(given) \in kept

BatchInv == LoopInv /\ DataInv /\ KeptInv

-----------------------------------------------------------------------------
\* What is known of a table, and of the counts of its query.
LEMMA TableFacts ==
    ASSUME NEW t \in TableSet
    PROVE  /\ t.n \in Nat \ {0} /\ t.auto \in Nat /\ t.auto <= t.n
           /\ Members(t) \in Nat /\ Placeholders(t) \in Nat
    <1>1. t.n \in Nat \ {0} /\ t.auto \in 0..t.n
        BY BatchAssumption
    <1> QED
        BY <1>1 DEF Members, Placeholders, NullColumn

\* When the loops bind more members than the query has ?, one more a row,
\* a statement of at least one row does not fit.
LEMMA NoRoom ==
    ASSUME NEW b \in Nat, b > 0, NEW n \in Nat \ {0}
    PROVE  ~(b * n <= b * (n - 1))
    <1>1. b * (n - 1) = b * n - b
        OBVIOUS
    <1>2. b * n \in Int
        OBVIOUS
    <1> QED
        BY <1>1, <1>2

\* In a statement that fits, the query and the loops agree on the columns.
LEMMA FittingTables ==
    ASSUME EarlyAuto, NEW t \in TableSet, NEW b \in Nat, b > 0,
           b * Members(t) <= b * Placeholders(t)
    PROVE  t.auto \in {1, 2} \/ (t.auto = 0 /\ t.n = 1)
    <1>1. t.n \in Nat \ {0} /\ t.auto \in Nat /\ t.auto <= 2 /\ t.auto <= t.n
        BY TableFacts DEF EarlyAuto
    <1>2. CASE t.auto = 0 /\ t.n >= 2
        <2>1. Members(t) = t.n /\ Placeholders(t) = t.n - 1
            BY <1>1, <1>2 DEF Members, Placeholders, NullColumn
        <2> QED
            BY <2>1, <1>1, NoRoom
    <1>3. CASE ~(t.auto = 0 /\ t.n >= 2)
        BY <1>1, <1>3
    <1> QED
        BY <1>2, <1>3

\* The row r of a statement whose members were bound is a record in its place.
LEMMA RowIsRecord ==
    ASSUME LoopInv, table.auto \in {1, 2} \/ (table.auto = 0 /\ table.n = 1),
           params = [r \in 1..batch |-> MembersOf(r)],
           NEW r \in 1..batch
    PROVE  RowOf(r) = Stored(inserted + r, table) /\ RowOf(r) \in TableRow
    <1>1. table.n \in Nat \ {0} /\ table.auto \in Nat /\ table.auto <= table.n
        BY TableFacts DEF LoopInv
    <1>2. params[r] = [j \in 1..Members(table) |-> <<inserted + r, MemberColumn(table, j)>>]
        BY DEF MembersOf
    <1>3. ASSUME NEW c \in 1..table.n
          PROVE  (IF c = NullColumn(table) THEN NULL
                  ELSE params[r][PlaceholderOf(table, c)])
                 = IF c = table.auto THEN NULL ELSE <<inserted + r, c>>
        <2>1. CASE c = table.auto
            BY <1>1, <2>1 DEF NullColumn
        <2>2. CASE c # table.auto
            <3>1. c # NullColumn(table)
                BY <1>1, <2>2 DEF NullColumn
            <3>2. PlaceholderOf(table, c) \in 1..Members(table)
                BY <1>1, <2>2 DEF PlaceholderOf, NullColumn, Members
            <3>3. MemberColumn(table, PlaceholderOf(table, c)) = c
                BY <1>1, <2>2 DEF MemberColumn, PlaceholderOf, NullColumn
            <3> QED
                BY <1>2, <2>2, <3>1, <3>2, <3>3
        <2> QED
            BY <2>1, <2>2
    <1>4. RowOf(r) = Stored(inserted + r, table)
        BY <1>3 DEF RowOf, Stored
    <1>5. inserted + r \in Nat
        BY DEF LoopInv
    <1>6. Stored(inserted + r, table) \in TableRow
        BY <1>1, <1>5 DEF Stored, TableRow
    <1> QED
        BY <1>4, <1>6

-----------------------------------------------------------------------------
LEMMA BatchInvInit ==
    ASSUME Init
    PROVE  BatchInv
    <1>1. table \in TableSet /\ size \in Nat /\ batch \in Nat
        BY BatchAssumption DEF Init
    <1> QED
        BY <1>1 DEF Init, BatchInv, LoopInv, DataInv, KeptInv

\* The loop's arithmetic is kept by every step.
LEMMA LoopInvStep ==
    ASSUME BatchInv, [Next]_vars
    PROVE  LoopInv'
    <1> USE DEF BatchInv, LoopInv
    <1>1. CASE Return
        BY <1>1 DEF Return, AllIn
    <1>2. CASE PrepareFails
        BY <1>2 DEF PrepareFails, Threw
    <1>3. CASE Prepare
        <2>1. ~AllIn /\ pc = "prepare" /\ pc' = "bind" /\ batch' = NextBatch
              /\ UNCHANGED <<table, size, inserted>>
            BY <1>3 DEF Prepare
        <2>2. NextBatch \in Nat /\ inserted + NextBatch <= size
            BY <2>1 DEF NextBatch, Remaining, AllIn
        <2>3. CASE Reuses
            BY <1>3, <2>1, <2>2, <2>3 DEF Prepare, Reuses, NextBatch
        <2>4. CASE ~Reuses /\ CanPrepare(NextBatch)
            BY <1>3, <2>1, <2>2, <2>4 DEF Prepare, CanPrepare
        <2> QED
            BY <1>3, <2>3, <2>4 DEF Prepare
    <1>4. CASE BindRefused
        BY <1>4 DEF BindRefused, Threw
    <1>5. CASE Bind
        BY <1>5 DEF Bind
    <1>6. CASE RunFails
        BY <1>6 DEF RunFails, Threw
    <1>7. CASE Run
        BY <1>7 DEF Run
    <1>8. CASE UNCHANGED vars
        BY <1>8 DEF vars
    <1> QED
        BY <1>1, <1>2, <1>3, <1>4, <1>5, <1>6, <1>7, <1>8 DEF Next

\* The rows of one statement come after the rows of those before it.
LEMMA RunAppends ==
    ASSUME BatchInv, EarlyAuto, Run
    PROVE  /\ given' \in Seq(TableRow)
           /\ Len(given) = inserted /\ Len(given') = inserted + batch
           /\ rows = batch
           /\ \A i \in 1..Len(given') : given'[i] = Stored(i, table)
    <1> DEFINE new == [r \in 1..rows |-> RowOf(r)]
    <1> USE DEF BatchInv
    <1>1. /\ pc = "run" /\ given' = given \o new
          /\ rows = batch /\ batch \in Nat /\ batch > 0 /\ inserted \in Nat
          /\ table \in TableSet
          /\ Fits /\ params = [r \in 1..batch |-> MembersOf(r)]
        BY DEF Run, LoopInv, DataInv
    <1>2. table.auto \in {1, 2} \/ (table.auto = 0 /\ table.n = 1)
        BY <1>1, FittingTables DEF Fits
    <1>3. \A r \in 1..rows : RowOf(r) = Stored(inserted + r, table) /\ RowOf(r) \in TableRow
        BY <1>1, <1>2, RowIsRecord
    <1>4. /\ new \in Seq(TableRow) /\ Len(new) = rows
          /\ \A r \in 1..rows : new[r] = Stored(inserted + r, table)
        BY <1>1, <1>3
    <1> HIDE DEF new
    <1>5. given \in Seq(TableRow) /\ Len(given) = inserted
          /\ \A i \in 1..Len(given) : given[i] = Stored(i, table)
        BY <1>1 DEF DataInv
    <1>6. /\ given \o new \in Seq(TableRow)
          /\ Len(given \o new) = Len(given) + Len(new)
          /\ \A i \in 1..(Len(given) + Len(new)) :
                (given \o new)[i] =
                    IF i <= Len(given) THEN given[i] ELSE new[i - Len(given)]
        <2>1. given \in Seq(TableRow) /\ new \in Seq(TableRow)
            BY <1>4, <1>5
        <2> QED
            BY <2>1, ConcatProperties
    <1>7. ASSUME NEW i \in 1..(inserted + batch)
          PROVE  (given \o new)[i] = Stored(i, table)
        <2>1. CASE i <= inserted
            BY <1>1, <1>4, <1>5, <1>6, <2>1
        <2>2. CASE i > inserted
            <3>1. i - inserted \in 1..rows /\ inserted + (i - inserted) = i
                BY <1>1, <2>2
            <3>2. new[i - inserted] = Stored(i, table)
                BY <1>4, <3>1
            <3> QED
                BY <1>1, <1>4, <1>5, <1>6, <2>2, <3>2
        <2>3. i <= inserted \/ i > inserted
            BY <1>1
        <2> QED
            BY <2>1, <2>2, <2>3
    <1> QED
        BY <1>1, <1>4, <1>5, <1>6, <1>7

\* The contents are kept by every step.
LEMMA DataInvStep ==
    ASSUME BatchInv, EarlyAuto, [Next]_vars
    PROVE  DataInv'
    <1> USE DEF BatchInv
    <1>1. ASSUME Threw PROVE DataInv'
        <2>1. given' = <<>> /\ pc' = "threw"
            BY <1>1 DEF Threw
        <2> QED
            BY <2>1 DEF DataInv
    <1>2. CASE Return
        BY <1>2 DEF Return, DataInv, TableRow
    <1>3. CASE Prepare
        BY <1>3 DEF Prepare, DataInv, TableRow
    <1>4. CASE Bind
        <2>1. /\ params' = [r \in 1..batch |-> MembersOf(r)] /\ Fits
              /\ UNCHANGED <<table, size, batch, inserted, rows, given>>
              /\ pc = "bind" /\ pc' = "run"
            BY <1>4 DEF Bind
        <2> QED
            BY <2>1 DEF DataInv, TableRow, Fits, MembersOf
    <1>5. CASE Run
        <2>1. /\ UNCHANGED table /\ inserted' = inserted + batch
              /\ pc' = "prepare"
            BY <1>5 DEF Run
        <2> QED
            BY <1>5, <2>1, RunAppends DEF DataInv, TableRow
    <1>6. CASE UNCHANGED vars
        BY <1>6 DEF vars, DataInv, TableRow, Fits, MembersOf
    <1> QED
        BY <1>1, <1>2, <1>3, <1>4, <1>5, <1>6
        DEF Next, PrepareFails, BindRefused, RunFails

(****************************************************************************)
(* Only a conflict clause takes rows out of the table, and REPLACE leaves   *)
(* the last row of the statement that deletes.                              *)
(****************************************************************************)
LEMMA KeptInvStep ==
    ASSUME BatchInv, EarlyAuto, [Next]_vars
    PROVE  KeptInv'
    <1> USE DEF BatchInv
    <1>1. ASSUME Threw PROVE KeptInv'
        BY <1>1 DEF Threw, KeptInv
    <1>2. CASE Return \/ Prepare \/ Bind \/ UNCHANGED vars
        BY <1>2 DEF Return, Prepare, Bind, vars, KeptInv
    <1>3. CASE Run
        <2> DEFINE from == Len(given) + 1
                   to == Len(given) + rows
        <2>1. /\ Len(given) \in Nat /\ rows \in Nat /\ rows > 0
              /\ Len(given') = Len(given) + rows
            BY <1>3, RunAppends DEF Run, LoopInv, DataInv
        <2>2. /\ UNCHANGED table /\ pc' = "prepare" /\ pc = "run"
              /\ kept' \in SUBSET (kept \cup from..to)
              /\ MayRemain(kept', kept, from..to)
            BY <1>3 DEF Run
        <2>3. kept \subseteq 1..Len(given)
            BY DEF KeptInv
        <2>4. kept' \subseteq 1..Len(given')
            BY <2>1, <2>2, <2>3
        <2>5. ASSUME table.onConflict = {}
              PROVE  1..Len(given') \subseteq kept'
            <3>1. 1..Len(given) \subseteq kept
                BY <2>2, <2>5 DEF KeptInv
            <3>2. kept \subseteq kept' /\ from..to \subseteq kept'
                BY <2>2, <2>5 DEF MayRemain
            <3>3. 1..Len(given') \subseteq (1..Len(given)) \cup (from..to)
                BY <2>1
            <3> QED
                BY <3>1, <3>2, <3>3
        <2>6. ASSUME table.onConflict = {"replace"}
              PROVE  Len(given') \in kept'
            <3>1. PICK last \in kept' : \A n \in from..to : last >= n
                BY <2>2, <2>6 DEF MayRemain
            <3>2. to \in from..to
                BY <2>1
            <3>3. last >= to /\ last \in 1..to
                BY <2>1, <2>4, <3>1, <3>2
            <3> QED
                BY <2>1, <3>1, <3>3
        <2> QED
            BY <2>2, <2>4, <2>5, <2>6 DEF KeptInv
    <1> QED
        BY <1>1, <1>2, <1>3 DEF Next, PrepareFails, BindRefused, RunFails

LEMMA BatchInvAlways ==
    ASSUME EarlyAuto
    PROVE  Spec => []BatchInv
    <1>1. Init => BatchInv
        BY BatchInvInit
    <1>2. BatchInv /\ [Next]_vars => BatchInv'
        BY LoopInvStep, DataInvStep, KeptInvStep DEF BatchInv
    <1> QED
        BY <1>1, <1>2, PTL DEF Spec

-----------------------------------------------------------------------------
(****************************************************************************)
(* insert_many_records: the i-th row of the table is the i-th record with   *)
(* every member in its column, for any batch size, number of records and    *)
(* table whose auto increment column is one of the first two, or missing.   *)
(****************************************************************************)
THEOREM RecordsKeepTheirPlace ==
    ASSUME EarlyAuto
    PROVE  Spec => []RecordsInTheirColumns
    <1>1. BatchInv => RecordsInTheirColumns
        BY DEF BatchInv, DataInv, RecordsInTheirColumns
    <1> QED
        BY <1>1, BatchInvAlways, PTL

(****************************************************************************)
(* insert_many_records throws with no record in the table, or it returns    *)
(* when SQLite was given them all, and in a table without clauses that      *)
(* sacrifice rows they all are there; with REPLACE the last one is.         *)
(****************************************************************************)
THEOREM BatchIsAtomic ==
    ASSUME EarlyAuto
    PROVE  Spec => []AllOrNone
    <1>1. BatchInv => AllOrNone
        <2> SUFFICES ASSUME BatchInv PROVE AllOrNone
            OBVIOUS
        <2>1. pc = "returned" => Len(given) = size
            BY DEF BatchInv, LoopInv, DataInv
        <2> QED
            BY <2>1 DEF BatchInv, KeptInv, LoopInv, AllOrNone
    <1> QED
        BY <1>1, BatchInvAlways, PTL

(****************************************************************************)
(* No bind of insert_many_records is refused when the auto increment column *)
(* is the first or second, or the table's only column is no such column.    *)
(****************************************************************************)
THEOREM MembersAlwaysFit ==
    ASSUME Agreeing
    PROVE  Spec => []EveryMemberFits
    <1>1. EarlyAuto
        BY BatchAssumption DEF Agreeing, EarlyAuto
    <1>2. BatchInv => EveryMemberFits
        <2> SUFFICES ASSUME BatchInv, pc = "bind" PROVE Fits
            BY DEF EveryMemberFits
        <2>1. table \in TableSet /\ rows = batch /\ batch \in Nat
            BY DEF BatchInv, LoopInv
        <2>2. table.n \in Nat \ {0} /\ table.auto \in Nat /\ table.auto <= table.n
              /\ Members(table) \in Nat
            BY <2>1, TableFacts
        <2>3. Members(table) = Placeholders(table)
            BY <2>1, <2>2 DEF Agreeing, Members, Placeholders, NullColumn
        <2>4. batch * Members(table) \in Nat
            BY <2>1, <2>2
        <2> QED
            BY <2>1, <2>3, <2>4 DEF Fits
    <1> QED
        BY <1>1, <1>2, BatchInvAlways, PTL

\* What the loop keeps within the bounds of the call.
Bounded ==
    /\ size \in 0..MaxRecords
    /\ batch \in 0..MaxBatch /\ rows \in 0..MaxBatch
    /\ DOMAIN params \in {1..b : b \in 0..MaxBatch}

LEMMA BoundedStep ==
    ASSUME Bounded, LoopInv, [Next]_vars
    PROVE  Bounded'
    <1> USE DEF Bounded
    <1>1. CASE Prepare
        <2>1. NextBatch \in 0..MaxBatch
            BY BatchAssumption DEF NextBatch, Remaining, LoopInv
        <2>2. 0 \in 0..MaxBatch /\ DOMAIN <<>> = 1..0
            BY BatchAssumption
        <2> QED
            BY <1>1, <2>1, <2>2 DEF Prepare
    <1>2. CASE Bind
        BY <1>2 DEF Bind
    <1>3. CASE Return \/ PrepareFails \/ BindRefused \/ RunFails \/ Run
        BY <1>3 DEF Return, PrepareFails, BindRefused, RunFails, Run, Threw
    <1>4. CASE UNCHANGED vars
        BY <1>4 DEF vars
    <1> QED
        BY <1>1, <1>2, <1>3, <1>4 DEF Next

\* The local variables of the loop keep their types and stay in bounds.
THEOREM BatchTypeCorrect ==
    ASSUME EarlyAuto
    PROVE  Spec => []TypeOK
    <1>1. Init => Bounded
        <2>1. 0 \in 0..MaxBatch /\ DOMAIN <<>> = 1..0
            BY BatchAssumption
        <2> QED
            BY <2>1 DEF Init, Bounded
    <1>2. Bounded /\ BatchInv /\ [Next]_vars => Bounded'
        BY BoundedStep DEF BatchInv
    <1>3. Bounded /\ BatchInv => TypeOK
        <2> SUFFICES ASSUME Bounded, BatchInv PROVE TypeOK
            OBVIOUS
        <2>1. DOMAIN given = 1..Len(given) /\ Len(given) \in 0..size
            BY DEF BatchInv, LoopInv, DataInv, KeptInv
        <2>2. DOMAIN given \in {1..m : m \in 0..size}
            BY <2>1
        <2>3. inserted \in 0..size
            BY DEF BatchInv, LoopInv
        <2> QED
            BY <2>1, <2>2, <2>3 DEF Bounded, BatchInv, LoopInv, KeptInv, TypeOK
    <1> QED
        BY <1>1, <1>2, <1>3, BatchInvAlways, PTL DEF Spec
=============================================================================
