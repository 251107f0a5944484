---------------------------- MODULE CursorProofs ----------------------------
(****************************************************************************)
(* Proofs about the loops over a prepared select, for any number of loops,  *)
(* bindings and rows.                                                       *)
(****************************************************************************)
EXTENDS Cursor, SequenceTheorems, TLAPS

(****************************************************************************)
(* The inductive invariant: what was handed out since the query started is  *)
(* as long as the engine has come, and the shared statement forgets it      *)
(* whenever it starts again or fails.                                       *)
(****************************************************************************)
HandedAsFarAsEngine ==
    /\ phase \in {"ready", "failed"} => handed = <<>>
    /\ phase = "row" => at = Len(handed)
    /\ phase # "row" => at = 0

\* what `handed` is a sequence of
Entries == (Iterators \cup {Nobody, Lost}) \X Rows

IInv == TypeOK /\ HandedAsFarAsEngine /\ RowsAreSharedOut /\ AloneGetsAll

LEMMA InitIInv == Init => IInv
<1> SUFFICES ASSUME Init
             PROVE  IInv
  OBVIOUS
<1>1. RowCount[binding] \in Nat
  BY CursorAssumption DEF Init
<1>2. TypeOK
  BY <1>1 DEF Init, TypeOK, Phases, Entries
<1>3. QED
  BY <1>2 DEF Init, IInv, HandedAsFarAsEngine, RowsAreSharedOut, AloneGetsAll, AtEnd

(****************************************************************************)
(* Starting the query again: whoever does it, nothing is handed out yet.    *)
(****************************************************************************)
LEMMA StartsAgain ==
    ASSUME IInv, at' = 0, handed' = <<>>, phase' \in {"ready", "failed"},
           binding' \in Bindings, alive' \subseteq Iterators,
           alone' \in Iterators \cup {Nobody},
           current' \in [Iterators -> Rows \cup {NoRow}]
    PROVE  IInv'
<1>1. RowCount'[binding'] \in Nat
  BY CursorAssumption
<1>2. TypeOK'
  BY <1>1 DEF TypeOK, Phases
<1>3. QED
  BY <1>2 DEF IInv, HandedAsFarAsEngine, RowsAreSharedOut, AloneGetsAll, AtEnd

(****************************************************************************)
(* A ++ from row n, where n rows were handed out, of a loop that is alone   *)
(* or makes everybody else a disturbed one.                                 *)
(****************************************************************************)
Given(given, n) ==
    /\ given \in Seq(Entries)
    /\ Len(given) = n
    /\ \A i \in DOMAIN given :
        /\ given[i][2] = <<binding, i>>
        /\ given[i][1] = Lost <=> given[i][2] \in Unreadable

LEMMA IncrementsKeeps ==
    ASSUME IInv, NEW it \in Iterators, NEW n \in Nat, NEW given,
           Increments(it, n, given), Given(given, n), n <= RowCount[binding],
           binding' = binding, alone' \in {it, Nobody},
           alone' = it => \A i \in DOMAIN given : given[i][1] = it,
           alone' = it /\ given # <<>> => current[it] = given[n][2]
    PROVE  IInv'
<1>0. RowCount[binding] \in Nat /\ binding \in Bindings
  BY CursorAssumption DEF IInv, TypeOK
<1>1. ASSUME StepsToRow(n),
             Reads(it, <<binding, at'>>, given) \/ ReadThrows(it, <<binding, at'>>, given)
      PROVE  IInv'
  <2> DEFINE row == <<binding, n + 1>>
             entry == IF row \in Unreadable THEN <<Lost, row>> ELSE <<it, row>>
  <2>1. at' = n + 1 /\ at' \in 1..RowCount[binding]
    BY <1>0, <1>1 DEF StepsToRow
  <2>2. row \in Rows
    BY <1>0, <2>1 DEF Rows
  <2>3. /\ handed' = Append(given, entry)
        /\ handed' \in Seq(Entries)
        /\ Len(handed') = n + 1
        /\ handed'[n + 1] = entry
        /\ \A i \in 1..n : handed'[i] = given[i]
    <3>1. given \in Seq(Entries) /\ Len(given) = n
      BY DEF Given
    <3>2. entry \in Entries
      BY <2>2 DEF Entries
    <3>3. handed' = Append(given, entry)
      BY <1>1, <2>1 DEF Reads, ReadThrows
    <3>4. QED
      BY <3>1, <3>2, <3>3, AppendProperties
  <2>4. DOMAIN given = 1..n /\ DOMAIN handed' = 1..(n + 1)
    BY <2>3 DEF Given
  <2>5. /\ current' \in [Iterators -> Rows \cup {NoRow}]
        /\ alive' \subseteq Iterators
        /\ it \in alive' => row \notin Unreadable /\ current'[it] = row
    <3>1. /\ current \in [Iterators -> Rows \cup {NoRow}]
          /\ alive \subseteq Iterators
      BY DEF IInv, TypeOK
    <3>2. <<binding, at'>> = row
      BY <2>1
    <3>3. CASE Reads(it, row, given)
      BY <2>2, <3>1, <3>3 DEF Reads
    <3>4. CASE ReadThrows(it, row, given)
      BY <3>1, <3>4 DEF ReadThrows
    <3>5. QED
      BY <1>1, <3>2, <3>3, <3>4
  <2>6. TypeOK'
    BY <1>0, <1>1, <2>1, <2>3, <2>5 DEF IInv, TypeOK, StepsToRow, Phases, Entries
  <2>7. HandedAsFarAsEngine'
    BY <1>1, <2>1, <2>3 DEF HandedAsFarAsEngine, StepsToRow
  <2>8. RowsAreSharedOut'
    <3>1. ASSUME NEW i \in 1..(n + 1)
          PROVE  /\ handed'[i][2] = <<binding, i>>
                 /\ handed'[i][1] = Lost <=> handed'[i][2] \in Unreadable
      <4>1. CASE i = n + 1
        <5>1. entry[2] = row /\ (entry[1] = Lost <=> row \in Unreadable)
          BY CursorAssumption
        <5>2. QED
          BY <2>3, <4>1, <5>1
      <4>2. CASE i \in 1..n
        BY <2>3, <2>4, <4>2 DEF Given
      <4>3. QED
        BY <4>1, <4>2
    <3>2. QED
      BY <1>1, <2>4, <3>1 DEF RowsAreSharedOut, AtEnd, StepsToRow
  <2>9. AloneGetsAll'
    <3>1. CASE alone' = Nobody
      BY <3>1, <2>6, CursorAssumption DEF AloneGetsAll, TypeOK
    <3>2. CASE alone' = it /\ it \in alive'
      <4>0. entry = <<it, row>> /\ current'[it] = row
        BY <2>5, <3>2
      <4>1. ASSUME NEW i \in 1..(n + 1) PROVE handed'[i][1] = it
        <5>1. CASE i = n + 1
          <6>1. handed'[n + 1] = <<it, row>>
            BY <2>3, <4>0
          <6>2. QED
            BY <5>1, <6>1
        <5>2. CASE i \in 1..n
          BY <2>3, <2>4, <3>2, <5>2
        <5>3. QED
          BY <5>1, <5>2
      <4>2. current'[it] = handed'[Len(handed')][2]
        BY <2>3, <4>0
      <4>3. QED
        BY <2>4, <3>2, <4>1, <4>2 DEF AloneGetsAll
    <3>3. CASE alone' = it /\ it \notin alive'
      BY <3>3 DEF AloneGetsAll
    <3>4. QED
      BY <3>1, <3>2, <3>3
  <2>10. QED
    BY <2>6, <2>7, <2>8, <2>9 DEF IInv
<1>2. CASE /\ StepsToEnd(n) /\ alive' = alive \cup {it}
           /\ handed' = given /\ UNCHANGED current
  <2>1. n = RowCount[binding]
    BY <1>0, <1>2 DEF StepsToEnd
  <2>2. TypeOK'
    BY <1>0, <1>2 DEF IInv, TypeOK, StepsToEnd, Phases, Given, Entries
  <2>3. HandedAsFarAsEngine' /\ RowsAreSharedOut'
    BY <1>2, <2>1 DEF HandedAsFarAsEngine, RowsAreSharedOut, AtEnd, StepsToEnd, Given
  <2>4. AloneGetsAll'
    BY <1>2, <2>2, CursorAssumption DEF AloneGetsAll, TypeOK, Given
  <2>5. QED
    BY <2>2, <2>3, <2>4 DEF IInv
<1>3. CASE StepFails /\ alive' = alive \ {it} /\ UNCHANGED current
  BY <1>0, <1>3, StartsAgain DEF IInv, TypeOK, StepFails
<1>4. QED
  BY <1>1, <1>2, <1>3 DEF Increments

LEMMA RewindThrowsKeeps ==
    ASSUME IInv, RewindThrows, binding' = binding, alive' = alive, current' = current,
           alone' = Nobody
    PROVE  IInv'
  BY StartsAgain DEF IInv, TypeOK, RewindThrows

LEMMA BeginKeeps ==
    ASSUME IInv, NEW it \in Iterators, Begin(it)
    PROVE  IInv'
<1>1. CASE BeginsAtTop(it) /\ alone' = it
  <2>1. Given(<<>>, 0) /\ 0 <= RowCount[binding]
    BY CursorAssumption DEF Given, IInv, TypeOK
  <2>2. QED
    BY <1>1, <2>1, IncrementsKeeps DEF Begin, BeginsAtTop
<1>2. CASE RewindThrows /\ alone' = Nobody /\ UNCHANGED <<alive, current>>
  BY <1>2, RewindThrowsKeeps DEF Begin
<1>3. QED
  BY <1>1, <1>2 DEF Begin

LEMMA AdvanceKeeps ==
    ASSUME IInv, NEW it \in Iterators, Advance(it)
    PROVE  IInv'
<1>1. /\ Position \in Nat /\ Position <= RowCount[binding] /\ Len(handed) = Position
      /\ handed \in Seq(Entries)
  BY CursorAssumption DEF IInv, TypeOK, HandedAsFarAsEngine, Position, Advance, AtEnd,
     Phases, Entries
<1>2. Given(handed, Position)
  BY <1>1 DEF Given, IInv, RowsAreSharedOut
<1>3. ASSUME alone' = it
      PROVE  /\ \A i \in DOMAIN handed : handed[i][1] = it
             /\ handed # <<>> => current[it] = handed[Position][2]
  <2>1. alone = it
    BY <1>3, CursorAssumption DEF Advance
  <2>2. QED
    BY <1>1, <2>1 DEF Advance, IInv, AloneGetsAll
<1>4. QED
  BY <1>1, <1>2, <1>3, IncrementsKeeps DEF Advance

LEMMA ExecOneKeeps ==
    ASSUME IInv, ExecOne
    PROVE  IInv'
<1>0. RowCount[binding] \in Nat /\ binding \in Bindings
  BY CursorAssumption DEF IInv, TypeOK
<1>1. CASE /\ Rewound /\ StepsToRow(0)
           /\ handed' = <<<<ReceiverOf(<<binding, 1>>), <<binding, 1>>>>>>
  <2>1. <<binding, 1>> \in Rows
    BY <1>0, <1>1 DEF StepsToRow, Rows
  <2>2. /\ ReceiverOf(<<binding, 1>>) \in {Nobody, Lost}
        /\ ReceiverOf(<<binding, 1>>) = Lost <=> <<binding, 1>> \in Unreadable
    BY CursorAssumption DEF ReceiverOf
  <2>3. /\ handed' \in Seq(Entries)
        /\ Len(handed') = 1 /\ DOMAIN handed' = {1}
        /\ handed'[1] = <<ReceiverOf(<<binding, 1>>), <<binding, 1>>>>
    BY <1>1, <2>1, <2>2 DEF Entries
  <2>4. TypeOK'
    BY <1>0, <1>1, <2>3 DEF IInv, TypeOK, ExecOne, StepsToRow, Phases, Entries
  <2>5. RowsAreSharedOut'
    <3>1. /\ handed'[1][2] = <<binding, 1>>
          /\ handed'[1][1] = Lost <=> handed'[1][2] \in Unreadable
      BY <2>2, <2>3
    <3>2. QED
      BY <1>1, <2>3, <3>1 DEF ExecOne, StepsToRow, RowsAreSharedOut, AtEnd
  <2>6. HandedAsFarAsEngine'
    BY <1>1, <2>3 DEF StepsToRow, HandedAsFarAsEngine
  <2>7. AloneGetsAll'
    BY <2>4, CursorAssumption DEF ExecOne, TypeOK, AloneGetsAll
  <2>8. QED
    BY <2>4, <2>5, <2>6, <2>7 DEF IInv
<1>2. CASE Rewound /\ StepsToEnd(0) /\ handed' = <<>>
  <2>1. TypeOK'
    BY <1>0, <1>2 DEF IInv, TypeOK, ExecOne, StepsToEnd, Phases, Entries
  <2>2. QED
    BY <1>0, <1>2, <2>1, CursorAssumption DEF IInv, ExecOne, StepsToEnd, TypeOK,
       HandedAsFarAsEngine, RowsAreSharedOut, AloneGetsAll, AtEnd
<1>3. CASE StepFails \/ RewindThrows
  BY <1>0, <1>3, StartsAgain DEF IInv, TypeOK, ExecOne, StepFails, RewindThrows
<1>4. QED
  BY <1>1, <1>2, <1>3 DEF ExecOne

LEMMA NextIInv == IInv /\ [Next]_vars => IInv'
<1> SUFFICES ASSUME IInv, [Next]_vars
             PROVE  IInv'
  OBVIOUS
<1>1. ASSUME NEW it \in Iterators, Break(it)
      PROVE  IInv'
  BY <1>1 DEF Break, IInv, TypeOK, HandedAsFarAsEngine, RowsAreSharedOut, AloneGetsAll,
     AtEnd, Rows
<1>2. CASE ExecMany
  BY <1>2, StartsAgain, RewindThrowsKeeps DEF ExecMany, IInv, TypeOK
<1>3. ASSUME NEW b \in Bindings, Rebind(b)
      PROVE  IInv'
  BY <1>3, StartsAgain, RewindThrowsKeeps DEF Rebind, IInv, TypeOK
<1>4. CASE UNCHANGED vars
  BY <1>4 DEF vars, IInv, TypeOK, HandedAsFarAsEngine, RowsAreSharedOut, AloneGetsAll,
     AtEnd, Rows
<1>5. QED
  BY <1>1, <1>2, <1>3, <1>4, BeginKeeps, AdvanceKeeps, ExecOneKeeps DEF Next

LEMMA Invariance == Spec => []IInv
  BY InitIInv, NextIInv, PTL DEF Spec

-----------------------------------------------------------------------------
\* The statement, the loops and what they read keep their types.
THEOREM CursorTypeCorrect == Spec => []TypeOK
<1>1. IInv => TypeOK
  BY DEF IInv
<1>2. QED
  BY <1>1, Invariance, PTL

(****************************************************************************)
(* No row is handed out twice between two starts of the query, and none is  *)
(* lost but those whose read throws, whichever loops, exec() and rebind()   *)
(* calls share it and whatever steps fail (RecordIterator, exec()).         *)
(****************************************************************************)
THEOREM NoRowIsLost == Spec => []RowsAreSharedOut
<1>1. IInv => RowsAreSharedOut
  BY DEF IInv
<1>2. QED
  BY <1>1, Invariance, PTL

(****************************************************************************)
(* A loop that is not interfered with gets every row (to_vector()).         *)
(****************************************************************************)
THEOREM UndisturbedLoopGetsAll == Spec => []AloneGetsAll
<1>1. IInv => AloneGetsAll
  BY DEF IInv
<1>2. QED
  BY <1>1, Invariance, PTL
=============================================================================
