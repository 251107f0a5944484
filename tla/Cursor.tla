------------------------------- MODULE Cursor -------------------------------
(****************************************************************************)
(* A prepared select and the RecordIterators made from it.  They share one  *)
(* Statement: exec(), begin(), rebind() and every ++ act on it, whoever     *)
(* else is reading from it, and a query builder that is used again hands    *)
(* out the same Statement once more.                                        *)
(*                                                                          *)
(* The engine's answers are fixed: under binding b the query has            *)
(* RowCount[b] rows, and row i of it is <<b, i>>.  The row reader throws at *)
(* some of them (module ReadRow says at which).                             *)
(****************************************************************************)
EXTENDS Naturals, Sequences, Phases

CONSTANTS
    Bindings,   \* what the parameters of the query may be bound to
    RowCount,   \* the rows of the query under each binding
    Unreadable, \* the rows the row reader throws at
    Iterators,  \* the loops of the program over the query's results
    Faults,     \* may sqlite3_step fail (another connection's locks)?
    NoRow,      \* return_t{}: an iterator that never read a row
    Nobody,     \* no loop: nobody has the query to itself, exec() got the row
    Lost        \* the row reader threw, the row went to no one

ASSUME CursorAssumption ==
    /\ RowCount \in [Bindings -> Nat]
    /\ Faults \in BOOLEAN
    /\ Nobody \notin Iterators /\ Lost \notin Iterators \cup {Nobody}

VARIABLES
    phase,    \* of the shared Statement (module Phases)
    at,       \* the row the engine is on, 0 before the first
    binding,  \* what the parameters are bound to
    alive,    \* the iterators in use
    current,  \* _current of each iterator
    handed,   \* history: <<who got it, row>> since the query last started
    alone     \* history: the loop nobody interfered with since its begin()

vars == <<phase, at, binding, alive, current, handed, alone>>

Rows == UNION {{b} \X (1..RowCount[b]) : b \in Bindings}

Init ==
    /\ phase = "ready" /\ at = 0
    /\ binding \in Bindings
    /\ alive = {} /\ alone = Nobody
    /\ current = [it \in Iterators |-> NoRow]
    /\ handed = <<>>

-----------------------------------------------------------------------------
(****************************************************************************)
(* Statement::rewind() throws when the last step failed, and the engine is  *)
(* rewound all the same.  Nothing else has changed then.                    *)
(****************************************************************************)
Rewound == RewindOutcome(phase) = "returned"

RewindThrows ==
    /\ ~Rewound
    /\ phase' = "ready" /\ at' = 0
    /\ handed' = <<>>

\* the row sqlite3_step goes on from: a failed step starts the query again
Position == IF phase = "row" THEN at ELSE 0

(****************************************************************************)
(* Statement::step() from row n: the next row, the end, or an error.        *)
(****************************************************************************)
StepsToRow(n) ==
    /\ n < RowCount[binding]
    /\ phase' = "row" /\ at' = n + 1

StepsToEnd(n) ==
    /\ n >= RowCount[binding]
    /\ phase' = "done" /\ at' = 0

StepFails ==
    /\ Faults
    /\ phase' = "failed" /\ at' = 0
    /\ handed' = <<>>

(****************************************************************************)
(* operator++ from row n, given what was handed out before: a step, and the *)
(* row is read unless there is none.  An exception leaves the loop; one of  *)
(* the row reader comes after the step, and _current keeps what it was.     *)
(****************************************************************************)
Reads(it, row, given) ==
    /\ row \notin Unreadable
    /\ current' = [current EXCEPT ![it] = row]
    /\ handed' = Append(given, <<it, row>>)
    /\ alive' = alive \cup {it}

ReadThrows(it, row, given) ==
    /\ row \in Unreadable
    /\ handed' = Append(given, <<Lost, row>>)
    /\ alive' = alive \ {it}
    /\ UNCHANGED current

\* slip: the row is read before the step
ReadsBeforeStep(it, n, given) ==
    \/ StepsToRow(n) /\ Reads(it, <<binding, n>>, given)
    \/ StepsToRow(n) /\ ReadThrows(it, <<binding, n>>, given)
    \/ /\ StepsToEnd(n)
       /\ alive' = alive \cup {it}
       /\ handed' = given /\ UNCHANGED current

Increments(it, n, given) ==
    \/ StepsToRow(n) /\ Reads(it, <<binding, at'>>, given)
    \/ StepsToRow(n) /\ ReadThrows(it, <<binding, at'>>, given)
    \/ /\ StepsToEnd(n)
       /\ alive' = alive \cup {it}
       /\ handed' = given /\ UNCHANGED current
    \/ StepFails /\ alive' = alive \ {it} /\ UNCHANGED current

(****************************************************************************)
(* begin(): rewind, then the constructor of the iterator, which increments. *)
(****************************************************************************)
\* slip: begin() goes on from wherever the statement is
BeginsWhereItIs(it) == Increments(it, Position, handed)

BeginsAtTop(it) == Increments(it, 0, <<>>)

Begin(it) ==
    /\ it \notin alive
    /\ \/ Rewound /\ BeginsAtTop(it) /\ alone' = it
       \/ RewindThrows /\ alone' = Nobody /\ UNCHANGED <<alive, current>>
    /\ UNCHANGED binding

(****************************************************************************)
(* The ++ of a running loop.  Once the statement is done it does nothing.   *)
(****************************************************************************)
AtEnd == phase = "done"

\* slip: ++ stops short of the last row
AdvanceStopsShort(it) ==
    /\ it \in alive /\ ~AtEnd
    /\ at + 1 < RowCount[binding]
    /\ Increments(it, Position, handed)
    /\ alone' = IF alone = it THEN it ELSE Nobody
    /\ UNCHANGED binding

Advance(it) ==
    /\ it \in alive /\ ~AtEnd
    /\ Increments(it, Position, handed)
    /\ alone' = IF alone = it THEN it ELSE Nobody
    /\ UNCHANGED binding

\* the loop is over, or its body breaks out
Break(it) ==
    /\ it \in alive
    /\ alive' = alive \ {it}
    /\ UNCHANGED <<phase, at, binding, current, handed, alone>>

(****************************************************************************)
(* PreparedSelectMany::exec() rewinds; the loop begins later, if at all.    *)
(****************************************************************************)
ExecMany ==
    /\ \/ Rewound /\ phase' = "ready" /\ at' = 0 /\ handed' = <<>>
       \/ RewindThrows
    /\ alone' = Nobody
    /\ UNCHANGED <<binding, alive, current>>

(****************************************************************************)
(* PreparedSelectOne::exec() of a query made from the same builder: it      *)
(* takes the first row, or throws at it, and leaves the statement there.    *)
(****************************************************************************)
ReceiverOf(row) == IF row \in Unreadable THEN Lost ELSE Nobody

ExecOne ==
    /\ \/ /\ Rewound /\ StepsToRow(0)
          /\ handed' = <<<<ReceiverOf(<<binding, 1>>), <<binding, 1>>>>>>
       \/ Rewound /\ StepsToEnd(0) /\ handed' = <<>>
       \/ Rewound /\ StepFails
       \/ RewindThrows
    /\ alone' = Nobody
    /\ UNCHANGED <<binding, alive, current>>

(****************************************************************************)
(* rebind(), and prepare() of a builder that has made its statement before: *)
(* reset, then bind.                                                        *)
(****************************************************************************)
Rebind(b) ==
    /\ \/ /\ Rewound
          /\ phase' = "ready" /\ at' = 0 /\ handed' = <<>>
          /\ binding' = b
       \/ RewindThrows /\ UNCHANGED binding
    /\ alone' = Nobody
    /\ UNCHANGED <<alive, current>>

Next ==
    \/ \E it \in Iterators : Begin(it) \/ Advance(it) \/ Break(it)
    \/ ExecMany \/ ExecOne
    \/ \E b \in Bindings : Rebind(b)

(****************************************************************************)
(* A range-for loop goes on by itself: its ++ is not put off for ever.      *)
(****************************************************************************)
Spec == Init /\ [][Next]_vars /\ \A it \in Iterators : WF_vars(Advance(it))

-----------------------------------------------------------------------------
\* Every variable has the type its member, or what it records, has.
TypeOK ==
    /\ phase \in Phases
    /\ binding \in Bindings
    /\ at \in 0..RowCount[binding]
    /\ alive \subseteq Iterators /\ alone \in Iterators \cup {Nobody}
    /\ current \in [Iterators -> Rows \cup {NoRow}]
    /\ handed \in Seq((Iterators \cup {Nobody, Lost}) \X Rows)

(****************************************************************************)
(* Whoever reads: between two starts of the query no row is handed out      *)
(* twice, to one loop or to two, none is lost but those the row reader      *)
(* throws at, and the end is reported when there is no other row.           *)
(****************************************************************************)
RowsAreSharedOut ==
    /\ \A i \in DOMAIN handed :
        /\ handed[i][2] = <<binding, i>>
        /\ handed[i][1] = Lost <=> handed[i][2] \in Unreadable
    /\ AtEnd => Len(handed) = RowCount[binding]

(****************************************************************************)
(* A loop nobody interferes with gets every one of those rows itself, and   *)
(* *it is the latest of them.  to_vector() is such a loop.                  *)
(****************************************************************************)
AloneGetsAll ==
    alone \in alive =>
        /\ \A i \in DOMAIN handed : handed[i][1] = alone
        /\ handed # <<>> => current[alone] = handed[Len(handed)][2]

(****************************************************************************)
(* Such a loop comes to its end, or out of it.                              *)
(****************************************************************************)
LoopsEnd ==
    \A it \in Iterators :
        it = alone /\ it \in alive ~> it # alone \/ it \notin alive \/ AtEnd
=============================================================================
