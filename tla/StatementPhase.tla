--------------------------- MODULE StatementPhase ---------------------------
(****************************************************************************)
(* The promise of zxorm::Statement to the query classes, without bindings,  *)
(* flags or counters: which calls return, which throw, and the phase they   *)
(* leave the statement in.                                                  *)
(****************************************************************************)
EXTENDS Phases

VARIABLES phase, outcome

vars == <<phase, outcome>>

Init == phase = "ready" /\ outcome = "returned"

Rewind ==
    /\ phase' = "ready"
    /\ outcome' = RewindOutcome(phase)

Step ==
    /\ phase # "done"
    /\ StepMayEnd(phase', outcome')

\* a parameter set in a statement that is not running
Bind ==
    /\ phase = "ready"
    /\ outcome' = "returned"
    /\ UNCHANGED phase

\* a call out of turn throws and changes nothing
Refuse ==
    /\ outcome' = "InternalError"
    /\ UNCHANGED phase

Next == Rewind \/ Step \/ Bind \/ Refuse

Spec == Init /\ [][Next]_vars
=============================================================================
