------------------------------- MODULE Phases -------------------------------
(****************************************************************************)
(* What a caller can tell about a prepared statement: the phase it is in,   *)
(* and what a rewind or a step makes of that phase.                         *)
(****************************************************************************)
Phases == {"ready", "row", "done", "failed"}

StatementErrors == {"SQLConstraintError", "SQLExecutionError"}

Outcomes == {"returned", "InternalError"} \cup StatementErrors

(****************************************************************************)
(* rewind() always leaves the statement ready, but it throws when the last  *)
(* step failed: sqlite3_reset repeats the error of that step.               *)
(****************************************************************************)
RewindOutcome(p) == IF p = "failed" THEN "InternalError" ELSE "returned"

\* how a step that reached the engine may leave the statement, and end
StepMayEnd(p, o) ==
    \/ p \in {"row", "done"} /\ o = "returned"
    \/ p = "failed" /\ o \in StatementErrors
=============================================================================
