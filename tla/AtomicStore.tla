---------------------------- MODULE AtomicStore ----------------------------
(****************************************************************************)
(* What Connection::transaction promises, without statements or caches: the *)
(* effects of the calls made inside it reach the database together when it  *)
(* returns; when it throws, or the process dies before it returns, no trace *)
(* of them is left, on disk or in what the connection reads.  A call that   *)
(* throws has no effect of its own either.                                  *)
(****************************************************************************)
CONSTANT States   \* the possible contents of the database

VARIABLES
    store,   \* what is on disk
    seen,    \* what a query of this connection reads
    scope,   \* is a transaction() call running: "open" or "none"
    raised   \* is an exception on its way to the caller's code

vars == <<store, seen, scope, raised>>

Init ==
    /\ store \in States
    /\ seen = store
    /\ scope = "none"
    /\ raised = FALSE

\* a call outside any transaction that returns took effect at once
Alone ==
    /\ scope = "none" /\ ~raised
    /\ store' \in States
    /\ seen' = store'
    /\ UNCHANGED <<scope, raised>>

Begin ==
    /\ scope = "none" /\ ~raised
    /\ scope' = "open"
    /\ UNCHANGED <<store, seen, raised>>

\* a call inside a transaction is seen by later calls of the connection only
Within ==
    /\ scope = "open" /\ ~raised
    /\ seen' \in States
    /\ UNCHANGED <<store, scope, raised>>

\* a call that throws did nothing, wherever it was made
Refuse ==
    /\ ~raised /\ raised' = TRUE
    /\ UNCHANGED <<store, seen, scope>>

Catch ==
    /\ raised /\ raised' = FALSE
    /\ UNCHANGED <<store, seen, scope>>

\* the transaction returns exactly when nothing was thrown out of its run
Succeed ==
    /\ scope = "open" /\ ~raised
    /\ scope' = "none"
    /\ store' = seen
    /\ UNCHANGED <<seen, raised>>

\* what was thrown out of its run is thrown out of the transaction
Abandon ==
    /\ scope = "open" /\ raised
    /\ scope' = "none"
    /\ seen' = store
    /\ UNCHANGED <<store, raised>>

Crash ==
    /\ scope' = "none" /\ raised' = FALSE
    /\ seen' = store
    /\ UNCHANGED store

Next ==
    \/ Alone \/ Begin \/ Within \/ Refuse \/ Catch
    \/ Succeed \/ Abandon \/ Crash

Spec == Init /\ [][Next]_vars
=============================================================================
