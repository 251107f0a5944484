------------------------------ MODULE Statement ------------------------------
(****************************************************************************)
(* zxorm::Statement: the wrapper every query of the library goes through.   *)
(* The wrapper keeps its own flags (_done, _step_count, _is_bound) beside   *)
(* the state of the sqlite3_stmt it owns, and the two must agree: the       *)
(* iterator and the prepared queries look only at the wrapper's flags.      *)
(*                                                                          *)
(* vm, rc and bindings are the engine's side (external: modelled from how   *)
(* the wrapper uses sqlite3_step, sqlite3_reset and the binds), the other   *)
(* variables are the wrapper's members.  Every public method is an action;  *)
(* callers may call them in any order.                                      *)
(****************************************************************************)
EXTENDS Naturals, Phases

CONSTANTS
    ParameterCount,  \* number of ? in the query text
    Values,          \* what a caller may bind, SQL NULL included
    Unset,           \* a parameter nobody has bound since it was cleared
    MaxSteps         \* bound: steps between two rewinds

ASSUME CountAssumption == ParameterCount \in Nat /\ MaxSteps \in Nat
ASSUME UnsetAssumption == Unset \notin Values

VARIABLES
    vm,         \* sqlite3_stmt: "ready", on a "row", or "halted"
    rc,         \* what the next sqlite3_reset reports: "ok" or "failed"
    bindings,   \* the engine's parameter slots
    known,      \* the parameters _is_bound has a key for
    isBound,    \* those of them it maps to true
    done,       \* _done
    stepCount,  \* _step_count
    outcome     \* how the last call ended: returned, or what it threw

vars == <<vm, rc, bindings, known, isBound, done, stepCount, outcome>>

Params == 1..ParameterCount

(****************************************************************************)
(* The constructor.  Its loop runs `for (i = 1; i == _parameter_count; i++)`*)
(* so it registers parameter 1 of a one-parameter query and nothing else.   *)
(****************************************************************************)
\* a slip: the loop starts at 0
RegisteredFromZero == {i \in 0..ParameterCount : i <= ParameterCount}

Registered == {i \in Params : i = 1 /\ i = ParameterCount}

Init ==
    /\ vm = "ready"
    /\ rc = "ok"
    /\ bindings = [i \in Params |-> Unset]
    /\ known = Registered
    /\ isBound = {}
    /\ done = FALSE
    /\ stepCount = 0
    /\ outcome = "returned"

Throw(error) == outcome' = error

(****************************************************************************)
(* bind(idx, param).  The engine refuses a parameter the query does not     *)
(* have (SQLITE_RANGE) and any bind while the statement has been stepped    *)
(* and not reset (SQLITE_MISUSE).                                           *)
(****************************************************************************)
BindAccepted(i) == i \in Params /\ vm = "ready"

Bind(i, v) ==
    /\ BindAccepted(i)
    /\ bindings' = [bindings EXCEPT ![i] = v]
    /\ known' = known \cup {i}
    /\ isBound' = isBound \cup {i}
    /\ outcome' = "returned"
    /\ UNCHANGED <<vm, rc, done, stepCount>>

BindRefused(i) ==
    /\ ~BindAccepted(i)
    /\ Throw("InternalError")
    /\ UNCHANGED <<vm, rc, bindings, known, isBound, done, stepCount>>

(****************************************************************************)
(* sqlite3_reset always rewinds the engine, but it returns the error of the *)
(* last failed step, if any, and the wrapper turns that into an exception   *)
(* before it has touched its own flags.                                     *)
(****************************************************************************)
EngineReset == vm' = "ready" /\ rc' = "ok"

ResetThrows ==
    /\ rc = "failed"
    /\ EngineReset
    /\ Throw("InternalError")
    /\ UNCHANGED <<bindings, known, isBound, done, stepCount>>

\* slip: _done survives the rewind
RewindKeepsDone == stepCount' = 0 /\ outcome' = "returned" /\ UNCHANGED done

RewindFlags == done' = FALSE /\ stepCount' = 0 /\ outcome' = "returned"

\* rewind()
Rewind ==
    \/ ResetThrows
    \/ /\ rc = "ok"
       /\ EngineReset
       /\ RewindFlags
       /\ UNCHANGED <<bindings, known, isBound>>

\* slip: the bindings are cleared and the flags are not
ResetKeepsFlags ==
    \/ ResetThrows
    \/ /\ rc = "ok"
       /\ EngineReset
       /\ RewindFlags
       /\ bindings' = [i \in Params |-> Unset]
       /\ UNCHANGED <<known, isBound>>

\* reset(): rewind, sqlite3_clear_bindings, and every known flag to false
Reset ==
    \/ ResetThrows
    \/ /\ rc = "ok"
       /\ EngineReset
       /\ RewindFlags
       /\ bindings' = [i \in Params |-> Unset]
       /\ isBound' = {}
       /\ UNCHANGED known

(****************************************************************************)
(* step().  Two refusals by the wrapper, then sqlite3_step: a row, the end, *)
(* a constraint error or any other error.  The engine rewinds by itself     *)
(* when it is stepped in the halted state.                                  *)
(****************************************************************************)
\* slip: the check of _is_bound is dropped
StepRefusedWhenDone == done

StepRefused == done \/ known # isBound

StepThrowsEarly ==
    /\ StepRefused
    /\ Throw("InternalError")
    /\ UNCHANGED <<vm, rc, bindings, known, isBound, done, stepCount>>

EngineStep ==
    /\ ~StepRefused
    /\ stepCount < MaxSteps
    /\ stepCount' = stepCount + 1
    /\ UNCHANGED <<bindings, known, isBound>>

StepToRow ==
    /\ EngineStep
    /\ vm' = "row" /\ rc' = "ok"
    /\ done' = FALSE
    /\ outcome' = "returned"

StepToEnd ==
    /\ EngineStep
    /\ vm' = "halted" /\ rc' = "ok"
    /\ done' = TRUE
    /\ outcome' = "returned"

\* slip: _done is set whenever the engine returns no row
StepFailsDone ==
    /\ EngineStep
    /\ vm' = "halted" /\ rc' = "failed"
    /\ \E error \in StatementErrors : Throw(error)
    /\ done' = TRUE

StepFails ==
    /\ EngineStep
    /\ vm' = "halted" /\ rc' = "failed"
    /\ \E error \in StatementErrors : Throw(error)
    /\ UNCHANGED done

Step == StepThrowsEarly \/ StepToRow \/ StepToEnd \/ StepFails

Next ==
    \/ \E i \in 1..(ParameterCount + 1) : BindRefused(i) \/ \E v \in Values : Bind(i, v)
    \/ Rewind
    \/ Reset
    \/ Step

Spec == Init /\ [][Next]_vars

-----------------------------------------------------------------------------
\* Every variable has the type its member or engine state has.
TypeOK ==
    /\ vm \in {"ready", "row", "halted"}
    /\ rc \in {"ok", "failed"}
    /\ bindings \in [Params -> Values \cup {Unset}]
    /\ known \subseteq Params
    /\ isBound \subseteq known
    /\ done \in BOOLEAN
    /\ stepCount \in Nat
    /\ outcome \in Outcomes

(****************************************************************************)
(* done() says exactly that the engine ran the query to its end without an  *)
(* error.  RecordIterator compares with end() and PreparedSelectOne decides *)
(* between a row and nullopt on this flag alone, so a stale flag would lose *)
(* rows or read columns of a statement that has none.                       *)
(****************************************************************************)
DoneMeansCompleted == done <=> (vm = "halted" /\ rc = "ok")

(****************************************************************************)
(* A flag the wrapper keeps for a parameter tells whether the engine's slot *)
(* is set, across rewinds, resets and the resets that throw half way.       *)
(****************************************************************************)
FlagsMatchEngine ==
    \A i \in known : i \in isBound <=> bindings[i] # Unset

(****************************************************************************)
(* A parameter that was bound once is never again executed while unset: the *)
(* check in step() protects every parameter the map knows.                  *)
(****************************************************************************)
ReboundBeforeRun ==
    [][stepCount' > stepCount => \A i \in known : bindings[i] # Unset]_vars

(****************************************************************************)
(* The message of step(), "Some parameters have not been bound", read as a  *)
(* promise: the engine is never run while a parameter is unset.             *)
(****************************************************************************)
AllBoundBeforeRun ==
    [][stepCount' > stepCount => \A i \in Params : bindings[i] # Unset]_vars

(****************************************************************************)
(* What the callers of a statement rely on is only its phase and how the    *)
(* call ended: the wrapper implements StatementPhase.                       *)
(****************************************************************************)
Phase ==
    IF done THEN "done"
    ELSE IF rc = "failed" THEN "failed" ELSE vm

Promise == INSTANCE StatementPhase WITH phase <- Phase

PhaseSpec == Promise!Spec
=============================================================================
