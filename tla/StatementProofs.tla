--------------------------- MODULE StatementProofs ---------------------------
(****************************************************************************)
(* Proofs about zxorm::Statement, for every number of parameters and every  *)
(* set of values.                                                           *)
(****************************************************************************)
EXTENDS Statement, TLAPS

(****************************************************************************)
(* The inductive invariant: the types, the agreement of _done with the      *)
(* engine, and the agreement of _is_bound with the engine's slots.  A       *)
(* failed run is always a halted one, which DoneMeansCompleted needs when   *)
(* a reset throws and leaves _done alone.                                   *)
(****************************************************************************)
FailedRunIsHalted == rc = "failed" => vm = "halted"

IInv == TypeOK /\ DoneMeansCompleted /\ FlagsMatchEngine /\ FailedRunIsHalted

LEMMA InitIInv == Init => IInv
<1> SUFFICES ASSUME Init
             PROVE  IInv
  OBVIOUS
<1>1. TypeOK
  BY DEF Init, TypeOK, Registered, Outcomes
<1>2. FlagsMatchEngine
  BY DEF Init, FlagsMatchEngine, Registered
<1>3. QED
  BY <1>1, <1>2 DEF Init, IInv, DoneMeansCompleted, FailedRunIsHalted

(****************************************************************************)
(* Every method keeps the inductive invariant.                              *)
(****************************************************************************)
LEMMA NextIInv == IInv /\ [Next]_vars => IInv'
<1> SUFFICES ASSUME IInv, [Next]_vars
             PROVE  IInv'
  OBVIOUS
<1> USE DEF IInv, TypeOK, DoneMeansCompleted, FlagsMatchEngine, FailedRunIsHalted
<1>1. ASSUME NEW i \in 1..(ParameterCount + 1), NEW v \in Values, Bind(i, v)
      PROVE  IInv'
  <2>1. i \in Params /\ vm = "ready" /\ v # Unset
    BY <1>1, UnsetAssumption DEF Bind, BindAccepted
  <2>2. TypeOK'
    BY <1>1, <2>1 DEF Bind, Outcomes
  <2>3. FlagsMatchEngine'
    BY <1>1, <2>1 DEF Bind
  <2>4. QED
    BY <1>1, <2>1, <2>2, <2>3 DEF Bind
<1>2. ASSUME NEW i \in 1..(ParameterCount + 1), BindRefused(i)
      PROVE  IInv'
  BY <1>2 DEF BindRefused, Throw, Outcomes
<1>3. ASSUME ResetThrows
      PROVE  IInv'
  BY <1>3 DEF ResetThrows, EngineReset, Throw, Outcomes
<1>4. ASSUME rc = "ok", EngineReset, RewindFlags, UNCHANGED known,
             UNCHANGED <<bindings, isBound>> \/
                (bindings' = [i \in Params |-> Unset] /\ isBound' = {})
      PROVE  IInv'
  <2>1. TypeOK'
    BY <1>4 DEF EngineReset, RewindFlags, Outcomes
  <2>2. FlagsMatchEngine'
    BY <1>4 DEF EngineReset, RewindFlags
  <2>3. DoneMeansCompleted' /\ FailedRunIsHalted'
    BY <1>4 DEF EngineReset, RewindFlags
  <2>4. QED
    BY <2>1, <2>2, <2>3
<1>5. CASE Rewind \/ Reset
  BY <1>3, <1>4, <1>5 DEF Rewind, Reset
<1>6. CASE Step
  <2>1. CASE StepThrowsEarly
    BY <2>1 DEF StepThrowsEarly, Throw, Outcomes
  <2>2. CASE StepToRow
    <3>1. TypeOK'
      <4>1. done' \in BOOLEAN
        BY <2>2 DEF StepToRow
      <4>2. vm' = "row" /\ rc' = "ok" /\ outcome' = "returned" /\ stepCount' \in Nat
        BY <2>2 DEF StepToRow, EngineStep
      <4>3. UNCHANGED <<bindings, known, isBound>>
        BY <2>2 DEF StepToRow, EngineStep
      <4>4. QED
        BY <4>1, <4>2, <4>3 DEF Outcomes
    <3>2. FlagsMatchEngine'
      BY <2>2 DEF StepToRow, EngineStep
    <3>3. DoneMeansCompleted' /\ FailedRunIsHalted'
      BY <2>2 DEF StepToRow
    <3>4. QED
      BY <3>1, <3>2, <3>3
  <2>3. CASE StepToEnd
    <3>1. TypeOK' /\ FlagsMatchEngine'
      BY <2>3 DEF StepToEnd, EngineStep, Outcomes
    <3>2. DoneMeansCompleted' /\ FailedRunIsHalted'
      BY <2>3 DEF StepToEnd
    <3>3. QED
      BY <3>1, <3>2
  <2>4. CASE StepFails
    BY <2>4 DEF StepFails, EngineStep, StepRefused, Throw, Outcomes, StatementErrors
  <2>5. QED
    BY <1>6, <2>1, <2>2, <2>3, <2>4 DEF Step
<1>7. CASE UNCHANGED vars
  BY <1>7 DEF vars
<1>8. QED
  BY <1>1, <1>2, <1>5, <1>6, <1>7 DEF Next

LEMMA Invariance == Spec => []IInv
  BY InitIInv, NextIInv, PTL DEF Spec

\* The wrapper's members and the engine's slots keep their types.
THEOREM StatementTypeCorrect == Spec => []TypeOK
<1>1. IInv => TypeOK
  BY DEF IInv
<1>2. QED
  BY <1>1, Invariance, PTL

(****************************************************************************)
(* _done is the engine's own notion of a finished query, after any calls.   *)
(****************************************************************************)
THEOREM DoneIsFaithful == Spec => []DoneMeansCompleted
<1>1. IInv => DoneMeansCompleted
  BY DEF IInv
<1>2. QED
  BY <1>1, Invariance, PTL

(****************************************************************************)
(* Every flag the wrapper keeps tells the state of the engine's slot.       *)
(****************************************************************************)
THEOREM FlagsAreFaithful == Spec => []FlagsMatchEngine
<1>1. IInv => FlagsMatchEngine
  BY DEF IInv
<1>2. QED
  BY <1>1, Invariance, PTL

(****************************************************************************)
(* Only sqlite3_step raises the step count, and step() reaches it past its  *)
(* own check alone.                                                         *)
(****************************************************************************)
LEMMA OnlyStepsRun ==
    ASSUME TypeOK, [Next]_vars, stepCount' > stepCount
    PROVE  EngineStep
<1>1. ASSUME NEW i \in 1..(ParameterCount + 1), NEW v \in Values, Bind(i, v) \/ BindRefused(i)
      PROVE  FALSE
  BY <1>1 DEF Bind, BindRefused, TypeOK
<1>2. CASE Rewind \/ Reset
  BY <1>2 DEF Rewind, Reset, ResetThrows, RewindFlags, TypeOK
<1>3. CASE Step
  BY <1>3 DEF Step, StepThrowsEarly, StepToRow, StepToEnd, StepFails, TypeOK
<1>4. ASSUME NEW i \in 1..(ParameterCount + 1), BindRefused(i)
      PROVE  FALSE
  BY <1>4 DEF BindRefused, TypeOK
<1>5. QED
  BY <1>1, <1>2, <1>3, <1>4 DEF Next, vars, TypeOK

(****************************************************************************)
(* A parameter that was bound once is never executed while unset, whatever  *)
(* resets, refused binds and failed steps came in between.                  *)
(****************************************************************************)
THEOREM NoStaleRun == Spec => ReboundBeforeRun
<1>1. IInv /\ [Next]_vars =>
        [stepCount' > stepCount => \A i \in known : bindings[i] # Unset]_vars
  <2> SUFFICES ASSUME IInv, [Next]_vars, stepCount' > stepCount
               PROVE  \A i \in known : bindings[i] # Unset
    OBVIOUS
  <2>1. EngineStep
    BY OnlyStepsRun DEF IInv
  <2>2. known = isBound
    BY <2>1 DEF EngineStep, StepRefused
  <2>3. QED
    BY <2>2 DEF IInv, FlagsMatchEngine
<1>2. QED
  BY <1>1, Invariance, PTL DEF Spec, ReboundBeforeRun

(****************************************************************************)
(* The wrapper implements the promise its callers rely on: with the phase   *)
(* read off its flags, every method is a step StatementPhase allows.        *)
(****************************************************************************)
THEOREM ImplementsPhases == Spec => PhaseSpec
<1>1. Init => Promise!Init
  BY DEF Init, Promise!Init, Phase
<1>2. IInv /\ [Next]_vars => [Promise!Next]_(Promise!vars)
  <2> SUFFICES ASSUME IInv, [Next]_vars
               PROVE  [Promise!Next]_(Promise!vars)
    OBVIOUS
  <2>1. ASSUME NEW i \in 1..(ParameterCount + 1), NEW v \in Values, Bind(i, v)
        PROVE  Promise!Bind
    BY <2>1 DEF IInv, DoneMeansCompleted, FailedRunIsHalted, Bind, BindAccepted, Promise!Bind, Phase
  <2>2. ASSUME NEW i \in 1..(ParameterCount + 1), BindRefused(i)
        PROVE  Promise!Refuse
    BY <2>2 DEF BindRefused, Throw, Promise!Refuse, Phase
  <2>3. ASSUME Rewind \/ Reset
        PROVE  Promise!Rewind
    <3>1. CASE ResetThrows
      <4>1. ~done /\ ~done'
        BY <3>1 DEF IInv, DoneMeansCompleted, ResetThrows
      <4>2. Phase = "failed" /\ Phase' = "ready"
        BY <3>1, <4>1 DEF ResetThrows, EngineReset, Phase
      <4>3. QED
        BY <3>1, <4>2 DEF ResetThrows, Throw, Promise!Rewind, Promise!RewindOutcome
    <3>2. CASE rc = "ok" /\ EngineReset /\ RewindFlags
      <4>1. Phase # "failed"
        BY <3>2 DEF IInv, TypeOK, Phase
      <4>2. Phase' = "ready"
        BY <3>2 DEF EngineReset, RewindFlags, Phase
      <4>3. QED
        BY <3>2, <4>1, <4>2 DEF RewindFlags, Promise!Rewind, Promise!RewindOutcome
    <3>3. QED
      BY <2>3, <3>1, <3>2 DEF Rewind, Reset
  <2>4. ASSUME StepThrowsEarly
        PROVE  Promise!Refuse
    BY <2>4 DEF StepThrowsEarly, Throw, Promise!Refuse, Phase
  <2>5. ASSUME StepToRow \/ StepToEnd \/ StepFails
        PROVE  Promise!Step
    <3>1. ~done
      BY <2>5 DEF StepToRow, StepToEnd, StepFails, EngineStep, StepRefused
    <3>2. Phase # "done"
      BY <3>1 DEF IInv, TypeOK, Phase
    <3>3. StepMayEnd(Phase', outcome')
      <4>1. CASE StepToRow
        BY <4>1 DEF StepToRow, Phase, StepMayEnd
      <4>2. CASE StepToEnd
        BY <4>2 DEF StepToEnd, Phase, StepMayEnd
      <4>3. CASE StepFails
        BY <4>3, <3>1 DEF StepFails, Throw, Phase, StepMayEnd
      <4>4. QED
        BY <2>5, <4>1, <4>2, <4>3
    <3>4. QED
      BY <3>2, <3>3 DEF Promise!Step, Promise!StepMayEnd, StepMayEnd,
                        Promise!StatementErrors, StatementErrors
  <2>6. CASE UNCHANGED vars
    BY <2>6 DEF vars, Promise!vars, Phase
  <2>7. QED
    BY <2>1, <2>2, <2>3, <2>4, <2>5, <2>6 DEF Next, Step, Promise!Next
<1>3. QED
  BY <1>1, <1>2, Invariance, PTL DEF Spec, PhaseSpec, Promise!Spec
=============================================================================
