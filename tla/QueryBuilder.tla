---------------------------- MODULE QueryBuilder ----------------------------
(****************************************************************************)
(* One query builder used again and again, and the prepared queries made    *)
(* from it.  The first call of one(), many(), where_one() or where_many()   *)
(* fixes the text; every later one, and rebind(), only binds values to the  *)
(* places that text has.  All prepared queries of a builder share one       *)
(* statement.  DeleteQueryBuilder::where is where_many without the clauses. *)
(*                                                                          *)
(* A program builds its expressions one after the other, the operands of    *)
(* one before it, and an expression is its number in that order: it is a    *)
(* comparison [field, in, size] with a value or, when `in` holds, a         *)
(* container of `size` values, or [lhs, rhs] joined by AND or OR, which     *)
(* makes no difference to the places.  A value is named by the field it is  *)
(* compared with and its index there.                                       *)
(****************************************************************************)
EXTENDS Naturals, Sequences, Phases

CONSTANTS
    Fields,        \* what it compares values with
    Built,         \* the expressions it builds
    Expressions,   \* those of them it may ask in a WHERE
    ClauseNames,   \* limit, order_by, group_by: those the program uses
    Arguments,     \* what it may ask for in them
    NoText,        \* the builder has not prepared its statement
    Unset,         \* a parameter without a value
    MaxCalls       \* bound: calls that make a prepared query

-----------------------------------------------------------------------------
(****************************************************************************)
(* Expressions: the ? of the text and the tuple of bindings, each computed  *)
(* on its own way through the tree, and the types of the bindings.          *)
(****************************************************************************)
\* what Field's operators return, its in() and not_in(), and what && and || do
Value(f) == [field |-> f, in |-> FALSE, size |-> 1]
In(f, n) == [field |-> f, in |-> TRUE, size |-> n]
Both(m, n) == [lhs |-> m, rhs |-> n]

IsExpression(n, e) ==
    \/ /\ e \in [field : Fields, in : BOOLEAN, size : Nat]
       /\ ~e.in => e.size = 1
    \/ e \in [lhs : 1..(n - 1), rhs : 1..(n - 1)]

Numbers == DOMAIN Built

NoExpression == 0  \* no WHERE
Asked == Numbers \cup {NoExpression}

IsComparison(n) == "field" \in DOMAIN Built[n]

\* the comparisons, as the tuple of bindings has one member for each
Comparisons[n \in Numbers] ==
    IF IsComparison(n) THEN <<n>>
    ELSE Comparisons[Built[n].lhs] \o Comparisons[Built[n].rhs]

OfComparison(n) == [j \in 1..Built[n].size |-> <<Built[n].field, j>>]

Places[n \in Numbers] ==
    IF IsComparison(n) THEN OfComparison(n)
    ELSE Places[Built[n].lhs] \o Places[Built[n].rhs]

Bindings[n \in Numbers] ==
    IF IsComparison(n) THEN OfComparison(n)
    ELSE Bindings[Built[n].lhs] \o Bindings[Built[n].rhs]

\* slip: the operand added last comes first
Backwards[n \in Numbers] ==
    IF IsComparison(n) THEN OfComparison(n)
    ELSE Backwards[Built[n].rhs] \o Backwards[Built[n].lhs]

BoundBackwards == [e \in Asked |-> IF e = NoExpression THEN <<>> ELSE Backwards[e]]

ComparisonsOf ==
    [e \in Asked |-> IF e = NoExpression THEN <<>> ELSE Comparisons[e]]
PlacesOf == [e \in Asked |-> IF e = NoExpression THEN <<>> ELSE Places[e]]
BindingsOf == [e \in Asked |-> IF e = NoExpression THEN <<>> ELSE Bindings[e]]

\* a value or a container for every comparison
TypesOf ==
    [e \in Asked |->
        [i \in DOMAIN ComparisonsOf[e] |-> Built[ComparisonsOf[e][i]].in]]

\* an IN of no values serializes to a lone closing parenthesis
IsSyntax(e) ==
    \A i \in DOMAIN ComparisonsOf[e] : Built[ComparisonsOf[e][i]].size > 0

-----------------------------------------------------------------------------
VARIABLES
    where,     \* the builder's WHERE
    clauses,   \* the builder's other clauses, 0 for none
    text,      \* the text the statement was prepared from
    slots,     \* the values in its parameters
    known,     \* the parameters the wrapper knows of
    phase,     \* of the statement
    queries,   \* the prepared queries in use, by the types of their bindings
    outcome,   \* how the last call ended; "ran" when the engine was stepped
    asked,     \* history: what the last query handed out, or rebind, asked
    own,       \* history: the clauses the program asked for by name
    made,      \* history: calls that handed out a query
    failedOne  \* history: a where_one() has thrown

builder == <<where, clauses>>
statement == <<text, slots, known, phase>>
history == <<asked, own, made, failedOne>>
vars == <<builder, statement, queries, outcome, history>>

Wheres == Expressions \cup {NoExpression}
Texts == [where : Wheres, clauses : [ClauseNames -> Arguments \cup {0}]]

\* a value, and whether the last bind put it there
Bound(value, fresh) == [value |-> value, fresh |-> fresh]

AllPlaces ==
    UNION {{BindingsOf[e][i] : i \in DOMAIN BindingsOf[e]} : e \in Wheres}

Bounds == {Bound(v, f) : v \in AllPlaces, f \in BOOLEAN}

ASSUME BuilderAssumption ==
    /\ Len(Built) \in Nat /\ Numbers = 1..Len(Built)
    /\ \A n \in Numbers : IsExpression(n, Built[n])
    /\ Expressions \subseteq Numbers
    /\ ClauseNames \subseteq {"limit", "order_by", "group_by"}
    /\ "limit" \in ClauseNames
    /\ Arguments \subseteq Nat \ {0} /\ 1 \in Arguments
    /\ MaxCalls \in Nat
    /\ NoText \notin Texts /\ Unset \notin Bounds

TypeOK ==
    /\ where \in Wheres
    /\ clauses \in [ClauseNames -> Arguments \cup {0}]
    /\ text \in Texts \cup {NoText}
    /\ text # NoText => IsSyntax(text.where)
    /\ DOMAIN slots =
        (IF text = NoText THEN {} ELSE DOMAIN PlacesOf[text.where])
    /\ \A i \in DOMAIN slots : slots[i] \in Bounds \cup {Unset}
    /\ known \subseteq DOMAIN slots
    /\ phase \in Phases
    /\ queries \subseteq {TypesOf[e] : e \in Wheres}
    /\ outcome \in Outcomes \cup {"ran"}
    /\ asked \in [where : Wheres, one : BOOLEAN, bound : BOOLEAN]
    /\ own \in [ClauseNames -> Arguments \cup {0}]
    /\ made \in 0..MaxCalls /\ failedOne \in BOOLEAN

NoClauses == [name \in ClauseNames |-> 0]

Init ==
    /\ where = NoExpression /\ clauses = NoClauses
    /\ text = NoText /\ slots = <<>> /\ known = {} /\ phase = "ready"
    /\ queries = {}
    /\ outcome = "returned"
    /\ asked = [where |-> NoExpression, one |-> FALSE, bound |-> FALSE]
    /\ own = NoClauses
    /\ made = 0 /\ failedOne = FALSE

-----------------------------------------------------------------------------
(****************************************************************************)
(* limit(), order_by() and group_by() set a clause that is still empty.     *)
(****************************************************************************)
WithClause(name, argument) ==
    IF clauses[name] = 0 THEN [clauses EXCEPT ![name] = argument] ELSE clauses

SetClause(name, argument) ==
    /\ clauses' = WithClause(name, argument)
    /\ own' = IF own[name] = 0 THEN [own EXCEPT ![name] = argument] ELSE own
    /\ outcome' = "returned"
    /\ UNCHANGED <<where, statement, queries, asked, made, failedOne>>

-----------------------------------------------------------------------------
(****************************************************************************)
(* Values for the places 1..count, bound from left to right over `before`.  *)
(* The first value too many is refused, and those before it stay bound.     *)
(****************************************************************************)
Fits(values, count) == Len(values) <= count

BindOver(before, values) ==
    [i \in DOMAIN before |->
        IF i <= Len(values) THEN Bound(values[i], TRUE) ELSE before[i]]

Cleared == [i \in DOMAIN slots |-> Unset]

Stale ==
    [i \in DOMAIN slots |->
        IF slots[i] = Unset THEN Unset ELSE Bound(slots[i].value, FALSE)]

Binds(before, values) ==
    /\ slots' = BindOver(before, values)
    /\ known' = known \cup {i \in DOMAIN before : i <= Len(values)}
    /\ outcome' =
        IF Fits(values, Len(before)) THEN "returned" ELSE "InternalError"

\* slip: the statement is rewound and not reset
RewindsAndBinds(values) ==
    /\ phase' = "ready"
    /\ IF RewindOutcome(phase) = "returned"
       THEN Binds(Stale, values)
       ELSE slots' = Stale /\ outcome' = RewindOutcome(phase) /\ UNCHANGED known

\* Statement::reset(), which may throw before it clears, then bind()
ResetsAndBinds(values) ==
    /\ phase' = "ready"
    /\ IF RewindOutcome(phase) = "returned"
       THEN Binds(Cleared, values)
       ELSE slots' = Stale /\ outcome' = RewindOutcome(phase) /\ UNCHANGED known

-----------------------------------------------------------------------------
(****************************************************************************)
(* prepare(), with the builder's WHERE and clauses as the call has just set *)
(* them.  A statement that cannot be prepared throws, and the builder keeps *)
(* what it was told.                                                        *)
(****************************************************************************)
PreparesText ==
    LET count == Len(PlacesOf[where']) IN
    /\ text = NoText
    /\ IsSyntax(where')
    /\ text' = [where |-> where', clauses |-> clauses']
    /\ slots' = BindOver([i \in 1..count |-> Unset], BindingsOf[where'])
    /\ known' = 1..count
    /\ outcome' = "returned"
    /\ UNCHANGED phase

\* slip: the statement is kept although it could not be prepared
PrepareKeepsText ==
    /\ text = NoText
    /\ ~IsSyntax(where')
    /\ text' = [where |-> where', clauses |-> clauses']
    /\ outcome' = "InternalError"
    /\ UNCHANGED <<slots, known, phase>>

PrepareThrows ==
    /\ text = NoText
    /\ ~IsSyntax(where')
    /\ outcome' = "InternalError"
    /\ UNCHANGED statement

PreparesAgain ==
    /\ text # NoText
    /\ ResetsAndBinds(BindingsOf[where'])
    /\ UNCHANGED text

Prepare == PreparesText \/ PrepareThrows \/ PreparesAgain

\* slip: the query is prepared before the limit of one row is set
LimitsTooLate(one) == UNCHANGED clauses

LimitsToOne(one) ==
    clauses' = IF one THEN WithClause("limit", 1) ELSE clauses

(****************************************************************************)
(* where_one(e) and where_many(e); one() and many() leave the WHERE alone,  *)
(* so that a builder asked again still binds the one it has.                *)
(****************************************************************************)
MakesQuery(one, e) ==
    /\ made < MaxCalls
    /\ LimitsToOne(one)
    /\ Prepare
    /\ UNCHANGED own
    /\ IF outcome' = "returned"
       THEN /\ queries' = queries \cup {TypesOf[e]}
            /\ made' = made + 1
            /\ asked' = [where |-> where', one |-> one, bound |-> TRUE]
            /\ UNCHANGED failedOne
       ELSE /\ failedOne' = (failedOne \/ one)
            /\ asked' = [asked EXCEPT !.bound = FALSE]
            /\ UNCHANGED <<queries, made>>

WhereQuery(one, e) == where' = e /\ MakesQuery(one, e)

PlainQuery(one) == UNCHANGED where /\ MakesQuery(one, NoExpression)

\* rebind(values) of a prepared query: values of the types it was made with
Rebind(e) ==
    /\ TypesOf[e] \in queries
    /\ ResetsAndBinds(BindingsOf[e])
    /\ asked' = [asked EXCEPT !.where = e, !.bound = (outcome' = "returned")]
    /\ UNCHANGED <<builder, text, queries, own, made, failedOne>>

(****************************************************************************)
(* exec(): rewind and step.  The step is refused when a known parameter has *)
(* no value.                                                                *)
(****************************************************************************)
AllKnownBound == \A i \in known : slots[i] # Unset

ExecThrows ==
    /\ RewindOutcome(phase) # "returned" \/ ~AllKnownBound
    /\ phase' = "ready"
    /\ outcome' = "InternalError"

ExecRuns ==
    /\ RewindOutcome(phase) = "returned" /\ AllKnownBound
    /\ phase' \in {"row", "done", "failed"}
    /\ outcome' = "ran"

Exec ==
    /\ queries # {}
    /\ ExecThrows \/ ExecRuns
    /\ UNCHANGED <<builder, text, slots, known, queries, history>>

Next ==
    \/ \E name \in ClauseNames, a \in Arguments : SetClause(name, a)
    \/ \E one \in BOOLEAN, e \in Expressions : WhereQuery(one, e)
    \/ \E one \in BOOLEAN : PlainQuery(one)
    \/ \E e \in Wheres : Rebind(e)
    \/ Exec

Spec == Init /\ [][Next]_vars

-----------------------------------------------------------------------------
Runs == outcome' = "ran"

\* one comparison after the other, of the same fields with the same types
SameComparisons(e, f) ==
    /\ TypesOf[e] = TypesOf[f]
    /\ \A i \in DOMAIN ComparisonsOf[e] :
        Built[ComparisonsOf[e][i]].field = Built[ComparisonsOf[f][i]].field

Containers(e) == {i \in DOMAIN TypesOf[e] : TypesOf[e][i]}

OneContainerAtMost(e) == \A i, j \in Containers(e) : i = j

(****************************************************************************)
(* The values a query runs with were bound together, by one call, and every *)
(* parameter has one: a shorter container, or a bind that was refused half  *)
(* way, never leaves a value of an earlier bind in the query.               *)
(****************************************************************************)
BoundTogether ==
    [][Runs =>
        \A i, j \in DOMAIN slots :
            /\ slots[i] # Unset
            /\ slots[i].fresh = slots[j].fresh]_vars

(****************************************************************************)
(* README, "it can only be bound with different parameters": after a bind   *)
(* that returned, with values for the same comparisons the text was made    *)
(* for, every value runs in the place of the field it was meant for.  The   *)
(* types alone do not see to that: values for the same types in another     *)
(* order of the fields are bound as well.  Nor is it so with two            *)
(* containers: sizes (1, 3) fill the places of (2, 2).                      *)
(****************************************************************************)
ValuesInTheirPlaces ==
    [][/\ Runs /\ asked.bound
       /\ SameComparisons(asked.where, text.where)
       /\ OneContainerAtMost(asked.where)
       => \A i \in DOMAIN slots : slots[i].value = PlacesOf[text.where][i]]_vars

(****************************************************************************)
(* The first query a builder hands out runs with the clauses the program    *)
(* asked for before it, the first of each kind, and with LIMIT 1 when it is *)
(* asked for one record and no limit was.  Not so after a where_one() that  *)
(* threw: its LIMIT 1 is still in the builder.                              *)
(****************************************************************************)
Wanted(one) ==
    [name \in ClauseNames |->
        IF name = "limit" /\ one /\ own[name] = 0 THEN 1 ELSE own[name]]

ClausesAsAsked ==
    [][made = 0 /\ made' = 1 /\ ~failedOne =>
        text'.clauses = Wanted(asked'.one)]_vars
=============================================================================
