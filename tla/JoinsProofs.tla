----------------------------- MODULE JoinsProofs -----------------------------
(****************************************************************************)
(* Proofs about joined queries.  First the search for the foreign keys of a *)
(* query's Join clauses, for any tables, any foreign keys and any number of *)
(* clauses; then the way of the rows that the engine returns to the caller. *)
(****************************************************************************)
EXTENDS JoinChain, ReadRow, SequenceTheorems, WellFoundedInduction, TLAPS

LessThan == {p \in Nat \X Nat : p[1] < p[2]}

\* Every set of natural numbers that is not empty has a least element.
LEMMA LeastElement ==
    ASSUME NEW T \in SUBSET Nat, T # {}
    PROVE  \E n \in T : \A m \in T : n <= m
<1>1. IsWellFoundedOn(LessThan, Nat)
  BY NatLessThanWellFounded, SMT DEF LessThan, OpToRel
<1>2. PICK n \in T : \A m \in T : ~(<<m, n>> \in LessThan)
  BY <1>1, WFMin, Zenon
<1>3. \A m \in T : ~(m < n)
  BY <1>2 DEF LessThan
<1>4. QED
  BY <1>3

(****************************************************************************)
(* The inductive invariant: there is one clause to every table after the    *)
(* first, and the two properties.                                           *)
(****************************************************************************)
OneClauseEach ==
    /\ joined \in Seq(Tables) /\ Len(joined) >= 1
    /\ clauses \in Seq(Tables \X {"new", "other"})
    /\ Len(joined) = Len(clauses) + 1

ChainInv == OneClauseEach /\ FirstKeyIsTaken /\ TwoJoinsAreFound

LEMMA InitChainInv == ChainInit => ChainInv
<1> SUFFICES ASSUME ChainInit
             PROVE  ChainInv
  OBVIOUS
<1>1. PICK t \in Tables : joined = <<t>>
  BY DEF ChainInit
<1>2. QED
  BY <1>1 DEF ChainInit, ChainInv, OneClauseEach, FirstKeyIsTaken, TwoJoinsAreFound

LEMMA FirstIsLeast ==
    ASSUME OneClauseEach, NEW places \in SUBSET (DOMAIN joined), places # {}
    PROVE  First(places) \in places /\ \A j \in places : First(places) <= j
<1>1. places \in SUBSET Nat
  BY DEF OneClauseEach
<1>2. \E i \in places : \A j \in places : i <= j
  BY <1>1, LeastElement
<1>3. QED
  BY <1>2 DEF First

(****************************************************************************)
(* What the search finds, and which other tables then have no such key.     *)
(****************************************************************************)
LEMMA SearchFindsFirst ==
    ASSUME OneClauseEach, NEW t \in Tables, IsRelated(t)
    PROVE  /\ Found(t) \in DOMAIN joined /\ Found(t) \in 1..Len(joined)
           /\ Referencing(t) # {} =>
                /\ References(joined[Found(t)], t)
                /\ \A j \in DOMAIN joined : j < Found(t) => ~References(joined[j], t)
           /\ Referencing(t) = {} =>
                /\ References(t, joined[Found(t)])
                /\ \A j \in DOMAIN joined : j < Found(t) => ~References(t, joined[j])
                /\ \A j \in DOMAIN joined : ~References(joined[j], t)
<1>1. DOMAIN joined = 1..Len(joined) /\ Len(joined) \in Nat
  BY DEF OneClauseEach
<1>2. Referencing(t) \in SUBSET (DOMAIN joined) /\ Referenced(t) \in SUBSET (DOMAIN joined)
  BY DEF Referencing, Referenced
<1>3. CASE Referencing(t) # {}
  <2>1. Found(t) \in Referencing(t) /\ \A j \in Referencing(t) : Found(t) <= j
    BY <1>2, <1>3, FirstIsLeast DEF Found
  <2>2. Found(t) \in 1..Len(joined) /\ References(joined[Found(t)], t)
    BY <1>1, <2>1 DEF Referencing
  <2>3. ASSUME NEW j \in DOMAIN joined, j < Found(t) PROVE ~References(joined[j], t)
    BY <1>1, <2>1, <2>2, <2>3 DEF Referencing
  <2>4. QED
    BY <1>1, <1>3, <2>2, <2>3
<1>4. CASE Referencing(t) = {}
  <2>1. Found(t) \in Referenced(t) /\ \A j \in Referenced(t) : Found(t) <= j
    BY <1>2, <1>4, FirstIsLeast DEF Found, IsRelated
  <2>2. Found(t) \in 1..Len(joined) /\ References(t, joined[Found(t)])
    BY <1>1, <2>1 DEF Referenced
  <2>3. ASSUME NEW j \in DOMAIN joined, j < Found(t) PROVE ~References(t, joined[j])
    BY <1>1, <2>1, <2>2, <2>3 DEF Referenced
  <2>4. \A j \in DOMAIN joined : ~References(joined[j], t)
    BY <1>4 DEF Referencing
  <2>5. QED
    BY <1>1, <1>4, <2>2, <2>3, <2>4
<1>5. QED
  BY <1>3, <1>4

(****************************************************************************)
(* While one table or two are joined, the bool it is returned as still      *)
(* tells the place, so the column that the condition needs is there.        *)
(****************************************************************************)
LEMMA EarlySearch ==
    ASSUME OneClauseEach, NEW t \in Tables, IsRelated(t), Len(joined) <= 2
    PROVE  HasForeignColumn(t)
<1>1. Index(t) = Found(t)
  <2>1. Found(t) \in 1..Len(joined) /\ Len(joined) \in Nat
    BY SearchFindsFirst DEF OneClauseEach
  <2>2. QED
    BY <2>1 DEF Index
<1>2. CASE Referencing(t) # {}
  BY <1>1, <1>2, SearchFindsFirst DEF HasForeignColumn, ForeignKeySide
<1>3. CASE Referencing(t) = {}
  BY <1>1, <1>3, SearchFindsFirst DEF HasForeignColumn, ForeignKeySide
<1>4. QED
  BY <1>2, <1>3

(****************************************************************************)
(* Later it may tell another place, which comes before the one found and so *)
(* has no key: a clause that compiles has the table that was found.         *)
(****************************************************************************)
LEMMA FoundIsTaken ==
    ASSUME OneClauseEach, NEW t \in Tables, IsRelated(t), HasForeignColumn(t)
    PROVE  Index(t) = Found(t)
<1>1. Found(t) \in 1..Len(joined) /\ Len(joined) \in Nat /\ DOMAIN joined = 1..Len(joined)
  BY SearchFindsFirst DEF OneClauseEach
<1>2. CASE Found(t) <= 2
  BY <1>1, <1>2 DEF Index
<1>3. CASE Found(t) > 2
  <2>1. Index(t) = 2 /\ 2 \in DOMAIN joined /\ 2 < Found(t)
    BY <1>1, <1>3 DEF Index
  <2>2. CASE Referencing(t) # {}
    BY <2>1, <2>2, SearchFindsFirst DEF HasForeignColumn, ForeignKeySide
  <2>3. CASE Referencing(t) = {}
    BY <2>1, <2>3, SearchFindsFirst DEF HasForeignColumn, ForeignKeySide
  <2>4. QED
    BY <2>2, <2>3
<1>4. QED
  BY <1>1, <1>2, <1>3

LEMMA JoinKeeps ==
    ASSUME ChainInv, NEW t \in Tables, Join(t)
    PROVE  ChainInv'
<1> DEFINE other == joined[Index(t)]
           clause == <<other, ForeignKeySide(t)>>
<1>0. Index(t) = Found(t) /\ Index(t) \in DOMAIN joined
  BY FoundIsTaken, SearchFindsFirst DEF ChainInv, Join
<1>1. other \in Tables /\ clause \in Tables \X {"new", "other"}
  BY <1>0 DEF ChainInv, OneClauseEach, ForeignKeySide
<1>2. PICK n \in Nat : /\ n = Len(clauses) /\ Len(joined) = n + 1
                       /\ joined \in Seq(Tables)
                       /\ clauses \in Seq(Tables \X {"new", "other"})
  BY DEF ChainInv, OneClauseEach
<1>3. /\ joined' \in Seq(Tables) /\ Len(joined') = n + 2
      /\ joined'[n + 2] = t /\ \A i \in 1..(n + 1) : joined'[i] = joined[i]
  BY <1>2 DEF Join
<1>4. /\ clauses' \in Seq(Tables \X {"new", "other"}) /\ Len(clauses') = n + 1
      /\ clauses'[n + 1] = clause /\ \A i \in 1..n : clauses'[i] = clauses[i]
  BY <1>1, <1>2 DEF Join
<1>5. OneClauseEach'
  BY <1>2, <1>3, <1>4 DEF OneClauseEach
<1>6. TakesFirstKey(n + 1)'
  <2> DEFINE i == Index(t)
  <2>1. DOMAIN joined = 1..(n + 1) /\ n + 1 \in Nat /\ (n + 1) + 1 = n + 2
    BY <1>2
  <2>2. /\ i \in 1..(n + 1) /\ joined'[i] = other
        /\ \A j \in 1..(n + 1) : joined'[j] = joined[j]
        /\ 1..(i - 1) \subseteq 1..(n + 1)
    BY <1>0, <1>3, <2>1
  <2>3. /\ clauses'[n + 1][1] = other /\ clauses'[n + 1][2] = ForeignKeySide(t)
        /\ joined'[(n + 1) + 1] = t
        /\ references' = references
    BY <1>3, <1>4, <2>1 DEF Join
  <2>4. /\ OneClauseEach /\ IsRelated(t) /\ Found(t) = i
    BY <1>0 DEF ChainInv, Join
  <2> HIDE DEF i, other, clause
  <2>5. CASE Referencing(t) # {}
    <3>1. /\ ForeignKeySide(t) = "other" /\ References(joined[i], t)
          /\ \A j \in 1..(i - 1) : ~References(joined[j], t)
      <4>1. ForeignKeySide(t) = "other"
        BY <2>5 DEF ForeignKeySide
      <4>2. /\ References(joined[i], t)
            /\ \A j \in DOMAIN joined : j < i => ~References(joined[j], t)
        BY <2>4, <2>5, SearchFindsFirst
      <4>3. \A j \in 1..(i - 1) : j \in DOMAIN joined /\ j < i
        BY <2>1, <2>2
      <4>4. QED
        BY <4>1, <4>2, <4>3
    <3>2. QED
      BY <2>2, <2>3, <3>1 DEF TakesFirstKey, References
  <2>6. CASE Referencing(t) = {}
    <3>1. /\ ForeignKeySide(t) = "new" /\ References(t, joined[i])
          /\ \A j \in 1..(i - 1) : ~References(t, joined[j])
          /\ \A j \in 1..(n + 1) : ~References(joined[j], t)
      <4>1. ForeignKeySide(t) = "new"
        BY <2>6 DEF ForeignKeySide
      <4>2. /\ References(t, joined[i])
            /\ \A j \in DOMAIN joined : j < i => ~References(t, joined[j])
            /\ \A j \in DOMAIN joined : ~References(joined[j], t)
        BY <2>4, <2>6, SearchFindsFirst
      <4>3. \A j \in 1..(i - 1) : j \in DOMAIN joined /\ j < i
        BY <2>1, <2>2
      <4>4. QED
        BY <2>1, <4>1, <4>2, <4>3
    <3>2. QED
      BY <2>2, <2>3, <3>1 DEF TakesFirstKey, References
  <2>7. QED
    BY <2>5, <2>6
<1>7. FirstKeyIsTaken'
  <2>1. ASSUME NEW k \in 1..n
        PROVE  TakesFirstKey(k)'
    <3>1. /\ clauses'[k] = clauses[k] /\ joined'[k + 1] = joined[k + 1]
          /\ \A j \in 1..k : joined'[j] = joined[j]
          /\ references' = references
          /\ \A i \in 1..k : 1..(i - 1) \subseteq 1..k
      BY <1>2, <1>3, <1>4 DEF Join
    <3>2. TakesFirstKey(k)
      BY <1>2 DEF ChainInv, FirstKeyIsTaken
    <3>3. QED
      BY <3>1, <3>2 DEF TakesFirstKey, References
  <2>2. DOMAIN clauses' = 1..(n + 1) /\ \A k \in 1..(n + 1) : k \in 1..n \/ k = n + 1
    BY <1>2, <1>4
  <2>3. QED
    BY <1>6, <2>1, <2>2 DEF FirstKeyIsTaken
<1>8. TwoJoinsAreFound'
  BY DEF Join, IsNext, TwoJoinsAreFound
<1>9. QED
  BY <1>5, <1>7, <1>8 DEF ChainInv

LEMMA RefusedKeeps ==
    ASSUME ChainInv, NEW t \in Tables, JoinRefused(t)
    PROVE  ChainInv'
<1>1. OneClauseEach' /\ FirstKeyIsTaken'
  BY DEF ChainInv, JoinRefused, OneClauseEach, FirstKeyIsTaken, TakesFirstKey, References
<1>2. TwoJoinsAreFound'
  <2>1. refused' = "related" => ~(Len(joined) <= 2)
    BY EarlySearch DEF ChainInv, JoinRefused
  <2>2. joined' = joined /\ Len(joined) \in Nat
    BY DEF JoinRefused, ChainInv, OneClauseEach
  <2>3. QED
    BY <2>1, <2>2 DEF TwoJoinsAreFound
<1>3. QED
  BY <1>1, <1>2 DEF ChainInv

LEMMA NextChainInv == ChainInv /\ [ChainNext]_chainVars => ChainInv'
<1>1. ChainInv /\ UNCHANGED chainVars => ChainInv'
  BY DEF chainVars, ChainInv, OneClauseEach, FirstKeyIsTaken, TakesFirstKey, References,
     TwoJoinsAreFound
<1>2. QED
  BY <1>1, JoinKeeps, RefusedKeeps DEF ChainNext

LEMMA ChainInvariance == ChainSpec => []ChainInv
  BY InitChainInv, NextChainInv, PTL DEF ChainSpec

-----------------------------------------------------------------------------
(****************************************************************************)
(* The first two Join clauses of a query are never refused for a foreign    *)
(* key that is there (__join_impl, "the only limitation").                  *)
(****************************************************************************)
THEOREM TwoJoinsSucceed == ChainSpec => []TwoJoinsAreFound
<1>1. ChainInv => TwoJoinsAreFound
  BY DEF ChainInv
<1>2. QED
  BY <1>1, ChainInvariance, PTL

(****************************************************************************)
(* Whatever compiles joins along the first foreign key that the search may  *)
(* take, although the place of the other table is returned as a bool        *)
(* (index()), for any foreign keys and any number of clauses.               *)
(****************************************************************************)
THEOREM JoinsTakeTheFirstKey == ChainSpec => []FirstKeyIsTaken
<1>1. ChainInv => FirstKeyIsTaken
  BY DEF ChainInv
<1>2. QED
  BY <1>1, ChainInvariance, PTL

-----------------------------------------------------------------------------
(****************************************************************************)
(* From here on read_row, for every query, ON condition and selection.  The *)
(* rows of a query are defined by recursion over its joins; what is said of *)
(* them for any number of joins rests on the least number for which it      *)
(* would be false.                                                          *)
(****************************************************************************)
\* The rows after each join of a query, as JoinedRows defines them.
After(q, f, n) ==
    f = [k \in 0..n |->
            IF k = 0 THEN {<<r>> : r \in Rows} ELSE JoinedTo(f[k - 1], q[k], k)]

LEMMA RowsAfterEachJoin ==
    ASSUME NEW q, Len(q) \in Nat
    PROVE  \E f : After(q, f, Len(q)) /\ JoinedRows(q) = f[Len(q)]
<1> DEFINE Bad == {n \in Nat : ~\E f : After(q, f, n)}
<1>1. ASSUME NEW n \in Nat, NEW f, n = 0 \/ After(q, f, n - 1)
      PROVE  \E g : After(q, g, n)
  <2> DEFINE first == {<<r>> : r \in Rows}
             g == [k \in 0..n |->
                      IF k = 0 THEN first
                      ELSE IF k < n THEN f[k] ELSE JoinedTo(IF n = 1 THEN first ELSE f[n - 1], q[n], n)]
  <2>1. ASSUME NEW k \in 0..n
        PROVE  g[k] = IF k = 0 THEN first ELSE JoinedTo(g[k - 1], q[k], k)
    <3> HIDE DEF first
    <3>1. CASE k = 0
      BY <3>1
    <3>2. CASE k # 0 /\ k < n
      <4>1. f[k] = JoinedTo(f[k - 1], q[k], k) /\ f[0] = first
        BY <1>1, <3>2 DEF After, first
      <4>2. g[k] = f[k] /\ g[k - 1] = f[k - 1]
        BY <3>2, <4>1
      <4> QED BY <3>2, <4>1, <4>2
    <3>3. CASE k # 0 /\ k = n
      <4>1. k - 1 \in 0..n /\ k - 1 < n
        BY <3>3
      <4>2. g[k - 1] = IF n = 1 THEN first ELSE f[n - 1]
        BY <3>3, <4>1
      <4> QED BY <3>3, <4>2
    <3> QED BY <3>1, <3>2, <3>3
  <2>2. After(q, g, n)
    <3> HIDE DEF g
    <3>1. g = [k \in 0..n |-> g[k]]
      BY DEF g
    <3> QED BY <2>1, <3>1 DEF After
  <2> QED BY <2>2
<1>2. Bad = {}
  <2> SUFFICES ASSUME Bad # {} PROVE FALSE
    OBVIOUS
  <2>1. PICK n \in Bad : \A m \in Bad : n <= m
    BY LeastElement
  <2>2. n = 0 \/ n - 1 \notin Bad
    BY <2>1
  <2>3. \E f : n = 0 \/ After(q, f, n - 1)
    BY <2>1, <2>2
  <2> QED BY <1>1, <2>1, <2>3
<1>3. \E f : After(q, f, Len(q))
  BY <1>2
<1>4. JoinedRows(q) = (CHOOSE f : After(q, f, Len(q)))[Len(q)]
  BY DEF JoinedRows, After
<1> QED BY <1>3, <1>4

-----------------------------------------------------------------------------
Entries == Rows \cup {NULL}
IsOuter(join) == LeftIsOptional(join.type) \/ RightIsOptional(join.type)

\* Append of a row of one table to a row of `width` tables.
LEMMA Widened ==
    ASSUME NEW width \in Nat, NEW l \in [1..width -> Entries], NEW e \in Entries
    PROVE  /\ Append(l, e) \in [1..(width + 1) -> Entries]
           /\ \A t \in 1..width : Append(l, e)[t] = l[t]
           /\ Append(l, e)[width + 1] = e
<1>1. l \in Seq(Entries) /\ Len(l) = width
  BY SeqDef
<1>2. /\ Append(l, e) \in Seq(Entries) /\ Len(Append(l, e)) = width + 1
      /\ \A t \in 1..width : Append(l, e)[t] = l[t]
      /\ Append(l, e)[width + 1] = e
  BY <1>1, AppendProperties
<1>3. Append(l, e) \in [1..(width + 1) -> Entries]
  BY <1>2, LenProperties
<1>4. QED
  BY <1>2, <1>3

(****************************************************************************)
(* A join adds one entry to the rows.  That entry is NULL only if the join  *)
(* may miss its table, and the entries before it become NULL only if it may *)
(* miss those.                                                              *)
(****************************************************************************)
LEMMA JoinAddsEntry ==
    ASSUME NEW width \in Nat, NEW lefts, lefts \subseteq [1..width -> Entries],
           NEW join, NEW s \in JoinedTo(lefts, join, width), NULL \notin Rows
    PROVE  /\ s \in [1..(width + 1) -> Entries]
           /\ s[width + 1] = NULL => RightIsOptional(join.type)
           /\ \A t \in 1..width :
                s[t] = NULL => LeftIsOptional(join.type) \/ \E l \in lefts : l[t] = NULL
<1> DEFINE padding == [i \in 1..width |-> NULL]
<1>1. \/ \E l \in lefts, r \in Rows : s = Append(l, r)
      \/ RightIsOptional(join.type) /\ \E l \in lefts : s = Append(l, NULL)
      \/ LeftIsOptional(join.type) /\ \E r \in Rows : s = Append(padding, r)
  BY DEF JoinedTo
<1>2. ASSUME NEW l \in lefts, NEW e \in Entries, s = Append(l, e)
      PROVE  /\ s \in [1..(width + 1) -> Entries] /\ s[width + 1] = e
             /\ \A t \in 1..width : s[t] = l[t]
  BY <1>2, Widened
<1>3. ASSUME NEW r \in Rows, s = Append(padding, r)
      PROVE  s \in [1..(width + 1) -> Entries] /\ s[width + 1] = r
  <2>1. padding \in [1..width -> Entries] /\ r \in Entries
    BY DEF Entries
  <2>2. QED
    BY <1>3, <2>1, Widened
<1>4. NULL \in Entries /\ Rows \subseteq Entries
  BY DEF Entries
<1>5. QED
  BY <1>1, <1>2, <1>3, <1>4

LEMMA FirstJoin ==
    ASSUME NULL \notin Rows, NEW join, NEW s \in JoinedTo({<<r>> : r \in Rows}, join, 1)
    PROVE  /\ s[2] = NULL => RightIsOptional(join.type)
           /\ s[1] = NULL => LeftIsOptional(join.type)
<1>1. PICK lefts : lefts = {<<r>> : r \in Rows}
  OBVIOUS
<1>2. PICK width \in Nat : width = 1
  OBVIOUS
<1>3. lefts \subseteq [1..width -> Entries] /\ s \in JoinedTo(lefts, join, width)
  BY <1>1, <1>2 DEF Entries
<1>4. /\ s \in [1..(width + 1) -> Entries]
      /\ s[width + 1] = NULL => RightIsOptional(join.type)
      /\ \A t \in 1..width :
            s[t] = NULL => LeftIsOptional(join.type) \/ \E l \in lefts : l[t] = NULL
  BY <1>3, JoinAddsEntry
<1>5. \A l \in lefts : l[1] # NULL
  BY <1>1
<1>6. QED
  BY <1>2, <1>4, <1>5

\* Hence a row without a NULL is all that a query without outer joins returns.
LEMMA NullsNeedOuterJoin ==
    ASSUME NEW q, Len(q) \in Nat, NEW r \in JoinedRows(q), NULL \notin Rows
    PROVE  /\ r \in [Positions(q) -> Entries]
           /\ \A t \in Positions(q) : r[t] = NULL => \E k \in 1..Len(q) : IsOuter(q[k])
<1>1. PICK f : After(q, f, Len(q)) /\ JoinedRows(q) = f[Len(q)]
  BY RowsAfterEachJoin
<1> DEFINE Good(n) ==
        /\ f[n] \subseteq [1..(n + 1) -> Entries]
        /\ \A s \in f[n] : \A t \in 1..(n + 1) :
            s[t] = NULL => \E k \in 1..n : IsOuter(q[k])
           Bad == {n \in 0..Len(q) : ~Good(n)}
<1>2. Good(0)
  <2>1. f[0] = {<<s>> : s \in Rows}
    BY <1>1 DEF After
  <2>2. \A s \in Rows : <<s>> \in [1..1 -> Entries] /\ <<s>>[1] # NULL
    BY DEF Entries
  <2>3. f[0] \subseteq [1..(0 + 1) -> Entries]
    BY <2>1, <2>2
  <2>4. \A s \in f[0] : \A t \in 1..(0 + 1) : s[t] # NULL
    BY <2>1, <2>2
  <2>5. QED
    BY <2>3, <2>4
<1>3. ASSUME NEW n \in 1..Len(q), Good(n - 1) PROVE Good(n)
  <2>1. f[n] = JoinedTo(f[n - 1], q[n], n)
    <3> HIDE DEF Good
    <3>1. n \in 0..Len(q) /\ n # 0
      OBVIOUS
    <3>2. QED
      BY <1>1, <3>1 DEF After
  <2>2. f[n - 1] \subseteq [1..n -> Entries]
    BY <1>3
  <2>3. ASSUME NEW s \in f[n]
        PROVE  /\ s \in [1..(n + 1) -> Entries]
               /\ \A t \in 1..(n + 1) : s[t] = NULL => \E k \in 1..n : IsOuter(q[k])
    <3>1. /\ s \in [1..(n + 1) -> Entries]
          /\ s[n + 1] = NULL => IsOuter(q[n])
          /\ \A t \in 1..n : s[t] = NULL => IsOuter(q[n]) \/ \E l \in f[n - 1] : l[t] = NULL
      <4> HIDE DEF Good
      <4>1. n \in Nat /\ s \in JoinedTo(f[n - 1], q[n], n)
        BY <2>1
      <4>2. /\ s \in [1..(n + 1) -> Entries]
            /\ s[n + 1] = NULL => RightIsOptional(q[n].type)
            /\ \A t \in 1..n :
                s[t] = NULL => LeftIsOptional(q[n].type) \/ \E l \in f[n - 1] : l[t] = NULL
        BY <2>2, <4>1, JoinAddsEntry
      <4>3. QED
        BY <4>2 DEF IsOuter
    <3>2. \A l \in f[n - 1], t \in 1..n : l[t] = NULL => \E k \in 1..(n - 1) : IsOuter(q[k])
      BY <1>3
    <3>3. n \in 1..n /\ 1..(n - 1) \subseteq 1..n
      OBVIOUS
    <3>4. QED
      BY <3>1, <3>2, <3>3
  <2>4. QED
    BY <2>3
<1>4. Bad = {}
  <2> HIDE DEF Good
  <2> SUFFICES ASSUME Bad # {} PROVE FALSE
    OBVIOUS
  <2>1. PICK n \in Bad : \A m \in Bad : n <= m
    <3>1. Bad \in SUBSET Nat
      OBVIOUS
    <3>2. QED
      BY <3>1, LeastElement
  <2>2. CASE n = 0
    BY <1>2, <2>1, <2>2
  <2>3. CASE n # 0
    <3>1. n \in 1..Len(q) /\ n - 1 \in 0..Len(q) /\ n - 1 \notin Bad
      BY <2>1, <2>3
    <3>2. QED
      BY <1>3, <2>1, <3>1
  <2>4. QED
    BY <2>2, <2>3
<1>5. Good(Len(q))
  BY <1>4
<1>6. QED
  BY <1>1, <1>5 DEF Positions

(****************************************************************************)
(* A table whose row may be missing is known to be optional, unless several *)
(* tables are joined to the first.                                          *)
(****************************************************************************)
LEMMA NullsAreOptional ==
    ASSUME NEW q \in QuerySet, ~IsStar(q), NEW r \in JoinedRows(q),
           NEW t \in Positions(q), r[t] = NULL
    PROVE  IsOptional(q, t)
<1>1. /\ Len(q) \in Nat \ {0} /\ NULL \notin Rows
      /\ \A k \in 1..Len(q) : q[k].left \in 1..k
  <2>1. Len(q) \in Nat \ {0} /\ q \in Queries(Len(q) + 1, JoinTypes) /\ NULL \notin Rows
    BY ReadRowAssumption
  <2>2. /\ q \in [1..(Len(q) + 1 - 1) -> [type : JoinTypes, left : 1..(Len(q) + 1),
                                          on : SUBSET (Rows \X Rows)]]
        /\ \A k \in DOMAIN q : q[k].left <= k
    BY <2>1 DEF Queries
  <2>3. QED
    BY <2>1, <2>2
<1>2. PICK k \in 1..Len(q) : IsOuter(q[k])
  BY <1>1, NullsNeedOuterJoin
<1>3. \A j \in 1..Len(q) :
        /\ [table |-> q[j].left, optional |-> LeftIsOptional(q[j].type)] \in Selectables(q)
        /\ [table |-> j + 1, optional |-> RightIsOptional(q[j].type)] \in Selectables(q)
  <2>1. DOMAIN q = 1..Len(q)
    BY <1>1, ReadRowAssumption DEF Queries
  <2>2. QED
    BY <2>1 DEF Selectables
<1>4. CASE IsNested(q)
  <2>1. \E s \in Selectables(q) : s.optional
    BY <1>2, <1>3 DEF IsOuter
  <2>2. QED
    BY <1>4, <2>1 DEF IsOptional, ResultsAreOptional
<1>5. CASE Len(q) = 1
  <2>1. k = 1 /\ q[1].left = 1 /\ t \in {1, 2}
    BY <1>1, <1>5 DEF Positions
  <2>2. PICK f : After(q, f, Len(q)) /\ JoinedRows(q) = f[Len(q)]
    BY <1>1, RowsAfterEachJoin
  <2>3. r \in JoinedTo({<<s>> : s \in Rows}, q[1], 1)
    <3>1. f[0] = {<<s>> : s \in Rows} /\ f[1] = JoinedTo(f[0], q[1], 1)
      BY <1>5, <2>2 DEF After
    <3>2. QED
      BY <1>5, <2>2, <3>1
  <2>4. \/ t = 1 /\ LeftIsOptional(q[1].type)
        \/ t = 2 /\ RightIsOptional(q[1].type)
    <3>1. /\ r[2] = NULL => RightIsOptional(q[1].type)
          /\ r[1] = NULL => LeftIsOptional(q[1].type)
      BY <1>1, <2>3, FirstJoin
    <3>2. QED
      BY <1>1, <2>1, <3>1
  <2>5. QED
    BY <1>3, <1>5, <2>1, <2>4 DEF IsOptional
<1>6. IsNested(q) \/ Len(q) = 1
  <2>1. PICK n \in Nat \ {0} : Len(q) = n
    BY <1>1
  <2>2. QED
    BY <2>1 DEF IsStar
<1>7. QED
  BY <1>4, <1>5, <1>6

-----------------------------------------------------------------------------
(****************************************************************************)
(* The inductive invariant adds what is known of a row when it is read: it  *)
(* is one of the query's, and the query compiles.                           *)
(****************************************************************************)
RowIsJoined ==
    /\ DOMAIN list = Positions(query)
    /\ row # Unread => row \in JoinedRows(query) /\ Compiles

ReadInv == TypeOK /\ RowIsJoined /\ ResultIsRow

LEMMA SelectedArePositions ==
    ASSUME ReadInv
    PROVE  Selected \subseteq Positions(query) /\ Fields \subseteq Selected
BY DEF ReadInv, RowIsJoined, Selected, Fields

LEMMA RowEntries ==
    ASSUME ReadInv, row # Unread
    PROVE  /\ row \in [Positions(query) -> Rows \cup {NULL}]
           /\ \A t \in Selected : row[t] \in Rows \cup {NULL}
BY SelectedArePositions DEF ReadInv, TypeOK

\* What a tuple holds is what may be returned.
LEMMA ResultsOfSelected ==
    ASSUME ReadInv, NEW f, DOMAIN f = Selected, f = [t \in Selected |-> f[t]],
           \A t \in Selected : f[t] \in Rows \cup {0, NULL}
    PROVE  f \in Results(query) /\ f \notin {Unread, Thrown}
<1>1. f \in [Selected -> Rows \cup {0, NULL}]
  OBVIOUS
<1>2. f \in Results(query)
  BY <1>1, SelectedArePositions DEF Results
<1>3. QED
  BY <1>2, ReadRowAssumption DEF ReadInv, TypeOK

LEMMA StepKeeps ==
    ASSUME ReadInv, StepToRow
    PROVE  ReadInv'
<1>1. query \in QuerySet /\ Len(query) \in Nat /\ NULL \notin Rows
  BY ReadRowAssumption DEF ReadInv, TypeOK
<1>2. row' \in [Positions(query) -> Rows \cup {NULL}]
  BY <1>1, NullsNeedOuterJoin DEF StepToRow, Entries
<1>3. result = Unread
  BY ReadRowAssumption DEF ReadInv, TypeOK, StepToRow
<1>4. TypeOK'
  BY <1>2, <1>3 DEF ReadInv, TypeOK, StepToRow
<1>5. RowIsJoined'
  BY DEF ReadInv, RowIsJoined, StepToRow, Compiles, Selected, MayBeMissing, Decides, Fields
<1>6. ResultIsRow'
  BY <1>3 DEF StepToRow, ResultIsRow
<1>7. QED
  BY <1>4, <1>5, <1>6 DEF ReadInv

LEMMA SingleKeeps ==
    ASSUME ReadInv, ReadSingle
    PROVE  ReadInv' /\ result' # Thrown
<1> DEFINE f == [t \in Selected |-> SingleResult(t)]
<1>1. result' = f /\ row # Unread /\ IsSingle /\ UNCHANGED <<query, list, row>>
  BY DEF ReadSingle
<1>2. \A t \in Selected : SingleResult(t) \in Rows \cup {0, NULL}
  BY <1>1, RowEntries DEF SingleResult, ZeroIfNull, IsOptionalField
<1>3. f \in Results(query) /\ f \notin {Unread, Thrown}
  BY <1>2, ResultsOfSelected
<1>4. ASSUME NEW t \in Selected
      PROVE  \/ SingleResult(t) = row[t]
             \/ /\ row[t] = NULL /\ SingleResult(t) = 0
                /\ list[t] = "record" \/ IsStar(query)
  <2>1. list[t] \in {"record", "field"}
    BY ReadRowAssumption DEF ReadInv, TypeOK, Selected
  <2>2. list[t] = "field" /\ ~IsStar(query) /\ row[t] = NULL => IsOptional(query, t)
    BY <1>1, SelectedArePositions, NullsAreOptional DEF ReadInv, TypeOK, RowIsJoined
  <2>3. QED
    BY <2>1, <2>2 DEF SingleResult, ZeroIfNull, IsOptionalField
<1>5. ResultIsRow'
  BY <1>1, <1>4 DEF ResultIsRow, IsZeroed, IsHidden, IsSingle, Selected
<1>6. TypeOK' /\ RowIsJoined'
  BY <1>1, <1>3 DEF ReadInv, TypeOK, RowIsJoined, Compiles, Selected, MayBeMissing, Decides, Fields
<1>7. QED
  BY <1>1, <1>3, <1>5, <1>6 DEF ReadInv

LEMMA TupleKeeps ==
    ASSUME ReadInv, ReadTuple
    PROVE  ReadInv' /\ result' # Thrown
<1> DEFINE f == [t \in Selected |-> IF Missing(t) THEN NULL ELSE ZeroIfNull(t)]
<1>1. result' = f /\ row # Unread /\ UNCHANGED <<query, list, row>>
  BY DEF ReadTuple
<1>2. \A t \in Selected : (IF Missing(t) THEN NULL ELSE ZeroIfNull(t)) \in Rows \cup {0, NULL}
  BY <1>1, RowEntries DEF ZeroIfNull
<1>3. f \in Results(query) /\ f \notin {Unread, Thrown}
  BY <1>2, ResultsOfSelected
<1>4. ASSUME NEW t \in Selected
      PROVE  \/ (IF Missing(t) THEN NULL ELSE ZeroIfNull(t)) = row[t]
             \/ /\ row[t] = 0 /\ Missing(t)
                /\ list[t] = "record" /\ IsOptional(query, t)
  <2>1. CASE Missing(t)
    <3>1. IsOptional(query, t)
      BY <1>1, <2>1 DEF ReadTuple, ReadInv, RowIsJoined, Compiles
    <3>2. list[t] \in {"record", "field"}
      BY ReadRowAssumption DEF ReadInv, TypeOK, Selected
    <3>3. QED
      BY <2>1, <3>1, <3>2 DEF Missing, IsOptionalField, ZeroIfNull
  <2>2. CASE ~Missing(t)
    BY <2>2 DEF Missing, ZeroIfNull, IsOptionalField
  <2>3. QED
    BY <2>1, <2>2
<1>5. ResultIsRow'
  <2>1. ASSUME NEW t \in Selected
        PROVE  f[t] = row[t] \/ (/\ row[t] = 0 /\ f[t] = NULL
                                 /\ list[t] = "record" /\ IsOptional(query, t))
    BY <1>4
  <2>2. ~IsSingle /\ Selected' = Selected /\ IsSingle' = IsSingle
    BY <1>1 DEF ReadTuple, Selected, IsSingle
  <2> HIDE DEF f
  <2>3. QED
    BY <1>1, <2>1, <2>2 DEF ResultIsRow, IsHidden
<1>6. TypeOK' /\ RowIsJoined'
  BY <1>1, <1>3 DEF ReadInv, TypeOK, RowIsJoined, Compiles, Selected, MayBeMissing, Decides, Fields
<1>7. QED
  BY <1>1, <1>3, <1>5, <1>6 DEF ReadInv

LEMMA ReadKeeps == ReadInv /\ [Next]_vars => ReadInv'
<1> SUFFICES ASSUME ReadInv, [Next]_vars
             PROVE  ReadInv'
  OBVIOUS
<1>1. CASE ReadThrows
  BY <1>1 DEF ReadThrows, ReadInv, TypeOK, RowIsJoined, ResultIsRow, Compiles, Selected,
              MayBeMissing, Decides, Fields
<1>2. CASE UNCHANGED vars
  BY <1>2 DEF vars, ReadInv, TypeOK, RowIsJoined, ResultIsRow, IsZeroed, IsHidden, IsSingle,
              Compiles, Selected, MayBeMissing, Decides, Fields
<1>3. QED
  BY <1>1, <1>2, StepKeeps, SingleKeeps, TupleKeeps DEF Next

LEMMA ReadInvariance == Spec => []ReadInv
<1>1. Init => ReadInv
  BY DEF Init, ReadInv, TypeOK, RowIsJoined, ResultIsRow
<1>2. QED
  BY <1>1, ReadKeeps, PTL DEF Spec

THEOREM ReadTypeCorrect == Spec => []TypeOK
<1>1. ReadInv => TypeOK
  BY DEF ReadInv
<1>2. QED
  BY <1>1, ReadInvariance, PTL

(****************************************************************************)
(* Whatever the query, the ON conditions and the selections, what read_row  *)
(* returns is the row of the engine.                                        *)
(****************************************************************************)
THEOREM TheRowIsRead == Spec => []ResultIsRow
<1>1. ReadInv => ResultIsRow
  BY DEF ReadInv
<1>2. QED
  BY <1>1, ReadInvariance, PTL

-----------------------------------------------------------------------------
(****************************************************************************)
(* The caller selects at most one field; with two, the first one decides    *)
(* for both and TLC refutes the property.                                   *)
(****************************************************************************)
OneFieldAtMost ==
    \A l \in SelectLists : \A t, u \in DOMAIN l : l[t] = "field" /\ l[u] = "field" => t = u

\* Then every selection decides for itself.
LEMMA DecidesForItself ==
    ASSUME OneFieldAtMost, ReadInv, NEW t \in Selected
    PROVE  Decides(t) = t
<1>1. list \in SelectLists /\ t \in DOMAIN list
  BY DEF ReadInv, TypeOK, Selected
<1>2. CASE list[t] = "field"
  <2>1. Fields = {t}
    BY <1>1, <1>2 DEF OneFieldAtMost, Fields
  <2>2. t \in Nat
    BY <1>1, ReadRowAssumption
  <2>3. QED
    BY <1>2, <2>1, <2>2 DEF Decides
<1>3. CASE list[t] # "field"
  BY <1>3 DEF Decides
<1>4. QED
  BY <1>2, <1>3

LEMMA ThrowsForCause ==
    ASSUME OneFieldAtMost, ReadInv, ReadThrows
    PROVE  OnlyStarsAndZerosThrow'
<1>1. PICK t \in Selected : Missing(t) /\ ~MayBeMissing(t)
  BY DEF ReadThrows
<1>2. ~IsOptional(query, t)
  BY <1>1, DecidesForItself DEF MayBeMissing
<1>3. CASE row[t] = NULL
  <2>1. t \in Positions(query) /\ row \in JoinedRows(query) /\ query \in QuerySet
    BY SelectedArePositions DEF ReadInv, TypeOK, RowIsJoined, ReadThrows
  <2>2. IsStar(query)
    BY <1>2, <1>3, <2>1, NullsAreOptional
  <2>3. QED
    BY <2>2 DEF ReadThrows, OnlyStarsAndZerosThrow
<1>4. CASE row[t] # NULL
  <2>1. row[t] = 0 /\ ~IsOptional(query, t)
    BY <1>1, <1>2, <1>4 DEF Missing, IsOptionalField, ZeroIfNull
  <2>2. QED
    BY <2>1 DEF ReadThrows, OnlyStarsAndZerosThrow, Selected
<1>5. QED
  BY <1>3, <1>4

(****************************************************************************)
(* A query with one field at most whose joins are nested, or which has one  *)
(* join only, never has a row that cannot be read, unless the field or the  *)
(* primary key of a table that is not optional is 0.                        *)
(****************************************************************************)
THEOREM RowsAreReadable ==
    ASSUME OneFieldAtMost
    PROVE  Spec => []OnlyStarsAndZerosThrow
<1>1. Init => OnlyStarsAndZerosThrow
  BY ReadRowAssumption DEF Init, OnlyStarsAndZerosThrow
<1>2. ReadInv /\ OnlyStarsAndZerosThrow /\ [Next]_vars => OnlyStarsAndZerosThrow'
  <2> SUFFICES ASSUME ReadInv, OnlyStarsAndZerosThrow, [Next]_vars
               PROVE  OnlyStarsAndZerosThrow'
    OBVIOUS
  <2>1. CASE StepToRow
    BY <2>1, ReadRowAssumption DEF StepToRow, ReadInv, TypeOK, OnlyStarsAndZerosThrow
  <2>2. CASE ReadSingle \/ ReadTuple
    BY <2>2, SingleKeeps, TupleKeeps DEF OnlyStarsAndZerosThrow
  <2>3. CASE ReadThrows
    BY <2>3, ThrowsForCause
  <2>4. CASE UNCHANGED vars
    BY <2>4 DEF vars, OnlyStarsAndZerosThrow, Selected
  <2>5. QED
    BY <2>1, <2>2, <2>3, <2>4 DEF Next
<1>3. QED
  BY <1>1, <1>2, ReadInvariance, PTL DEF Spec
=============================================================================
