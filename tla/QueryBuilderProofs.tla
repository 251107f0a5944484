------------------------- MODULE QueryBuilderProofs -------------------------
(****************************************************************************)
(* Proofs about query builders, for any expressions the program builds,     *)
(* any clauses and any number of calls.  The first half is about the        *)
(* expressions: the functions computed by recursion over them exist, the ?  *)
(* of a text and its bindings agree, and where each comparison has its      *)
(* values.  What is said of every expression rests on the least one, in the *)
(* order they are built in, for which it would be false.  The second half   *)
(* is the inductive invariant of the builder.                               *)
(****************************************************************************)
EXTENDS QueryBuilder, WellFoundedInduction, TLAPS

LessThan == {p \in Nat \X Nat : p[1] < p[2]}

\* Every set of natural numbers that is not empty has a least element.
LEMMA LeastElement ==
    ASSUME NEW T \in SUBSET Nat, T # {}
    PROVE  \E n \in T : \A m \in T : n <= m
<1>1. IsWellFoundedOn(LessThan, Nat)
  BY NatLessThanWellFounded, SMT DEF LessThan, OpToRel
<1>2. PICK n \in T : \A m \in T : ~(<<m, n>> \in LessThan)
  BY <1>1, WFMin, Zenon
<1>3. \A m \in T : ~(m < n)
  BY <1>2 DEF LessThan
<1>4. QED
  BY <1>3

\* A set that has every number whose predecessors it has is all of them.
LEMMA AllNumbers ==
    ASSUME NEW N \in Nat, NEW Good,
           \A n \in 1..N : 1..(n - 1) \subseteq Good => n \in Good
    PROVE  1..N \subseteq Good
<1> DEFINE Bad == (1..N) \ Good
<1> SUFFICES ASSUME Bad # {} PROVE FALSE
  OBVIOUS
<1>1. PICK n \in Bad : \A m \in Bad : n <= m
  <2>1. Bad \in SUBSET Nat
    OBVIOUS
  <2> HIDE DEF Bad
  <2> QED BY <2>1, LeastElement
<1>2. 1..(n - 1) \subseteq Good
  BY <1>1
<1> QED BY <1>1, <1>2

-----------------------------------------------------------------------------
\* What is built is a comparison, or a pair of what was built before.
LEMMA Nodes ==
    ASSUME NEW n \in Numbers
    PROVE  /\ n \in Nat \ {0}
           /\ IsComparison(n) => /\ Built[n].field \in Fields
                                 /\ Built[n].in \in BOOLEAN
                                 /\ Built[n].size \in Nat
                                 /\ ~Built[n].in => Built[n].size = 1
           /\ ~IsComparison(n) => /\ Built[n].lhs \in 1..(n - 1)
                                  /\ Built[n].rhs \in 1..(n - 1)
                                  /\ Built[n].lhs \in Numbers
                                  /\ Built[n].rhs \in Numbers
<1>1. IsExpression(n, Built[n]) /\ n \in 1..Len(Built) /\ Len(Built) \in Nat
      /\ Numbers = 1..Len(Built)
  BY BuilderAssumption
<1>2. CASE Built[n] \in [field : Fields, in : BOOLEAN, size : Nat]
  <2>1. IsComparison(n)
    BY <1>2 DEF IsComparison
  <2>2. ~Built[n].in => Built[n].size = 1
    <3>1. CASE Built[n] \in [lhs : 1..(n - 1), rhs : 1..(n - 1)]
      <4>1. DOMAIN Built[n] = {"lhs", "rhs"}
        BY <3>1
      <4> QED BY <2>1, <4>1 DEF IsComparison
    <3> QED BY <1>1, <3>1 DEF IsExpression
  <2> QED BY <1>1, <1>2, <2>1, <2>2
<1>3. CASE Built[n] \in [lhs : 1..(n - 1), rhs : 1..(n - 1)]
  <2>1. ~IsComparison(n)
    <3>1. DOMAIN Built[n] = {"lhs", "rhs"}
      BY <1>3
    <3> QED BY <3>1 DEF IsComparison
  <2> QED BY <1>1, <1>3, <2>1
<1> QED BY <1>1, <1>2, <1>3 DEF IsExpression

(****************************************************************************)
(* A fold of the expressions, which gives every comparison its leaf and     *)
(* every pair what its operands have, one after the other.                  *)
(****************************************************************************)
Lists(S) == [Numbers -> Seq(S)]

IsFold(g, leaf) ==
    \A n \in Numbers :
        g[n] = IF IsComparison(n) THEN leaf[n]
               ELSE g[Built[n].lhs] \o g[Built[n].rhs]

\* There is one: the expressions have no operands but earlier ones.
LEMMA FoldExists ==
    ASSUME NEW S, NEW leaf \in Lists(S)
    PROVE  \E g \in Lists(S) : IsFold(g, leaf)
<1> USE DEF Lists, IsFold
<1> DEFINE N == Len(Built)
           IsSolution(g, n) ==
             /\ g \in [1..n -> Seq(S)]
             /\ \A m \in 1..n :
                  g[m] = IF IsComparison(m) THEN leaf[m]
                         ELSE g[Built[m].lhs] \o g[Built[m].rhs]
           Good == {n \in Nat : \E g : IsSolution(g, n)}
<1>1. N \in Nat /\ Numbers = 1..N
  BY BuilderAssumption
<1>2. ASSUME NEW n \in 1..N, NEW f, IsSolution(f, n - 1)
      PROVE  \E g : IsSolution(g, n)
  <2> DEFINE new == IF IsComparison(n) THEN leaf[n]
                    ELSE f[Built[n].lhs] \o f[Built[n].rhs]
             g == [m \in 1..n |-> IF m = n THEN new ELSE f[m]]
  <2>1. new \in Seq(S)
    <3>1. CASE IsComparison(n)
      BY <1>1, <3>1
    <3>2. CASE ~IsComparison(n)
      BY <1>1, <1>2, <3>2, Nodes
    <3> QED BY <3>1, <3>2
  <2> HIDE DEF new
  <2>2. g \in [1..n -> Seq(S)]
    BY <1>1, <1>2, <2>1
  <2>3. ASSUME NEW m \in 1..n
        PROVE  g[m] = IF IsComparison(m) THEN leaf[m]
                      ELSE g[Built[m].lhs] \o g[Built[m].rhs]
    <3>1. m \in Numbers /\ m \in 1..N
      BY <1>1
    <3>2. ~IsComparison(m) => /\ Built[m].lhs \in 1..(m - 1)
                              /\ Built[m].rhs \in 1..(m - 1)
      BY <3>1, Nodes
    <3>3. ~IsComparison(m) => /\ g[Built[m].lhs] = f[Built[m].lhs]
                              /\ g[Built[m].rhs] = f[Built[m].rhs]
      BY <1>1, <3>2
    <3>4. CASE m = n
      BY <3>3, <3>4 DEF new
    <3>5. CASE m # n
      <4>1. m \in 1..(n - 1) /\ g[m] = f[m]
        BY <1>1, <3>5
      <4> QED BY <1>2, <3>3, <4>1
    <3> QED BY <3>4, <3>5
  <2> HIDE DEF g
  <2> QED BY <2>2, <2>3
<1>3. 0 \in Good
  <2>1. [m \in 1..0 |-> leaf[m]] \in [1..0 -> Seq(S)]
    OBVIOUS
  <2>2. IsSolution([m \in 1..0 |-> leaf[m]], 0)
    BY <2>1
  <2> QED BY <2>2
<1>4. 1..N \subseteq Good
  <2>1. ASSUME NEW n \in 1..N, 1..(n - 1) \subseteq Good PROVE n \in Good
    <3>1. n - 1 \in Good
      <4> HIDE DEF Good, N
      <4>1. n = 1 \/ n - 1 \in 1..(n - 1)
        BY <1>1
      <4> QED BY <1>3, <2>1, <4>1
    <3> QED BY <1>1, <1>2, <3>1
  <2> HIDE DEF Good, N
  <2> QED BY <1>1, <2>1, AllNumbers
<1>5. N \in Good
  <2> HIDE DEF Good, N
  <2>1. N = 0 \/ N \in 1..N
    BY <1>1
  <2> QED BY <1>3, <1>4, <2>1
<1> QED BY <1>1, <1>5

\* There is no other.
LEMMA FoldIsUnique ==
    ASSUME NEW leaf, NEW g, NEW h,
           IsFold(g, leaf), IsFold(h, leaf)
    PROVE  \A n \in Numbers : g[n] = h[n]
<1> USE DEF IsFold
<1> DEFINE N == Len(Built)
           Good == {n \in Numbers : g[n] = h[n]}
<1>1. N \in Nat /\ Numbers = 1..N
  BY BuilderAssumption
<1>2. ASSUME NEW n \in 1..N, 1..(n - 1) \subseteq Good PROVE n \in Good
  <2>1. n \in Numbers
    BY <1>1
  <2>2. CASE IsComparison(n)
    BY <2>1, <2>2
  <2>3. CASE ~IsComparison(n)
    <3>1. Built[n].lhs \in Good /\ Built[n].rhs \in Good
      <4> HIDE DEF Good
      <4> QED BY <1>2, <2>1, <2>3, Nodes
    <3> QED BY <2>1, <2>3, <3>1
  <2> QED BY <2>2, <2>3
<1>3. 1..N \subseteq Good
  <2> HIDE DEF Good, N
  <2> QED BY <1>1, <1>2, AllNumbers
<1> QED BY <1>1, <1>3

\* a comparison has itself
Itself == [n \in Numbers |-> <<n>>]

\* The comparisons, places and bindings are the folds they are meant to be.
LEMMA ComparisonsAreListed ==
    Comparisons \in Lists(Numbers) /\ IsFold(Comparisons, Itself)
<1> DEFINE Solves(h) ==
      h = [n \in Numbers |-> IF IsComparison(n) THEN <<n>>
                             ELSE h[Built[n].lhs] \o h[Built[n].rhs]]
<1>2. Itself \in Lists(Numbers)
  BY DEF Lists, Itself
<1>3. PICK g \in Lists(Numbers) : IsFold(g, Itself)
  BY <1>2, FoldExists
<1>4. Solves(g)
  BY <1>3 DEF IsFold, Lists, Itself
<1>5. Comparisons = CHOOSE h : Solves(h)
  BY DEF Comparisons
<1>6. Solves(Comparisons)
  <2> HIDE DEF Solves
  <2> QED BY <1>4, <1>5
<1>7. IsFold(Comparisons, Itself)
  BY <1>6 DEF IsFold, Itself
<1>8. \A n \in Numbers : Comparisons[n] = g[n]
  BY <1>3, <1>7, FoldIsUnique
<1>9. Comparisons \in Lists(Numbers)
  BY <1>3, <1>6, <1>8 DEF Lists
<1> QED BY <1>7, <1>9

\* the values of a comparison, and none for a pair
Values ==
    [n \in Numbers |-> IF IsComparison(n) THEN OfComparison(n) ELSE <<>>]

AnyPlace == Fields \X (Nat \ {0})

\* The values of a comparison are places of its field.
LEMMA ValuesAreLists == Values \in Lists(AnyPlace)
<1>1. ASSUME NEW n \in Numbers, IsComparison(n)
      PROVE  OfComparison(n) \in Seq(AnyPlace)
  BY <1>1, Nodes DEF OfComparison, AnyPlace
<1> QED BY <1>1 DEF Values, Lists

\* The places of the text.
LEMMA PlacesAreListed ==
    Places \in Lists(AnyPlace) /\ IsFold(Places, Values)
<1> DEFINE Solves(h) ==
      h = [n \in Numbers |-> IF IsComparison(n) THEN OfComparison(n)
                             ELSE h[Built[n].lhs] \o h[Built[n].rhs]]
<1>1. PICK g \in Lists(AnyPlace) : IsFold(g, Values)
  BY ValuesAreLists, FoldExists
<1>2. Solves(g)
  BY <1>1 DEF IsFold, Lists, Values
<1>3. Places = CHOOSE h : Solves(h)
  BY DEF Places
<1>4. Solves(Places)
  <2> HIDE DEF Solves
  <2> QED BY <1>2, <1>3
<1>5. IsFold(Places, Values)
  BY <1>4 DEF IsFold, Values
<1>6. \A n \in Numbers : Places[n] = g[n]
  BY <1>1, <1>5, FoldIsUnique
<1>7. Places \in Lists(AnyPlace)
  BY <1>1, <1>4, <1>6 DEF Lists
<1> QED BY <1>5, <1>7

\* The tuple of bindings.
LEMMA BindingsAreListed ==
    Bindings \in Lists(AnyPlace) /\ IsFold(Bindings, Values)
<1> DEFINE Solves(h) ==
      h = [n \in Numbers |-> IF IsComparison(n) THEN OfComparison(n)
                             ELSE h[Built[n].lhs] \o h[Built[n].rhs]]
<1>1. PICK g \in Lists(AnyPlace) : IsFold(g, Values)
  BY ValuesAreLists, FoldExists
<1>2. Solves(g)
  BY <1>1 DEF IsFold, Lists, Values
<1>3. Bindings = CHOOSE h : Solves(h)
  BY DEF Bindings
<1>4. Solves(Bindings)
  <2> HIDE DEF Solves
  <2> QED BY <1>2, <1>3
<1>5. IsFold(Bindings, Values)
  BY <1>4 DEF IsFold, Values
<1>6. \A n \in Numbers : Bindings[n] = g[n]
  BY <1>1, <1>5, FoldIsUnique
<1>7. Bindings \in Lists(AnyPlace)
  BY <1>1, <1>4, <1>6 DEF Lists
<1> QED BY <1>5, <1>7

(****************************************************************************)
(* The text and its bindings agree: there is a value for every ?, in the    *)
(* same order.                                                              *)
(****************************************************************************)
LEMMA PlacesAreBindings ==
    ASSUME NEW e \in Asked
    PROVE  PlacesOf[e] = BindingsOf[e] /\ BindingsOf[e] \in Seq(AnyPlace)
<1>1. \A n \in Numbers : Places[n] = Bindings[n]
  BY PlacesAreListed, BindingsAreListed, FoldIsUnique
<1>2. \A n \in Numbers : Bindings[n] \in Seq(AnyPlace)
  BY BindingsAreListed DEF Lists
<1> QED BY <1>1, <1>2 DEF PlacesOf, BindingsOf, Asked

-----------------------------------------------------------------------------
(****************************************************************************)
(* Where the values of each comparison are: those of the i-th one follow    *)
(* place ends[i - 1] and end at ends[i].                                    *)
(****************************************************************************)
Size(list, i) == Built[list[i]].size

Laid(values, list, ends) ==
    /\ values \in Seq(AnyPlace) /\ list \in Seq(Numbers)
    /\ \A i \in 1..Len(list) : IsComparison(list[i])
    /\ ends \in [0..Len(list) -> 0..Len(values)]
    /\ ends[0] = 0 /\ ends[Len(list)] = Len(values)
    /\ \A i \in 1..Len(list) : ends[i] = ends[i - 1] + Size(list, i)
    /\ \A i \in 1..Len(list) : \A j \in 1..Size(list, i) :
         values[ends[i - 1] + j] = <<Built[list[i]].field, j>>

\* The size of a comparison is a number, and 1 but for a container.
LEMMA Sizes ==
    ASSUME NEW list \in Seq(Numbers), NEW i \in 1..Len(list), IsComparison(list[i])
    PROVE  /\ Size(list, i) \in Nat
           /\ ~Built[list[i]].in => Size(list, i) = 1
<1>1. PICK n \in Numbers : n = list[i]
  OBVIOUS
<1> QED BY <1>1, Nodes DEF Size

\* So are those of one comparison.
LEMMA OneIsLaid ==
    ASSUME NEW n \in Numbers, IsComparison(n)
    PROVE  \E ends : Laid(OfComparison(n), <<n>>, ends)
<1> DEFINE size == Built[n].size
           ends == [i \in 0..1 |-> IF i = 0 THEN 0 ELSE size]
<1>1. size \in Nat /\ Built[n].field \in Fields
  BY Nodes
<1>2. /\ OfComparison(n) \in Seq(AnyPlace) /\ Len(OfComparison(n)) = size
      /\ \A j \in 1..size : OfComparison(n)[j] = <<Built[n].field, j>>
  BY <1>1 DEF OfComparison, AnyPlace
<1>3. <<n>> \in Seq(Numbers) /\ Len(<<n>>) = 1 /\ Size(<<n>>, 1) = size
  BY DEF Size
<1>4. ends \in [0..1 -> 0..size] /\ ends[0] = 0 /\ ends[1] = size
  BY <1>1
<1> HIDE DEF size, ends
<1>5. Laid(OfComparison(n), <<n>>, ends)
  <2>1. \A i \in 1..1 : i = 1 /\ ends[i - 1] = 0
    BY <1>4
  <2>2. \A i \in 1..1 : \A j \in 1..Size(<<n>>, i) :
            OfComparison(n)[ends[i - 1] + j] = <<Built[<<n>>[i]].field, j>>
    <3> SUFFICES ASSUME NEW j \in 1..size
                 PROVE  OfComparison(n)[0 + j] = <<Built[<<n>>[1]].field, j>>
      BY <1>3, <2>1
    <3> QED BY <1>1, <1>2
  <2> QED BY <1>1, <1>2, <1>3, <1>4, <2>1, <2>2 DEF Laid
<1> QED BY <1>5

\* One after the other, the values of two expressions are laid out again.
LEMMA LaidTogether ==
    ASSUME NEW v, NEW l, NEW o, Laid(v, l, o),
           NEW w, NEW k, NEW p, Laid(w, k, p)
    PROVE  \E ends : Laid(v \o w, l \o k, ends)
<1>1. PICK a \in Nat, b \in Nat, c \in Nat, d \in Nat :
        a = Len(l) /\ b = Len(k) /\ c = Len(v) /\ d = Len(w)
  BY DEF Laid
<1> DEFINE ends == [i \in 0..(a + b) |-> IF i <= a THEN o[i] ELSE c + p[i - a]]
<1>2. /\ l \o k \in Seq(Numbers) /\ Len(l \o k) = a + b
      /\ \A i \in 1..a : (l \o k)[i] = l[i]
      /\ \A i \in 1..b : (l \o k)[a + i] = k[i]
  BY <1>1 DEF Laid
<1>3. /\ v \o w \in Seq(AnyPlace) /\ Len(v \o w) = c + d
      /\ \A i \in 1..c : (v \o w)[i] = v[i]
      /\ \A i \in 1..d : (v \o w)[c + i] = w[i]
  BY <1>1 DEF Laid
<1>4. /\ o \in [0..a -> 0..c] /\ o[0] = 0 /\ o[a] = c
      /\ p \in [0..b -> 0..d] /\ p[0] = 0 /\ p[b] = d
  BY <1>1 DEF Laid
<1>5. /\ ends \in [0..(a + b) -> 0..(c + d)]
      /\ \A i \in 0..a : ends[i] = o[i]
      /\ \A i \in 0..b : ends[a + i] = c + p[i]
  <2>1. ASSUME NEW i \in 0..(a + b) PROVE ends[i] \in 0..(c + d)
    <3>1. CASE i <= a
      BY <1>1, <1>4, <3>1
    <3>2. CASE i > a
      <4>1. i - a \in 0..b
        BY <1>1, <3>2
      <4>2. p[i - a] \in 0..d
        BY <1>4, <4>1
      <4> QED BY <1>1, <3>2, <4>2
    <3> QED BY <1>1, <3>1, <3>2
  <2>2. ASSUME NEW i \in 0..a PROVE ends[i] = o[i]
    BY <1>1
  <2>3. ASSUME NEW i \in 0..b PROVE ends[a + i] = c + p[i]
    <3>1. CASE i = 0
      BY <1>1, <1>4, <3>1
    <3>2. CASE i > 0
      BY <1>1, <3>2
    <3> QED BY <3>1, <3>2
  <2> QED BY <2>1, <2>2, <2>3
<1> HIDE DEF ends
<1>6. ASSUME NEW i \in 1..(a + b)
      PROVE  /\ IsComparison((l \o k)[i])
             /\ ends[i] = ends[i - 1] + Size(l \o k, i)
             /\ \A j \in 1..Size(l \o k, i) :
                  (v \o w)[ends[i - 1] + j] = <<Built[(l \o k)[i]].field, j>>
  <2>1. CASE i <= a
    <3>1. i \in 1..a /\ i \in 0..a /\ i - 1 \in 0..a
      BY <1>1, <2>1
    <3>2. /\ (l \o k)[i] = l[i] /\ Size(l \o k, i) = Size(l, i)
          /\ ends[i] = o[i] /\ ends[i - 1] = o[i - 1]
      BY <1>2, <1>5, <3>1 DEF Size
    <3>3. /\ IsComparison(l[i]) /\ o[i] = o[i - 1] + Size(l, i)
          /\ \A j \in 1..Size(l, i) : v[o[i - 1] + j] = <<Built[l[i]].field, j>>
      BY <1>1, <3>1 DEF Laid
    <3>4. ASSUME NEW j \in 1..Size(l, i)
          PROVE  (v \o w)[o[i - 1] + j] = v[o[i - 1] + j]
      <4>1. Size(l, i) \in Nat
        BY <1>1, <3>1, <3>3, Sizes DEF Laid
      <4>2. o[i - 1] \in 0..c /\ o[i] \in 0..c
        BY <1>4, <3>1
      <4>3. o[i - 1] + j \in 1..c
        BY <3>3, <4>1, <4>2
      <4> QED BY <1>3, <4>3
    <3> QED BY <3>2, <3>3, <3>4
  <2>2. CASE i > a
    <3>1. PICK h \in 1..b : h = i - a
      <4>1. i - a \in 1..b
        BY <1>1, <2>2
      <4> QED BY <4>1
    <3>2. i = a + h /\ i - 1 = a + (h - 1) /\ h - 1 \in 0..b /\ h \in 0..b
      BY <1>1, <3>1
    <3>3. /\ (l \o k)[i] = k[h] /\ Size(l \o k, i) = Size(k, h)
          /\ ends[i] = c + p[h] /\ ends[i - 1] = c + p[h - 1]
      BY <1>2, <1>5, <3>1, <3>2 DEF Size
    <3>4. /\ IsComparison(k[h]) /\ p[h] = p[h - 1] + Size(k, h)
          /\ \A j \in 1..Size(k, h) : w[p[h - 1] + j] = <<Built[k[h]].field, j>>
      BY <1>1, <3>1 DEF Laid
    <3>5. Size(k, h) \in Nat /\ p[h - 1] \in 0..d /\ p[h] \in 0..d
      <4>1. Size(k, h) \in Nat
        BY <1>1, <3>1, <3>4, Sizes DEF Laid
      <4> QED BY <1>4, <3>2, <4>1
    <3>6. ASSUME NEW j \in 1..Size(k, h)
          PROVE  (v \o w)[(c + p[h - 1]) + j] = w[p[h - 1] + j]
      <4>1. p[h - 1] + j \in 1..d
        BY <3>4, <3>5
      <4>2. (c + p[h - 1]) + j = c + (p[h - 1] + j)
        BY <1>1, <3>5
      <4> QED BY <1>3, <4>1, <4>2
    <3>7. c + p[h] = c + p[h - 1] + Size(k, h)
      BY <1>1, <3>4, <3>5
    <3>8. ASSUME NEW j \in 1..Size(k, h)
          PROVE  (v \o w)[ends[i - 1] + j] = <<Built[k[h]].field, j>>
      BY <3>3, <3>4, <3>6
    <3>9. ends[i] = ends[i - 1] + Size(k, h)
      BY <3>3, <3>7
    <3>10. IsComparison((l \o k)[i]) /\ ends[i] = ends[i - 1] + Size(l \o k, i)
      BY <3>3, <3>4, <3>9
    <3>11. ASSUME NEW j \in 1..Size(l \o k, i)
           PROVE  (v \o w)[ends[i - 1] + j] = <<Built[(l \o k)[i]].field, j>>
      <4>1. j \in 1..Size(k, h)
        BY <3>3
      <4>2. (l \o k)[i] = k[h]
        BY <3>3
      <4> QED BY <3>8, <4>1, <4>2
    <3> QED BY <3>10, <3>11
  <2>3. i <= a \/ i > a
    BY <1>1
  <2> QED BY <2>1, <2>2, <2>3, Zenon
<1>7. ends[0] = 0 /\ ends[a + b] = c + d
  <2>1. 0 \in 0..a /\ b \in 0..b
    BY <1>1
  <2> QED BY <1>4, <1>5, <2>1
<1>8. Laid(v \o w, l \o k, ends)
  BY <1>2, <1>3, <1>5, <1>6, <1>7 DEF Laid
<1> QED BY <1>8

\* However deep the expression, its values are laid out by its comparisons.
LEMMA BindingsAreLaid ==
    ASSUME NEW e \in Asked
    PROVE  \E ends : Laid(BindingsOf[e], ComparisonsOf[e], ends)
<1> DEFINE N == Len(Built)
           Good == {n \in Numbers : \E ends : Laid(Bindings[n], Comparisons[n], ends)}
<1>1. N \in Nat /\ Numbers = 1..N
  BY BuilderAssumption
<1>2. ASSUME NEW n \in 1..N, 1..(n - 1) \subseteq Good PROVE n \in Good
  <2>1. n \in Numbers
    BY <1>1
  <2>2. CASE IsComparison(n)
    <3>1. Bindings[n] = OfComparison(n) /\ Comparisons[n] = <<n>>
      BY <2>1, <2>2, BindingsAreListed, ComparisonsAreListed DEF IsFold, Values, Itself
    <3>2. \E ends : Laid(OfComparison(n), <<n>>, ends)
      BY <2>1, <2>2, OneIsLaid
    <3> QED BY <2>1, <3>1, <3>2
  <2>3. CASE ~IsComparison(n)
    <3>1. PICK x, y : x = Built[n].lhs /\ y = Built[n].rhs
      OBVIOUS
    <3>2. x \in Good /\ y \in Good
      <4> HIDE DEF Good
      <4> QED BY <1>2, <2>1, <2>3, <3>1, Nodes
    <3>3. /\ Bindings[n] = Bindings[x] \o Bindings[y]
          /\ Comparisons[n] = Comparisons[x] \o Comparisons[y]
      BY <2>1, <2>3, <3>1, BindingsAreListed, ComparisonsAreListed DEF IsFold
    <3>4. \E ends :
            Laid(Bindings[x] \o Bindings[y], Comparisons[x] \o Comparisons[y], ends)
      BY <3>2, LaidTogether
    <3> QED BY <2>1, <3>3, <3>4
  <2> QED BY <2>2, <2>3
<1>3. 1..N \subseteq Good
  <2> HIDE DEF Good, N
  <2> QED BY <1>1, <1>2, AllNumbers
<1>4. CASE e = NoExpression
  <2> DEFINE none == [i \in 0..0 |-> 0]
  <2>1. BindingsOf[e] = <<>> /\ ComparisonsOf[e] = <<>>
    BY <1>4 DEF BindingsOf, ComparisonsOf
  <2>2. none \in [0..0 -> 0..0] /\ none[0] = 0
    OBVIOUS
  <2>3. <<>> \in Seq(AnyPlace) /\ <<>> \in Seq(Numbers) /\ Len(<<>>) = 0
    OBVIOUS
  <2> HIDE DEF none
  <2>4. Laid(<<>>, <<>>, none)
    BY <2>2, <2>3 DEF Laid
  <2> QED BY <2>1, <2>4
<1>5. CASE e # NoExpression
  BY <1>1, <1>3, <1>5 DEF BindingsOf, ComparisonsOf, Asked
<1> QED BY <1>4, <1>5

\* Every place is one of a comparison.
LEMMA EveryPlaceIsLaid ==
    ASSUME NEW v, NEW l, NEW o, Laid(v, l, o), NEW q \in 1..Len(v)
    PROVE  \E i \in 1..Len(l) : \E j \in 1..Size(l, i) : q = o[i - 1] + j
<1>1. PICK n \in Nat, m \in Nat : n = Len(l) /\ m = Len(v)
  BY DEF Laid
<1>2. /\ o \in [0..n -> 0..m] /\ o[0] = 0 /\ o[n] = m
      /\ \A i \in 1..n : o[i] = o[i - 1] + Size(l, i)
      /\ \A i \in 1..n : Size(l, i) \in Nat
  BY <1>1, Sizes DEF Laid
<1> DEFINE Later == {i \in 0..n : q <= o[i]}
<1>3. n \in Later
  BY <1>1, <1>2
<1>4. PICK i \in Later : \A h \in Later : i <= h
  <2>1. Later \in SUBSET Nat /\ Later # {}
    BY <1>3
  <2> HIDE DEF Later
  <2> QED BY <2>1, LeastElement
<1>5. i \in 1..n /\ i - 1 \in 0..n
  BY <1>1, <1>2, <1>4
<1>6. i - 1 \notin Later
  <2> HIDE DEF Later
  <2> QED BY <1>4, <1>5
<1>7. /\ q \in Nat /\ o[i - 1] \in Nat /\ o[i] \in Nat /\ Size(l, i) \in Nat
      /\ o[i - 1] < q /\ q <= o[i] /\ o[i] = o[i - 1] + Size(l, i)
  <2>1. q \in Nat /\ o[i - 1] \in Nat /\ o[i] \in Nat
    <3>1. i \in 0..n /\ o[i] \in 0..m /\ o[i - 1] \in 0..m
      BY <1>2, <1>5
    <3> QED BY <1>1, <3>1
  <2>2. q <= o[i] /\ ~(q <= o[i - 1])
    BY <1>4, <1>5, <1>6
  <2> QED BY <1>2, <1>5, <2>1, <2>2
<1>8. q - o[i - 1] \in 1..Size(l, i) /\ q = o[i - 1] + (q - o[i - 1])
  BY <1>7
<1> QED BY <1>1, <1>5, <1>8

\* The same comparisons, but for the number of values of one of them.
Alike(l, k) ==
    /\ Len(l) = Len(k)
    /\ \A i \in 1..Len(l) : /\ Built[l[i]].field = Built[k[i]].field
                            /\ Built[l[i]].in = Built[k[i]].in
    /\ \A i, h \in 1..Len(l) : Built[l[i]].in /\ Built[l[h]].in => i = h

(****************************************************************************)
(* Of two such lists, one difference in size moves every later place, up to *)
(* the last: when there are as many values in all there is no difference.   *)
(****************************************************************************)
LEMMA AlikeEnds ==
    ASSUME NEW v, NEW l, NEW o, Laid(v, l, o),
           NEW w, NEW k, NEW p, Laid(w, k, p),
           Alike(l, k), Len(v) = Len(w)
    PROVE  /\ \A i \in 0..Len(l) : o[i] = p[i]
           /\ \A i \in 1..Len(l) : Size(l, i) = Size(k, i)
<1>1. PICK n \in Nat, m \in Nat :
        n = Len(l) /\ n = Len(k) /\ m = Len(v) /\ m = Len(w)
  BY DEF Laid, Alike
<1>2. /\ o \in [0..n -> 0..m] /\ o[0] = 0 /\ o[n] = m
      /\ p \in [0..n -> 0..m] /\ p[0] = 0 /\ p[n] = m
      /\ \A i \in 1..n : o[i] = o[i - 1] + Size(l, i)
      /\ \A i \in 1..n : p[i] = p[i - 1] + Size(k, i)
  BY <1>1 DEF Laid
<1>3. \A i \in 1..n : Size(l, i) \in Nat /\ Size(k, i) \in Nat
  BY <1>1, Sizes DEF Laid
<1>4. PICK c \in Nat : \A i \in 1..n : i # c => Size(l, i) = Size(k, i)
  <2>1. ASSUME NEW i \in 1..n, ~Built[l[i]].in PROVE Size(l, i) = Size(k, i)
    <3>1. ~Built[k[i]].in
      BY <1>1, <2>1 DEF Alike
    <3>2. IsComparison(l[i]) /\ IsComparison(k[i])
      BY <1>1 DEF Laid
    <3> QED BY <1>1, <2>1, <3>1, <3>2, Sizes DEF Laid
  <2>2. CASE \E i \in 1..n : Built[l[i]].in
    <3>1. PICK c \in 1..n : Built[l[c]].in
      BY <2>2
    <3>2. c \in Nat /\ \A i \in 1..n : i # c => ~Built[l[i]].in
      BY <1>1, <3>1 DEF Alike
    <3> QED BY <2>1, <3>2
  <2>3. CASE ~\E i \in 1..n : Built[l[i]].in
    BY <2>1, <2>3
  <2> QED BY <2>2, <2>3
<1>5. PICK x \in Int : x = IF c \in 1..n THEN Size(l, c) - Size(k, c) ELSE 0
  <2>1. c \in 1..n => Size(l, c) \in Nat /\ Size(k, c) \in Nat
    BY <1>3
  <2> QED BY <2>1
<1> DEFINE Shift(i) == IF c \in 1..i THEN x ELSE 0
           Good == {i \in 0..n : o[i] = p[i] + Shift(i)}
<1>6. 0 \in Good
  BY <1>1, <1>2
<1>7. ASSUME NEW i \in 1..n, i - 1 \in Good PROVE i \in Good
  <2>1. /\ o[i] \in Nat /\ p[i] \in Nat /\ o[i - 1] \in Nat /\ p[i - 1] \in Nat
        /\ i \in 0..n /\ o[i - 1] = p[i - 1] + Shift(i - 1)
    <3>1. i \in 0..n /\ i - 1 \in 0..n
      BY <1>1
    <3>2. o[i] \in 0..m /\ p[i] \in 0..m /\ o[i - 1] \in 0..m /\ p[i - 1] \in 0..m
      BY <1>2, <3>1
    <3> QED BY <1>1, <1>7, <3>1, <3>2
  <2>2. o[i] = o[i - 1] + Size(l, i) /\ p[i] = p[i - 1] + Size(k, i)
    BY <1>2
  <2>3. Size(l, i) \in Nat /\ Size(k, i) \in Nat
    BY <1>3
  <2>4. CASE i = c
    <3>1. Shift(i) = x /\ Shift(i - 1) = 0 /\ x = Size(l, i) - Size(k, i)
      BY <1>1, <1>5, <2>4
    <3>2. o[i] = p[i] + Shift(i)
      <4> HIDE DEF Shift
      <4> QED BY <1>5, <2>1, <2>2, <2>3, <3>1
    <3> QED BY <2>1, <3>2
  <2>5. CASE i # c
    <3>1. Shift(i) = Shift(i - 1) /\ Shift(i) \in Int /\ Size(l, i) = Size(k, i)
      BY <1>1, <1>4, <1>5, <2>5
    <3>2. o[i] = p[i] + Shift(i)
      <4> HIDE DEF Shift
      <4> QED BY <2>1, <2>2, <2>3, <3>1
    <3> QED BY <2>1, <3>2
  <2> QED BY <2>4, <2>5
<1>8. 1..n \subseteq Good
  <2>1. ASSUME NEW i \in 1..n, 1..(i - 1) \subseteq Good PROVE i \in Good
    <3>1. i - 1 \in Good
      <4>1. i = 1 \/ i - 1 \in 1..(i - 1)
        OBVIOUS
      <4> HIDE DEF Good
      <4> QED BY <1>6, <2>1, <4>1
    <3> HIDE DEF Good
    <3> QED BY <1>7, <3>1
  <2> HIDE DEF Good
  <2> QED BY <1>1, <2>1, AllNumbers
<1>9. n \in Good
  <2> HIDE DEF Good
  <2>1. n = 0 \/ n \in 1..n
    BY <1>1
  <2> QED BY <1>6, <1>8, <2>1
<1>10. Shift(n) = 0
  <2>1. Shift(n) \in Int /\ o[n] = p[n] + Shift(n)
    BY <1>5, <1>9
  <2> HIDE DEF Shift
  <2> QED BY <1>1, <1>2, <2>1
<1>11. \A i \in 1..n : Size(l, i) = Size(k, i)
  <2>1. ASSUME NEW i \in 1..n, i = c PROVE Size(l, i) = Size(k, i)
    <3>1. Size(l, i) \in Nat /\ Size(k, i) \in Nat
      BY <1>3
    <3> QED BY <1>5, <1>10, <2>1, <3>1
  <2> QED BY <1>4, <2>1
<1>12. ASSUME NEW i \in 0..n PROVE o[i] = p[i]
  <2>1. i \in Good
    <3> HIDE DEF Good
    <3>1. i = 0 \/ i \in 1..n
      BY <1>1
    <3> QED BY <1>6, <1>8, <3>1
  <2>2. Shift(i) = 0
    BY <1>1, <1>10
  <2>3. o[i] = p[i] + 0 /\ p[i] \in 0..m
    BY <1>2, <2>1, <2>2
  <2> QED BY <1>1, <2>3
<1> QED BY <1>1, <1>11, <1>12

\* Then every value is where the other's is.
LEMMA AlikeValues ==
    ASSUME NEW v, NEW l, NEW o, Laid(v, l, o),
           NEW w, NEW k, NEW p, Laid(w, k, p),
           Alike(l, k), Len(v) = Len(w)
    PROVE  \A q \in 1..Len(v) : v[q] = w[q]
<1> SUFFICES ASSUME NEW q \in 1..Len(v) PROVE v[q] = w[q]
  OBVIOUS
<1>1. PICK i \in 1..Len(l) : \E j \in 1..Size(l, i) : q = o[i - 1] + j
  BY EveryPlaceIsLaid
<1>2. PICK j \in 1..Size(l, i) : q = o[i - 1] + j
  BY <1>1
<1>3. PICK n \in Nat : n = Len(l) /\ n = Len(k)
  BY DEF Laid, Alike
<1>4. i \in 1..n /\ i - 1 \in 0..n
  BY <1>3
<1>5. o[i - 1] = p[i - 1] /\ Size(l, i) = Size(k, i)
  <2>1. /\ \A h \in 0..Len(l) : o[h] = p[h]
        /\ \A h \in 1..Len(l) : Size(l, h) = Size(k, h)
    BY AlikeEnds
  <2> QED BY <1>3, <1>4, <2>1
<1>6. v[o[i - 1] + j] = <<Built[l[i]].field, j>>
  BY DEF Laid
<1>7. w[p[i - 1] + j] = <<Built[k[i]].field, j>>
  BY <1>3, <1>4, <1>5 DEF Laid
<1>8. Built[l[i]].field = Built[k[i]].field
  BY DEF Alike
<1> QED BY <1>2, <1>5, <1>6, <1>7, <1>8

(****************************************************************************)
(* For the same comparisons, with one container at most, as many values as  *)
(* there are places are those that belong in these places.                  *)
(****************************************************************************)
LEMMA SameValues ==
    ASSUME NEW e \in Asked, NEW f \in Asked,
           SameComparisons(e, f), OneContainerAtMost(e),
           Len(BindingsOf[e]) = Len(BindingsOf[f])
    PROVE  \A q \in 1..Len(BindingsOf[e]) : BindingsOf[e][q] = BindingsOf[f][q]
<1>1. PICK l, k : l = ComparisonsOf[e] /\ k = ComparisonsOf[f]
  OBVIOUS
<1>2. PICK v, w : v = BindingsOf[e] /\ w = BindingsOf[f]
  OBVIOUS
<1>3. PICK o : Laid(v, l, o)
  BY <1>1, <1>2, BindingsAreLaid
<1>4. PICK p : Laid(w, k, p)
  BY <1>1, <1>2, BindingsAreLaid
<1>5. l \in Seq(Numbers) /\ k \in Seq(Numbers)
  BY <1>3, <1>4 DEF Laid
<1>6. /\ TypesOf[e] = [i \in DOMAIN l |-> Built[l[i]].in]
      /\ TypesOf[f] = [i \in DOMAIN k |-> Built[k[i]].in]
  BY <1>1 DEF TypesOf
<1>7. DOMAIN l = DOMAIN k /\ \A i \in DOMAIN l : Built[l[i]].in = Built[k[i]].in
  <2>1. [i \in DOMAIN l |-> Built[l[i]].in] = [i \in DOMAIN k |-> Built[k[i]].in]
    BY <1>6 DEF SameComparisons
  <2>2. DOMAIN l = DOMAIN k
    BY <2>1, Zenon
  <2>3. ASSUME NEW i \in DOMAIN l PROVE Built[l[i]].in = Built[k[i]].in
    <3>1. /\ [h \in DOMAIN l |-> Built[l[h]].in][i] = Built[l[i]].in
          /\ [h \in DOMAIN k |-> Built[k[h]].in][i] = Built[k[i]].in
      BY <2>2
    <3> QED BY <2>1, <3>1
  <2> QED BY <2>2, <2>3
<1>8. Len(l) = Len(k) /\ DOMAIN l = 1..Len(l)
  BY <1>5, <1>7
<1>9. \A i, h \in DOMAIN l : Built[l[i]].in /\ Built[l[h]].in => i = h
  BY <1>6 DEF OneContainerAtMost, Containers
<1>10. Alike(l, k)
  BY <1>1, <1>7, <1>8, <1>9 DEF Alike, SameComparisons
<1> QED BY <1>2, <1>3, <1>4, <1>10, AlikeValues

-----------------------------------------------------------------------------
(****************************************************************************)
(* The inductive invariant.  The wrapper knows every parameter of the text, *)
(* the values in them were bound together, and after a bind that returned   *)
(* they are the values that were asked, from the first place on.  Until a   *)
(* query is handed out there is no text, and the clauses are the program's. *)
(****************************************************************************)
SetTogether ==
    \A i, j \in DOMAIN slots :
        slots[i] # Unset /\ slots[j] # Unset => slots[i].fresh = slots[j].fresh

HoldsAsked ==
    asked.bound =>
        /\ text # NoText
        /\ Fits(BindingsOf[asked.where], Len(PlacesOf[text.where]))
        /\ slots = BindOver([i \in DOMAIN slots |-> Unset], BindingsOf[asked.where])

FirstQuery ==
    /\ made = 0 <=> text = NoText
    /\ made = 0 => queries = {}
    /\ made = 0 /\ ~failedOne => clauses = own

StatementOK ==
    /\ text \in Texts \cup {NoText}
    /\ text # NoText => IsSyntax(text.where)
    /\ DOMAIN slots = (IF text = NoText THEN {} ELSE DOMAIN PlacesOf[text.where])
    /\ \A i \in DOMAIN slots : slots[i] \in Bounds \cup {Unset}
    /\ known = DOMAIN slots
    /\ phase \in Phases
    /\ SetTogether

BuilderInv == TypeOK /\ StatementOK /\ HoldsAsked /\ FirstQuery

\* What the program may ask has a list of values, one for each place.
LEMMA AskedValues ==
    ASSUME NEW e \in Wheres
    PROVE  /\ PlacesOf[e] = BindingsOf[e]
           /\ Len(BindingsOf[e]) \in Nat /\ DOMAIN BindingsOf[e] = 1..Len(BindingsOf[e])
           /\ \A i \in 1..Len(BindingsOf[e]) : BindingsOf[e][i] \in AllPlaces
<1>1. e \in Asked
  BY BuilderAssumption DEF Wheres, Asked
<1>2. PICK s \in Seq(AnyPlace) : s = BindingsOf[e] /\ s = PlacesOf[e]
  BY <1>1, PlacesAreBindings
<1>3. Len(s) \in Nat /\ DOMAIN s = 1..Len(s)
  OBVIOUS
<1>4. \A i \in DOMAIN s : s[i] \in AllPlaces
  <2> SUFFICES ASSUME NEW i \in DOMAIN s PROVE s[i] \in AllPlaces
    OBVIOUS
  <2>1. s[i] \in {BindingsOf[e][h] : h \in DOMAIN BindingsOf[e]}
    BY <1>2
  <2> QED BY <2>1, Zenon DEF AllPlaces
<1> QED BY <1>2, <1>3, <1>4

\* No value is the mark of a parameter without one.
LEMMA ValuesAreSet ==
    \A v \in AllPlaces, f \in BOOLEAN :
        /\ Bound(v, f) \in Bounds /\ Bound(v, f) # Unset
        /\ Bound(v, f).value = v /\ Bound(v, f).fresh = f
BY BuilderAssumption DEF Bounds, Bound

\* What is bound over parameters without values.
NoValues(n) == [i \in 1..n |-> Unset]

AreBound(after, n, values) ==
    /\ DOMAIN after = 1..n
    /\ \A i \in 1..n :
         after[i] = IF i <= Len(values) THEN Bound(values[i], TRUE) ELSE Unset
    /\ \A i \in 1..n : after[i] \in Bounds \cup {Unset}
    /\ \A i, j \in 1..n : after[i] # Unset /\ after[j] # Unset
                            => after[i].fresh = after[j].fresh

\* bind() puts the values in the first places and sets nothing else.
LEMMA BoundOverNone ==
    ASSUME NEW n \in Nat, NEW e \in Wheres
    PROVE  AreBound(BindOver(NoValues(n), BindingsOf[e]), n, BindingsOf[e])
<1> DEFINE after == BindOver(NoValues(n), BindingsOf[e])
<1>1. /\ DOMAIN after = 1..n
      /\ \A i \in 1..n : after[i] = IF i <= Len(BindingsOf[e])
                                    THEN Bound(BindingsOf[e][i], TRUE) ELSE Unset
  BY DEF BindOver, NoValues
<1> HIDE DEF after
<1>2. ASSUME NEW i \in 1..n, i <= Len(BindingsOf[e])
      PROVE  after[i] \in Bounds /\ after[i].fresh = TRUE
  <2>1. BindingsOf[e][i] \in AllPlaces
    BY <1>2, AskedValues
  <2> QED BY <1>1, <1>2, <2>1, ValuesAreSet
<1>3. AreBound(after, n, BindingsOf[e])
  BY <1>1, <1>2 DEF AreBound
<1> QED BY <1>3 DEF after

(****************************************************************************)
(* A bind after reset() leaves the values that were asked and no other, or  *)
(* throws.                                                                  *)
(****************************************************************************)
LEMMA AfterReset ==
    ASSUME StatementOK, text # NoText, text' = text,
           NEW e \in Wheres, ResetsAndBinds(BindingsOf[e])
    PROVE  /\ StatementOK'
           /\ outcome' \in Outcomes
           /\ outcome' = "returned" =>
                /\ Fits(BindingsOf[e], Len(PlacesOf[text.where]))
                /\ slots' = BindOver([i \in DOMAIN slots' |-> Unset], BindingsOf[e])
<1>1. text.where \in Wheres
  BY DEF StatementOK, Texts
<1>2. PICK n \in Nat : DOMAIN slots = 1..n /\ n = Len(PlacesOf[text.where])
  BY <1>1, AskedValues DEF StatementOK
<1>3. phase' \in Phases
  BY DEF ResetsAndBinds, Phases
<1>4. CASE RewindOutcome(phase) = "returned"
  <2>1. PICK b : b = BindOver(NoValues(n), BindingsOf[e])
    OBVIOUS
  <2>2. /\ slots' = b
        /\ known' = known \cup {i \in 1..n : i <= Len(BindingsOf[e])}
        /\ outcome' = IF Fits(BindingsOf[e], n) THEN "returned" ELSE "InternalError"
    <3>1. Cleared = NoValues(n) /\ DOMAIN Cleared = 1..n /\ Len(Cleared) = n
      BY <1>2 DEF Cleared, NoValues
    <3> QED BY <1>4, <2>1, <3>1 DEF ResetsAndBinds, Binds
  <2>3. AreBound(b, n, BindingsOf[e])
    BY <2>1, BoundOverNone
  <2>4. known' = 1..n
    BY <1>2, <2>2 DEF StatementOK
  <2>5. StatementOK'
    BY <1>2, <1>3, <2>2, <2>3, <2>4 DEF StatementOK, SetTogether, AreBound
  <2> QED BY <1>2, <2>1, <2>2, <2>3, <2>5 DEF Outcomes, NoValues, AreBound
<1>5. CASE RewindOutcome(phase) # "returned"
  <2>1. slots' = Stale /\ known' = known /\ outcome' = "InternalError"
    BY <1>5 DEF ResetsAndBinds, RewindOutcome
  <2>2. DOMAIN Stale = DOMAIN slots
    BY DEF Stale
  <2>3. ASSUME NEW i \in DOMAIN slots
        PROVE  /\ Stale[i] \in Bounds \cup {Unset}
               /\ Stale[i] # Unset => Stale[i].fresh = FALSE
    <3>1. CASE slots[i] = Unset
      BY <3>1 DEF Stale
    <3>2. CASE slots[i] # Unset
      <4>1. PICK v \in AllPlaces, f \in BOOLEAN : slots[i] = Bound(v, f)
        BY <3>2 DEF StatementOK, Bounds
      <4>2. slots[i].value = v
        BY <4>1, ValuesAreSet
      <4>3. Stale[i] = Bound(v, FALSE)
        BY <3>2, <4>2 DEF Stale
      <4> QED BY <4>3, ValuesAreSet
    <3> QED BY <3>1, <3>2
  <2>4. StatementOK'
    BY <1>3, <2>1, <2>2, <2>3 DEF StatementOK, SetTogether
  <2> QED BY <2>1, <2>4 DEF Outcomes
<1> QED BY <1>4, <1>5

\* prepare() does, whether the text is new or not, unless there is none.
LEMMA AfterPrepare ==
    ASSUME StatementOK, Prepare,
           where' \in Wheres, clauses' \in [ClauseNames -> Arguments \cup {0}]
    PROVE  /\ StatementOK'
           /\ outcome' \in Outcomes
           /\ outcome' = "returned" =>
                /\ text' # NoText
                /\ Fits(BindingsOf[where'], Len(PlacesOf[text'.where]))
                /\ slots' = BindOver([i \in DOMAIN slots' |-> Unset], BindingsOf[where'])
           /\ outcome' # "returned" => (text' = NoText <=> text = NoText)
           /\ text = NoText /\ outcome' = "returned" => text'.clauses = clauses'
<1>1. CASE PreparesText
  <2>1. PICK n \in Nat : n = Len(PlacesOf[where']) /\ n = Len(BindingsOf[where'])
                         /\ DOMAIN PlacesOf[where'] = 1..n
    BY AskedValues
  <2>2. PICK b : b = BindOver(NoValues(n), BindingsOf[where'])
    OBVIOUS
  <2>3. slots' = b /\ known' = 1..n /\ phase' = phase /\ outcome' = "returned"
    BY <1>1, <2>1, <2>2 DEF PreparesText, NoValues
  <2>4. AreBound(b, n, BindingsOf[where'])
    BY <2>2, BoundOverNone
  <2>5. /\ text' \in Texts /\ text' # NoText
        /\ text'.where = where' /\ text'.clauses = clauses'
        /\ IsSyntax(text'.where)
    BY <1>1, BuilderAssumption DEF PreparesText, Texts
  <2>6. StatementOK'
    BY <2>1, <2>3, <2>4, <2>5 DEF StatementOK, SetTogether, AreBound
  <2>7. Fits(BindingsOf[where'], Len(PlacesOf[text'.where]))
    BY <2>1, <2>5 DEF Fits
  <2> QED BY <2>2, <2>3, <2>4, <2>5, <2>6, <2>7 DEF Outcomes, NoValues, AreBound
<1>2. CASE PrepareThrows
  BY <1>2 DEF PrepareThrows, statement, StatementOK, SetTogether, Outcomes
<1>3. CASE PreparesAgain
  <2>1. text # NoText /\ text' = text /\ ResetsAndBinds(BindingsOf[where'])
    BY <1>3 DEF PreparesAgain
  <2> QED BY <2>1, AfterReset
<1> QED BY <1>1, <1>2, <1>3 DEF Prepare

\* A clause is set to what the program asks for, or left as it is.
LEMMA LimitTyped ==
    ASSUME clauses \in [ClauseNames -> Arguments \cup {0}],
           NEW name \in ClauseNames, NEW a \in Arguments
    PROVE  WithClause(name, a) \in [ClauseNames -> Arguments \cup {0}]
BY DEF WithClause

\* The steps, one lemma for each kind of call.
LEMMA AfterQuery ==
    ASSUME BuilderInv, NEW one \in BOOLEAN, NEW e \in Wheres,
           where' \in Wheres, MakesQuery(one, e)
    PROVE  BuilderInv'
<1>1. clauses' \in [ClauseNames -> Arguments \cup {0}]
  BY LimitTyped, BuilderAssumption DEF BuilderInv, TypeOK, MakesQuery, LimitsToOne
<1>2. /\ StatementOK'
      /\ outcome' \in Outcomes
      /\ outcome' = "returned" =>
           /\ text' # NoText
           /\ Fits(BindingsOf[where'], Len(PlacesOf[text'.where]))
           /\ slots' = BindOver([i \in DOMAIN slots' |-> Unset], BindingsOf[where'])
      /\ outcome' # "returned" => (text' = NoText <=> text = NoText)
      /\ text = NoText /\ outcome' = "returned" => text'.clauses = clauses'
  BY <1>1, AfterPrepare DEF BuilderInv, MakesQuery
<1>3. CASE outcome' = "returned"
  <2>1. /\ queries' = queries \cup {TypesOf[e]} /\ made' = made + 1
        /\ asked' = [where |-> where', one |-> one, bound |-> TRUE]
        /\ failedOne' = failedOne /\ own' = own /\ made < MaxCalls
    BY <1>3 DEF MakesQuery
  <2>2. made' \in 0..MaxCalls /\ made' # 0
    BY <2>1, BuilderAssumption DEF BuilderInv, TypeOK
  <2>3. /\ asked' \in [where : Wheres, one : BOOLEAN, bound : BOOLEAN]
        /\ asked'.where = where'
    BY <2>1
  <2>4. HoldsAsked'
    BY <1>2, <1>3, <2>3 DEF HoldsAsked
  <2>5. FirstQuery'
    BY <1>2, <1>3, <2>2 DEF FirstQuery
  <2>6. TypeOK'
    BY <1>1, <1>2, <2>1, <2>2, <2>3 DEF BuilderInv, TypeOK, StatementOK
  <2> QED BY <1>2, <2>4, <2>5, <2>6 DEF BuilderInv
<1>4. CASE outcome' # "returned"
  <2>1. /\ failedOne' = (failedOne \/ one)
        /\ asked' = [asked EXCEPT !.bound = FALSE]
        /\ queries' = queries /\ made' = made /\ own' = own
    BY <1>4 DEF MakesQuery
  <2>2. /\ asked' \in [where : Wheres, one : BOOLEAN, bound : BOOLEAN]
        /\ asked'.bound = FALSE
    BY <2>1 DEF BuilderInv, TypeOK
  <2>3. failedOne' \in BOOLEAN /\ (~failedOne' => ~failedOne /\ ~one)
    BY <2>1 DEF BuilderInv, TypeOK
  <2>4. ~one => clauses' = clauses
    BY DEF MakesQuery, LimitsToOne
  <2>5. HoldsAsked'
    BY <2>2 DEF HoldsAsked
  <2>6. FirstQuery'
    BY <1>2, <1>4, <2>1, <2>3, <2>4 DEF BuilderInv, FirstQuery
  <2>7. TypeOK'
    BY <1>1, <1>2, <2>1, <2>2, <2>3 DEF BuilderInv, TypeOK, StatementOK
  <2> QED BY <1>2, <2>5, <2>6, <2>7 DEF BuilderInv
<1> QED BY <1>3, <1>4

\* rebind() of a query that was handed out, so that there is a text.
LEMMA AfterRebind ==
    ASSUME BuilderInv, NEW e \in Wheres, Rebind(e)
    PROVE  BuilderInv'
<1>1. text # NoText /\ text' = text
  BY DEF BuilderInv, FirstQuery, Rebind
<1>2. /\ StatementOK'
      /\ outcome' \in Outcomes
      /\ outcome' = "returned" =>
           /\ Fits(BindingsOf[e], Len(PlacesOf[text.where]))
           /\ slots' = BindOver([i \in DOMAIN slots' |-> Unset], BindingsOf[e])
  BY <1>1, AfterReset DEF BuilderInv, Rebind
<1>3. /\ asked' \in [where : Wheres, one : BOOLEAN, bound : BOOLEAN]
      /\ asked'.where = e /\ asked'.bound = (outcome' = "returned")
  BY DEF BuilderInv, TypeOK, Rebind
<1>4. UNCHANGED <<where, clauses, queries, own, made, failedOne>>
  BY DEF Rebind, builder
<1>5. HoldsAsked'
  BY <1>1, <1>2, <1>3 DEF HoldsAsked
<1>6. FirstQuery'
  BY <1>1, <1>4 DEF BuilderInv, FirstQuery
<1>7. TypeOK'
  BY <1>2, <1>3, <1>4 DEF BuilderInv, TypeOK, StatementOK
<1> QED BY <1>2, <1>5, <1>6, <1>7 DEF BuilderInv

\* limit(), order_by() and group_by() touch the clauses alone.
LEMMA AfterSetClause ==
    ASSUME BuilderInv, NEW name \in ClauseNames, NEW a \in Arguments, SetClause(name, a)
    PROVE  BuilderInv'
<1>1. /\ clauses' = WithClause(name, a)
      /\ own' = IF own[name] = 0 THEN [own EXCEPT ![name] = a] ELSE own
      /\ outcome' = "returned"
      /\ UNCHANGED <<where, text, slots, known, phase, queries, asked, made, failedOne>>
  BY DEF SetClause, statement
<1>2. clauses' \in [ClauseNames -> Arguments \cup {0}]
  BY <1>1, LimitTyped DEF BuilderInv, TypeOK
<1>3. own' \in [ClauseNames -> Arguments \cup {0}]
  BY <1>1 DEF BuilderInv, TypeOK
<1>4. clauses = own => clauses' = own'
  BY <1>1 DEF WithClause
<1>5. TypeOK'
  BY <1>1, <1>2, <1>3 DEF BuilderInv, TypeOK, Outcomes
<1> QED
  BY <1>1, <1>4, <1>5 DEF BuilderInv, StatementOK, SetTogether, HoldsAsked, FirstQuery

\* exec() touches the phase alone.
LEMMA AfterExec ==
    ASSUME BuilderInv, Exec
    PROVE  BuilderInv'
<1>1. /\ phase' \in Phases /\ outcome' \in Outcomes \cup {"ran"}
      /\ UNCHANGED <<where, clauses, text, slots, known, queries>>
      /\ UNCHANGED <<asked, own, made, failedOne>>
  BY DEF Exec, ExecThrows, ExecRuns, Phases, Outcomes, builder, history
<1> QED
  BY <1>1 DEF BuilderInv, TypeOK, StatementOK, SetTogether, HoldsAsked, FirstQuery

\* A new builder has no text, no values and no clauses.
LEMMA InitialBuilder == Init => BuilderInv
<1> SUFFICES ASSUME Init PROVE BuilderInv
  OBVIOUS
<1>1. NoClauses \in [ClauseNames -> Arguments \cup {0}]
  BY DEF NoClauses
<1>2. DOMAIN slots = {}
  BY DEF Init
<1>3. TypeOK
  <2>1. /\ where \in Wheres
        /\ asked \in [where : Wheres, one : BOOLEAN, bound : BOOLEAN]
    BY DEF Init, Wheres
  <2>2. made \in 0..MaxCalls
    BY BuilderAssumption DEF Init
  <2>3. /\ clauses \in [ClauseNames -> Arguments \cup {0}]
        /\ own \in [ClauseNames -> Arguments \cup {0}]
    BY <1>1 DEF Init
  <2> QED BY <1>2, <2>1, <2>2, <2>3 DEF Init, TypeOK, Phases, Outcomes
<1>4. StatementOK
  BY <1>2 DEF Init, StatementOK, SetTogether, Phases
<1> QED
  BY <1>3, <1>4 DEF Init, BuilderInv, HoldsAsked, FirstQuery

\* Every step keeps it.
LEMMA BuilderStep == BuilderInv /\ [Next]_vars => BuilderInv'
<1> SUFFICES ASSUME BuilderInv, [Next]_vars PROVE BuilderInv'
  OBVIOUS
<1>1. ASSUME NEW name \in ClauseNames, NEW a \in Arguments, SetClause(name, a)
      PROVE  BuilderInv'
  BY <1>1, AfterSetClause
<1>2. ASSUME NEW one \in BOOLEAN, NEW e \in Expressions, WhereQuery(one, e)
      PROVE  BuilderInv'
  BY <1>2, AfterQuery DEF WhereQuery, Wheres
<1>3. ASSUME NEW one \in BOOLEAN, PlainQuery(one)
      PROVE  BuilderInv'
  BY <1>3, AfterQuery DEF PlainQuery, Wheres, BuilderInv, TypeOK
<1>4. ASSUME NEW e \in Wheres, Rebind(e)
      PROVE  BuilderInv'
  BY <1>4, AfterRebind
<1>5. CASE Exec
  BY <1>5, AfterExec
<1>6. CASE UNCHANGED vars
  BY <1>6 DEF vars, builder, statement, history, BuilderInv, TypeOK, StatementOK,
     SetTogether, HoldsAsked, FirstQuery
<1> QED BY <1>1, <1>2, <1>3, <1>4, <1>5, <1>6 DEF Next

\* It holds always.
LEMMA BuilderInvariant == Spec => []BuilderInv
BY InitialBuilder, BuilderStep, PTL DEF Spec

\* The type invariant.
THEOREM BuilderTypeCorrect == Spec => []TypeOK
BY BuilderInvariant, PTL DEF BuilderInv

-----------------------------------------------------------------------------
\* Only exec() steps the engine.
LEMMA OnlyExecRuns == Next /\ Runs => Exec
<1> SUFFICES ASSUME Next, Runs PROVE Exec
  OBVIOUS
<1>1. outcome' \notin Outcomes
  BY DEF Runs, Outcomes, StatementErrors
<1>2. ASSUME NEW values PROVE ResetsAndBinds(values) => outcome' \in Outcomes
  BY DEF ResetsAndBinds, Binds, RewindOutcome, Outcomes
<1>3. Prepare => outcome' \in Outcomes
  BY <1>2 DEF Prepare, PreparesText, PrepareThrows, PreparesAgain, Outcomes
<1>4. ASSUME NEW name, NEW a PROVE ~SetClause(name, a)
  BY <1>1 DEF SetClause, Outcomes
<1>5. ASSUME NEW one, NEW e PROVE ~WhereQuery(one, e) /\ ~PlainQuery(one)
  BY <1>1, <1>3 DEF WhereQuery, PlainQuery, MakesQuery
<1>6. ASSUME NEW e PROVE ~Rebind(e)
  BY <1>1, <1>2 DEF Rebind
<1> QED BY <1>4, <1>5, <1>6 DEF Next

(****************************************************************************)
(* A query never runs with values of two binds, nor without one of them:    *)
(* reset() clears before it binds, and exec() wants them all.               *)
(****************************************************************************)
THEOREM RunsWithOneBind == Spec => BoundTogether
<1>1. ASSUME BuilderInv, Next, Runs, NEW i \in DOMAIN slots, NEW j \in DOMAIN slots
      PROVE  slots[i] # Unset /\ slots[i].fresh = slots[j].fresh
  <2>1. Exec
    BY <1>1, OnlyExecRuns
  <2>2. AllKnownBound
    BY <1>1, <2>1 DEF Exec, ExecThrows, ExecRuns, Runs
  <2> QED BY <1>1, <2>2 DEF AllKnownBound, BuilderInv, StatementOK, SetTogether
<1>2. BuilderInv /\ [Next]_vars =>
        [Runs =>
            \A i, j \in DOMAIN slots :
                /\ slots[i] # Unset
                /\ slots[i].fresh = slots[j].fresh]_vars
  BY <1>1
<1> QED BY <1>2, BuilderInvariant, PTL DEF Spec, BoundTogether

(****************************************************************************)
(* A query bound for the comparisons of its text runs with every value in   *)
(* its own place, however deep and however grouped the expressions are.     *)
(****************************************************************************)
THEOREM ValuesRunInTheirPlaces == Spec => ValuesInTheirPlaces
<1>1. ASSUME BuilderInv, Next, Runs, asked.bound,
             SameComparisons(asked.where, text.where), OneContainerAtMost(asked.where),
             NEW i \in DOMAIN slots
      PROVE  slots[i].value = PlacesOf[text.where][i]
  <2>1. Exec
    BY <1>1, OnlyExecRuns
  <2>2. AllKnownBound
    BY <1>1, <2>1 DEF Exec, ExecThrows, ExecRuns, Runs
  <2>3. text # NoText /\ text.where \in Wheres /\ asked.where \in Wheres
    BY <1>1 DEF BuilderInv, HoldsAsked, TypeOK, Texts
  <2>4. PICK v, w : v = BindingsOf[asked.where] /\ w = BindingsOf[text.where]
    OBVIOUS
  <2>5. /\ PlacesOf[text.where] = w /\ Len(v) \in Nat /\ Len(w) \in Nat
        /\ DOMAIN w = 1..Len(w)
    BY <2>3, <2>4, AskedValues
  <2>6. /\ DOMAIN slots = 1..Len(w) /\ Len(v) <= Len(w)
        /\ slots = BindOver([h \in DOMAIN slots |-> Unset], v)
    BY <1>1, <2>3, <2>4, <2>5 DEF BuilderInv, StatementOK, HoldsAsked, Fits
  <2>7. \A h \in 1..Len(w) :
          slots[h] = IF h <= Len(v) THEN Bound(v[h], TRUE) ELSE Unset
    <3>1. \A h \in 1..Len(w) :
            BindOver([g \in DOMAIN slots |-> Unset], v)[h] =
              IF h <= Len(v) THEN Bound(v[h], TRUE) ELSE Unset
      BY <2>6 DEF BindOver
    <3> QED BY <2>6, <3>1
  <2>8. \A h \in 1..Len(w) : slots[h] # Unset
    BY <1>1, <2>2, <2>6 DEF AllKnownBound, BuilderInv, StatementOK
  <2>9. Len(v) = Len(w)
    <3>1. CASE Len(w) = 0
      BY <2>5, <2>6, <3>1
    <3>2. CASE Len(w) # 0
      <4>1. Len(w) \in 1..Len(w)
        BY <2>5, <3>2
      <4>2. Len(w) <= Len(v)
        BY <2>7, <2>8, <4>1
      <4> QED BY <2>5, <2>6, <4>2
    <3> QED BY <3>1, <3>2
  <2>10. \A q \in 1..Len(v) : v[q] = w[q]
    <3>1. asked.where \in Asked /\ text.where \in Asked
      BY <2>3, BuilderAssumption DEF Wheres, Asked
    <3> QED BY <1>1, <2>4, <2>9, <3>1, SameValues
  <2>11. slots[i] = Bound(w[i], TRUE)
    BY <1>1, <2>6, <2>7, <2>8, <2>9, <2>10
  <2> QED BY <2>5, <2>11 DEF Bound
<1>2. BuilderInv /\ [Next]_vars =>
        [/\ Runs /\ asked.bound
         /\ SameComparisons(asked.where, text.where)
         /\ OneContainerAtMost(asked.where)
         => \A i \in DOMAIN slots : slots[i].value = PlacesOf[text.where][i]]_vars
  BY <1>1
<1> QED BY <1>2, BuilderInvariant, PTL DEF Spec, ValuesInTheirPlaces

\* The first query has the clauses asked for, and LIMIT 1 when it asks for one.
THEOREM FirstQueryIsAsAsked == Spec => ClausesAsAsked
<1>1. ASSUME BuilderInv, Next, made = 0, made' = 1, ~failedOne
      PROVE  text'.clauses = Wanted(asked'.one)
  <2>1. PICK one \in BOOLEAN, e \in Wheres : MakesQuery(one, e) /\ where' \in Wheres
    BY <1>1 DEF Next, SetClause, Rebind, Exec, history, WhereQuery, PlainQuery,
       BuilderInv, TypeOK, Wheres
  <2>2. outcome' = "returned" /\ asked'.one = one
    BY <1>1, <2>1 DEF MakesQuery
  <2>3. clauses' \in [ClauseNames -> Arguments \cup {0}]
    BY <1>1, <2>1, LimitTyped, BuilderAssumption
       DEF BuilderInv, TypeOK, MakesQuery, LimitsToOne
  <2>4. text'.clauses = clauses'
    BY <1>1, <2>1, <2>2, <2>3, AfterPrepare DEF BuilderInv, FirstQuery, MakesQuery
  <2>5. clauses = own /\ own' = own
    BY <1>1, <2>1 DEF BuilderInv, FirstQuery, MakesQuery
  <2>6. clauses' = [name \in ClauseNames |->
                      IF name = "limit" /\ one /\ own[name] = 0 THEN 1 ELSE own[name]]
    BY <1>1, <2>1, <2>5, BuilderAssumption
       DEF MakesQuery, LimitsToOne, WithClause, BuilderInv, TypeOK
  <2> QED BY <2>2, <2>4, <2>6 DEF Wanted
<1>2. BuilderInv /\ [Next]_vars =>
        [made = 0 /\ made' = 1 /\ ~failedOne => text'.clauses = Wanted(asked'.one)]_vars
  BY <1>1
<1> QED BY <1>2, BuilderInvariant, PTL DEF Spec, ClausesAsAsked
=============================================================================
