------------------------- MODULE ColumnValuesProofs -------------------------
(****************************************************************************)
(* Facts of every program that maps tables, whatever their columns and      *)
(* however wide a byte: create_tables makes all of its tables or none, the  *)
(* constraints the library infers for a column refuse no value that the     *)
(* member may have, and what is read back is what was inserted.             *)
(*                                                                          *)
(* The last rests on the arithmetic of the widths: every limit divides the  *)
(* larger ones, so that a number cut to a wider column and then to its      *)
(* member's width is the number it was.                                     *)
(****************************************************************************)
EXTENDS ColumnValues, TLAPS

-----------------------------------------------------------------------------
\* The schema's actions leave the mapped tables as they are.
LEMMA MappedIsFixed == SchemaNext => UNCHANGED mapped
BY DEF SchemaNext, PrepareTables, BeginTables, BeginTablesRefused, CreateTable, Steps,
       CommitTables, CommitTablesRefused, AbandonTables, CrashTables, OthersCreate

LEMMA ProgramsAreSequences ==
    ASSUME mapped \in Databases
    PROVE  /\ Len(mapped) \in Nat \ {0} /\ DOMAIN mapped = 1..Len(mapped)
           /\ Names = {NameOf(i) : i \in 1..Len(mapped)}
BY ColumnAssumption DEF Names

\* create_tables and other processes keep the types of the schema.
LEMMA SchemaStepTyped ==
    ASSUME SchemaTypeOK, SchemaNext
    PROVE  SchemaTypeOK'
<1>1. PICK n \in Nat : n = Len(mapped)
  BY ProgramsAreSequences DEF SchemaTypeOK
<1>2. /\ mapped' = mapped /\ Names' = Names
      /\ 0 \in 0..Len(mapped)
      /\ made < Len(mapped) => /\ made + 1 \in 0..Len(mapped)
                               /\ NameOf(made + 1) \in Names
  BY <1>1, MappedIsFixed, ProgramsAreSequences DEF SchemaTypeOK, Names, NameOf
<1> USE <1>2 DEF SchemaTypeOK, historyVars, callVars
<1>3. ASSUME NEW withoutIf \in BOOLEAN, PrepareTables(withoutIf) PROVE SchemaTypeOK'
  BY <1>3 DEF PrepareTables
<1>4. CASE BeginTables \/ BeginTablesRefused
  BY <1>4 DEF BeginTables, BeginTablesRefused, Ends
<1>5. CASE CreateTable
  BY <1>5 DEF CreateTable, Steps, Missing
<1>6. CASE CommitTables \/ CommitTablesRefused
  BY <1>6 DEF CommitTables, CommitTablesRefused, Ends, Visible
<1>7. CASE AbandonTables \/ CrashTables
  BY <1>7 DEF AbandonTables, CrashTables, Ends
<1>8. CASE OthersCreate
  <2>1. PICK new \in SUBSET {NameOf(i) : i \in {j \in DOMAIN mapped : IsSql(mapped[j])}} :
            tables' = tables \cup new /\ others' = others \cup new
    BY <1>8 DEF OthersCreate
  <2>2. new \subseteq Names
    BY <2>1 DEF Names
  <2> QED BY <1>8, <2>1, <2>2 DEF OthersCreate
<1> QED BY <1>3, <1>4, <1>5, <1>6, <1>7, <1>8 DEF SchemaNext

-----------------------------------------------------------------------------
(****************************************************************************)
(* The inductive invariant of create_tables: what its statements have come  *)
(* to is in the file or in its transaction, and nothing waits outside one.  *)
(****************************************************************************)
Waiting ==
    /\ \A i \in 1..made : NameOf(i) \in Visible
    /\ pending # {} => open
    /\ creating = "running" => open
    /\ creating # "running" => made = 0

SchemaInv == SchemaTypeOK /\ Waiting /\ TablesTogether

LEMMA SchemaInvStep ==
    ASSUME SchemaInv, SchemaNext
    PROVE  SchemaInv'
<1>1. /\ SchemaTypeOK /\ SchemaTypeOK' /\ mapped' = mapped /\ Names' = Names
      /\ \A i : NameOf(i)' = NameOf(i)
      /\ Len(mapped) \in Nat /\ Names = {NameOf(i) : i \in 1..Len(mapped)}
      /\ made \in 0..Len(mapped)
  BY SchemaStepTyped, MappedIsFixed, ProgramsAreSequences
  DEF SchemaInv, SchemaTypeOK, Names, NameOf
<1>2. ASSUME made' = 0 PROVE \A i \in 1..made' : NameOf(i)' \in Visible'
  BY <1>2
<1> USE DEF historyVars, callVars
<1>3. ASSUME NEW withoutIf \in BOOLEAN, PrepareTables(withoutIf) PROVE SchemaInv'
  BY <1>1, <1>2, <1>3 DEF PrepareTables, SchemaInv, Waiting, TablesTogether
<1>4. CASE BeginTables
  BY <1>1, <1>2, <1>4 DEF BeginTables, SchemaInv, Waiting, TablesTogether
<1>5. CASE BeginTablesRefused
  BY <1>1, <1>2, <1>5 DEF BeginTablesRefused, Ends, SchemaInv, Waiting, TablesTogether
<1>6. CASE CreateTable
  <2>1. /\ made' = made + 1 /\ pending' = pending \cup Missing
        /\ creating = "running" /\ UNCHANGED <<tables, open, creating, others, returned>>
    BY <1>6 DEF CreateTable, Steps
  <2>2. Visible \subseteq Visible' /\ NameOf(made + 1) \in Visible'
    BY <2>1 DEF Visible, Missing
  <2>3. \A i \in 1..made' : NameOf(i)' \in Visible'
    <3>1. \A i \in 1..(made + 1) : i \in 1..made \/ i = made + 1
      BY <1>1
    <3> QED BY <1>1, <2>1, <2>2, <3>1 DEF SchemaInv, Waiting
  <2> QED BY <1>1, <2>1, <2>3 DEF SchemaInv, Waiting, TablesTogether
<1>7. CASE CommitTables
  <2>1. Names \subseteq Visible
    BY <1>1, <1>7 DEF CommitTables, SchemaInv, Waiting
  <2>2. Visible \subseteq Names
    BY <1>1 DEF Visible, SchemaTypeOK
  <2> QED BY <1>1, <1>2, <1>7, <2>1, <2>2
         DEF CommitTables, Ends, SchemaInv, Waiting, TablesTogether
<1>8. CASE CommitTablesRefused
  BY <1>1, <1>2, <1>8 DEF CommitTablesRefused, Ends, SchemaInv, Waiting, TablesTogether
<1>9. CASE AbandonTables \/ CrashTables
  BY <1>1, <1>2, <1>9
  DEF AbandonTables, CrashTables, Ends, SchemaInv, Waiting, TablesTogether
<1>10. CASE OthersCreate
  <2>1. PICK new \in SUBSET {NameOf(i) : i \in {j \in DOMAIN mapped : IsSql(mapped[j])}} :
            /\ new \cap tables = {} /\ new # {}
            /\ tables' = tables \cup new /\ others' = others \cup new
    BY <1>10 DEF OthersCreate
  <2>2. ~returned
    <3>1. new \subseteq Names
      BY <2>1 DEF Names
    <3> QED BY <1>1, <2>1, <3>1 DEF SchemaInv, SchemaTypeOK, TablesTogether
  <2>3. /\ UNCHANGED <<open, pending, creating, made, returned>> /\ made = 0
    BY <1>10 DEF OthersCreate
  <2> QED BY <1>1, <1>2, <2>1, <2>2, <2>3 DEF SchemaInv, Waiting, TablesTogether
<1> QED BY <1>3, <1>4, <1>5, <1>6, <1>7, <1>8, <1>9, <1>10 DEF SchemaNext

(****************************************************************************)
(* create_tables makes all tables or none: whatever fails, its COMMIT       *)
(* included, whoever else creates tables and wherever the process dies.     *)
(****************************************************************************)
THEOREM TablesAreMadeTogether == Spec => []TablesTogether
<1>1. Init => SchemaInv
  <2> SUFFICES ASSUME Init PROVE SchemaInv
    OBVIOUS
  <2>1. Len(mapped) \in Nat
    BY ProgramsAreSequences DEF Init, SchemaInit
  <2>2. 1..made = {} /\ made \in 0..Len(mapped)
    BY <2>1 DEF Init, SchemaInit
  <2> QED BY <2>2 DEF Init, SchemaInit, SchemaInv, SchemaTypeOK, Waiting, TablesTogether
<1>2. SchemaInv /\ [Next]_vars => SchemaInv'
  <2> SUFFICES ASSUME SchemaInv, [Next]_vars PROVE SchemaInv'
    OBVIOUS
  <2>1. ASSUME UNCHANGED schemaVars PROVE SchemaInv'
    BY <2>1 DEF schemaVars, SchemaInv, SchemaTypeOK, Waiting, TablesTogether, Names,
       NameOf, Visible
  <2> QED BY <2>1, SchemaInvStep DEF Next, InsertRecord, FindRecord, vars
<1>3. SchemaInv => TablesTogether
  BY DEF SchemaInv
<1> QED BY <1>1, <1>2, <1>3, PTL DEF Spec

-----------------------------------------------------------------------------
(****************************************************************************)
(* A column without a NOT NULL clause of its own is given one only when its *)
(* member is neither optional nor a string.                                 *)
(****************************************************************************)
LEMMA InferredForCause ==
    ASSUME NEW col, Inferred(col).notNull # NoClause
    PROVE  /\ col.member.optional => col.notNull # NoClause
           /\ col.member.kind = "text" => col.notNull # NoClause
BY DEF Inferred

\* An object that is refused has no value for a column that asks for one.
LEMMA RefusalByInsert ==
    ASSUME NEW v, InsertRecord(v)
    PROVE  RefusedForCause'
<1>1. mapped' = mapped /\ object' = v
  BY DEF InsertRecord, schemaVars
<1>2. Column' = Column /\ Member' = Member
  BY <1>1 DEF Column, Member
<1> SUFFICES ASSUME inserted' # "returned" PROVE RefusedForCause'
  BY DEF RefusedForCause
<1>3. BindsAsNull(Member, v) /\ Inferred(Column).notNull # NoClause
  BY DEF InsertRecord, Stores
<1>4. v \in {Null, NaN} \/ IsEmpty(Member, v)
  BY <1>3 DEF BindsAsNull, IsEmpty
<1>5. /\ Member.optional => Column.notNull # NoClause
      /\ Member.kind = "text" => Column.notNull # NoClause
  BY <1>3, InferredForCause DEF Member
<1> QED BY <1>1, <1>2, <1>4, <1>5 DEF RefusedForCause

\* insert_record refuses or skips an object only for a value it does not have.
THEOREM RefusalsHaveACause == Spec => []RefusedForCause
<1>1. Init => RefusedForCause
  BY DEF Init, RefusedForCause
<1>2. RefusedForCause /\ [Next]_vars => RefusedForCause'
  <2> SUFFICES ASSUME RefusedForCause, [Next]_vars PROVE RefusedForCause'
    OBVIOUS
  <2>1. ASSUME NEW v \in ValuesOf(Member), InsertRecord(v) PROVE RefusedForCause'
    BY <2>1, RefusalByInsert
  <2>2. ASSUME UNCHANGED <<mapped, object, inserted>> PROVE RefusedForCause'
    BY <2>2 DEF RefusedForCause, Column, Member, IsEmpty, IsContainer
  <2> QED
    BY <2>1, <2>2, MappedIsFixed DEF Next, FindRecord, vars, schemaVars
<1> QED BY <1>1, <1>2, PTL DEF Spec

-----------------------------------------------------------------------------
\* Every width has a limit, which is the least thing its arithmetic needs.
LEMMA LimitsArePositive == \A b \in Widths : Limit(b) \in Nat \ {0}
<1> DEFINE two == 2 * ByteLimit * ByteLimit
           four == 2 * two * two
           eight == 2 * four * four
<1>1. ByteLimit \in Nat \ {0}
  BY ColumnAssumption
<1>2. \A x \in Nat \ {0} : 2 * x * x \in Nat \ {0}
  OBVIOUS
<1>3. two \in Nat \ {0}
  BY <1>1, <1>2
<1>4. four \in Nat \ {0}
  BY <1>2, <1>3
<1>5. eight \in Nat \ {0}
  BY <1>2, <1>4
<1>6. Limit(1) = ByteLimit /\ Limit(2) = two /\ Limit(4) = four /\ Limit(8) = eight
  BY DEF Limit
<1>7. QED
  BY <1>1, <1>3, <1>4, <1>5, <1>6 DEF Widths

\* y is a whole number of times x
Divides(x, y) == \E k \in Nat \ {0} : y = k * x

\* What divides a divisor divides the number.
LEMMA DividesIsTransitive ==
    ASSUME NEW x \in Nat \ {0}, NEW y \in Nat \ {0}, NEW z \in Nat \ {0},
           Divides(x, y), Divides(y, z)
    PROVE  Divides(x, z)
<1>1. PICK j \in Nat \ {0}, k \in Nat \ {0} : y = j * x /\ z = k * y
  BY DEF Divides
<1>2. k * j \in Nat \ {0} /\ z = (k * j) * x
  BY <1>1
<1>3. QED
  BY <1>2 DEF Divides

\* Four and eight bytes hold a whole number of times what fewer bytes do.
LEMMA LimitsDivide ==
    ASSUME NEW w \in {4, 8}, NEW b \in Widths, b <= w
    PROVE  Divides(Limit(b), Limit(w))
<1>1. /\ Limit(1) \in Nat \ {0} /\ Limit(2) \in Nat \ {0}
      /\ Limit(4) \in Nat \ {0} /\ Limit(8) \in Nat \ {0}
  BY LimitsArePositive DEF Widths
<1>2. /\ Limit(2) = (2 * Limit(1)) * Limit(1)
      /\ Limit(4) = (2 * Limit(2)) * Limit(2)
      /\ Limit(8) = (2 * Limit(4)) * Limit(4)
  BY DEF Limit
<1>3. \A x \in Nat \ {0} : Divides(x, x)
  BY DEF Divides
<1>4. \A x \in Nat \ {0} : Divides(x, (2 * x) * x)
  BY DEF Divides
<1>5. Divides(Limit(1), Limit(2)) /\ Divides(Limit(2), Limit(4)) /\ Divides(Limit(4), Limit(8))
  BY <1>1, <1>2, <1>4
<1>6. Divides(Limit(1), Limit(4)) /\ Divides(Limit(2), Limit(8))
  BY <1>1, <1>5, DividesIsTransitive
<1>7. Divides(Limit(1), Limit(8))
  BY <1>1, <1>5, <1>6, DividesIsTransitive
<1>8. QED
  BY <1>1, <1>3, <1>5, <1>6, <1>7 DEF Widths

\* A remainder is found by any way to write the number as a multiple and a rest.
LEMMA Remainder ==
    ASSUME NEW m \in Nat \ {0}, NEW q \in Int, NEW r \in 0..(m - 1)
    PROVE  (q * m + r) % m = r
OBVIOUS

\* A number that fits its width is what it is cut to.
LEMMA SignedIsItself ==
    ASSUME NEW b \in Widths, NEW n \in -Limit(b)..(Limit(b) - 1)
    PROVE  AsSigned(n, b) = n
<1>1. PICK l \in Nat \ {0} : l = Limit(b)
  BY LimitsArePositive
<1>2. PICK m \in Nat \ {0} : m = 2 * l
  BY <1>1
<1>3. CASE n >= 0
  <2>1. n % m = n
    BY <1>1, <1>2, <1>3
  <2>2. QED
    BY <1>1, <1>2, <1>3, <2>1 DEF AsSigned, AsUnsigned
<1>4. CASE n < 0
  <2>1. n % m = n + m
    BY <1>1, <1>2, <1>4
  <2>2. QED
    BY <1>1, <1>2, <1>4, <2>1 DEF AsSigned, AsUnsigned
<1>5. QED
  BY <1>1, <1>3, <1>4

\* What is cut to a width fits it.
LEMMA SignedRange ==
    ASSUME NEW b \in Widths, NEW n \in Int
    PROVE  AsSigned(n, b) \in -Limit(b)..(Limit(b) - 1)
<1>1. PICK l \in Nat \ {0} : l = Limit(b)
  BY LimitsArePositive
<1>2. n % (2 * l) \in 0..(2 * l - 1)
  BY <1>1
<1>3. QED
  BY <1>1, <1>2 DEF AsSigned, AsUnsigned

(****************************************************************************)
(* An unsigned number that was cut to a signed one of 4 or 8 bytes is still *)
(* known by its remainder.                                                  *)
(****************************************************************************)
LEMMA UnsignedComesBack ==
    ASSUME NEW w \in {4, 8}, NEW b \in Widths, b <= w,
           NEW n \in 0..(2 * Limit(b) - 1)
    PROVE  /\ AsSigned(n, w) \in Int
           /\ AsUnsigned(AsSigned(n, w), b) = n
<1>1. PICK l \in Nat \ {0}, k \in Nat \ {0} : l = Limit(b) /\ Limit(w) = k * l
  BY LimitsArePositive, LimitsDivide DEF Divides
<1>2. PICK m \in Nat \ {0} : m = 2 * l
  BY <1>1
<1>3. 2 * Limit(w) = k * m /\ k * m \in Nat \ {0} /\ m <= k * m
  BY <1>1, <1>2
<1>4. n \in 0..(m - 1) /\ n % (k * m) = n
  <2>1. n \in 0..(m - 1)
    BY <1>1, <1>2
  <2>2. PICK z \in Nat \ {0} : z = k * m
    BY <1>3
  <2>3. n % z = n
    BY <1>3, <2>1, <2>2
  <2>4. QED
    BY <2>1, <2>2, <2>3
<1>5. AsSigned(n, w) \in {n, n - k * m}
  BY <1>3, <1>4 DEF AsSigned, AsUnsigned
<1>6. n % m = n /\ (n - k * m) % m = n
  <2>1. (0 * m + n) % m = n
    BY <1>2, <1>4, Remainder
  <2>2. PICK q \in Int : q = -k
    OBVIOUS
  <2>3. (q * m + n) % m = n
    BY <1>2, <1>4, Remainder
  <2>4. 0 * m + n = n /\ q * m + n = n - k * m
    BY <1>4, <2>2
  <2>5. QED
    BY <2>1, <2>3, <2>4
<1>7. PICK x \in Int : x = AsSigned(n, w) /\ x % m = n
  <2>1. n \in Int /\ n - k * m \in Int
    BY <1>3, <1>4
  <2>2. QED
    BY <1>5, <1>6, <2>1
<1>8. QED
  BY <1>1, <1>2, <1>7 DEF AsUnsigned

-----------------------------------------------------------------------------
\* The column of an integer member is at least as wide as the member.
LEMMA IntegerMember ==
    ASSUME NEW m \in MemberTypes, IsInteger(m)
    PROVE  /\ m.bytes \in Widths /\ SqlBytes(m) \in {4, 8} /\ m.bytes <= SqlBytes(m)
           /\ m.kind = "bool" => m.bytes = 1
           /\ m.optional \in BOOLEAN /\ m.signed \in BOOLEAN
<1>1. m.bytes \in Widths /\ m.optional \in BOOLEAN /\ m.signed \in BOOLEAN
      /\ (m.kind = "bool" => m.bytes = 1)
  <2>1. CASE m \in [kind : {"integer"}, bytes : Widths, signed : BOOLEAN, optional : BOOLEAN]
    BY <2>1
  <2>2. CASE m \in [kind : {"bool"}, bytes : {1}, signed : {FALSE}, optional : BOOLEAN]
    BY <2>2 DEF Widths
  <2>3. QED
    BY <2>1, <2>2 DEF MemberTypes, IsInteger
<1>2. SqlBytes(m) \in {4, 8} /\ m.bytes <= SqlBytes(m)
  BY <1>1 DEF SqlBytes, SizeOf, Widths
<1>3. QED
  BY <1>1, <1>2

(****************************************************************************)
(* Whatever the width of the member and of the column, an integer is read   *)
(* back as it was.                                                          *)
(****************************************************************************)
LEMMA IntegerComesBack ==
    ASSUME NEW m \in MemberTypes, IsInteger(m), NEW v \in IntegersOf(m)
    PROVE  ReadInteger(m, AsSigned(v, SqlBytes(m))) = v
<1> DEFINE w == SqlBytes(m)
           stored == AsSigned(v, w)
<1>1. m.bytes \in Widths /\ w \in {4, 8} /\ w \in Widths /\ m.bytes <= w
  BY IntegerMember DEF Widths
<1>2. Limit(m.bytes) \in Nat \ {0} /\ Limit(w) \in Nat \ {0} /\ Limit(m.bytes) <= Limit(w)
  <2>1. PICK l \in Nat \ {0}, k \in Nat \ {0} : l = Limit(m.bytes) /\ Limit(w) = k * l
    BY <1>1, LimitsArePositive, LimitsDivide DEF Divides
  <2>2. k * l \in Nat \ {0} /\ l <= k * l
    OBVIOUS
  <2>3. QED
    BY <2>1, <2>2
<1>3. v \in Int
  BY <1>2 DEF IntegersOf
<1>4. AsSigned(stored, w) = stored
  BY <1>1, <1>3, SignedRange, SignedIsItself
<1>5. CASE m.kind = "bool"
  <2>1. v \in {0, 1} /\ 1 < Limit(w)
    <3>1. 1 < Limit(4) /\ 1 < Limit(8)
      <4>1. /\ Limit(2) \in Nat \ {0} /\ Limit(4) \in Nat \ {0}
            /\ Limit(4) = 2 * Limit(2) * Limit(2) /\ Limit(8) = 2 * Limit(4) * Limit(4)
        BY LimitsArePositive DEF Widths, Limit
      <4>2. \A x \in Nat \ {0} : 1 < 2 * x * x
        OBVIOUS
      <4>3. QED
        BY <4>1, <4>2
    <3>2. QED
      BY <1>1, <1>5, <3>1 DEF IntegersOf
  <2>2. stored = v
    BY <1>1, <1>2, <2>1, SignedIsItself
  <2>3. QED
    BY <1>4, <1>5, <2>1, <2>2 DEF ReadInteger
<1>6. CASE m.kind # "bool" /\ m.signed
  <2>1. v \in -Limit(m.bytes)..(Limit(m.bytes) - 1)
    BY <1>6 DEF IntegersOf
  <2>2. stored = v /\ AsSigned(v, m.bytes) = v
    BY <1>1, <1>2, <2>1, SignedIsItself
  <2>3. QED
    BY <1>4, <1>6, <2>2 DEF ReadInteger
<1>7. CASE m.kind # "bool" /\ ~m.signed
  <2>1. v \in 0..(2 * Limit(m.bytes) - 1)
    BY <1>7 DEF IntegersOf
  <2>2. AsUnsigned(stored, m.bytes) = v
    BY <1>1, <2>1, UnsignedComesBack
  <2>3. QED
    BY <1>4, <1>7, <2>2 DEF ReadInteger
<1>8. QED
  BY <1>5, <1>6, <1>7

-----------------------------------------------------------------------------
\* The first column of the program is one that can be mapped.
LEMMA TheColumnIsAColumn ==
    ASSUME mapped \in Databases
    PROVE  /\ IsColumn(Column)
           /\ Member \in MemberTypes
BY ColumnAssumption DEF Column, Member, IsColumn

\* A value of an integer member is bound as a number.
LEMMA NumbersOf ==
    ASSUME NEW m \in MemberTypes, IsInteger(m), NEW v \in IntegersOf(m)
    PROVE  /\ v \in Int
           /\ ~BindsAsNull(m, v)
           /\ Bound(m, v) = AsSigned(v, SqlBytes(m))
           /\ Bound(m, v) \in Int
<1>1. /\ m.bytes \in Widths /\ SqlBytes(m) \in Widths
  BY IntegerMember DEF Widths
<1>2. Limit(m.bytes) \in Nat \ {0} /\ Limit(SqlBytes(m)) \in Nat \ {0}
  BY <1>1, LimitsArePositive
<1>3. v \in Int
  BY <1>2 DEF IntegersOf
<1>4. ~BindsAsNull(m, v)
  <2>1. v # Null /\ v # NaN
    BY <1>3, ColumnAssumption
  <2>2. ~IsContainer(m)
    BY DEF IsContainer, IsInteger
  <2>3. QED
    BY <2>1, <2>2 DEF BindsAsNull
<1>5. AsSigned(v, SqlBytes(m)) \in Int
  BY <1>1, <1>2, <1>3, SignedRange
<1>6. QED
  BY <1>3, <1>4, <1>5 DEF Bound

\* A container has as many elements as its type asks for.
LEMMA ContainersOf ==
    ASSUME NEW m \in MemberTypes, IsContainer(m), NEW s \in Containers(m)
    PROVE  /\ s \in Seq(Nat)
           /\ m.element \in Nat \ {0} /\ m.fixed \in Nat
           /\ m.fixed > 0 => Len(s) = m.fixed
<1>1. m.element \in Nat \ {0} /\ m.fixed \in Nat
  <2>1. CASE m \in [kind : {"text"}, element : Nat \ {0}, fixed : {0}, optional : BOOLEAN]
    BY <2>1
  <2>2. CASE m \in [kind : {"blob"}, element : Nat \ {0}, fixed : Nat, optional : BOOLEAN]
    BY <2>2
  <2>3. QED
    BY <2>1, <2>2 DEF MemberTypes, IsContainer
<1>2. PICK n \in Nat : s = [i \in 1..n |-> i] /\ (m.fixed > 0 => n = m.fixed)
  BY <1>1, ColumnAssumption DEF Containers
<1>3. s \in Seq(Nat) /\ Len(s) = n
  BY <1>2
<1>4. QED
  BY <1>1, <1>2, <1>3

\* A value is a number, a container or one of the special ones, by its member.
LEMMA KindsOfValues ==
    ASSUME NEW m \in MemberTypes, NEW v \in ValuesOf(m)
    PROVE  \/ m.optional /\ v = Null
           \/ IsInteger(m) /\ v \in IntegersOf(m)
           \/ m.kind = "real" /\ v \in {NaN, Finite}
           \/ IsContainer(m) /\ ~IsInteger(m) /\ v \in Containers(m)
<1>1. m.kind \in {"integer", "bool", "real", "text", "blob"}
  BY DEF MemberTypes
<1>2. QED
  BY <1>1 DEF ValuesOf, IsInteger, IsContainer

\* An object in the program, and its row, are not the marks of their absence.
LEMMA NoValueIsNotYet ==
    ASSUME NEW m \in MemberTypes, NEW v \in ValuesOf(m)
    PROVE  v # NotYet /\ Bound(m, v) # NotYet
<1>1. NotYet \notin Int \cup Seq(Nat) /\ NotYet \notin {Null, NaN, Finite}
  BY ColumnAssumption
<1>2. CASE IsInteger(m) /\ v \in IntegersOf(m)
  BY <1>1, <1>2, NumbersOf
<1>3. CASE v \in {Null, NaN, Finite} /\ ~(IsInteger(m) /\ v \in IntegersOf(m))
  <2>1. CASE BindsAsNull(m, v)
    BY <1>1, <1>3, <2>1 DEF Bound
  <2>2. CASE ~BindsAsNull(m, v)
    <3>1. v = Finite /\ m.kind = "real"
      <4>1. v = Finite
        BY <1>3, <2>2 DEF BindsAsNull
      <4>2. Finite # Null /\ Finite \notin Seq(Nat)
        BY ColumnAssumption
      <4>3. QED
        BY <1>3, <4>1, <4>2, KindsOfValues, ContainersOf
    <3>2. QED
      BY <1>1, <2>2, <3>1 DEF Bound, IsInteger
  <2>3. QED
    BY <2>1, <2>2
<1>4. CASE IsContainer(m) /\ ~IsInteger(m) /\ v \in Containers(m)
  BY <1>1, <1>4, ContainersOf DEF Bound
<1>5. QED
  BY <1>2, <1>3, <1>4, KindsOfValues

-----------------------------------------------------------------------------
(****************************************************************************)
(* What holds in between: the row has what bind made of the object, or the  *)
(* column's default in its place, and the result was read from the row.     *)
(****************************************************************************)
IsDefault(value) ==
    /\ value \in {<<>>, TheDefault}
    /\ value = <<>> => Member.kind = "text"

RowIsStored ==
    /\ SchemaTypeOK
    /\ object \in ValuesOf(Member) \cup {NotYet}
    /\ inserted \in {"no", "returned", "skipped", "SQLConstraintError"}
    /\ inserted = "no" <=> object = NotYet
    /\ IF HasRow THEN \/ row = Bound(Member, object)
                      \/ IsReplaced(object) /\ IsDefault(row)
       ELSE row = NotYet
    /\ result # NotYet => HasRow /\ result = Read(Member, row)

\* insert_record stores the bound object or the default that replaces it.
LEMMA InsertStores ==
    ASSUME RowIsStored, NEW v \in ValuesOf(Member), InsertRecord(v)
    PROVE  RowIsStored'
<1>1. /\ mapped' = mapped /\ object' = v /\ SchemaTypeOK' /\ result' = result
      /\ row = NotYet /\ result = NotYet
  BY DEF InsertRecord, schemaVars, SchemaTypeOK, Names, NameOf, RowIsStored, HasRow
<1>2. Column' = Column /\ Member' = Member
  BY <1>1 DEF Column, Member
<1>3. IsColumn(Column) /\ Member \in MemberTypes
  BY TheColumnIsAColumn DEF RowIsStored, SchemaTypeOK
<1>4. v # NotYet
  BY <1>3, NoValueIsNotYet
<1>5. /\ inserted' \in {"returned", "skipped", "SQLConstraintError"}
      /\ IF inserted' = "returned"
         THEN \/ row' = Bound(Member, v)
              \/ IsReplaced(v) /\ IsDefault(row')
         ELSE row' = row
  <2> DEFINE clauses == Inferred(Column)
  <2>1. CASE BindsAsNull(Member, v) /\ clauses.notNull # NoClause
    <3>1. MeetsNotNull(clauses)
      BY <2>1 DEF InsertRecord
    <3>2. CASE clauses.notNull = "replace" /\ clauses.default # NoClause
               /\ Stores(DefaultOf(clauses))
      <4>1. Column.notNull = "replace" /\ clauses.default = Column.default
        BY <2>1, <3>2 DEF Inferred
      <4>2. IsReplaced(v)
        BY <2>1, <3>2, <4>1 DEF IsReplaced, Bound
      <4>3. IsDefault(row')
        <5>1. <<>> # TheDefault
          <6>1. <<>> \in Seq(Nat)
            OBVIOUS
          <6> QED BY <6>1, ColumnAssumption
        <5>2. row' = DefaultOf(clauses)
          BY <3>2 DEF Stores
        <5>3. Column.default = "empty" => Member.kind = "text"
          BY <1>3 DEF IsColumn, Member
        <5> QED BY <4>1, <5>1, <5>2, <5>3 DEF DefaultOf, IsDefault
      <4> QED BY <3>2, <4>2, <4>3 DEF Stores
    <3> QED BY <3>1, <3>2 DEF MeetsNotNull, Stores
  <2>2. CASE ~(BindsAsNull(Member, v) /\ clauses.notNull # NoClause)
    BY <2>2 DEF InsertRecord, Stores
  <2> QED BY <2>1, <2>2
<1> QED
  BY <1>1, <1>2, <1>4, <1>5 DEF RowIsStored, HasRow, IsReplaced, IsDefault

\* It is inductive.
LEMMA RowIsStoredAlways == Spec => []RowIsStored
<1>1. Init => RowIsStored
  <2> SUFFICES ASSUME Init PROVE RowIsStored
    OBVIOUS
  <2>1. PICK n \in Nat : n = Len(mapped)
    BY ProgramsAreSequences DEF Init, SchemaInit
  <2>2. SchemaTypeOK
    <3>1. 0 \in 0..Len(mapped)
      BY <2>1
    <3> QED BY <3>1 DEF Init, SchemaInit, SchemaTypeOK
  <2> QED BY <2>2 DEF Init, RowIsStored, HasRow
<1>2. RowIsStored /\ [Next]_vars => RowIsStored'
  <2> SUFFICES ASSUME RowIsStored, [Next]_vars PROVE RowIsStored'
    OBVIOUS
  <2>1. ASSUME NEW v \in ValuesOf(Member), InsertRecord(v) PROVE RowIsStored'
    BY <2>1, InsertStores
  <2>2. CASE FindRecord
    BY <2>2 DEF FindRecord, RowIsStored, schemaVars, SchemaTypeOK, Names, NameOf, Member,
       Column, HasRow, IsReplaced, IsDefault
  <2>3. ASSUME SchemaTypeOK', mapped' = mapped, UNCHANGED <<object, inserted, row, result>>
        PROVE  RowIsStored'
    BY <2>3 DEF RowIsStored, Member, Column, HasRow, IsReplaced, IsDefault
  <2>4. CASE SchemaNext /\ UNCHANGED <<object, inserted, row, result>>
    BY <2>3, <2>4, SchemaStepTyped, MappedIsFixed DEF RowIsStored
  <2>5. CASE UNCHANGED vars
    BY <2>3, <2>5 DEF vars, schemaVars, RowIsStored, SchemaTypeOK, Names, NameOf
  <2> QED BY <2>1, <2>2, <2>4, <2>5 DEF Next
<1> QED BY <1>1, <1>2, PTL DEF Spec

-----------------------------------------------------------------------------
\* The type invariant, for every width a byte may have and every program.
THEOREM ColumnTypeCorrect == Spec => []TypeOK
<1>1. RowIsStored => TypeOK
  <2> SUFFICES ASSUME RowIsStored PROVE TypeOK
    OBVIOUS
  <2>1. Member \in MemberTypes
    BY TheColumnIsAColumn DEF RowIsStored, SchemaTypeOK
  <2>2. ASSUME HasRow PROVE row # NotYet
    <3>1. object \in ValuesOf(Member)
      BY <2>2 DEF RowIsStored, HasRow
    <3>2. NotYet # <<>> /\ NotYet # TheDefault
      <4>1. <<>> \in Seq(Nat)
        OBVIOUS
      <4> QED BY <4>1, ColumnAssumption
    <3> QED BY <2>1, <2>2, <3>1, <3>2, NoValueIsNotYet DEF RowIsStored, IsDefault
  <2>3. ASSUME HasRow, IsInteger(Member), row \notin {Null, TheDefault}
        PROVE  row \in -Limit(8)..(Limit(8) - 1)
    <3>1. object \in ValuesOf(Member) /\ ~(Member.kind = "real") /\ ~IsContainer(Member)
      BY <2>3 DEF RowIsStored, HasRow, IsInteger, IsContainer
    <3>2. row = Bound(Member, object)
      BY <2>3, <3>1 DEF RowIsStored, IsDefault, IsContainer
    <3>3. object \in IntegersOf(Member)
      <4>1. object # Null
        BY <2>3, <3>2 DEF Bound, BindsAsNull
      <4> QED BY <2>1, <3>1, <4>1, KindsOfValues
    <3>4. SqlBytes(Member) \in {4, 8} /\ SqlBytes(Member) \in Widths
      BY <2>1, <2>3, IntegerMember DEF Widths
    <3>5. object \in Int /\ row = AsSigned(object, SqlBytes(Member))
      BY <2>1, <2>3, <3>2, <3>3, NumbersOf
    <3>6. row \in -Limit(SqlBytes(Member))..(Limit(SqlBytes(Member)) - 1)
      BY <3>4, <3>5, SignedRange
    <3>7. Limit(4) \in Nat \ {0} /\ Limit(8) \in Nat \ {0} /\ Limit(4) <= Limit(8)
      <4>1. Limit(4) \in Nat \ {0} /\ Limit(8) = 2 * Limit(4) * Limit(4)
        BY LimitsArePositive DEF Limit, Widths
      <4>2. \A x \in Nat \ {0} : 2 * x * x \in Nat \ {0} /\ x <= 2 * x * x
        OBVIOUS
      <4> QED BY <4>1, <4>2
    <3> QED BY <3>4, <3>6, <3>7
  <2> QED BY <2>2, <2>3 DEF TypeOK, RowIsStored
<1> QED BY <1>1, RowIsStoredAlways, PTL

(****************************************************************************)
(* A container with elements of one byte is read back from its bytes.       *)
(****************************************************************************)
LEMMA ContainerComesBack ==
    ASSUME NEW m \in MemberTypes, IsContainer(m), ~HasWideElements(m),
           NEW s \in Containers(m)
    PROVE  ReadContainer(m, s) = s
<1>1. /\ s \in Seq(Nat) /\ m.element = 1 /\ m.fixed \in Nat
      /\ m.fixed > 0 => Len(s) = m.fixed
  BY ContainersOf DEF HasWideElements
<1>2. PICK n \in Nat : n = Len(s)
  BY <1>1
<1>3. Len(s) * m.element = n /\ n - n = 0
  BY <1>1, <1>2
<1>4. s \o Zeros(0) = s
  <2>1. Zeros(0) = <<>>
    BY DEF Zeros
  <2> QED BY <1>1, <2>1
<1> QED BY <1>1, <1>2, <1>3, <1>4 DEF ReadContainer

\* What is inserted is what is read back, whatever the type and the value.
THEOREM WhatIsReadWasInserted == Spec => []ReadsWhatWasInserted
<1>1. RowIsStored => ReadsWhatWasInserted
  <2> SUFFICES ASSUME RowIsStored, result # NotYet,
                      ~(HasWideElements(Member) /\ object # Null), object # NaN,
                      ~(IsEmpty(Member, object) /\ Member.optional), ~IsReplaced(object)
               PROVE  result = object
    BY DEF ReadsWhatWasInserted
  <2> DEFINE m == Member
  <2>1. m \in MemberTypes
    BY TheColumnIsAColumn DEF RowIsStored, SchemaTypeOK
  <2>2. object \in ValuesOf(m) /\ result = Read(m, Bound(m, object))
    BY DEF RowIsStored, HasRow
  <2> HIDE DEF m
  <2>3. CASE m.optional /\ object = Null
    BY <2>2, <2>3 DEF Bound, BindsAsNull, Read, Cleared
  <2>4. CASE IsInteger(m) /\ object \in IntegersOf(m)
    <3>1. /\ Bound(m, object) = AsSigned(object, SqlBytes(m)) /\ Bound(m, object) \in Int
      BY <2>1, <2>4, NumbersOf
    <3>2. Bound(m, object) # Null /\ Bound(m, object) # TheDefault
      BY <3>1, ColumnAssumption
    <3>3. ReadInteger(m, AsSigned(object, SqlBytes(m))) = object
      BY <2>1, <2>4, IntegerComesBack
    <3> QED BY <2>2, <2>4, <3>1, <3>2, <3>3 DEF Read, IsInteger
  <2>5. CASE m.kind = "real" /\ object \in {NaN, Finite}
    <3>1. object = Finite /\ Finite # Null /\ Finite # NaN /\ ~IsContainer(m) /\ ~IsInteger(m)
      BY <2>5, ColumnAssumption DEF IsContainer, IsInteger
    <3> QED BY <2>2, <2>5, <3>1 DEF Bound, BindsAsNull, Read
  <2>6. CASE IsContainer(m) /\ ~IsInteger(m) /\ object \in Containers(m)
    <3>1. object \in Seq(Nat) /\ object \notin {Null, NaN, TheDefault}
      BY <2>1, <2>6, ContainersOf, ColumnAssumption
    <3>2. ReadContainer(m, object) = object
      <4>1. ~HasWideElements(m)
        BY <3>1 DEF m
      <4> QED BY <2>1, <2>6, <4>1, ContainerComesBack
    <3>3. CASE object = <<>>
      <4>1. ~m.optional
        BY <2>6, <3>3 DEF IsEmpty, m
      <4>2. m.fixed = 0
        <5>1. m.fixed \in Nat /\ (m.fixed > 0 => Len(object) = m.fixed)
          BY <2>1, <2>6, ContainersOf
        <5> QED BY <3>3, <5>1
      <4>3. Zeros(0) = <<>>
        BY DEF Zeros
      <4> QED BY <2>2, <2>6, <3>3, <4>1, <4>2, <4>3 DEF Bound, BindsAsNull, Read, Cleared
    <3>4. CASE object # <<>>
      <4>1. Bound(m, object) = object
        BY <2>6, <3>1, <3>4 DEF Bound, BindsAsNull
      <4> QED BY <2>2, <2>6, <3>1, <3>2, <4>1 DEF Read, IsContainer
    <3> QED BY <3>3, <3>4
  <2> QED BY <2>1, <2>2, <2>3, <2>4, <2>5, <2>6, KindsOfValues
<1> QED BY <1>1, RowIsStoredAlways, PTL
=============================================================================
