---------------------------- MODULE InductionFacts ----------------------------
(***************************************************************************)
(* Induction, stated of sets instead of predicates: a family of subsets of *)
(* a finite set has a minimal member, so a fact that fails fails first     *)
(* somewhere.  With it, what SumFunction of the community modules computes *)
(* by recursion over a set: the number of cells under the graph of the     *)
(* function.                                                               *)
(***************************************************************************)
EXTENDS Integers, Functions, FiniteSetTheorems, WellFoundedInduction, TLAPS

(* Any family of subsets of a finite set has a minimal member.             *)
THEOREM MinimalSubset ==
  ASSUME NEW S, IsFiniteSet(S), NEW F \in SUBSET (SUBSET S), F # {}
  PROVE  \E T \in F : \A U \in F : U \subseteq T => U = T
<1>1. IsWellFoundedOn(StrictSubsetOrdering(S), FiniteSubsetsOf(S))
  BY FS_StrictSubsetOrderingWellFounded
<1>2. F \subseteq FiniteSubsetsOf(S)
  BY FS_FiniteSubsetsOfFinite
<1>3. \E T \in F : \A U \in F : <<U, T>> \notin StrictSubsetOrdering(S)
  BY <1>1, <1>2, WFMin, Zenon
<1> QED BY <1>3 DEF StrictSubsetOrdering

(* Every set of natural numbers that is not empty has a least one.         *)
THEOREM LeastMember ==
  ASSUME NEW M \in SUBSET Nat, M # {}
  PROVE  \E n \in M : \A m \in M : n <= m
<1>1. PICK k \in M : TRUE
  OBVIOUS
<1> DEFINE Below(n) == 0..n
           F == {Below(n) : n \in M \intersect Below(k)}
<1>2. \A n \in Nat : \A m : m \in Below(n) <=> m \in Nat /\ m <= n
  OBVIOUS
<1>3. IsFiniteSet(Below(k))
  BY FS_Interval
<1> HIDE DEF Below
<1>4. \A n \in M \intersect Below(k) : n \in Nat /\ Below(n) \subseteq Below(k)
  BY <1>2
<1>5. F \in SUBSET (SUBSET Below(k)) /\ F # {}
  BY <1>1, <1>2, <1>4
<1>6. \E I \in F : \A J \in F : J \subseteq I => J = I
  <2> HIDE DEF F
  <2> QED BY <1>3, <1>5, MinimalSubset
<1>7. PICK n \in M \intersect Below(k) : \A J \in F : J \subseteq Below(n) => J = Below(n)
  BY <1>6
<1>8. ASSUME NEW m \in M, m < n PROVE FALSE
  <2>1. m \in M \intersect Below(k) /\ Below(m) \subseteq Below(n)
    BY <1>2, <1>4, <1>8
  <2>2. n \in Below(m)
    BY <1>2, <1>4, <1>7, <2>1
  <2> QED BY <1>2, <1>4, <1>8, <2>2
<1>9. \A m \in M : n <= m
  BY <1>4, <1>8
<1> QED BY <1>9

(* A set with 0 that is closed under successor holds every natural number. *)
THEOREM NatInSet ==
  ASSUME NEW T, 0 \in T, \A n \in Nat : n \in T => n + 1 \in T
  PROVE  Nat \subseteq T
<1> SUFFICES ASSUME Nat \ T # {} PROVE FALSE
  OBVIOUS
<1>1. PICK n \in Nat \ T : \A m \in Nat \ T : n <= m
  BY LeastMember
<1>2. n # 0 /\ n - 1 \in Nat /\ n - 1 \in T
  BY <1>1
<1> QED BY <1>1, <1>2

(* What is made from the stage before it, one after the other: the stages  *)
(* exist.                                                                  *)
IsUnrolled(f, n, c, step) ==
  f = [k \in 0..n |-> IF k = 0 THEN c ELSE step[<<k, f[k - 1]>>]]

LEMMA UnrolledIs ==
  ASSUME NEW n \in Nat, NEW c, NEW step, NEW f, IsUnrolled(f, n, c, step)
  PROVE  f[0] = c /\ \A k \in 1..n : f[k] = step[<<k, f[k - 1]>>]
<1>1. \A k \in 0..n : f[k] = IF k = 0 THEN c ELSE step[<<k, f[k - 1]>>]
  BY DEF IsUnrolled
<1>2. 0 \in 0..n /\ \A k \in 1..n : k \in 0..n /\ k # 0
  OBVIOUS
<1> QED BY <1>1, <1>2

LEMMA StagesExist ==
  ASSUME NEW n \in Nat, NEW c, NEW step
  PROVE  \E f : IsUnrolled(f, n, c, step)
<1> DEFINE T == {m \in Nat : \E f : IsUnrolled(f, m, c, step)}
<1>1. 0 \in T
  <2>1. IsUnrolled([k \in 0..0 |-> c], 0, c, step)
    BY DEF IsUnrolled
  <2> QED BY <2>1
<1>2. ASSUME NEW m \in Nat, m \in T PROVE m + 1 \in T
  <2>1. PICK w : IsUnrolled(w, m, c, step)
    BY <1>2
  <2> DEFINE v == [k \in 0..(m + 1) |-> IF k = m + 1 THEN step[<<k, w[m]>>] ELSE w[k]]
  <2>2. \A k \in 0..m : w[k] = IF k = 0 THEN c ELSE step[<<k, w[k - 1]>>]
    BY <2>1 DEF IsUnrolled
  <2>3. ASSUME NEW k \in 0..(m + 1)
        PROVE  v[k] = IF k = 0 THEN c ELSE step[<<k, v[k - 1]>>]
    <3>1. CASE k = m + 1
      <4>1. k # 0 /\ k - 1 = m /\ m \in 0..(m + 1) /\ m # m + 1
        BY <3>1
      <4>2. v[k - 1] = w[m] /\ v[k] = step[<<k, w[m]>>]
        BY <3>1, <4>1
      <4> QED BY <4>1, <4>2
    <3>2. CASE k # m + 1
      <4>1. k \in 0..m /\ v[k] = w[k] /\ (k # 0 => v[k - 1] = w[k - 1])
        BY <3>2
      <4> QED BY <2>2, <4>1
    <3> QED BY <3>1, <3>2
  <2>4. v = [k \in 0..(m + 1) |-> v[k]]
    OBVIOUS
  <2> HIDE DEF v
  <2>5. IsUnrolled(v, m + 1, c, step)
    BY <2>3, <2>4 DEF IsUnrolled
  <2> QED BY <2>5
<1>3. Nat \subseteq T
  <2> HIDE DEF T
  <2> QED BY <1>1, <1>2, NatInSet
<1> QED BY <1>3

(* Stages that lead from set to set stay in them.                          *)
LEMMA StagesStay ==
  ASSUME NEW n \in Nat, NEW f, NEW U, f[0] \in U[0],
         \A k \in 1..n : f[k - 1] \in U[k - 1] => f[k] \in U[k]
  PROVE  \A k \in 0..n : f[k] \in U[k]
<1> DEFINE T == {k \in Nat : k <= n => f[k] \in U[k]}
<1>1. 0 \in T
  OBVIOUS
<1>2. ASSUME NEW m \in Nat, m \in T PROVE m + 1 \in T
  <2>1. m + 1 <= n => m + 1 \in 1..n /\ (m + 1) - 1 = m /\ f[m] \in U[m]
    BY <1>2
  <2> QED BY <2>1
<1>3. Nat \subseteq T
  <2> HIDE DEF T
  <2> QED BY <1>1, <1>2, NatInSet
<1> QED BY <1>3

-----------------------------------------------------------------------------
(* Sums. *)

(* The cells below the graph of f over s, a column of f[x] at each x.      *)
Column(f, x) == {<<x, k>> : k \in 1..f[x]}
Cells(f, s) == UNION {Column(f, x) : x \in s}

LEMMA ColumnSize ==
  ASSUME NEW f, NEW x, f[x] \in Nat
  PROVE  IsFiniteSet(Column(f, x)) /\ Cardinality(Column(f, x)) = f[x]
<1> DEFINE g == [k \in 1..f[x] |-> <<x, k>>]
<1>1. g \in Bijection(1..f[x], Column(f, x))
  <2>1. g \in [1..f[x] -> Column(f, x)]
    BY DEF Column
  <2>2. \A a, b \in 1..f[x] : g[a] = g[b] => a = b
    OBVIOUS
  <2>3. \A t \in Column(f, x) : \E a \in 1..f[x] : g[a] = t
    BY DEF Column
  <2> QED BY <2>1, <2>2, <2>3 DEF Bijection, Injection, Surjection, IsInjective
<1>2. ExistsBijection(1..f[x], Column(f, x))
  BY <1>1 DEF ExistsBijection
<1>3. IsFiniteSet(1..f[x]) /\ Cardinality(1..f[x]) = f[x]
  BY FS_Interval
<1> QED BY <1>2, <1>3, FS_Bijection

LEMMA CellsFinite ==
  ASSUME NEW s, IsFiniteSet(s), NEW f, \A x \in s : f[x] \in Nat
  PROVE  IsFiniteSet(Cells(f, s))
<1> DEFINE columns == {Column(f, x) : x \in s}
           g == [x \in s |-> Column(f, x)]
<1>1. g \in Surjection(s, columns)
  BY DEF Surjection
<1>2. IsFiniteSet(columns)
  BY <1>1, FS_Surjection
<1>3. \A c \in columns : IsFiniteSet(c)
  BY ColumnSize
<1> HIDE DEF columns, g
<1>4. IsFiniteSet(UNION columns)
  BY <1>2, <1>3, FS_UNION
<1> QED BY <1>4 DEF Cells, columns

LEMMA CellsSplit ==
  ASSUME NEW s, IsFiniteSet(s), NEW f, \A y \in s : f[y] \in Nat, NEW x \in s
  PROVE  /\ Cardinality(Cells(f, s)) = Cardinality(Cells(f, s \ {x})) + f[x]
         /\ Cardinality(Cells(f, s)) \in Nat /\ Cardinality(Cells(f, s \ {x})) \in Nat
<1> DEFINE rest == Cells(f, s \ {x})
           column == Column(f, x)
<1>1. IsFiniteSet(s \ {x})
  BY FS_RemoveElement
<1>2. IsFiniteSet(rest) /\ IsFiniteSet(column) /\ Cardinality(column) = f[x] /\ IsFiniteSet(Cells(f, s))
  BY <1>1, CellsFinite, ColumnSize
<1>3. Cells(f, s) = rest \union column
  BY DEF Cells
<1>4. rest \intersect column = {}
  BY DEF Cells, Column
<1> HIDE DEF rest, column
<1>5. Cardinality(rest \union column) = Cardinality(rest) + Cardinality(column) - Cardinality(rest \intersect column)
  BY <1>2, FS_Union
<1>6. Cardinality(rest \intersect column) = 0
  BY <1>4, FS_EmptySet
<1>7. Cardinality(rest) \in Nat /\ Cardinality(Cells(f, s)) \in Nat
  BY <1>2, FS_CardinalityType
<1> QED BY <1>2, <1>3, <1>5, <1>6, <1>7 DEF rest

(* Cells are counted one column at a time, whichever column is the first.  *)
First(s) == CHOOSE x \in s : TRUE

LEMMA CellsRecur ==
  ASSUME NEW S, IsFiniteSet(S), NEW f, \A x \in S : f[x] \in Nat, NEW s \in SUBSET S
  PROVE  Cardinality(Cells(f, s)) =
           IF s = {} THEN 0 ELSE f[First(s)] + Cardinality(Cells(f, s \ {First(s)}))
<1>1. CASE s = {}
  BY <1>1, FS_EmptySet DEF Cells
<1>2. CASE s # {}
  <2>1. IsFiniteSet(s) /\ \A y \in s : f[y] \in Nat
    BY FS_Subset
  <2>2. First(s) \in s
    BY <1>2 DEF First
  <2>3. f[First(s)] \in Nat
    BY <2>1, <2>2
  <2>4. /\ Cardinality(Cells(f, s)) = Cardinality(Cells(f, s \ {First(s)})) + f[First(s)]
        /\ Cardinality(Cells(f, s \ {First(s)})) \in Nat
    BY <2>1, <2>2, CellsSplit
  <2> QED BY <1>2, <2>3, <2>4
<1> QED BY <1>1, <1>2

(* What adds up one column after the other is the number of cells.         *)
LEMMA RecursionIsCells ==
  ASSUME NEW S, IsFiniteSet(S), NEW f, \A x \in S : f[x] \in Nat, NEW h,
         \A s \in SUBSET S : h[s] = IF s = {} THEN 0 ELSE f[First(s)] + h[s \ {First(s)}]
  PROVE  h[S] = Cardinality(Cells(f, S))
<1> DEFINE Wrong == {s \in SUBSET S : h[s] # Cardinality(Cells(f, s))}
<1>1. \A s \in SUBSET S : s # {} => First(s) \in s /\ s \ {First(s)} \in SUBSET S
  BY DEF First
<1>2. Wrong = {}
  <2> SUFFICES ASSUME Wrong # {} PROVE FALSE
    OBVIOUS
  <2>1. PICK T \in Wrong : \A U \in Wrong : U \subseteq T => U = T
    <3>1. Wrong \in SUBSET (SUBSET S)
      OBVIOUS
    <3> HIDE DEF Wrong
    <3> QED BY <3>1, MinimalSubset
  <2>2. Cardinality(Cells(f, T)) = IF T = {} THEN 0 ELSE f[First(T)] + Cardinality(Cells(f, T \ {First(T)}))
    BY CellsRecur
  <2>3. T # {}
    BY <2>1, <2>2
  <2>4. h[T \ {First(T)}] = Cardinality(Cells(f, T \ {First(T)}))
    BY <1>1, <2>1, <2>3
  <2> QED BY <2>1, <2>2, <2>3, <2>4
<1> QED BY <1>2

LEMMA SumIsCells ==
  ASSUME NEW S, IsFiniteSet(S), NEW f \in [S -> Nat]
  PROVE  SumFunction(f) = Cardinality(Cells(f, S))
<1> DEFINE size == [s \in SUBSET S |-> Cardinality(Cells(f, s))]
           iter[s \in SUBSET S] == IF s = {} THEN 0 ELSE f[First(s)] + iter[s \ {First(s)}]
<1>1. SumFunction(f) = iter[S]
  BY Zenon DEF SumFunction, SumFunctionOnSet, FoldFunction, FoldFunctionOnSet, MapThenFoldSet, First
<1>2. \A s \in SUBSET S : s \ {First(s)} \in SUBSET S
  OBVIOUS
<1>3. \A s \in SUBSET S : size[s] = IF s = {} THEN 0 ELSE f[First(s)] + size[s \ {First(s)}]
  BY <1>2, CellsRecur
<1>4. size = [s \in SUBSET S |-> IF s = {} THEN 0 ELSE f[First(s)] + size[s \ {First(s)}]]
  BY <1>3, Zenon
<1>5. iter = [s \in SUBSET S |-> IF s = {} THEN 0 ELSE f[First(s)] + iter[s \ {First(s)}]]
  <2> HIDE DEF size
  <2>1. \E h : h = [s \in SUBSET S |-> IF s = {} THEN 0 ELSE f[First(s)] + h[s \ {First(s)}]]
    BY <1>4
  <2> QED BY <2>1, Zenon DEF iter
<1> HIDE DEF iter
<1>6. \A s \in SUBSET S : iter[s] = IF s = {} THEN 0 ELSE f[First(s)] + iter[s \ {First(s)}]
  BY <1>5, Zenon
<1> QED BY <1>1, <1>6, RecursionIsCells

(* Changing one value of a function changes its sum by the difference.     *)
THEOREM SumChanged ==
  ASSUME NEW S, IsFiniteSet(S), NEW f \in [S -> Nat], NEW x \in S, NEW v \in Nat
  PROVE  /\ SumFunction(f) \in Nat
         /\ SumFunction([f EXCEPT ![x] = v]) = SumFunction(f) - f[x] + v
<1> DEFINE g == [f EXCEPT ![x] = v]
<1>1. g \in [S -> Nat] /\ g[x] = v /\ \A y \in S \ {x} : g[y] = f[y]
  OBVIOUS
<1> HIDE DEF g
<1>2. Cells(g, S \ {x}) = Cells(f, S \ {x})
  BY <1>1 DEF Cells, Column
<1>3. /\ SumFunction(f) = Cardinality(Cells(f, S \ {x})) + f[x]
      /\ Cardinality(Cells(f, S \ {x})) \in Nat
  BY SumIsCells, CellsSplit
<1>4. SumFunction(g) = Cardinality(Cells(g, S \ {x})) + g[x]
  BY <1>1, SumIsCells, CellsSplit
<1>5. f[x] \in Nat
  OBVIOUS
<1> QED BY <1>1, <1>2, <1>3, <1>4, <1>5 DEF g

(* The sum of zeros. *)
THEOREM SumOfZeros ==
  ASSUME NEW S, IsFiniteSet(S)
  PROVE  SumFunction([x \in S |-> 0]) = 0
<1> DEFINE f == [x \in S |-> 0]
<1>1. f \in [S -> Nat] /\ \A x \in S : f[x] = 0
  OBVIOUS
<1> HIDE DEF f
<1>2. Cells(f, S) = {}
  BY <1>1 DEF Cells, Column
<1>3. SumFunction(f) = 0
  BY <1>1, <1>2, SumIsCells, FS_EmptySet
<1> QED BY <1>3 DEF f
=============================================================================
