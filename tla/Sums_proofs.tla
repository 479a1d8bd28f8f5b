------------------------------ MODULE Sums_proofs ------------------------------
(***************************************************************************)
(* Sums of the values of a function over a finite set (SumFunction of the  *)
(* community modules): the sum of nothing is zero, an element adds its     *)
(* value, whichever the recursion takes first, and nothing but the values  *)
(* matters.  The recursion goes over the subsets of the set, so these are  *)
(* shown for a smallest subset of which they are not true.                 *)
(***************************************************************************)
EXTENDS Functions, FiniteSets, FiniteSetTheorems, TLAPS

\* Which element the recursion takes out of s next.
Pick(s) == CHOOSE x \in s : TRUE

\* g is the recursive function behind the sum of f over S.
IsSum(g, f, S) ==
    g = [s \in SUBSET S |-> IF s = {} THEN 0 ELSE f[Pick(s)] + g[s \ {Pick(s)}]]

\* Among sets of elements of S there is one that has no smaller one.
LEMMA SmallestSet ==
    ASSUME NEW S, IsFiniteSet(S), NEW B \in SUBSET SUBSET S, B # {}
    PROVE  \E T \in B : \A U \in B : U \subseteq T => U = T
  <1>1. B \subseteq FiniteSubsetsOf(S)
    BY FS_Subset DEF FiniteSubsetsOf
  <1>2. PICK T \in B : \A U \in B : ~ (<<U, T>> \in StrictSubsetOrdering(S))
    BY <1>1, FS_StrictSubsetOrderingWellFounded, WFMin
  <1> QED
    BY <1>2 DEF StrictSubsetOrdering

\* It is an element.
LEMMA PickIn ==
    ASSUME NEW s, s # {}
    PROVE  Pick(s) \in s
  BY DEF Pick

\* The recursive function is the same on a smaller set.
LEMMA SumUnique ==
    ASSUME NEW f, NEW S, IsFiniteSet(S), NEW T \in SUBSET S, NEW g, NEW h,
           IsSum(g, f, S), IsSum(h, f, T), NEW V \in SUBSET T
    PROVE  g[V] = h[V]
  <1> DEFINE Bad == {U \in SUBSET T : g[U] # h[U]}
  <1>1. SUFFICES ASSUME Bad # {} PROVE FALSE
    OBVIOUS
  <1>2. Bad \in SUBSET SUBSET S
    OBVIOUS
  <1>3. PICK U \in Bad : \A W \in Bad : W \subseteq U => W = U
    <2> HIDE DEF Bad
    <2> QED
      BY <1>1, <1>2, SmallestSet
  <1>4. /\ U \in SUBSET T /\ U \in SUBSET S
        /\ g[U] = IF U = {} THEN 0 ELSE f[Pick(U)] + g[U \ {Pick(U)}]
        /\ h[U] = IF U = {} THEN 0 ELSE f[Pick(U)] + h[U \ {Pick(U)}]
    BY DEF IsSum
  <1>5. U # {}
    BY <1>4
  <1>6. U \ {Pick(U)} \notin Bad
    BY <1>3, <1>5, PickIn
  <1>7. g[U \ {Pick(U)}] = h[U \ {Pick(U)}]
    BY <1>4, <1>6
  <1> QED
    BY <1>4, <1>5, <1>7

\* There is such a function.
LEMMA SumExists ==
    ASSUME NEW f, NEW S, IsFiniteSet(S)
    PROVE  \E g : IsSum(g, f, S)
  <1> DEFINE Bad == {T \in SUBSET S : ~\E g : IsSum(g, f, T)}
  <1>1. SUFFICES ASSUME Bad # {} PROVE FALSE
    OBVIOUS
  <1>2. PICK T \in Bad : \A W \in Bad : W \subseteq T => W = T
    <2>1. Bad \in SUBSET SUBSET S
      OBVIOUS
    <2> HIDE DEF Bad
    <2> QED
      BY <1>1, <2>1, SmallestSet
  <1> DEFINE G(U) == CHOOSE g : IsSum(g, f, U)
             k == [s \in SUBSET T |-> IF s = {} THEN 0
                                      ELSE f[Pick(s)] + G(s \ {Pick(s)})[s \ {Pick(s)}]]
  <1>3. ASSUME NEW U \in SUBSET T, U # T PROVE IsSum(G(U), f, U)
    <2>1. \E g : IsSum(g, f, U)
      BY <1>2, <1>3
    <2> QED
      BY <2>1
  <1>4. ASSUME NEW s \in SUBSET T, s # {}
        PROVE  k[s \ {Pick(s)}] = G(s \ {Pick(s)})[s \ {Pick(s)}]
    <2> DEFINE U == s \ {Pick(s)}
    <2>1. U \in SUBSET T /\ U # T
      BY <1>4, PickIn
    <2>2. G(U)[U] = IF U = {} THEN 0 ELSE f[Pick(U)] + G(U)[U \ {Pick(U)}]
      <3>1. \A g : IsSum(g, f, U) => g[U] = IF U = {} THEN 0 ELSE f[Pick(U)] + g[U \ {Pick(U)}]
        BY DEF IsSum
      <3> HIDE DEF G, U
      <3> QED
        BY <1>3, <2>1, <3>1
    <2>3. CASE U = {}
      <3>1. k[U] = 0
        BY <2>3
      <3> HIDE DEF k, U, G
      <3> QED
        BY <2>2, <2>3, <3>1 DEF U
    <2>4. CASE U # {}
      <3> DEFINE V == U \ {Pick(U)}
      <3>1. V \in SUBSET U /\ V # T
        BY <2>1, <2>4, PickIn
      <3>2. IsSum(G(U), f, U) /\ IsSum(G(V), f, V)
        <4> HIDE DEF U, G
        <4> QED
          BY <1>3, <2>1, <3>1
      <3>3. IsFiniteSet(U)
        BY <2>1, FS_Subset
      <3>4. G(U)[V] = G(V)[V]
        <4> HIDE DEF U, V, G
        <4> QED
          BY <3>1, <3>2, <3>3, SumUnique
      <3>5. k[U] = f[Pick(U)] + G(V)[V]
        <4> HIDE DEF U, G
        <4> QED
          BY <2>1, <2>4
      <3> HIDE DEF k, U, G
      <3> QED
        BY <2>2, <2>4, <3>4, <3>5 DEF U
    <2> QED
      BY <2>3, <2>4
  <1>5. IsSum(k, f, T)
    <2> HIDE DEF G
    <2>1. k = [s \in SUBSET T |-> IF s = {} THEN 0 ELSE f[Pick(s)] + k[s \ {Pick(s)}]]
      BY <1>4
    <2> HIDE DEF k
    <2> QED
      BY <2>1 DEF IsSum
  <1> QED
    BY <1>2, <1>5

\* The sum is the value of such a function.
LEMMA SumIsSum ==
    ASSUME NEW f, NEW S
    PROVE  SumFunctionOnSet(f, S) = (CHOOSE g : IsSum(g, f, S))[S]
  BY DEF SumFunctionOnSet, FoldFunctionOnSet, MapThenFoldSet, IsSum, Pick

\* The sum, and the function it is a value of.
LEMMA SumFound ==
    ASSUME NEW f, NEW S, IsFiniteSet(S)
    PROVE  \E g : IsSum(g, f, S) /\ SumFunctionOnSet(f, S) = g[S]
  <1>1. PICK g : IsSum(g, f, S)
    BY SumExists
  <1>2. IsSum(CHOOSE h : IsSum(h, f, S), f, S)
    BY <1>1
  <1> QED
    BY <1>2, SumIsSum

\* The sum of nothing is zero.
LEMMA SumEmpty ==
    ASSUME NEW f
    PROVE  SumFunctionOnSet(f, {}) = 0
  <1>1. PICK g : IsSum(g, f, {}) /\ SumFunctionOnSet(f, {}) = g[{}]
    BY SumFound, FS_EmptySet
  <1> QED
    BY <1>1 DEF IsSum

\* The sum of something is that of its first element and the rest.
LEMMA SumPick ==
    ASSUME NEW f, NEW S, IsFiniteSet(S), S # {}
    PROVE  SumFunctionOnSet(f, S) = f[Pick(S)] + SumFunctionOnSet(f, S \ {Pick(S)})
  <1> DEFINE T == S \ {Pick(S)}
  <1>1. T \in SUBSET S /\ IsFiniteSet(T)
    BY FS_Subset
  <1>2. PICK g : IsSum(g, f, S) /\ SumFunctionOnSet(f, S) = g[S]
    BY SumFound
  <1>3. PICK h : IsSum(h, f, T) /\ SumFunctionOnSet(f, T) = h[T]
    BY <1>1, SumFound
  <1>4. g[T] = h[T]
    <2> HIDE DEF T
    <2> QED
      BY <1>1, <1>2, <1>3, SumUnique
  <1>5. g[S] = f[Pick(S)] + g[T]
    BY <1>2 DEF IsSum
  <1> QED
    BY <1>2, <1>3, <1>4, <1>5

\* A sum of natural numbers is one.
LEMMA SumType ==
    ASSUME NEW f, NEW S, IsFiniteSet(S), \A x \in S : f[x] \in Nat
    PROVE  SumFunctionOnSet(f, S) \in Nat
  <1> DEFINE Bad == {T \in SUBSET S : SumFunctionOnSet(f, T) \notin Nat}
  <1>1. SUFFICES ASSUME Bad # {} PROVE FALSE
    OBVIOUS
  <1>2. PICK T \in Bad : \A W \in Bad : W \subseteq T => W = T
    <2>1. Bad \in SUBSET SUBSET S
      OBVIOUS
    <2> HIDE DEF Bad
    <2> QED
      BY <1>1, <2>1, SmallestSet
  <1>3. T # {} /\ IsFiniteSet(T)
    <2>1. SumFunctionOnSet(f, {}) \in Nat
      BY SumEmpty
    <2> QED
      BY <1>2, <2>1, FS_Subset
  <1>4. Pick(T) \in T /\ T \ {Pick(T)} \notin Bad
    BY <1>2, <1>3, PickIn
  <1>5. SumFunctionOnSet(f, T \ {Pick(T)}) \in Nat /\ f[Pick(T)] \in Nat
    BY <1>2, <1>4
  <1> QED
    BY <1>2, <1>3, <1>5, SumPick

\* Any element adds its value to the sum of the others.
LEMMA SumElement ==
    ASSUME NEW f, NEW S, IsFiniteSet(S), \A x \in S : f[x] \in Nat, NEW y \in S
    PROVE  SumFunctionOnSet(f, S) = f[y] + SumFunctionOnSet(f, S \ {y})
  <1> DEFINE Sum(T) == SumFunctionOnSet(f, T)
             Bad == {T \in SUBSET S : \E x \in T : Sum(T) # f[x] + Sum(T \ {x})}
  <1>1. SUFFICES ASSUME Bad # {} PROVE FALSE
    OBVIOUS
  <1>2. PICK T \in Bad : \A W \in Bad : W \subseteq T => W = T
    <2>1. Bad \in SUBSET SUBSET S
      OBVIOUS
    <2> HIDE DEF Bad
    <2> QED
      BY <1>1, <2>1, SmallestSet
  <1>3. PICK x \in T : Sum(T) # f[x] + Sum(T \ {x})
    BY <1>2
  <1> DEFINE z == Pick(T)
  <1>4. IsFiniteSet(T) /\ z \in T
    BY <1>2, <1>3, PickIn, FS_Subset
  <1>5. Sum(T) = f[z] + Sum(T \ {z})
    BY <1>3, <1>4, SumPick
  <1>6. x # z
    BY <1>3, <1>5
  <1>7. T \ {z} \notin Bad /\ T \ {x} \notin Bad /\ T \ {z} \in SUBSET S /\ T \ {x} \in SUBSET S
    BY <1>2, <1>3, <1>4
  <1>8. /\ Sum(T \ {z}) = f[x] + Sum((T \ {z}) \ {x})
        /\ Sum(T \ {x}) = f[z] + Sum((T \ {x}) \ {z})
    BY <1>3, <1>4, <1>6, <1>7
  <1>9. (T \ {z}) \ {x} = (T \ {x}) \ {z} /\ IsFiniteSet((T \ {x}) \ {z})
    BY <1>4, FS_Subset
  <1>10. Sum((T \ {x}) \ {z}) \in Nat /\ f[x] \in Nat /\ f[z] \in Nat
    BY <1>2, <1>3, <1>4, <1>9, SumType
  <1>11. PICK v : v = Sum((T \ {x}) \ {z})
    OBVIOUS
  <1>12. Sum(T) = f[z] + (f[x] + v) /\ Sum(T \ {x}) = f[z] + v /\ v \in Nat
    BY <1>5, <1>8, <1>9, <1>10, <1>11
  <1> HIDE DEF Sum
  <1> QED
    BY <1>3, <1>10, <1>12

\* So does one more element.
LEMMA SumAdd ==
    ASSUME NEW f, NEW S, IsFiniteSet(S), NEW y, y \notin S, \A x \in S \cup {y} : f[x] \in Nat
    PROVE  SumFunctionOnSet(f, S \cup {y}) = f[y] + SumFunctionOnSet(f, S)
  <1>1. IsFiniteSet(S \cup {y}) /\ (S \cup {y}) \ {y} = S
    BY FS_AddElement
  <1> QED
    BY <1>1, SumElement

\* Nothing but the values matters.
LEMMA SumSame ==
    ASSUME NEW f, NEW h, NEW S, IsFiniteSet(S), \A x \in S : f[x] = h[x]
    PROVE  SumFunctionOnSet(f, S) = SumFunctionOnSet(h, S)
  <1> DEFINE Bad == {T \in SUBSET S : SumFunctionOnSet(f, T) # SumFunctionOnSet(h, T)}
  <1>1. SUFFICES ASSUME Bad # {} PROVE FALSE
    OBVIOUS
  <1>2. PICK T \in Bad : \A W \in Bad : W \subseteq T => W = T
    <2>1. Bad \in SUBSET SUBSET S
      OBVIOUS
    <2> HIDE DEF Bad
    <2> QED
      BY <1>1, <2>1, SmallestSet
  <1>3. T # {} /\ IsFiniteSet(T)
    BY <1>2, SumEmpty, FS_Subset
  <1>4. Pick(T) \in T /\ T \ {Pick(T)} \notin Bad
    BY <1>2, <1>3, PickIn
  <1>5. SumFunctionOnSet(f, T \ {Pick(T)}) = SumFunctionOnSet(h, T \ {Pick(T)})
    BY <1>2, <1>4
  <1> QED
    BY <1>2, <1>3, <1>4, <1>5, SumPick

\* Larger values and more elements make a larger sum.
LEMMA SumMonotone ==
    ASSUME NEW f, NEW h, NEW S, IsFiniteSet(S), NEW R \in SUBSET S,
           \A x \in R : f[x] \in Nat /\ f[x] <= h[x], \A x \in S : h[x] \in Nat
    PROVE  SumFunctionOnSet(f, R) <= SumFunctionOnSet(h, S)
  <1> DEFINE Bad == {T \in SUBSET S :
                        ~(SumFunctionOnSet(f, R \cap T) <= SumFunctionOnSet(h, T))}
  <1>1. SUFFICES ASSUME Bad # {} PROVE FALSE
    <2>1. R \cap S = R
      OBVIOUS
    <2> QED
      BY <2>1
  <1>2. PICK T \in Bad : \A W \in Bad : W \subseteq T => W = T
    <2>1. Bad \in SUBSET SUBSET S
      OBVIOUS
    <2> HIDE DEF Bad
    <2> QED
      BY <1>1, <2>1, SmallestSet
  <1>3. T # {}
    <2>1. R \cap {} = {}
      OBVIOUS
    <2>2. SumFunctionOnSet(f, R \cap {}) <= SumFunctionOnSet(h, {})
      BY <2>1, SumEmpty
    <2> QED
      BY <1>2, <2>2
  <1>4. PICK y : y \in T
    BY <1>3
  <1> DEFINE U == T \ {y}
  <1>5. /\ IsFiniteSet(T) /\ IsFiniteSet(U) /\ IsFiniteSet(R \cap T) /\ IsFiniteSet(R \cap U)
        /\ U \in SUBSET S
    BY <1>2, FS_Subset
  <1>6. SumFunctionOnSet(f, R \cap U) <= SumFunctionOnSet(h, U)
    BY <1>2, <1>4
  <1>7. SumFunctionOnSet(h, T) = h[y] + SumFunctionOnSet(h, U)
    BY <1>2, <1>4, <1>5, SumElement
  <1>8. SumFunctionOnSet(h, U) \in Nat /\ SumFunctionOnSet(f, R \cap U) \in Nat /\ h[y] \in Nat
    BY <1>2, <1>4, <1>5, SumType
  <1>9. CASE y \in R
    <2>1. (R \cap T) \ {y} = R \cap U
      OBVIOUS
    <2>2. SumFunctionOnSet(f, R \cap T) = f[y] + SumFunctionOnSet(f, R \cap U)
      BY <1>4, <1>5, <1>9, <2>1, SumElement
    <2>3. f[y] \in Nat /\ f[y] <= h[y]
      BY <1>9
    <2> QED
      <3>1. f[y] + SumFunctionOnSet(f, R \cap U) <= h[y] + SumFunctionOnSet(h, U)
        BY <1>6, <1>8, <2>3
      <3> QED
        BY <1>2, <1>7, <2>2, <3>1
  <1>10. CASE y \notin R
    <2>1. R \cap T = R \cap U
      BY <1>10
    <2>2. SumFunctionOnSet(f, R \cap U) <= h[y] + SumFunctionOnSet(h, U)
      BY <1>6, <1>8
    <2> QED
      BY <1>2, <1>7, <2>1, <2>2
  <1> QED
    BY <1>9, <1>10

================================================================================
