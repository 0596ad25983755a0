------------------------------ MODULE SumProofs ------------------------------
(***************************************************************************)
(* Sums of a function over a finite set: what SumFunctionOnSet returns.    *)
(*                                                                         *)
(* The operator picks the members one by one, through a function defined   *)
(* by recursion on the subsets.  The lemmas say that this function exists, *)
(* and that the order of the picks does not matter.                        *)
(***************************************************************************)
EXTENDS Integers, FiniteSets, Functions, FiniteSetTheorems, WellFoundedInduction, TLAPS

\* The least number of a set of naturals.
LEMMA LeastNat ==
  ASSUME NEW N, N \subseteq Nat, N # {}
  PROVE  \E n \in N : \A m \in N : n <= m
PROOF
<1> DEFINE R == OpToRel(<, Nat)
<1>1. \E n \in N : \A m \in N : ~(<<m, n>> \in R)
  <2>1. IsWellFoundedOn(R, Nat) BY NatLessThanWellFounded
  <2> QED BY <2>1, WFMin
<1>2. PICK n \in N : \A m \in N : ~(<<m, n>> \in R) BY <1>1
<1>3. ASSUME NEW m \in N PROVE n <= m
  <2>1. m \in Nat /\ n \in Nat OBVIOUS
  <2>2. ~(m < n) BY <1>2, <2>1 DEF OpToRel
  <2> QED BY <2>1, <2>2
<1> QED BY <1>3

\* A family of subsets of a finite set has a member that is in it while none of
\* the sets with one element less is.
LEMMA SmallestMember ==
  ASSUME NEW S, IsFiniteSet(S), NEW B \in SUBSET (SUBSET S), B # {}
  PROVE  \E T \in B : \A x \in T : T \ {x} \notin B
PROOF
<1> DEFINE N == {Cardinality(T) : T \in B}
<1>1. \A T \in SUBSET S : IsFiniteSet(T) /\ Cardinality(T) \in Nat
  BY FS_Subset, FS_CardinalityType
<1>2. N \subseteq Nat /\ N # {} BY <1>1
<1>3. PICK n \in N : \A m \in N : n <= m BY <1>2, LeastNat
<1>4. PICK T \in B : n = Cardinality(T) OBVIOUS
<1>5. ASSUME NEW x \in T, T \ {x} \in B PROVE FALSE
  <2>1. IsFiniteSet(T) /\ Cardinality(T) \in Nat BY <1>1
  <2>2. Cardinality(T \ {x}) = Cardinality(T) - 1 BY <2>1, FS_RemoveElement
  <2>3. n <= Cardinality(T \ {x}) BY <1>3, <1>5
  <2> QED BY <1>4, <2>1, <2>2, <2>3
<1> QED BY <1>5

----------------------------------------------------------------------------
\* The recursion SumFunctionOnSet runs, on any family of subsets closed under it.

Chosen(s) == CHOOSE x \in s : TRUE
Added(f, g, s) == IF s = {} THEN 0 ELSE f[Chosen(s)] + g[s \ {Chosen(s)}]
Sums(f, D, g) == g = [s \in D |-> Added(f, g, s)]

Layer(S, n) == {s \in SUBSET S : Cardinality(s) <= n}

LEMMA ChosenIn == ASSUME NEW s, s # {} PROVE Chosen(s) \in s
PROOF BY DEF Chosen

LEMMA LayersSum ==
  ASSUME NEW S, IsFiniteSet(S), NEW f, NEW n \in Nat
  PROVE  \E g : Sums(f, Layer(S, n), g)
PROOF
<1> DEFINE Bad == {m \in Nat : ~\E g : Sums(f, Layer(S, m), g)}
<1> SUFFICES ASSUME Bad # {} PROVE FALSE OBVIOUS
<1>1. PICK m \in Bad : \A k \in Bad : m <= k BY LeastNat
<1>2. m \in Nat /\ ~\E g : Sums(f, Layer(S, m), g) OBVIOUS
<1>3. \A T \in SUBSET S : IsFiniteSet(T) /\ Cardinality(T) \in Nat
  BY FS_Subset, FS_CardinalityType
<1>4. CASE m = 0
  <2>1. Layer(S, m) = {{}} 
    <3>1. \A T \in SUBSET S : Cardinality(T) <= 0 <=> T = {}
      BY <1>3, FS_EmptySet
    <3> QED BY <3>1, <1>4 DEF Layer
  <2> DEFINE g == [s \in {{}} |-> 0]
  <2>2. \A s \in {{}} : Added(f, g, s) = 0 BY DEF Added
  <2>3. Sums(f, Layer(S, m), g) BY <2>1, <2>2 DEF Sums
  <2> QED BY <1>2, <2>3
<1>5. CASE m # 0
  <2>1. m - 1 \in Nat /\ m - 1 \notin Bad BY <1>1, <1>2, <1>5
  <2>2. PICK h : Sums(f, Layer(S, m - 1), h) BY <2>1
  <2> DEFINE g == [s \in Layer(S, m) |-> Added(f, h, s)]
  <2>3. Layer(S, m - 1) \subseteq Layer(S, m) BY <1>2, <1>3 DEF Layer
  <2>4. \A s \in Layer(S, m - 1) : g[s] = h[s]
    <3> TAKE s \in Layer(S, m - 1)
    <3>1. h[s] = Added(f, h, s) BY <2>2 DEF Sums
    <3> QED BY <2>3, <3>1
  <2>5. ASSUME NEW s \in Layer(S, m) PROVE g[s] = Added(f, g, s)
    <3>1. CASE s = {} BY <3>1 DEF Added
    <3>2. CASE s # {}
      <4> DEFINE x == Chosen(s)
      <4>1. x \in s BY <3>2, ChosenIn
      <4>2. s \in SUBSET S /\ Cardinality(s) <= m BY DEF Layer
      <4>3. Cardinality(s \ {x}) = Cardinality(s) - 1 BY <4>1, <4>2, <1>3, FS_RemoveElement
      <4>4. s \ {x} \in Layer(S, m - 1) BY <4>2, <4>3, <1>2, <1>3 DEF Layer
      <4>5. g[s \ {x}] = h[s \ {x}] BY <2>4, <4>4
      <4>6. g[s] = f[x] + h[s \ {x}] BY <3>2 DEF Added
      <4>7. Added(f, g, s) = f[x] + g[s \ {x}] BY <3>2 DEF Added
      <4> QED BY <4>5, <4>6, <4>7
    <3> QED BY <3>1, <3>2
  <2>6. Sums(f, Layer(S, m), g)
    <3>1. g = [s \in Layer(S, m) |-> g[s]] OBVIOUS
    <3> HIDE DEF g
    <3> QED BY <2>5, <3>1 DEF Sums
  <2> HIDE DEF g
  <2> QED BY <1>2, <2>6
<1> QED BY <1>4, <1>5

LEMMA SubsetsSum ==
  ASSUME NEW S, IsFiniteSet(S), NEW f
  PROVE  \E g : Sums(f, SUBSET S, g)
PROOF
<1>1. Cardinality(S) \in Nat BY FS_CardinalityType
<1>2. Layer(S, Cardinality(S)) = SUBSET S BY FS_Subset DEF Layer
<1>3. \E g : Sums(f, Layer(S, Cardinality(S)), g) BY <1>1, LayersSum
<1> QED BY <1>2, <1>3

\* Two such functions agree wherever both are defined.
LEMMA SumsAgree ==
  ASSUME NEW S, NEW T, NEW f, NEW g, NEW h,
         IsFiniteSet(S), T \subseteq S, Sums(f, SUBSET S, g), Sums(f, SUBSET T, h)
  PROVE  g[T] = h[T]
PROOF
<1> DEFINE Bad == {s \in SUBSET T : g[s] # h[s]}
<1> SUFFICES ASSUME Bad # {} PROVE FALSE OBVIOUS
<1>1. IsFiniteSet(T) BY FS_Subset
<1>2. PICK s \in Bad : \A x \in s : s \ {x} \notin Bad BY <1>1, SmallestMember
<1>3. g[s] = Added(f, g, s) /\ h[s] = Added(f, h, s) BY DEF Sums
<1>4. CASE s = {} BY <1>2, <1>3, <1>4 DEF Added
<1>5. CASE s # {}
  <2>1. Chosen(s) \in s BY <1>5, ChosenIn
  <2>2. g[s \ {Chosen(s)}] = h[s \ {Chosen(s)}] BY <1>2, <2>1
  <2> QED BY <1>2, <1>3, <1>5, <2>2 DEF Added
<1> QED BY <1>4, <1>5

\* SumFunctionOnSet is such a function, applied to the whole set.
LEMMA SumIsRecursive ==
  ASSUME NEW S, IsFiniteSet(S), NEW f
  PROVE  \E g : Sums(f, SUBSET S, g) /\ SumFunctionOnSet(f, S) = g[S]
PROOF
<1> DEFINE g == CHOOSE h : Sums(f, SUBSET S, h)
<1>1. Sums(f, SUBSET S, g) BY SubsetsSum
<1>2. SumFunctionOnSet(f, S) = g[S]
  BY DEF SumFunctionOnSet, FoldFunctionOnSet, MapThenFoldSet, Sums, Added, Chosen
<1> QED BY <1>1, <1>2

LEMMA SumEmpty == \A f : SumFunctionOnSet(f, {}) = 0
PROOF
<1> TAKE f
<1>1. IsFiniteSet({}) BY FS_EmptySet
<1>2. PICK g : Sums(f, SUBSET {}, g) /\ SumFunctionOnSet(f, {}) = g[{}] BY <1>1, SumIsRecursive
<1>3. {} \in SUBSET {} OBVIOUS
<1> QED BY <1>2, <1>3 DEF Sums, Added

LEMMA SumUnfolds ==
  ASSUME NEW S, IsFiniteSet(S), S # {}, NEW f
  PROVE  SumFunctionOnSet(f, S) = f[Chosen(S)] + SumFunctionOnSet(f, S \ {Chosen(S)})
PROOF
<1> DEFINE T == S \ {Chosen(S)}
<1>1. T \in SUBSET S /\ IsFiniteSet(T) BY FS_Subset
<1>2. PICK g : Sums(f, SUBSET S, g) /\ SumFunctionOnSet(f, S) = g[S] BY SumIsRecursive
<1>3. PICK h : Sums(f, SUBSET T, h) /\ SumFunctionOnSet(f, T) = h[T] BY <1>1, SumIsRecursive
<1>4. g[T] = h[T]
  <2>1. T \subseteq S /\ Sums(f, SUBSET S, g) /\ Sums(f, SUBSET T, h) BY <1>2, <1>3
  <2> HIDE DEF T
  <2> QED BY <2>1, SumsAgree
<1>5. g[S] = f[Chosen(S)] + g[T] BY <1>2 DEF Sums, Added
<1> QED BY <1>2, <1>3, <1>4, <1>5

----------------------------------------------------------------------------
\* A sum of naturals is a natural.
LEMMA SumNat ==
  ASSUME NEW S, IsFiniteSet(S), NEW f, \A x \in S : f[x] \in Nat
  PROVE  SumFunctionOnSet(f, S) \in Nat
PROOF
<1> DEFINE Bad == {s \in SUBSET S : SumFunctionOnSet(f, s) \notin Nat}
<1> SUFFICES ASSUME Bad # {} PROVE FALSE OBVIOUS
<1>1. PICK s \in Bad : \A x \in s : s \ {x} \notin Bad BY SmallestMember
<1>2. IsFiniteSet(s) BY FS_Subset
<1>3. s # {} BY SumEmpty
<1>4. Chosen(s) \in s BY <1>3, ChosenIn
<1>5. SumFunctionOnSet(f, s \ {Chosen(s)}) \in Nat BY <1>1, <1>4
<1>6. f[Chosen(s)] \in Nat BY <1>4
<1>7. SumFunctionOnSet(f, s) = f[Chosen(s)] + SumFunctionOnSet(f, s \ {Chosen(s)})
  BY <1>2, <1>3, SumUnfolds
<1> QED BY <1>5, <1>6, <1>7

\* Any member may be taken out first.
LEMMA SumRemove ==
  ASSUME NEW S, IsFiniteSet(S), NEW f, \A x \in S : f[x] \in Nat, NEW x \in S
  PROVE  SumFunctionOnSet(f, S) = f[x] + SumFunctionOnSet(f, S \ {x})
PROOF
<1> DEFINE Su(s) == SumFunctionOnSet(f, s)
           Bad == {s \in SUBSET S : \E y \in s : Su(s) # f[y] + Su(s \ {y})}
<1> SUFFICES ASSUME Bad # {} PROVE FALSE OBVIOUS
<1>1. PICK s \in Bad : \A y \in s : s \ {y} \notin Bad BY SmallestMember
<1>2. PICK y \in s : Su(s) # f[y] + Su(s \ {y}) OBVIOUS
<1> DEFINE p == Chosen(s)
<1>3. IsFiniteSet(s) /\ s # {} /\ p \in s BY FS_Subset, ChosenIn
<1>4. Su(s) = f[p] + Su(s \ {p}) BY <1>3, SumUnfolds
<1>5. y # p BY <1>2, <1>4
<1>6. Su(s \ {p}) = f[y] + Su((s \ {p}) \ {y})
  <2>1. s \ {p} \notin Bad BY <1>1, <1>3
  <2>2. y \in s \ {p} /\ s \ {p} \in SUBSET S BY <1>5
  <2> HIDE DEF p, Su
  <2> QED BY <2>1, <2>2
<1>7. Su(s \ {y}) = f[p] + Su((s \ {y}) \ {p})
  <2>1. s \ {y} \notin Bad BY <1>1
  <2>2. p \in s \ {y} /\ s \ {y} \in SUBSET S BY <1>3, <1>5
  <2> HIDE DEF p, Su
  <2> QED BY <2>1, <2>2
<1>8. (s \ {y}) \ {p} = (s \ {p}) \ {y} OBVIOUS
<1>9. f[p] \in Nat /\ f[y] \in Nat BY <1>3
<1>10. Su((s \ {p}) \ {y}) \in Nat
  <2>1. IsFiniteSet((s \ {p}) \ {y}) BY FS_Subset, <1>3
  <2> QED BY <2>1, SumNat
<1> HIDE DEF p, Su
<1>11. Su(s) = f[y] + (f[p] + Su((s \ {p}) \ {y})) BY <1>4, <1>6, <1>9, <1>10
<1>12. Su(s \ {y}) = f[p] + Su((s \ {p}) \ {y}) BY <1>7, <1>8
<1> QED BY <1>2, <1>11, <1>12

LEMMA SumInsert ==
  ASSUME NEW S, IsFiniteSet(S), NEW f, NEW x, x \notin S, \A y \in S \cup {x} : f[y] \in Nat
  PROVE  SumFunctionOnSet(f, S \cup {x}) = f[x] + SumFunctionOnSet(f, S)
PROOF
<1>1. IsFiniteSet(S \cup {x}) BY FS_AddElement
<1>2. (S \cup {x}) \ {x} = S OBVIOUS
<1> QED BY <1>1, <1>2, SumRemove

LEMMA SumSingle ==
  ASSUME NEW f, NEW x, f[x] \in Nat, NEW S, S = {x}
  PROVE  SumFunctionOnSet(f, S) = f[x]
PROOF
<1>1. S \ {x} = {} /\ x \in S /\ \A y \in S : f[y] \in Nat OBVIOUS
<1>2. IsFiniteSet(S) BY FS_Singleton
<1>3. SumFunctionOnSet(f, S) = f[x] + SumFunctionOnSet(f, S \ {x}) BY <1>1, <1>2, SumRemove
<1>4. SumFunctionOnSet(f, S \ {x}) = 0 BY <1>1, SumEmpty
<1> QED BY <1>3, <1>4

\* The sum depends on the function only where it is added up.
LEMMA SumEqual ==
  ASSUME NEW S, IsFiniteSet(S), NEW f, NEW g, \A x \in S : f[x] = g[x]
  PROVE  SumFunctionOnSet(f, S) = SumFunctionOnSet(g, S)
PROOF
<1> DEFINE Bad == {s \in SUBSET S : SumFunctionOnSet(f, s) # SumFunctionOnSet(g, s)}
<1> SUFFICES ASSUME Bad # {} PROVE FALSE OBVIOUS
<1>1. PICK s \in Bad : \A x \in s : s \ {x} \notin Bad BY SmallestMember
<1>2. IsFiniteSet(s) BY FS_Subset
<1>3. s # {} BY SumEmpty
<1>4. Chosen(s) \in s BY <1>3, ChosenIn
<1>5. SumFunctionOnSet(f, s \ {Chosen(s)}) = SumFunctionOnSet(g, s \ {Chosen(s)}) BY <1>1, <1>4
<1>6. f[Chosen(s)] = g[Chosen(s)] BY <1>4
<1> QED BY <1>2, <1>3, <1>5, <1>6, SumUnfolds

LEMMA SumZero ==
  ASSUME NEW S, NEW f, IsFiniteSet(S), \A x \in S : f[x] = 0
  PROVE  SumFunctionOnSet(f, S) = 0
PROOF
<1> DEFINE Bad == {s \in SUBSET S : SumFunctionOnSet(f, s) # 0}
<1> SUFFICES ASSUME Bad # {} PROVE FALSE OBVIOUS
<1>1. PICK s \in Bad : \A x \in s : s \ {x} \notin Bad BY SmallestMember
<1>2. IsFiniteSet(s) /\ s # {} BY FS_Subset, SumEmpty
<1>3. Chosen(s) \in s BY <1>2, ChosenIn
<1>4. SumFunctionOnSet(f, s \ {Chosen(s)}) = 0 BY <1>1, <1>3
<1>5. f[Chosen(s)] = 0 BY <1>3
<1>6. SumFunctionOnSet(f, s) = 0 + 0 BY <1>2, <1>4, <1>5, SumUnfolds
<1> QED BY <1>6

\* What one member more or less adds.
LEMMA SumChange ==
  ASSUME NEW S, NEW f, NEW g, NEW x, IsFiniteSet(S), x \in S,
         \A y \in S : f[y] \in Nat, \A y \in S : g[y] \in Nat, \A y \in S \ {x} : f[y] = g[y]
  PROVE  /\ SumFunctionOnSet(f, S) \in Nat /\ SumFunctionOnSet(g, S) \in Nat
         /\ SumFunctionOnSet(g, S) = SumFunctionOnSet(f, S) - f[x] + g[x]
PROOF
<1>1. IsFiniteSet(S \ {x}) BY FS_Subset
<1>2. SumFunctionOnSet(f, S \ {x}) = SumFunctionOnSet(g, S \ {x}) BY <1>1, SumEqual
<1>3. SumFunctionOnSet(f, S) = f[x] + SumFunctionOnSet(f, S \ {x}) BY SumRemove
<1>4. SumFunctionOnSet(g, S) = g[x] + SumFunctionOnSet(g, S \ {x}) BY SumRemove
<1>5. SumFunctionOnSet(f, S \ {x}) \in Nat BY <1>1, SumNat
<1>6. f[x] \in Nat /\ g[x] \in Nat OBVIOUS
<1>7. SumFunctionOnSet(f, S) \in Nat /\ SumFunctionOnSet(g, S) \in Nat BY SumNat
<1> QED BY <1>2, <1>3, <1>4, <1>5, <1>6, <1>7
\* A larger set adds up to at least as much.
LEMMA SumMonotone ==
  ASSUME NEW S, NEW T, NEW f, IsFiniteSet(T), S \subseteq T, \A x \in T : f[x] \in Nat
  PROVE  SumFunctionOnSet(f, S) <= SumFunctionOnSet(f, T)
PROOF
<1> DEFINE Su(s) == SumFunctionOnSet(f, s)
           Bad == {U \in SUBSET T : S \subseteq U /\ ~(Su(S) <= Su(U))}
<1> SUFFICES ASSUME Bad # {} PROVE FALSE OBVIOUS
<1>0. Bad \in SUBSET (SUBSET T) OBVIOUS
<1>1. PICK U \in Bad : \A x \in U : U \ {x} \notin Bad
  <2> HIDE DEF Bad
  <2> QED BY <1>0, SmallestMember
<1>2. IsFiniteSet(U) /\ IsFiniteSet(S) BY FS_Subset
<1>3. Su(U) \in Nat /\ Su(S) \in Nat BY <1>2, SumNat
<1>4. PICK x \in U : x \notin S
  <2>1. U # S BY <1>3
  <2> QED BY <2>1
<1>5. IsFiniteSet(U \ {x}) BY <1>2, FS_Subset
<1>6. Su(U \ {x}) \in Nat /\ f[x] \in Nat BY <1>5, SumNat
<1>7. Su(S) <= Su(U \ {x}) BY <1>1, <1>4
<1>8. Su(U) = f[x] + Su(U \ {x}) BY <1>2, SumRemove
<1>9. ~(Su(S) <= Su(U)) OBVIOUS
<1> HIDE DEF Su, Bad
<1> QED BY <1>3, <1>6, <1>7, <1>8, <1>9
\* A function that is nowhere larger adds up to no more.
LEMMA SumSmaller ==
  ASSUME NEW S, NEW f, NEW g, IsFiniteSet(S), \A x \in S : f[x] \in Nat, \A x \in S : g[x] \in Nat,
         \A x \in S : f[x] <= g[x]
  PROVE  SumFunctionOnSet(f, S) <= SumFunctionOnSet(g, S)
PROOF
<1> DEFINE Sf(s) == SumFunctionOnSet(f, s)
           Sg(s) == SumFunctionOnSet(g, s)
           Bad == {U \in SUBSET S : ~(Sf(U) <= Sg(U))}
<1> SUFFICES ASSUME Bad # {} PROVE FALSE OBVIOUS
<1>0. Bad \in SUBSET (SUBSET S) OBVIOUS
<1>1. PICK U \in Bad : \A x \in U : U \ {x} \notin Bad
  <2> HIDE DEF Bad
  <2> QED BY <1>0, SmallestMember
<1>2. IsFiniteSet(U) /\ U \subseteq S BY FS_Subset
<1>3. U # {} BY SumEmpty
<1>4. PICK x \in U : TRUE BY <1>3
<1>5. IsFiniteSet(U \ {x}) BY <1>2, FS_Subset
<1>6. Sf(U \ {x}) \in Nat /\ Sg(U \ {x}) \in Nat BY <1>2, <1>5, SumNat
<1>7. Sf(U \ {x}) <= Sg(U \ {x}) BY <1>1, <1>4, <1>2
<1>8. Sf(U) = f[x] + Sf(U \ {x}) BY <1>2, <1>4, SumRemove
<1>9. Sg(U) = g[x] + Sg(U \ {x}) BY <1>2, <1>4, SumRemove
<1>10. f[x] \in Nat /\ g[x] \in Nat /\ f[x] <= g[x] BY <1>2
<1>11. ~(Sf(U) <= Sg(U)) OBVIOUS
<1> HIDE DEF Sf, Sg, Bad
<1> QED BY <1>6, <1>7, <1>8, <1>9, <1>10, <1>11
=============================================================================
