---------------------------- MODULE FoldTheorems ----------------------------
(***************************************************************************)
(* Sums over finite sets, and loops over 1..n, for the proofs about totals *)
(* and logs.  Induction is by a least counterexample: a set without one is *)
(* all there is.  A recursive definition is the function that satisfies    *)
(* its equation, which is shown to exist and then to be the only one.      *)
(***************************************************************************)
EXTENDS FiniteSetsExt, FiniteSetTheorems, NaturalsInduction, TLAPS

Sum(f, S) == MapThenSumSet(LAMBDA x : f[x], S)

IntOn(f, S) == \A x \in S : f[x] \in Int

---------------------------------------------------------------------------
(* Induction over the subsets of a finite set, as a least counterexample.  *)

\* A set of subsets that is not empty has one of which it holds no proper part.
LEMMA LeastSubset ==
  ASSUME NEW S, IsFiniteSet(S), NEW B, B \subseteq SUBSET S, B # {}
  PROVE  \E T \in B : \A U \in B : U \subseteq T => U = T
<1>1. IsWellFoundedOn(StrictSubsetOrdering(S), SUBSET S)
  BY FS_StrictSubsetOrderingWellFounded, FS_FiniteSubsetsOfFinite
<1>2. \E T \in B : \A U \in B : ~(<<U, T>> \in StrictSubsetOrdering(S))
  BY <1>1, WFMin
<1> QED BY <1>2 DEF StrictSubsetOrdering

---------------------------------------------------------------------------
(* The function MapThenFoldSet recurses with. *)

Pick(s) == CHOOSE x \in s : TRUE

IsIter(g, f, S) ==
  g = [s \in SUBSET S |-> IF s = {} THEN 0 ELSE f[Pick(s)] + g[s \ {Pick(s)}]]

LEMMA PickIn == ASSUME NEW s, s # {} PROVE Pick(s) \in s
BY DEF Pick

LEMMA SumIter ==
  ASSUME NEW f, NEW S
  PROVE  Sum(f, S) = (CHOOSE g : IsIter(g, f, S))[S]
BY DEF Sum, MapThenSumSet, MapThenFoldSet, IsIter, Pick

LEMMA IterUnique ==
  ASSUME NEW S, IsFiniteSet(S), NEW f, NEW T \in SUBSET S,
         NEW g, IsIter(g, f, S), NEW h, IsIter(h, f, T), NEW s \in SUBSET T
  PROVE  g[s] = h[s]
<1> DEFINE B == {u \in SUBSET T : g[u] # h[u]}
<1>1. SUFFICES ASSUME B # {} PROVE FALSE
  OBVIOUS
<1>2. IsFiniteSet(T) /\ B \subseteq SUBSET T
  BY FS_Subset
<1> HIDE DEF B
<1>3. PICK u \in B : \A v \in B : v \subseteq u => v = u
  BY <1>1, <1>2, LeastSubset
<1> USE DEF B
<1>4. u # {}
  BY <1>3 DEF IsIter
<1>5. u \ {Pick(u)} \subseteq u /\ u \ {Pick(u)} # u
  BY <1>4, PickIn
<1>6. g[u \ {Pick(u)}] = h[u \ {Pick(u)}]
  BY <1>3, <1>5
<1>7. g[u] = f[Pick(u)] + g[u \ {Pick(u)}]
  BY <1>3, <1>4 DEF IsIter
<1>8. h[u] = f[Pick(u)] + h[u \ {Pick(u)}]
  BY <1>3, <1>4 DEF IsIter
<1>9. g[u] # h[u]
  BY <1>3
<1> QED BY <1>6, <1>7, <1>8, <1>9, Zenon

LEMMA SumIsIter ==
  ASSUME NEW S, IsFiniteSet(S), NEW f, NEW g, IsIter(g, f, S)
  PROVE  Sum(f, S) = g[S]
<1> DEFINE c == CHOOSE h : IsIter(h, f, S)
<1>1. IsIter(c, f, S)
  OBVIOUS
<1>2. Sum(f, S) = c[S]
  BY SumIter
<1> HIDE DEF c
<1>3. c[S] = g[S]
  BY <1>1, IterUnique
<1> QED BY <1>2, <1>3

LEMMA IterRestricts ==
  ASSUME NEW S, NEW f, NEW g, IsIter(g, f, S), NEW T \in SUBSET S
  PROVE  IsIter([s \in SUBSET T |-> g[s]], f, T)
<1> DEFINE h == [s \in SUBSET T |-> g[s]]
<1>1. ASSUME NEW s \in SUBSET T
      PROVE h[s] = IF s = {} THEN 0 ELSE f[Pick(s)] + h[s \ {Pick(s)}]
  <2>1. s \in SUBSET S /\ s \ {Pick(s)} \in SUBSET T
    OBVIOUS
  <2> QED BY <2>1 DEF IsIter
<1> QED BY <1>1 DEF IsIter

LEMMA IterExists ==
  ASSUME NEW S, IsFiniteSet(S), NEW f
  PROVE  \E g : IsIter(g, f, S)
<1> DEFINE B == {T \in SUBSET S : ~ \E g : IsIter(g, f, T)}
<1>1. SUFFICES ASSUME B # {} PROVE FALSE
  OBVIOUS
<1>0. B \subseteq SUBSET S
  OBVIOUS
<1> HIDE DEF B
<1>2. PICK T \in B : \A U \in B : U \subseteq T => U = T
  BY <1>0, <1>1, LeastSubset
<1> USE DEF B
<1>3. \A U \in SUBSET T : U # T => \E g : IsIter(g, f, U)
  BY <1>2
<1>4. \A U \in SUBSET T : IsFiniteSet(U)
  BY <1>2, FS_Subset
<1> DEFINE step == IF T = {} THEN 0 ELSE f[Pick(T)] + Sum(f, T \ {Pick(T)})
           h == [s \in SUBSET T |-> IF s = T THEN step ELSE Sum(f, s)]
<1>5. ASSUME NEW s \in SUBSET T
      PROVE h[s] = IF s = {} THEN 0 ELSE f[Pick(s)] + h[s \ {Pick(s)}]
  <2>1. s # {} => Pick(s) \in s
    BY PickIn
  <2> DEFINE r == s \ {Pick(s)}
  <2>2. r \in SUBSET T /\ r \in SUBSET s
    OBVIOUS
  <2>3. CASE s = T
    BY <2>1, <2>3
  <2>4. CASE s # T
    <3>1. PICK g : IsIter(g, f, s)
      BY <1>3, <2>4
    <3>2. Sum(f, s) = g[s]
      BY <3>1, <1>4, SumIsIter
    <3>3. g[s] = IF s = {} THEN 0 ELSE f[Pick(s)] + g[r]
      BY <3>1 DEF IsIter
    <3>4. IsIter([u \in SUBSET r |-> g[u]], f, r)
      BY <3>1, <2>2, IterRestricts
    <3>5. Sum(f, r) = g[r]
      BY <3>4, <2>2, <1>4, SumIsIter
    <3>6. s # {} => r # T
      BY <2>1
    <3> QED BY <2>2, <2>4, <3>2, <3>3, <3>5, <3>6
  <2> QED BY <2>3, <2>4
<1> HIDE DEF h
<1>6. h = [s \in SUBSET T |-> IF s = {} THEN 0 ELSE f[Pick(s)] + h[s \ {Pick(s)}]]
  <2>1. h = [s \in SUBSET T |-> h[s]]
    BY DEF h
  <2> QED BY <1>5, <2>1
<1>7. IsIter(h, f, T)
  BY <1>6 DEF IsIter
<1> QED BY <1>2, <1>7

---------------------------------------------------------------------------
(* What MapThenSumSet computes. *)

LEMMA SumEmpty == ASSUME NEW f PROVE Sum(f, {}) = 0
<1>1. PICK g : IsIter(g, f, {})
  BY IterExists, FS_EmptySet
<1>2. g[{}] = 0
  BY <1>1 DEF IsIter
<1> QED BY <1>1, <1>2, SumIsIter, FS_EmptySet

LEMMA SumPick ==
  ASSUME NEW S, IsFiniteSet(S), S # {}, NEW f
  PROVE  Sum(f, S) = f[Pick(S)] + Sum(f, S \ {Pick(S)})
<1> DEFINE r == S \ {Pick(S)}
<1>1. PICK g : IsIter(g, f, S)
  BY IterExists
<1>2. g[S] = f[Pick(S)] + g[r]
  BY <1>1 DEF IsIter
<1>3. r \in SUBSET S /\ IsFiniteSet(r)
  BY FS_Subset
<1>4. Sum(f, S) = g[S]
  BY <1>1, SumIsIter
<1> HIDE DEF r
<1>5. Sum(f, r) = g[r]
  <2>1. IsIter([u \in SUBSET r |-> g[u]], f, r)
    BY <1>1, <1>3, IterRestricts
  <2> QED BY <1>3, <2>1, SumIsIter
<1>6. Sum(f, S) = f[Pick(S)] + Sum(f, r)
  BY <1>2, <1>4, <1>5, Zenon
<1> QED BY <1>6 DEF r

\* The rest are facts of arithmetic: a sum of integers is one,
LEMMA SumInt ==
  ASSUME NEW S, IsFiniteSet(S), NEW f, IntOn(f, S)
  PROVE  Sum(f, S) \in Int
<1> DEFINE B == {T \in SUBSET S : Sum(f, T) \notin Int}
<1>1. SUFFICES ASSUME B # {} PROVE FALSE
  OBVIOUS
<1>0. B \subseteq SUBSET S
  OBVIOUS
<1> HIDE DEF B
<1>2. PICK T \in B : \A U \in B : U \subseteq T => U = T
  BY <1>0, <1>1, LeastSubset
<1> USE DEF B
<1>7. Sum(f, T) \notin Int
  BY <1>2
<1>3. T # {}
  BY <1>7, SumEmpty
<1>4. Pick(T) \in T
  BY <1>3, PickIn
<1>5. Sum(f, T \ {Pick(T)}) \in Int
  BY <1>2, <1>4
<1>6. Sum(f, T) = f[Pick(T)] + Sum(f, T \ {Pick(T)})
  BY <1>2, <1>3, SumPick, FS_Subset
<1> QED BY <1>2, <1>4, <1>5, <1>6 DEF IntOn

\* and any element may be taken off first.
LEMMA SumRemove ==
  ASSUME NEW S, IsFiniteSet(S), NEW f, IntOn(f, S), NEW x \in S
  PROVE  Sum(f, S) = f[x] + Sum(f, S \ {x})
<1> DEFINE Good(T) == \A y \in T : Sum(f, T) = f[y] + Sum(f, T \ {y})
           B == {T \in SUBSET S : ~Good(T)}
<1>1. SUFFICES ASSUME B # {} PROVE FALSE
  OBVIOUS
<1>0. B \subseteq SUBSET S
  OBVIOUS
<1> HIDE DEF B
<1>2. PICK T \in B : \A U \in B : U \subseteq T => U = T
  BY <1>0, <1>1, LeastSubset
<1> USE DEF B
<1>3. \A U \in SUBSET T : U # T => Good(U)
  BY <1>2
<1>4. PICK y \in T : Sum(f, T) # f[y] + Sum(f, T \ {y})
  BY <1>2
<1> DEFINE p == Pick(T)
<1>5. p \in T
  BY <1>4, PickIn
<1>6. Sum(f, T) = f[p] + Sum(f, T \ {p})
  BY <1>2, <1>4, SumPick, FS_Subset
<1> HIDE DEF p
<1>7. p # y
  BY <1>4, <1>6
<1>8. Sum(f, T \ {p}) = f[y] + Sum(f, (T \ {p}) \ {y})
  <2>1. Good(T \ {p})
    BY <1>3, <1>5
  <2> QED BY <2>1, <1>4, <1>7
<1>9. Sum(f, T \ {y}) = f[p] + Sum(f, (T \ {y}) \ {p})
  <2>1. Good(T \ {y})
    BY <1>3, <1>4
  <2> QED BY <2>1, <1>5, <1>7
<1>10. (T \ {y}) \ {p} = (T \ {p}) \ {y}
  OBVIOUS
<1>11. f[p] \in Int /\ f[y] \in Int
  BY <1>4, <1>5, <1>2 DEF IntOn
<1> DEFINE r == Sum(f, (T \ {p}) \ {y})
<1>12. r \in Int
  <2>1. IsFiniteSet((T \ {p}) \ {y}) /\ IntOn(f, (T \ {p}) \ {y})
    BY <1>2, FS_Subset DEF IntOn
  <2> QED BY <2>1, SumInt
<1>13. Sum(f, T) = f[p] + (f[y] + r) /\ Sum(f, T \ {y}) = f[p] + r
  BY <1>6, <1>8, <1>9, <1>10, Zenon
<1> HIDE DEF r
<1>14. f[p] + (f[y] + r) = f[y] + (f[p] + r)
  BY <1>11, <1>12
<1> QED BY <1>4, <1>13, <1>14

\* Functions that agree on a set have the same sum over it.
LEMMA SumAgree ==
  ASSUME NEW S, IsFiniteSet(S), NEW f, NEW g, \A x \in S : f[x] = g[x]
  PROVE  Sum(f, S) = Sum(g, S)
<1> DEFINE B == {T \in SUBSET S : Sum(f, T) # Sum(g, T)}
<1>1. SUFFICES ASSUME B # {} PROVE FALSE
  OBVIOUS
<1>2. B \subseteq SUBSET S
  OBVIOUS
<1> HIDE DEF B
<1>3. PICK T \in B : \A U \in B : U \subseteq T => U = T
  BY <1>1, <1>2, LeastSubset
<1> USE DEF B
<1>4. T # {}
  BY <1>3, SumEmpty
<1> DEFINE p == Pick(T)
<1>5. p \in T /\ f[p] = g[p]
  BY <1>4, PickIn
<1>6. IsFiniteSet(T)
  BY FS_Subset
<1>7. Sum(f, T) = f[p] + Sum(f, T \ {p}) /\ Sum(g, T) = g[p] + Sum(g, T \ {p})
  BY <1>4, <1>6, SumPick
<1> HIDE DEF p
<1>8. Sum(f, T \ {p}) = Sum(g, T \ {p})
  BY <1>3, <1>5
<1> QED BY <1>3, <1>5, <1>7, <1>8, Zenon

\* Changing the value at one point changes the sum by as much.
LEMMA SumChange ==
  ASSUME NEW S, IsFiniteSet(S), NEW f, NEW g, IntOn(f, S), NEW x \in S, g[x] \in Int,
         \A y \in S \ {x} : g[y] = f[y]
  PROVE  Sum(g, S) = Sum(f, S) - f[x] + g[x]
<1>1. IntOn(g, S)
  BY DEF IntOn
<1>2. IsFiniteSet(S \ {x}) /\ IntOn(f, S \ {x})
  BY FS_Subset DEF IntOn
<1>3. Sum(f, S \ {x}) \in Int /\ Sum(g, S \ {x}) = Sum(f, S \ {x})
  BY <1>2, SumInt, SumAgree
<1>4. Sum(f, S) = f[x] + Sum(f, S \ {x}) /\ Sum(g, S) = g[x] + Sum(g, S \ {x})
  BY <1>1, SumRemove
<1> QED BY <1>3, <1>4 DEF IntOn

\* A sum of zeros is zero.
LEMMA SumZero ==
  ASSUME NEW S, IsFiniteSet(S), NEW f, \A x \in S : f[x] = 0
  PROVE  Sum(f, S) = 0
<1> DEFINE B == {T \in SUBSET S : Sum(f, T) # 0}
<1>1. SUFFICES ASSUME B # {} PROVE FALSE
  OBVIOUS
<1>2. B \subseteq SUBSET S
  OBVIOUS
<1> HIDE DEF B
<1>3. PICK T \in B : \A U \in B : U \subseteq T => U = T
  BY <1>1, <1>2, LeastSubset
<1> USE DEF B
<1>4. T # {}
  BY <1>3, SumEmpty
<1> DEFINE p == Pick(T)
<1>5. p \in T /\ f[p] = 0
  BY <1>4, PickIn
<1>6. Sum(f, T) = f[p] + Sum(f, T \ {p})
  BY <1>4, SumPick, FS_Subset
<1> HIDE DEF p
<1>7. Sum(f, T \ {p}) = 0
  BY <1>3, <1>5
<1> QED BY <1>3, <1>5, <1>6, <1>7

\* A sum of natural numbers is one, and no part of it exceeds it.
LEMMA SumNat ==
  ASSUME NEW S, IsFiniteSet(S), NEW f, \A x \in S : f[x] \in Nat
  PROVE  /\ Sum(f, S) \in Nat
         /\ \A x \in S : f[x] <= Sum(f, S)
<1> DEFINE B == {T \in SUBSET S : Sum(f, T) \notin Nat}
<1>1. \A T \in SUBSET S : Sum(f, T) \in Nat
  <2>1. SUFFICES ASSUME B # {} PROVE FALSE
    OBVIOUS
  <2>2. B \subseteq SUBSET S
    OBVIOUS
  <2> HIDE DEF B
  <2>3. PICK T \in B : \A U \in B : U \subseteq T => U = T
    BY <2>1, <2>2, LeastSubset
  <2> USE DEF B
  <2>4. T # {}
    <3>1. Sum(f, T) # 0
      BY <2>3
    <3> QED BY <3>1, SumEmpty
  <2> DEFINE p == Pick(T)
  <2>5. p \in T /\ f[p] \in Nat
    BY <2>4, PickIn
  <2>6. Sum(f, T) = f[p] + Sum(f, T \ {p})
    BY <2>4, SumPick, FS_Subset
  <2> HIDE DEF p
  <2>7. Sum(f, T \ {p}) \in Nat
    BY <2>3, <2>5
  <2> QED BY <2>3, <2>5, <2>6, <2>7
<1>2. ASSUME NEW x \in S PROVE f[x] <= Sum(f, S)
  <2>1. Sum(f, S) = f[x] + Sum(f, S \ {x})
    BY SumRemove DEF IntOn
  <2> QED BY <1>1, <2>1
<1> QED BY <1>1, <1>2

\* What is zero outside a subset has the sum over the subset.
LEMMA SumSupport ==
  ASSUME NEW S, IsFiniteSet(S), NEW f, IntOn(f, S), NEW T, T \subseteq S,
         \A x \in S \ T : f[x] = 0
  PROVE  Sum(f, S) = Sum(f, T)
<1> DEFINE B == {U \in SUBSET S : Sum(f, U) # Sum(f, U \cap T)}
<1>1. SUFFICES ASSUME B # {} PROVE FALSE
  <2>1. S \cap T = T
    OBVIOUS
  <2> QED BY <2>1
<1>2. B \subseteq SUBSET S
  OBVIOUS
<1> HIDE DEF B
<1>3. PICK U \in B : \A V \in B : V \subseteq U => V = U
  BY <1>1, <1>2, LeastSubset
<1> USE DEF B
<1>4. PICK x \in U : x \notin T
  <2>1. U \cap T # U
    BY <1>3
  <2> QED BY <2>1
<1>5. U \ {x} \in SUBSET S /\ U \ {x} # U /\ (U \ {x}) \cap T = U \cap T
  BY <1>4
<1>6. Sum(f, U \ {x}) = Sum(f, U \cap T)
  BY <1>3, <1>5
<1>7. IsFiniteSet(U) /\ IntOn(f, U) /\ f[x] = 0
  BY <1>4, FS_Subset DEF IntOn
<1>8. Sum(f, U) = 0 + Sum(f, U \ {x})
  BY <1>4, <1>7, SumRemove
<1>9. Sum(f, U \ {x}) \in Int
  <2>1. IsFiniteSet(U \ {x}) /\ IntOn(f, U \ {x})
    BY <1>7, FS_Subset DEF IntOn
  <2> QED BY <2>1, SumInt
<1> QED BY <1>3, <1>6, <1>8, <1>9

\* A function that is nowhere larger has no larger a sum.
LEMMA SumMonotone ==
  ASSUME NEW S, IsFiniteSet(S), NEW f, NEW g, IntOn(f, S), IntOn(g, S),
         \A x \in S : f[x] <= g[x]
  PROVE  Sum(f, S) <= Sum(g, S)
<1> DEFINE B == {T \in SUBSET S : ~(Sum(f, T) <= Sum(g, T))}
<1>1. SUFFICES ASSUME B # {} PROVE FALSE
  OBVIOUS
<1>2. B \subseteq SUBSET S
  OBVIOUS
<1> HIDE DEF B
<1>3. PICK T \in B : \A U \in B : U \subseteq T => U = T
  BY <1>1, <1>2, LeastSubset
<1> USE DEF B
<1>4. T # {}
  <2>1. ~(Sum(f, T) <= Sum(g, T))
    BY <1>3
  <2> QED BY <2>1, SumEmpty
<1>5. PICK x \in T : TRUE
  BY <1>4
<1>6. T \ {x} \in SUBSET S /\ T \ {x} # T
  OBVIOUS
<1>7. Sum(f, T \ {x}) <= Sum(g, T \ {x})
  BY <1>3, <1>6
<1>8. IsFiniteSet(T) /\ IsFiniteSet(T \ {x}) /\ IntOn(f, T) /\ IntOn(g, T)
  BY FS_Subset DEF IntOn
<1>9. Sum(f, T \ {x}) \in Int /\ Sum(g, T \ {x}) \in Int
  BY <1>8, SumInt DEF IntOn
<1>10. Sum(f, T) = f[x] + Sum(f, T \ {x}) /\ Sum(g, T) = g[x] + Sum(g, T \ {x})
  BY <1>8, SumRemove
<1> QED BY <1>3, <1>7, <1>9, <1>10 DEF IntOn

---------------------------------------------------------------------------
(* A loop over 1..n whose step keeps its value in a set V: the function of   *)
(* the number of rounds that a recursive definition stands for exists.       *)

IsLoop(g, base, step, n) ==
  \A i \in 0..n : g[i] = IF i = 0 THEN base ELSE step[<<i, g[i - 1]>>]

\* A set of natural numbers that is not empty has a least element.
LEMMA LeastNat ==
  ASSUME NEW B, B \subseteq Nat, B # {}
  PROVE  \E m \in B : \A k \in 0..(m - 1) : k \notin B
<1>1. PICK m \in B : \A k \in B : ~(<<k, m>> \in OpToRel(<, Nat))
  BY NatLessThanWellFounded, WFMin
<1>2. \A k \in 0..(m - 1) : k \in Nat /\ k < m
  BY SMT
<1>3. \A k \in 0..(m - 1) : k \notin B
  BY <1>1, <1>2 DEF OpToRel
<1> QED BY <1>3

\* Every loop has such a function.
LEMMA LoopExists ==
  ASSUME NEW n \in Nat, NEW V, NEW base \in V, NEW step \in [(1..n) \X V -> V]
  PROVE  \E g \in [0..n -> V] : IsLoop(g, base, step, n)
<1> DEFINE Has(m) == \E g \in [0..m -> V] : IsLoop(g, base, step, m)
           B == {m \in 0..n : ~Has(m)}
<1>1. SUFFICES ASSUME B # {} PROVE FALSE
  BY SMT
<1>2. B \subseteq Nat
  OBVIOUS
<1> HIDE DEF B
<1>3. PICK m \in B : \A k \in 0..(m - 1) : k \notin B
  BY <1>1, <1>2, LeastNat
<1> USE DEF B
<1>4. m \in 0..n /\ ~Has(m)
  BY <1>3
<1>5. m # 0
  <2> DEFINE z == [i \in 0..0 |-> base]
  <2>1. z \in [0..0 -> V] /\ IsLoop(z, base, step, 0)
    BY DEF IsLoop
  <2> HIDE DEF z
  <2> QED BY <1>4, <2>1
<1>6. m - 1 \in 0..n /\ m - 1 \in 0..(m - 1) /\ m \in 1..n
  BY <1>4, <1>5
<1>7. PICK g \in [0..(m - 1) -> V] : IsLoop(g, base, step, m - 1)
  BY <1>3, <1>6
<1>8. step[<<m, g[m - 1]>>] \in V
  BY <1>6, <1>7
<1> DEFINE h == [i \in 0..m |-> IF i = m THEN step[<<m, g[m - 1]>>] ELSE g[i]]
<1>9. h \in [0..m -> V]
  BY <1>4, <1>7, <1>8
<1>10. IsLoop(h, base, step, m)
  <2> SUFFICES ASSUME NEW i \in 0..m
               PROVE  h[i] = IF i = 0 THEN base ELSE step[<<i, h[i - 1]>>]
    BY DEF IsLoop
  <2>1. CASE i = m
    <3>1. h[i] = step[<<m, g[m - 1]>>] /\ h[m - 1] = g[m - 1]
      BY <1>4, <1>5, <1>6, <2>1
    <3> HIDE DEF h
    <3> QED BY <1>5, <2>1, <3>1
  <2>2. CASE i # m
    <3>1. i \in 0..(m - 1) /\ (i # 0 => i - 1 \in 0..(m - 1))
      BY <1>4, <2>2
    <3>2. h[i] = g[i] /\ (i # 0 => h[i - 1] = g[i - 1])
      BY <1>4, <2>2, <3>1
    <3> HIDE DEF h
    <3> QED BY <1>7, <3>1, <3>2 DEF IsLoop
  <2> QED BY <2>1, <2>2
<1> HIDE DEF h
<1> QED BY <1>4, <1>9, <1>10

\* Induction up to n: a set that holds 0, and with every number the next one.
LEMMA UpTo ==
  ASSUME NEW n \in Nat, NEW P, 0 \in P, \A i \in 1..n : i - 1 \in P => i \in P
  PROVE  \A i \in 0..n : i \in P
<1> DEFINE B == (0..n) \ P
<1>1. SUFFICES ASSUME B # {} PROVE FALSE
  OBVIOUS
<1>2. B \subseteq Nat
  OBVIOUS
<1> HIDE DEF B
<1>3. PICK i \in B : \A k \in 0..(i - 1) : k \notin B
  BY <1>1, <1>2, LeastNat
<1> USE DEF B
<1>4. i # 0 /\ i \in 0..n /\ i \notin P
  BY <1>3
<1>5. i \in 1..n /\ i - 1 \in 0..(i - 1) /\ i - 1 \in 0..n
  BY <1>4
<1>6. i - 1 \in P
  BY <1>3, <1>5
<1> QED BY <1>4, <1>5, <1>6
=============================================================================
