----------------------------- MODULE SumProofs -----------------------------
(***************************************************************************)
(* Sums over finite sets: what the library's fold returns, when a summand  *)
(* is added, taken away or changed. Folds over sequences: the values after *)
(* each of the steps. Remainders.                                          *)
(***************************************************************************)
EXTENDS Integers, Functions, FiniteSetsExt, FiniteSetTheorems, WellFoundedInduction, TLAPS

\* The recursion behind a sum over the subsets of V: an element that CHOOSE
\* picks, and then the rest.
Pick(s) == CHOOSE x \in s : TRUE
Solves(g, f, V) ==
    g = [s \in SUBSET V |->
            IF s = {} THEN 0 ELSE f[Pick(s)] + g[s \ {Pick(s)}]]

\* The library's sum is the value of such a function, whichever CHOOSE picks.
LEMMA SumIsSolution ==
    ASSUME NEW f, NEW S
    PROVE  SumFunctionOnSet(f, S) = (CHOOSE g : Solves(g, f, S))[S]
  BY DEF SumFunctionOnSet, FoldFunctionOnSet, MapThenFoldSet, Solves, Pick

\* The element that the fold takes first.
LEMMA PickIn ==
    ASSUME NEW s, s # {}
    PROVE  Pick(s) \in s
  BY DEF Pick

\* A nonempty set of finite sets has a member that strictly contains no other.
LEMMA SmallestSet ==
    ASSUME NEW S, IsFiniteSet(S), NEW T, T \subseteq SUBSET S, T # {}
    PROVE  \E x \in T : \A y \in T : y \subseteq x => y = x
<1>1. IsWellFoundedOn(StrictSubsetOrdering(S), SUBSET S)
  BY FS_StrictSubsetOrderingWellFounded, FS_FiniteSubsetsOfFinite
<1>2. PICK x \in T : \A y \in T : ~(<<y, x>> \in StrictSubsetOrdering(S))
  BY <1>1, WFMin
<1>3. \A y \in T : y \subseteq x => y = x
  <2>1. SUFFICES ASSUME NEW y \in T, y \subseteq x, y # x
                 PROVE  <<y, x>> \in StrictSubsetOrdering(S)
    BY <1>2
  <2>2. y \in SUBSET S /\ x \in SUBSET S
    BY <2>1
  <2> QED
    BY <2>1, <2>2 DEF StrictSubsetOrdering
<1> QED
  BY <1>3

\* Two functions that solve the recursion agree where both are defined.
LEMMA SolutionsAgree ==
    ASSUME NEW f, NEW V, NEW W, IsFiniteSet(V), NEW g, NEW h,
           Solves(g, f, V), Solves(h, f, W)
    PROVE  \A s \in SUBSET (V \cap W) : g[s] = h[s]
<1> DEFINE T == {s \in SUBSET (V \cap W) : g[s] # h[s]}
<1>1. SUFFICES ASSUME T # {}
               PROVE  FALSE
  OBVIOUS
<1>2. T \subseteq SUBSET V
  OBVIOUS
<1>3. PICK s \in T : \A y \in T : y \subseteq s => y = s
  <2> HIDE DEF T
  <2> QED
    BY <1>1, <1>2, SmallestSet, FS_Subset
<1> DEFINE t == s \ {Pick(s)}
<1>4. s \in SUBSET V /\ s \in SUBSET W
  BY <1>3
<1>5. g[s] = IF s = {} THEN 0 ELSE f[Pick(s)] + g[t]
  BY <1>4 DEF Solves
<1>6. h[s] = IF s = {} THEN 0 ELSE f[Pick(s)] + h[t]
  BY <1>4 DEF Solves
<1>7. CASE s = {}
  BY <1>3, <1>5, <1>6, <1>7
<1>8. CASE s # {}
  <2>1. t # s /\ t \subseteq s
    BY <1>8, PickIn
  <2>2. g[t] = h[t]
    BY <1>3, <2>1
  <2> QED
    BY <1>3, <1>5, <1>6, <1>8, <2>2
<1> QED
  BY <1>7, <1>8

\* There is one: glued together from those for the smaller sets.
LEMMA SolutionExists ==
    ASSUME NEW f, NEW S, IsFiniteSet(S)
    PROVE  \E g : Solves(g, f, S)
<1> DEFINE T == {V \in SUBSET S : ~ \E g : Solves(g, f, V)}
<1>1. SUFFICES ASSUME T # {}
               PROVE  FALSE
  OBVIOUS
<1>2. PICK V \in T : \A y \in T : y \subseteq V => y = V
  <2>1. T \subseteq SUBSET S
    OBVIOUS
  <2> HIDE DEF T
  <2> QED
    BY <1>1, <2>1, SmallestSet
<1> DEFINE H(W) == CHOOSE g : Solves(g, f, W)
           G == [s \in SUBSET V |->
                  IF s = {} THEN 0 ELSE f[Pick(s)] + H(s \ {Pick(s)})[s \ {Pick(s)}]]
<1>3. ASSUME NEW s \in SUBSET V, s # V PROVE Solves(H(s), f, s)
  <2>1. s \in SUBSET S /\ s \notin T
    BY <1>2, <1>3
  <2>2. \E g : Solves(g, f, s)
    BY <2>1
  <2> QED
    BY <2>2
<1>4. ASSUME NEW t \in SUBSET V, t # V PROVE G[t] = H(t)[t]
  <2>1. CASE t = {}
    <3>1. H(t) = [s \in SUBSET t |->
                    IF s = {} THEN 0 ELSE f[Pick(s)] + H(t)[s \ {Pick(s)}]]
      BY <1>3, <1>4 DEF Solves
    <3>2. H(t)[t] = 0
      <4> HIDE DEF H
      <4> QED
        BY <3>1, <2>1
    <3>3. G[t] = 0
      <4> HIDE DEF H
      <4> QED
        BY <1>4, <2>1
    <3> QED
      BY <3>2, <3>3
  <2>2. CASE t # {}
    <3> DEFINE u == t \ {Pick(t)}
    <3>1. u \in SUBSET V /\ u # V /\ u \in SUBSET t /\ u \in SUBSET u
      BY <1>4
    <3>2. Solves(H(t), f, t) /\ Solves(H(u), f, u)
      BY <1>3, <1>4, <3>1
    <3>3. IsFiniteSet(t)
      BY <1>2, FS_Subset
    <3>4. H(t)[u] = H(u)[u]
      <4> HIDE DEF H, u
      <4> QED
        BY <3>1, <3>2, <3>3, SolutionsAgree
    <3>5. H(t)[t] = f[Pick(t)] + H(t)[u]
      <4> HIDE DEF H
      <4> QED
        BY <3>2, <2>2 DEF Solves
    <3>6. G[t] = f[Pick(t)] + H(u)[u]
      <4> HIDE DEF H
      <4> QED
        BY <2>2
    <3> QED
      BY <3>4, <3>5, <3>6
  <2> QED
    BY <2>1, <2>2
<1>5. Solves(G, f, V)
  <2>1. \A s \in SUBSET V : s # {} => G[s \ {Pick(s)}] = H(s \ {Pick(s)})[s \ {Pick(s)}]
    <3>1. TAKE s \in SUBSET V
    <3>2. HAVE s # {}
    <3>3. s \ {Pick(s)} \in SUBSET V /\ s \ {Pick(s)} # V
      BY <3>2, PickIn
    <3> HIDE DEF G, H
    <3> QED
      BY <1>4, <3>3
  <2>2. G = [s \in SUBSET V |->
              IF s = {} THEN 0 ELSE f[Pick(s)] + G[s \ {Pick(s)}]]
    <3> HIDE DEF H
    <3>1. \A s \in SUBSET V : (IF s = {} THEN 0 ELSE f[Pick(s)] + H(s \ {Pick(s)})[s \ {Pick(s)}])
            = IF s = {} THEN 0 ELSE f[Pick(s)] + G[s \ {Pick(s)}]
      <4> HIDE DEF G
      <4> QED
        BY <2>1
    <3> QED
      BY <3>1
  <2> QED
    BY <2>2 DEF Solves
<1>6. \E g : Solves(g, f, V)
  BY <1>5
<1> QED
  BY <1>2, <1>6

\* One function gives the sums over all subsets of a finite set.
LEMMA SumSolves ==
    ASSUME NEW f, NEW S, IsFiniteSet(S)
    PROVE  \E g : Solves(g, f, S) /\ \A V \in SUBSET S : SumFunctionOnSet(f, V) = g[V]
<1> DEFINE H(W) == CHOOSE g : Solves(g, f, W)
<1>1. \A V \in SUBSET S : IsFiniteSet(V)
  BY FS_Subset
<1>2. \A V \in SUBSET S : Solves(H(V), f, V)
  BY <1>1, SolutionExists
<1>3. \A V \in SUBSET S : SumFunctionOnSet(f, V) = H(V)[V]
  BY SumIsSolution
<1>4. Solves(H(S), f, S)
  BY <1>2
<1>5. \A V \in SUBSET S : H(V)[V] = H(S)[V]
  <2>1. TAKE V \in SUBSET S
  <2>2. Solves(H(V), f, V) /\ Solves(H(S), f, S)
    BY <1>2
  <2>3. IsFiniteSet(V) /\ V \in SUBSET (V \cap S)
    BY <1>1
  <2> HIDE DEF H
  <2> QED
    BY <2>2, <2>3, SolutionsAgree
<1> HIDE DEF H
<1> QED
  BY <1>3, <1>4, <1>5

LEMMA SumEmpty ==
    ASSUME NEW f
    PROVE  SumFunctionOnSet(f, {}) = 0
<1>1. PICK g : Solves(g, f, {}) /\ SumFunctionOnSet(f, {}) = g[{}]
  BY SumSolves, FS_EmptySet
<1> QED
  BY <1>1 DEF Solves

LEMMA SumUnfold ==
    ASSUME NEW f, NEW S, IsFiniteSet(S), S # {}
    PROVE  SumFunctionOnSet(f, S) = f[Pick(S)] + SumFunctionOnSet(f, S \ {Pick(S)})
<1>1. PICK g : Solves(g, f, S) /\ \A V \in SUBSET S : SumFunctionOnSet(f, V) = g[V]
  BY SumSolves
<1>2. g[S] = f[Pick(S)] + g[S \ {Pick(S)}]
  BY <1>1 DEF Solves
<1>3. S \ {Pick(S)} \in SUBSET S /\ S \in SUBSET S
  OBVIOUS
<1> QED
  BY <1>1, <1>2, <1>3

LEMMA SumType ==
    ASSUME NEW f, NEW S, IsFiniteSet(S), \A x \in S : f[x] \in Int
    PROVE  SumFunctionOnSet(f, S) \in Int
<1> DEFINE T == {V \in SUBSET S : SumFunctionOnSet(f, V) \notin Int}
<1>1. SUFFICES ASSUME T # {}
               PROVE  FALSE
  OBVIOUS
<1>2. PICK V \in T : \A W \in T : W \subseteq V => W = V
  <2>1. T \subseteq SUBSET S
    OBVIOUS
  <2> HIDE DEF T
  <2> QED
    BY <1>1, <2>1, SmallestSet
<1>3. IsFiniteSet(V) /\ V # {}
  <2>1. IsFiniteSet(V)
    BY FS_Subset
  <2>2. ASSUME V = {} PROVE FALSE
    BY <1>2, <2>2, SumEmpty
  <2> QED
    BY <2>1, <2>2
<1>4. Pick(V) \in V
  BY <1>3, PickIn
<1>5. SumFunctionOnSet(f, V \ {Pick(V)}) \in Int
  BY <1>2, <1>4
<1>6. SumFunctionOnSet(f, V) = f[Pick(V)] + SumFunctionOnSet(f, V \ {Pick(V)})
  BY <1>3, SumUnfold
<1> QED
  BY <1>4, <1>5, <1>6

LEMMA SumNat ==
    ASSUME NEW f, NEW S, IsFiniteSet(S), \A x \in S : f[x] \in Nat
    PROVE  SumFunctionOnSet(f, S) \in Nat
<1> DEFINE T == {V \in SUBSET S : SumFunctionOnSet(f, V) \notin Nat}
<1>1. SUFFICES ASSUME T # {}
               PROVE  FALSE
  OBVIOUS
<1>2. PICK V \in T : \A W \in T : W \subseteq V => W = V
  <2>1. T \subseteq SUBSET S
    OBVIOUS
  <2> HIDE DEF T
  <2> QED
    BY <1>1, <2>1, SmallestSet
<1>3. IsFiniteSet(V) /\ V # {}
  <2>1. IsFiniteSet(V)
    BY FS_Subset
  <2>2. ASSUME V = {} PROVE FALSE
    BY <1>2, <2>2, SumEmpty
  <2> QED
    BY <2>1, <2>2
<1>4. Pick(V) \in V
  BY <1>3, PickIn
<1>5. SumFunctionOnSet(f, V \ {Pick(V)}) \in Nat
  BY <1>2, <1>4
<1>6. SumFunctionOnSet(f, V) = f[Pick(V)] + SumFunctionOnSet(f, V \ {Pick(V)})
  BY <1>3, SumUnfold
<1> QED
  BY <1>4, <1>5, <1>6

\* The order in which the elements are taken does not matter.
LEMMA SumRemove ==
    ASSUME NEW f, NEW S, IsFiniteSet(S), \A x \in S : f[x] \in Int,
           NEW x \in S
    PROVE  SumFunctionOnSet(f, S) = f[x] + SumFunctionOnSet(f, S \ {x})
<1> DEFINE Sum(V) == SumFunctionOnSet(f, V)
           T == {V \in SUBSET S : \E y \in V : Sum(V) # f[y] + Sum(V \ {y})}
<1>1. SUFFICES ASSUME T # {}
               PROVE  FALSE
  OBVIOUS
<1>2. PICK V \in T : \A W \in T : W \subseteq V => W = V
  <2>1. T \subseteq SUBSET S
    OBVIOUS
  <2> HIDE DEF T
  <2> QED
    BY <1>1, <2>1, SmallestSet
<1>3. PICK y \in V : Sum(V) # f[y] + Sum(V \ {y})
  BY <1>2
<1>4. V \subseteq S
  OBVIOUS
<1>5. \A W \in SUBSET V : W # V => \A z \in W : Sum(W) = f[z] + Sum(W \ {z})
  <2>1. TAKE W \in SUBSET V
  <2>2. HAVE W # V
  <2>3. W \notin T
    <3> HIDE DEF T
    <3> QED
      BY <1>2, <2>2
  <2> QED
    BY <2>3
<1> HIDE DEF T
<1> DEFINE p == Pick(V)
<1>6. p \in V
  BY <1>3, PickIn
<1> HIDE DEF p
<1>7. IsFiniteSet(V) /\ Sum(V) = f[p] + Sum(V \ {p})
  <2>1. IsFiniteSet(V)
    BY <1>4, FS_Subset
  <2> QED
    BY <1>3, <2>1, SumUnfold DEF p
<1>8. y # p
  BY <1>3, <1>7
<1>9. Sum(V \ {p}) = f[y] + Sum((V \ {p}) \ {y})
  BY <1>3, <1>5, <1>6, <1>8
<1>10. Sum(V \ {y}) = f[p] + Sum((V \ {y}) \ {p})
  BY <1>3, <1>5, <1>6, <1>8
<1>11. Sum((V \ {y}) \ {p}) = Sum((V \ {p}) \ {y})
  <2>1. (V \ {y}) \ {p} = (V \ {p}) \ {y}
    OBVIOUS
  <2> QED
    BY <2>1, Zenon
<1>12. Sum((V \ {p}) \ {y}) \in Int /\ f[p] \in Int /\ f[y] \in Int
  <2>1. IsFiniteSet((V \ {p}) \ {y})
    BY <1>7, FS_Subset
  <2> QED
    BY <1>3, <1>4, <1>6, <2>1, SumType
<1> QED
  BY <1>3, <1>7, <1>9, <1>10, <1>11, <1>12

\* One more element adds its value.
LEMMA SumAdd ==
    ASSUME NEW f, NEW S, IsFiniteSet(S), NEW x, x \notin S,
           \A y \in S \cup {x} : f[y] \in Int
    PROVE  SumFunctionOnSet(f, S \cup {x}) = SumFunctionOnSet(f, S) + f[x]
<1>1. IsFiniteSet(S \cup {x})
  BY FS_AddElement
<1>2. SumFunctionOnSet(f, S \cup {x}) = f[x] + SumFunctionOnSet(f, (S \cup {x}) \ {x})
  BY <1>1, SumRemove
<1>3. SumFunctionOnSet(f, (S \cup {x}) \ {x}) = SumFunctionOnSet(f, S)
  <2>1. (S \cup {x}) \ {x} = S
    OBVIOUS
  <2> QED
    BY <2>1, Zenon
<1>4. SumFunctionOnSet(f, S) \in Int /\ f[x] \in Int
  BY SumType
<1> QED
  BY <1>2, <1>3, <1>4

\* Equal values have equal sums.
LEMMA SumCongruent ==
    ASSUME NEW f, NEW g, NEW S, IsFiniteSet(S), \A x \in S : f[x] = g[x]
    PROVE  SumFunctionOnSet(f, S) = SumFunctionOnSet(g, S)
<1> DEFINE T == {V \in SUBSET S : SumFunctionOnSet(f, V) # SumFunctionOnSet(g, V)}
<1>1. SUFFICES ASSUME T # {}
               PROVE  FALSE
  OBVIOUS
<1>2. PICK V \in T : \A W \in T : W \subseteq V => W = V
  <2>1. T \subseteq SUBSET S
    OBVIOUS
  <2> HIDE DEF T
  <2> QED
    BY <1>1, <2>1, SmallestSet
<1>3. IsFiniteSet(V) /\ V # {}
  <2>1. IsFiniteSet(V)
    BY FS_Subset
  <2>2. ASSUME V = {} PROVE FALSE
    BY <1>2, <2>2, SumEmpty
  <2> QED
    BY <2>1, <2>2
<1>4. Pick(V) \in V
  BY <1>3, PickIn
<1>5. SumFunctionOnSet(f, V \ {Pick(V)}) = SumFunctionOnSet(g, V \ {Pick(V)})
  BY <1>2, <1>4
<1> QED
  BY <1>3, <1>4, <1>5, SumUnfold

\* A sum changes by what the values at one or two elements change.
LEMMA SumOneChanged ==
    ASSUME NEW S, IsFiniteSet(S), NEW f, NEW g, NEW x \in S,
           \A z \in S : f[z] \in Int /\ g[z] \in Int,
           \A z \in S \ {x} : g[z] = f[z]
    PROVE  SumFunctionOnSet(g, S) = SumFunctionOnSet(f, S) + (g[x] - f[x])
<1>1. IsFiniteSet(S \ {x}) /\ \A z \in S \ {x} : f[z] \in Int
  BY FS_RemoveElement
<1>2. SumFunctionOnSet(g, S) = g[x] + SumFunctionOnSet(g, S \ {x})
  BY SumRemove
<1>3. SumFunctionOnSet(f, S) = f[x] + SumFunctionOnSet(f, S \ {x})
  BY SumRemove
<1>4. SumFunctionOnSet(g, S \ {x}) = SumFunctionOnSet(f, S \ {x})
  BY <1>1, SumCongruent
<1>5. SumFunctionOnSet(f, S \ {x}) \in Int /\ f[x] \in Int /\ g[x] \in Int
  BY <1>1, SumType
<1> QED
  BY <1>2, <1>3, <1>4, <1>5

LEMMA SumTwoChanged ==
    ASSUME NEW S, IsFiniteSet(S), NEW f, NEW g, NEW x \in S, NEW y \in S, x # y,
           \A z \in S : f[z] \in Int /\ g[z] \in Int,
           \A z \in S \ {x, y} : g[z] = f[z]
    PROVE  SumFunctionOnSet(g, S) = SumFunctionOnSet(f, S) + (g[x] - f[x]) + (g[y] - f[y])
<1>1. IsFiniteSet(S \ {x}) /\ y \in S \ {x} /\ \A z \in S \ {x} : f[z] \in Int /\ g[z] \in Int
  BY FS_RemoveElement
<1>2. SumFunctionOnSet(g, S) = g[x] + SumFunctionOnSet(g, S \ {x})
  BY SumRemove
<1>3. SumFunctionOnSet(f, S) = f[x] + SumFunctionOnSet(f, S \ {x})
  BY SumRemove
<1>4. SumFunctionOnSet(g, S \ {x}) = SumFunctionOnSet(f, S \ {x}) + (g[y] - f[y])
  BY <1>1, SumOneChanged
<1>5. SumFunctionOnSet(f, S \ {x}) \in Int /\ f[x] \in Int /\ g[x] \in Int
      /\ f[y] \in Int /\ g[y] \in Int
  BY <1>1, SumType
<1> QED
  BY <1>2, <1>3, <1>4, <1>5

\* A sum of zeros.
LEMMA SumZero ==
    ASSUME NEW f, NEW S, IsFiniteSet(S), \A x \in S : f[x] = 0
    PROVE  SumFunctionOnSet(f, S) = 0
<1> DEFINE T == {V \in SUBSET S : SumFunctionOnSet(f, V) # 0}
<1>1. SUFFICES ASSUME T # {}
               PROVE  FALSE
  OBVIOUS
<1>2. PICK V \in T : \A W \in T : W \subseteq V => W = V
  <2>1. T \subseteq SUBSET S
    OBVIOUS
  <2> HIDE DEF T
  <2> QED
    BY <1>1, <2>1, SmallestSet
<1>3. IsFiniteSet(V) /\ V # {}
  <2>1. IsFiniteSet(V)
    BY FS_Subset
  <2>2. ASSUME V = {} PROVE FALSE
    BY <1>2, <2>2, SumEmpty
  <2> QED
    BY <2>1, <2>2
<1>4. Pick(V) \in V
  BY <1>3, PickIn
<1>5. SumFunctionOnSet(f, V \ {Pick(V)}) = 0
  BY <1>2, <1>4
<1>6. SumFunctionOnSet(f, V) = f[Pick(V)] + SumFunctionOnSet(f, V \ {Pick(V)})
  BY <1>3, SumUnfold
<1> QED
  BY <1>4, <1>5, <1>6

-----------------------------------------------------------------------------
(* Folds over 1..n *)

\* Induction on the natural numbers, for what a set can express.
LEMMA EveryNatural ==
    ASSUME NEW T, 0 \in T, \A k \in Nat : k \in T => k + 1 \in T
    PROVE  \A n \in Nat : n \in T
<1> SUFFICES ASSUME NEW n \in Nat, n \notin T
             PROVE  FALSE
  OBVIOUS
<1> DEFINE F == {1..k : k \in {j \in 0..n : j \notin T}}
<1>1. F \subseteq SUBSET (1..n) /\ 1..n \in F
  OBVIOUS
<1>2. PICK x \in F : \A y \in F : y \subseteq x => y = x
  <2> DEFINE S == 1..n
  <2>1. F # {} /\ F \subseteq SUBSET S
    BY <1>1
  <2>2. IsFiniteSet(S)
    BY FS_Interval
  <2> HIDE DEF F, S
  <2> QED
    BY <2>1, <2>2, SmallestSet
<1>3. PICK k \in 0..n : k \notin T /\ x = 1..k
  BY <1>2
<1>4. k - 1 \in 0..n /\ k - 1 \notin T
  BY <1>3
<1>5. 1..(k - 1) \in F /\ 1..(k - 1) \subseteq x /\ k \in x /\ k \notin 1..(k - 1)
  BY <1>3, <1>4
<1> QED
  BY <1>2, <1>5

LEMMA MaxIs ==
    ASSUME NEW s, NEW x \in s, s \subseteq Int, \A y \in s : y <= x
    PROVE  Max(s) = x
<1>1. Max(s) \in s /\ \A y \in s : y <= Max(s)
  BY DEF Max
<1>2. Max(s) \in Int /\ x \in Int /\ Max(s) <= x /\ x <= Max(s)
  BY <1>1
<1> QED
  BY <1>2

LEMMA MaxIn ==
    ASSUME NEW n \in Nat, NEW s \in SUBSET (1..n), s # {}
    PROVE  Max(s) \in s
<1> DEFINE T == {k \in Nat : \A t \in SUBSET (1..k) : t # {} => \E x \in t : \A y \in t : y <= x}
<1>1. 0 \in T
  <2>1. 1..0 = {}
    OBVIOUS
  <2> QED
    BY <2>1
<1>2. ASSUME NEW k \in Nat, k \in T PROVE k + 1 \in T
  <2> SUFFICES ASSUME NEW t \in SUBSET (1..(k + 1)), t # {}
               PROVE  \E x \in t : \A y \in t : y <= x
    OBVIOUS
  <2>1. CASE k + 1 \in t
    BY <2>1
  <2>2. CASE k + 1 \notin t
    <3>1. t \in SUBSET (1..k)
      BY <2>2
    <3> QED
      BY <1>2, <3>1
  <2> QED
    BY <2>1, <2>2
<1>3. n \in T
  <2> HIDE DEF T
  <2> QED
    BY <1>1, <1>2, EveryNatural
<1>4. PICK x \in s : \A y \in s : y <= x
  BY <1>3
<1>5. Max(s) = x
  <2>1. s \subseteq Int
    OBVIOUS
  <2> QED
    BY <1>4, <2>1, MaxIs
<1> QED
  BY <1>4, <1>5

\* The recursion behind a fold from the left over n elements.
Folds(h, step, base, n) ==
    \A s \in SUBSET (1..n) :
        h[s] = IF s = {} THEN base ELSE step[Max(s)][h[s \ {Max(s)}]]

\* It has a solution when no step leaves the set of values.
Stays(A, step, n) == \A k \in 1..n : \A v \in A : step[k][v] \in A

LEMMA FoldExists ==
    ASSUME NEW A, NEW base \in A, NEW step, NEW n \in Nat, Stays(A, step, n)
    PROVE  \E h \in [SUBSET (1..n) -> A] : Folds(h, step, base, n)
<1> DEFINE Folded(k) == \E h \in [SUBSET (1..k) -> A] : Folds(h, step, base, k)
           T == {k \in Nat : k <= n => Folded(k)}
<1>1. 0 \in T
  <2> DEFINE h == [s \in SUBSET (1..0) |-> base]
  <2>1. h \in [SUBSET (1..0) -> A] /\ Folds(h, step, base, 0)
    BY DEF Folds
  <2> QED
    BY <2>1
<1>2. ASSUME NEW k \in Nat, k \in T PROVE k + 1 \in T
  <2> SUFFICES ASSUME k + 1 <= n
               PROVE  Folded(k + 1)
    <3> HIDE DEF Folded
    <3> QED
      OBVIOUS
  <2>0. Folded(k)
    <3> HIDE DEF Folded
    <3> QED
      BY <1>2
  <2>1. PICK h \in [SUBSET (1..k) -> A] : Folds(h, step, base, k)
    BY <2>0
  <2> DEFINE g == [s \in SUBSET (1..(k + 1)) |->
                      IF k + 1 \in s THEN step[k + 1][h[s \ {k + 1}]] ELSE h[s]]
  <2>2. \A s \in SUBSET (1..(k + 1)) : /\ s \ {k + 1} \in SUBSET (1..k)
                                       /\ k + 1 \notin s => s \in SUBSET (1..k)
    OBVIOUS
  <2>3. \A s \in SUBSET (1..k) : g[s] = h[s]
    OBVIOUS
  <2>4. g \in [SUBSET (1..(k + 1)) -> A]
    <3>1. ASSUME NEW s \in SUBSET (1..(k + 1)) PROVE g[s] \in A
      <4>1. CASE k + 1 \in s
        <5>1. h[s \ {k + 1}] \in A
          BY <2>2
        <5> QED
          BY <4>1, <5>1 DEF Stays
      <4>2. CASE k + 1 \notin s
        BY <4>2, <2>2
      <4> QED
        BY <4>1, <4>2
    <3> QED
      BY <3>1
  <2>5. ASSUME NEW s \in SUBSET (1..(k + 1))
        PROVE  g[s] = IF s = {} THEN base ELSE step[Max(s)][g[s \ {Max(s)}]]
    <3>1. CASE k + 1 \in s
      <4>1. Max(s) = k + 1
        <5>1. s \subseteq Int /\ \A y \in s : y <= k + 1
          OBVIOUS
        <5> HIDE DEF g, T
        <5> QED
          BY <3>1, <5>1, MaxIs
      <4>2. g[s \ {k + 1}] = h[s \ {k + 1}]
        BY <2>2, <2>3
      <4>3. g[s] = step[k + 1][h[s \ {k + 1}]]
        BY <3>1
      <4> HIDE DEF g
      <4> QED
        BY <3>1, <4>1, <4>2, <4>3
    <3>2. CASE k + 1 \notin s
      <4>1. s \in SUBSET (1..k) /\ s \ {Max(s)} \in SUBSET (1..k)
        BY <3>2, <2>2
      <4>2. g[s] = h[s] /\ g[s \ {Max(s)}] = h[s \ {Max(s)}]
        BY <2>3, <4>1
      <4> HIDE DEF g
      <4> QED
        BY <2>1, <4>1, <4>2 DEF Folds
    <3> QED
      BY <3>1, <3>2
  <2>6. Folds(g, step, base, k + 1)
    <3> HIDE DEF g
    <3> QED
      BY <2>5 DEF Folds
  <2> QED
    BY <2>4, <2>6
<1>3. n \in T
  <2> HIDE DEF T
  <2> QED
    BY <1>1, <1>2, EveryNatural
<1>4. Folded(n)
  <2> HIDE DEF Folded
  <2> QED
    BY <1>3
<1> QED
  BY <1>4

\* The values of a solution on the prefixes of 1..n.
LEMMA FoldPrefixes ==
    ASSUME NEW n \in Nat, NEW k \in 1..n
    PROVE  /\ 1..k \in SUBSET (1..n) /\ 1..k # {}
           /\ Max(1..k) = k /\ (1..k) \ {k} = 1..(k - 1)
<1>1. Max(1..k) = k
  <2> DEFINE s == 1..k
  <2>1. k \in s /\ s \subseteq Int /\ \A y \in s : y <= k
    OBVIOUS
  <2> HIDE DEF s
  <2>2. Max(s) = k
    BY <2>1, MaxIs
  <2> QED
    BY <2>2 DEF s
<1> QED
  BY <1>1

\* The values of a fold after each of n steps, the last of which is v.
Unfolds(h, A, step, base, n) ==
    /\ h[{}] = base
    /\ \A s \in SUBSET (1..n) :
           s # {} /\ h[s \ {Max(s)}] \in A => h[s] = step[Max(s)][h[s \ {Max(s)}]]
Values(w, A, step, base, n, v) ==
    /\ w \in [0..n -> A] /\ w[0] = base /\ w[n] = v
    /\ \A k \in 1..n : w[k] = step[k][w[k - 1]]

LEMMA FoldValues ==
    ASSUME NEW A, NEW base \in A, NEW step, NEW n \in Nat, NEW h,
           Stays(A, step, n), Unfolds(h, A, step, base, n)
    PROVE  \E w : Values(w, A, step, base, n, h[1..n])
<1>1. h[1..0] = base
  <2>1. 1..0 = {}
    OBVIOUS
  <2> QED
    BY <2>1 DEF Unfolds
<1>2. \A k \in 1..n : h[1..(k - 1)] \in A => h[1..k] = step[k][h[1..(k - 1)]]
  <2> TAKE k \in 1..n
  <2>1. /\ 1..k \in SUBSET (1..n) /\ 1..k # {}
        /\ Max(1..k) = k /\ (1..k) \ {k} = 1..(k - 1)
    BY FoldPrefixes
  <2> QED
    BY <2>1 DEF Unfolds
<1> DEFINE T == {k \in Nat : k <= n => h[1..k] \in A}
<1>3. 0 \in T
  BY <1>1
<1>4. ASSUME NEW k \in Nat, k \in T PROVE k + 1 \in T
  <2> SUFFICES ASSUME k + 1 <= n
               PROVE  h[1..(k + 1)] \in A
    OBVIOUS
  <2>1. h[1..k] \in A /\ k + 1 \in 1..n /\ (k + 1) - 1 = k
    BY <1>4
  <2>2. h[1..(k + 1)] = step[k + 1][h[1..k]]
    BY <1>2, <2>1
  <2> QED
    BY <2>1, <2>2 DEF Stays
<1>5. \A k \in 0..n : h[1..k] \in A
  <2>1. \A k \in Nat : k \in T
    <3> HIDE DEF T
    <3> QED
      BY <1>3, <1>4, EveryNatural
  <2> QED
    BY <2>1
<1> DEFINE w == [k \in 0..n |-> h[1..k]]
<1>6. w \in [0..n -> A] /\ w[0] = base /\ w[n] = h[1..n]
  BY <1>1, <1>5
<1>7. \A k \in 1..n : w[k] = step[k][w[k - 1]]
  BY <1>2, <1>5
<1>8. Values(w, A, step, base, n, h[1..n])
  <2> HIDE DEF w
  <2> QED
    BY <1>6, <1>7 DEF Values
<1> QED
  BY <1>8

-----------------------------------------------------------------------------
(* Sums over the entries of a sequence *)

\* What the first k entries labelled m add up to; it grows with the next one.
SumOf(f, g, m, k) == SumFunctionOnSet(f, {i \in 1..k : g[i] = m})
AddsUpTo(f, g, m, n) ==
    /\ SumOf(f, g, m, 0) = 0
    /\ \A k \in 0..n : SumOf(f, g, m, k) \in Nat
    /\ \A k \in 1..n :
           SumOf(f, g, m, k)
               = SumOf(f, g, m, k - 1) + (IF g[k] = m THEN f[k] ELSE 0)

LEMMA SumPrefix ==
    ASSUME NEW n \in Nat, NEW f \in [1..n -> Nat], NEW g, NEW m
    PROVE  AddsUpTo(f, g, m, n)
<1> DEFINE Of(k) == {i \in 1..k : g[i] = m}
           Sum(k) == SumFunctionOnSet(f, Of(k))
<1>1. Sum(0) = 0
  <2>1. Of(0) = {}
    OBVIOUS
  <2> QED
    BY <2>1, SumEmpty
<1>2. ASSUME NEW k \in 0..n
      PROVE  IsFiniteSet(Of(k)) /\ Of(k) \subseteq 1..n /\ \A i \in Of(k) : f[i] \in Nat
  <2>1. IsFiniteSet(1..k)
    BY FS_Interval
  <2>2. Of(k) \subseteq 1..k /\ Of(k) \subseteq 1..n
    OBVIOUS
  <2>3. IsFiniteSet(Of(k))
    BY <2>1, <2>2, FS_Subset
  <2> QED
    BY <2>2, <2>3
<1>3. ASSUME NEW k \in 0..n PROVE Sum(k) \in Nat
  <2> HIDE DEF Of
  <2> QED
    BY <1>2, SumNat
<1>4. ASSUME NEW k \in 1..n
      PROVE  Sum(k) = Sum(k - 1) + (IF g[k] = m THEN f[k] ELSE 0)
  <2>1. k - 1 \in 0..n /\ f[k] \in Nat
    OBVIOUS
  <2>2. CASE g[k] = m
    <3>1. Of(k) = Of(k - 1) \cup {k} /\ k \notin Of(k - 1)
      BY <2>2
    <3>2. \A y \in Of(k - 1) \cup {k} : f[y] \in Int
      BY <1>2, <2>1
    <3>3. IsFiniteSet(Of(k - 1))
      BY <1>2, <2>1
    <3>4. SumFunctionOnSet(f, Of(k - 1) \cup {k}) = SumFunctionOnSet(f, Of(k - 1)) + f[k]
      <4> HIDE DEF Of
      <4> QED
        BY <3>1, <3>2, <3>3, SumAdd
    <3> HIDE DEF Of
    <3> QED
      BY <2>2, <3>1, <3>4
  <2>3. CASE g[k] # m
    <3>1. Of(k) = Of(k - 1)
      BY <2>3
    <3>2. Sum(k - 1) \in Nat
      BY <1>3, <2>1
    <3> HIDE DEF Of
    <3> QED
      BY <2>3, <3>1, <3>2
  <2> QED
    BY <2>2, <2>3
<1> QED
  BY <1>1, <1>3, <1>4 DEF SumOf, AddsUpTo

-----------------------------------------------------------------------------
(* Remainders *)

\* Division with a remainder.
LEMMA ModType ==
    ASSUME NEW a \in Int, NEW m \in Nat, m > 0
    PROVE  a % m \in 0..(m-1) /\ a = m * (a \div m) + (a % m) /\ a \div m \in Int
  OBVIOUS

LEMMA NoMultiple ==
    ASSUME NEW k \in Int, NEW m \in Nat, m > 0, m * k < m, -m < m * k
    PROVE  k = 0
<1>1. CASE k >= 1
  <2>1. m * k >= m
    BY <1>1
  <2> QED
    BY <2>1
<1>2. CASE k <= -1
  <2>1. m * k <= -m
    BY <1>2
  <2> QED
    BY <2>1
<1> QED
  BY <1>1, <1>2

\* The remainder is the only number that can be one.
LEMMA ModUnique ==
    ASSUME NEW a \in Int, NEW m \in Nat, m > 0, NEW q \in Int, NEW r \in 0..(m-1), a = m * q + r
    PROVE  a % m = r
<1>1. a % m \in 0..(m-1) /\ a = m * (a \div m) + (a % m) /\ a \div m \in Int
  BY ModType
<1> DEFINE k == q - (a \div m)
<1>2. k \in Int /\ m * k = (a % m) - r
  BY <1>1
<1>3. k = 0
  <2> HIDE DEF k
  <2> QED
    BY <1>1, <1>2, NoMultiple
<1> QED
  BY <1>2, <1>3

LEMMA ProductMonotone ==
    ASSUME NEW i \in Nat, NEW c \in Nat, NEW L \in Nat, i <= c
    PROVE  i * L <= c * L
  OBVIOUS

\* Rounding up a quotient.
LEMMA RoundedUp ==
    ASSUME NEW n \in Nat, NEW L \in Nat, L > 0
    PROVE  LET c == (n + L - 1) \div L IN
           c \in Nat /\ c * L >= n /\ c * L < n + L
  OBVIOUS
=============================================================================
