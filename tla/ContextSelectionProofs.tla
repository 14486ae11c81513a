----------------------- MODULE ContextSelectionProofs -----------------------
(***************************************************************************)
(* Proofs about ContextSelection, for any files, lists of candidates and   *)
(* budgets that its assumptions allow.                                     *)
(***************************************************************************)
EXTENDS ContextSelection, FiniteSetTheorems, SequenceTheorems, WellFoundedInduction, TLAPS

-----------------------------------------------------------------------------
(***************************************************************************)
(* Sums over finite sets.                                                  *)
(***************************************************************************)

\* Of the subsets of a finite set that have something in common, one is smallest.
LEMMA SmallestOne ==
    ASSUME NEW S, IsFiniteSet(S), NEW Some, Some \subseteq SUBSET S, Some # {}
    PROVE  \E T \in Some : \A U \in Some : U \subseteq T => U = T
PROOF
<1>1. Some \subseteq FiniteSubsetsOf(S)
  BY FS_Subset DEF FiniteSubsetsOf
<1>2. PICK T \in Some : \A U \in Some : ~(<<U, T>> \in StrictSubsetOrdering(S))
  BY <1>1, WFMin, FS_StrictSubsetOrderingWellFounded
<1>3. \A U \in Some : U \subseteq T => U = T
  BY <1>2 DEF StrictSubsetOrdering
<1> QED BY <1>3

\* The function by which a sum over a set is computed, over its subsets.
OneOf(S) == CHOOSE x \in S : TRUE
Solves(g, f, S) ==
    g = [T \in SUBSET S |-> IF T = {} THEN 0 ELSE f[OneOf(T)] + g[T \ {OneOf(T)}]]

LEMMA OneOfIs == ASSUME NEW S, S # {} PROVE OneOf(S) \in S
PROOF BY DEF OneOf

LEMMA SumIsSolved ==
    ASSUME NEW f, NEW S
    PROVE  SumFunctionOnSet(f, S) = (CHOOSE g : Solves(g, f, S))[S]
PROOF BY DEF SumFunctionOnSet, FoldFunctionOnSet, MapThenFoldSet, Solves, OneOf

LEMMA SolutionAt ==
    ASSUME NEW f, NEW S, NEW g, Solves(g, f, S), NEW T \in SUBSET S
    PROVE  (T = {} => g[T] = 0) /\ (T # {} => g[T] = f[OneOf(T)] + g[T \ {OneOf(T)}])
PROOF
<1>1. g = [U \in SUBSET S |-> IF U = {} THEN 0 ELSE f[OneOf(U)] + g[U \ {OneOf(U)}]]
  BY DEF Solves
<1> QED BY <1>1

LEMMA SolutionsAgree ==
    ASSUME NEW f, NEW S, IsFiniteSet(S), NEW T,
           NEW g, Solves(g, f, S), NEW h, Solves(h, f, T)
    PROVE  \A U \in SUBSET (S \cap T) : g[U] = h[U]
PROOF
<1> DEFINE Differ == {U \in SUBSET (S \cap T) : g[U] # h[U]}
<1>1. SUFFICES ASSUME Differ # {} PROVE FALSE
  OBVIOUS
<1>2. PICK U \in Differ : \A V \in Differ : V \subseteq U => V = U
  <2>1. Differ \subseteq SUBSET S
    OBVIOUS
  <2> HIDE DEF Differ
  <2> QED BY <1>1, <2>1, SmallestOne
<1>3. U \in SUBSET S /\ U \in SUBSET T /\ g[U] # h[U]
  OBVIOUS
<1>4. U # {}
  <2>1. U = {} => g[U] = 0 /\ h[U] = 0
    BY <1>3, SolutionAt
  <2> QED BY <1>3, <2>1
<1>5. g[U] = f[OneOf(U)] + g[U \ {OneOf(U)}] /\ h[U] = f[OneOf(U)] + h[U \ {OneOf(U)}]
  BY <1>3, <1>4, SolutionAt
<1>6. U \ {OneOf(U)} \notin Differ
  BY <1>2, <1>4, OneOfIs
<1> QED BY <1>3, <1>5, <1>6

LEMMA SumAgrees ==
    ASSUME NEW f, NEW S, IsFiniteSet(S), NEW g, Solves(g, f, S), NEW T \in SUBSET S
    PROVE  (\E h : Solves(h, f, T)) => SumFunctionOnSet(f, T) = g[T]
PROOF
<1> SUFFICES ASSUME \E h : Solves(h, f, T) PROVE SumFunctionOnSet(f, T) = g[T]
  OBVIOUS
<1> DEFINE h == CHOOSE h : Solves(h, f, T)
<1>1. Solves(h, f, T)
  OBVIOUS
<1>2. SumFunctionOnSet(f, T) = h[T]
  BY SumIsSolved
<1> HIDE DEF h
<1>3. g[T] = h[T]
  BY <1>1, SolutionsAgree
<1> QED BY <1>2, <1>3

\* What a sum over a set is in terms of sums over smaller sets.
SumStep(f, S) ==
    IF S = {} THEN 0 ELSE f[OneOf(S)] + SumFunctionOnSet(f, S \ {OneOf(S)})

LEMMA SumSolvable ==
    ASSUME NEW f, NEW S, IsFiniteSet(S)
    PROVE  \E g : Solves(g, f, S)
PROOF
<1> DEFINE Unsolved == {T \in SUBSET S : ~\E g : Solves(g, f, T)}
<1>1. SUFFICES ASSUME Unsolved # {} PROVE FALSE
  BY DEF Unsolved
<1>2. PICK T \in Unsolved : \A U \in Unsolved : U \subseteq T => U = T
  <2>1. Unsolved \subseteq SUBSET S
    OBVIOUS
  <2> HIDE DEF Unsolved
  <2> QED BY <1>1, <2>1, SmallestOne
<1>3. \A U \in SUBSET T : U # T => \E g : Solves(g, f, U)
  BY <1>2
<1> DEFINE g == [U \in SUBSET T |-> SumStep(f, U)]
<1>4. ASSUME NEW U \in SUBSET T, U # {}
      PROVE  SumFunctionOnSet(f, U \ {OneOf(U)}) = g[U \ {OneOf(U)}]
  <2> DEFINE V == U \ {OneOf(U)}
  <2>1. V \in SUBSET T /\ V # T /\ IsFiniteSet(V)
    <3>1. V \in SUBSET S
      OBVIOUS
    <3> QED BY <1>4, <3>1, OneOfIs, FS_Subset
  <2>2. PICK h : Solves(h, f, V)
    BY <1>3, <2>1
  <2>3. SumFunctionOnSet(f, V) = h[V]
    BY <2>1, <2>2, SumAgrees
  <2>4. g[V] = SumStep(f, V)
    BY <2>1
  <2>5. (V = {} => h[V] = 0) /\ (V # {} => h[V] = f[OneOf(V)] + h[V \ {OneOf(V)}])
    <3>1. V \in SUBSET V
      OBVIOUS
    <3> HIDE DEF V
    <3> QED BY <2>2, <3>1, SolutionAt
  <2>6. ASSUME V # {} PROVE SumFunctionOnSet(f, V \ {OneOf(V)}) = h[V \ {OneOf(V)}]
    <3>1. V \ {OneOf(V)} \in SUBSET V /\ V \ {OneOf(V)} \in SUBSET T /\ V \ {OneOf(V)} # T
      BY <2>1, <2>6, OneOfIs
    <3>2. \E k : Solves(k, f, V \ {OneOf(V)})
      BY <1>3, <3>1
    <3> HIDE DEF V
    <3> QED BY <2>1, <2>2, <3>1, <3>2, SumAgrees
  <2> HIDE DEF V, g
  <2>7. SumFunctionOnSet(f, V) = g[V]
    BY <2>3, <2>4, <2>5, <2>6 DEF SumStep
  <2> QED BY <2>7 DEF V
<1>5. Solves(g, f, T)
  <2>1. \A U \in SUBSET T :
           SumStep(f, U) = IF U = {} THEN 0 ELSE f[OneOf(U)] + g[U \ {OneOf(U)}]
    <3> HIDE DEF g
    <3> QED BY <1>4 DEF SumStep
  <2>2. g = [U \in SUBSET T |-> IF U = {} THEN 0 ELSE f[OneOf(U)] + g[U \ {OneOf(U)}]]
    BY <2>1
  <2> HIDE DEF g
  <2> QED BY <2>2 DEF Solves
<1> QED BY <1>2, <1>5

LEMMA SumIs ==
    ASSUME NEW f, NEW S, IsFiniteSet(S)
    PROVE  SumFunctionOnSet(f, S) = SumStep(f, S)
PROOF
<1>1. PICK g : Solves(g, f, S)
  BY SumSolvable
<1>2. SumFunctionOnSet(f, S) = g[S]
  BY <1>1, SumAgrees
<1>3. S # {} => SumFunctionOnSet(f, S \ {OneOf(S)}) = g[S \ {OneOf(S)}]
  <2>1. S \ {OneOf(S)} \in SUBSET S /\ IsFiniteSet(S \ {OneOf(S)})
    BY FS_Subset
  <2>2. \E h : Solves(h, f, S \ {OneOf(S)})
    BY <2>1, SumSolvable
  <2> QED BY <1>1, <2>1, <2>2, SumAgrees
<1>4. (S = {} => g[S] = 0) /\ (S # {} => g[S] = f[OneOf(S)] + g[S \ {OneOf(S)}])
  BY <1>1, SolutionAt
<1> QED BY <1>2, <1>3, <1>4 DEF SumStep

\* A sum of natural numbers may begin with any of them.
LEMMA SumRemoves ==
    ASSUME NEW f, NEW S, IsFiniteSet(S), \A x \in S : f[x] \in Nat
    PROVE  /\ SumFunctionOnSet(f, S) \in Nat
           /\ \A x \in S : SumFunctionOnSet(f, S) = f[x] + SumFunctionOnSet(f, S \ {x})
PROOF
<1> DEFINE Right(T) == /\ SumFunctionOnSet(f, T) \in Nat
                       /\ \A x \in T : SumFunctionOnSet(f, T) = f[x] + SumFunctionOnSet(f, T \ {x})
           Wrong == {T \in SUBSET S : ~Right(T)}
<1>1. SUFFICES ASSUME Wrong # {} PROVE FALSE
  OBVIOUS
<1>2. PICK T \in Wrong : \A U \in Wrong : U \subseteq T => U = T
  <2>1. Wrong \subseteq SUBSET S
    OBVIOUS
  <2> HIDE DEF Wrong
  <2> QED BY <1>1, <2>1, SmallestOne
<1>3. T \in SUBSET S /\ ~Right(T) /\ \A U \in SUBSET T : U # T => Right(U)
  BY <1>2
<1>4. IsFiniteSet(T) /\ \A U \in SUBSET T : IsFiniteSet(U)
  <2>1. IsFiniteSet(T)
    BY <1>3, FS_Subset
  <2> QED BY <2>1, FS_Subset
<1> DEFINE c == OneOf(T)
<1> HIDE DEF Wrong
<1>5. T # {}
  <2>1. T = {} => SumFunctionOnSet(f, T) = 0
    BY <1>4, SumIs DEF SumStep
  <2> QED BY <1>3, <2>1
<1>6. c \in T /\ SumFunctionOnSet(f, T) = f[c] + SumFunctionOnSet(f, T \ {c})
  BY <1>4, <1>5, SumIs, OneOfIs DEF SumStep
<1> HIDE DEF c
<1>7. f[c] \in Nat /\ Right(T \ {c})
  BY <1>3, <1>6
<1>8. SumFunctionOnSet(f, T) \in Nat
  BY <1>6, <1>7
<1>9. ASSUME NEW x \in T PROVE SumFunctionOnSet(f, T) = f[x] + SumFunctionOnSet(f, T \ {x})
  <2>1. CASE x = c
    BY <1>6, <2>1
  <2>2. CASE x # c
    <3> DEFINE both == SumFunctionOnSet(f, (T \ {c}) \ {x})
    <3>1. SumFunctionOnSet(f, T \ {c}) = f[x] + both
      BY <1>7, <2>2
    <3>2. (T \ {c}) \ {x} = (T \ {x}) \ {c} /\ Right((T \ {c}) \ {x}) /\ Right(T \ {x})
      <4>1. (T \ {c}) \ {x} \in SUBSET T /\ (T \ {c}) \ {x} # T /\ T \ {x} \in SUBSET T /\ T \ {x} # T
        BY <1>6
      <4> QED BY <1>3, <4>1
    <3>3. SumFunctionOnSet(f, T \ {x}) = f[c] + both
      BY <1>6, <2>2, <3>2
    <3>4. both \in Nat /\ f[x] \in Nat
      BY <1>3, <3>2
    <3> HIDE DEF both
    <3> QED BY <1>6, <1>7, <3>1, <3>3, <3>4
  <2> QED BY <2>1, <2>2
<1> QED BY <1>3, <1>8, <1>9

LEMMA SumOfNone == ASSUME NEW f PROVE SumFunctionOnSet(f, {}) = 0
PROOF BY FS_EmptySet, SumIs DEF SumStep

\* A sum does not depend on what its terms are called.
LEMMA SumRenamed ==
    ASSUME NEW S, IsFiniteSet(S), NEW f, \A x \in S : f[x] \in Nat,
           NEW T, IsFiniteSet(T), NEW g, NEW b \in [S -> T],
           \A x, y \in S : x # y => b[x] # b[y],
           \A z \in T : \E x \in S : z = b[x],
           \A x \in S : g[b[x]] = f[x]
    PROVE  SumFunctionOnSet(f, S) = SumFunctionOnSet(g, T)
PROOF
<1> DEFINE Of(U) == {b[x] : x \in U}
           Wrong == {U \in SUBSET S : SumFunctionOnSet(f, U) # SumFunctionOnSet(g, Of(U))}
<1>1. SUFFICES ASSUME Wrong # {} PROVE FALSE
  <2> SUFFICES ASSUME Wrong = {} PROVE SumFunctionOnSet(f, S) = SumFunctionOnSet(g, T)
    OBVIOUS
  <2>1. Of(S) = T
    OBVIOUS
  <2> HIDE DEF Of
  <2> QED BY <2>1
<1>2. PICK U \in Wrong : \A V \in Wrong : V \subseteq U => V = U
  <2>1. Wrong \subseteq SUBSET S
    OBVIOUS
  <2> HIDE DEF Wrong
  <2> QED BY <1>1, <2>1, SmallestOne
<1>3. /\ U \in SUBSET S /\ SumFunctionOnSet(f, U) # SumFunctionOnSet(g, Of(U))
      /\ \A V \in SUBSET U : V # U => SumFunctionOnSet(f, V) = SumFunctionOnSet(g, Of(V))
  BY <1>2
<1> HIDE DEF Wrong
<1>4. U # {}
  <2>1. Of({}) = {}
    OBVIOUS
  <2> HIDE DEF Of
  <2> QED BY <1>3, <2>1, SumOfNone
<1>5. PICK x \in U : TRUE
  BY <1>4
<1>6. SumFunctionOnSet(f, U) = f[x] + SumFunctionOnSet(f, U \ {x})
  <2>1. IsFiniteSet(U) /\ \A y \in U : f[y] \in Nat
    BY <1>3, FS_Subset
  <2> QED BY <2>1, SumRemoves
<1>7. SumFunctionOnSet(g, Of(U)) = g[b[x]] + SumFunctionOnSet(g, Of(U) \ {b[x]})
  <2>1. Of(U) \in SUBSET T /\ b[x] \in Of(U) /\ \A z \in Of(U) : g[z] \in Nat
    BY <1>3
  <2>2. IsFiniteSet(Of(U))
    <3> HIDE DEF Of
    <3> QED BY <2>1, FS_Subset
  <2> HIDE DEF Of
  <2> QED BY <2>1, <2>2, SumRemoves
<1>8. Of(U) \ {b[x]} = Of(U \ {x})
  BY <1>3
<1>9. SumFunctionOnSet(f, U \ {x}) = SumFunctionOnSet(g, Of(U \ {x}))
  BY <1>3
<1>10. g[b[x]] = f[x]
  BY <1>3
<1> HIDE DEF Of
<1> QED BY <1>3, <1>6, <1>7, <1>8, <1>9, <1>10

LEMMA SumEqual ==
    ASSUME NEW S, IsFiniteSet(S), NEW f, \A x \in S : f[x] \in Nat,
           NEW g, \A x \in S : g[x] = f[x]
    PROVE  SumFunctionOnSet(f, S) = SumFunctionOnSet(g, S)
PROOF
<1> DEFINE b == [x \in S |-> x]
<1>1. /\ b \in [S -> S] /\ \A x, y \in S : x # y => b[x] # b[y]
      /\ \A z \in S : \E x \in S : z = b[x]
      /\ \A x \in S : g[b[x]] = f[x]
  OBVIOUS
<1> HIDE DEF b
<1> QED BY <1>1, SumRenamed

\* More terms are no less.
LEMMA SumGrows ==
    ASSUME NEW S, IsFiniteSet(S), NEW f, \A x \in S : f[x] \in Nat, NEW T \in SUBSET S
    PROVE  SumFunctionOnSet(f, T) <= SumFunctionOnSet(f, S)
PROOF
<1> DEFINE Wrong == {U \in SUBSET S : T \subseteq U /\ ~(SumFunctionOnSet(f, T) <= SumFunctionOnSet(f, U))}
<1>0. \A U \in SUBSET S :
         /\ SumFunctionOnSet(f, U) \in Nat
         /\ \A x \in U : SumFunctionOnSet(f, U) = f[x] + SumFunctionOnSet(f, U \ {x})
  <2>1. ASSUME NEW U \in SUBSET S PROVE IsFiniteSet(U) /\ \A x \in U : f[x] \in Nat
    BY FS_Subset
  <2> QED BY <2>1, SumRemoves
<1>1. SUFFICES ASSUME Wrong # {} PROVE FALSE
  OBVIOUS
<1>2. PICK U \in Wrong : \A V \in Wrong : V \subseteq U => V = U
  <2>1. Wrong \subseteq SUBSET S
    OBVIOUS
  <2> HIDE DEF Wrong
  <2> QED BY <1>1, <2>1, SmallestOne
<1>3. PICK x \in U : x \notin T
  <2>1. SumFunctionOnSet(f, T) <= SumFunctionOnSet(f, T)
    BY <1>0
  <2>2. U # T /\ T \subseteq U
    BY <2>1
  <2> QED BY <2>2
<1>4. SumFunctionOnSet(f, T) <= SumFunctionOnSet(f, U \ {x})
  BY <1>2, <1>3
<1>5. /\ SumFunctionOnSet(f, U) = f[x] + SumFunctionOnSet(f, U \ {x})
      /\ f[x] \in Nat /\ SumFunctionOnSet(f, U) \in Nat
      /\ SumFunctionOnSet(f, U \ {x}) \in Nat /\ SumFunctionOnSet(f, T) \in Nat
  <2>1. U \in SUBSET S /\ U \ {x} \in SUBSET S
    OBVIOUS
  <2> QED BY <1>0, <2>1
<1>6. ~(SumFunctionOnSet(f, T) <= SumFunctionOnSet(f, U))
  BY <1>2
<1> QED BY <1>4, <1>5, <1>6

-----------------------------------------------------------------------------
(***************************************************************************)
(* Finite sets of numbers.                                                 *)
(***************************************************************************)

LEMMA Bounded ==
    ASSUME NEW S, IsFiniteSet(S), \A x \in S : x \in Nat, S # {}
    PROVE  (\E m \in S : \A n \in S : m <= n) /\ (\E m \in S : \A n \in S : m >= n)
PROOF
<1> DEFINE Least(T) == \E m \in T : \A n \in T : m <= n
           Greatest(T) == \E m \in T : \A n \in T : m >= n
           Wrong == {T \in SUBSET S : T # {} /\ ~(Least(T) /\ Greatest(T))}
<1>1. SUFFICES ASSUME Wrong # {} PROVE FALSE
  OBVIOUS
<1>2. PICK T \in Wrong : \A U \in Wrong : U \subseteq T => U = T
  <2>1. Wrong \subseteq SUBSET S
    OBVIOUS
  <2> HIDE DEF Wrong
  <2> QED BY <1>1, <2>1, SmallestOne
<1>3. /\ T \subseteq Nat /\ T # {} /\ ~(Least(T) /\ Greatest(T))
      /\ \A U \in SUBSET T : U # T /\ U # {} => Least(U) /\ Greatest(U)
  <2>1. T \in SUBSET S /\ T # {} /\ ~(Least(T) /\ Greatest(T))
    OBVIOUS
  <2>2. ASSUME NEW U \in SUBSET T, U # T, U # {} PROVE Least(U) /\ Greatest(U)
    <3>1. U \in SUBSET S /\ U \notin Wrong
      BY <1>2, <2>1, <2>2
    <3> HIDE DEF Least, Greatest
    <3> QED BY <2>2, <3>1
  <2> QED BY <2>1, <2>2
<1> HIDE DEF Wrong
<1>4. PICK x \in T : TRUE
  BY <1>3
<1>5. T \ {x} = {} \/ (Least(T \ {x}) /\ Greatest(T \ {x}))
  <2>1. T \ {x} \in SUBSET T /\ T \ {x} # T
    BY <1>4
  <2> HIDE DEF Least, Greatest
  <2> QED BY <1>3, <2>1
<1>6. CASE T \ {x} = {}
  <2>1. T = {x} /\ x \in Nat
    BY <1>3, <1>6
  <2> QED BY <1>3, <2>1
<1>7. CASE Least(T \ {x}) /\ Greatest(T \ {x})
  <2>1. PICK l \in T \ {x} : \A n \in T \ {x} : l <= n
    BY <1>7
  <2>2. PICK g \in T \ {x} : \A n \in T \ {x} : g >= n
    BY <1>7
  <2>3. Least(T)
    <3>1. CASE l <= x
      BY <1>3, <2>1, <3>1
    <3>2. CASE ~(l <= x)
      <4>1. \A n \in T : x <= n
        BY <1>3, <2>1, <3>2
      <4> QED BY <4>1
    <3> QED BY <3>1, <3>2
  <2>4. Greatest(T)
    <3>1. CASE g >= x
      BY <1>3, <2>2, <3>1
    <3>2. CASE ~(g >= x)
      <4>1. \A n \in T : x >= n
        BY <1>3, <2>2, <3>2
      <4> QED BY <4>1
    <3> QED BY <3>1, <3>2
  <2> QED BY <1>3, <2>3, <2>4
<1> QED BY <1>5, <1>6, <1>7

LEMMA PairFinite == ASSUME NEW x, NEW y PROVE IsFiniteSet({x, y})
PROOF
<1>1. {x, y} = {x} \cup {y}
  OBVIOUS
<1>2. IsFiniteSet({x}) /\ IsFiniteSet({y})
  BY FS_Singleton
<1>3. IsFiniteSet({x} \cup {y})
  BY <1>2, FS_Union
<1> QED BY <1>1, <1>3

LEMMA MinIs ==
    ASSUME NEW S, IsFiniteSet(S), S \subseteq Nat, S # {}
    PROVE  Min(S) \in S /\ \A n \in S : Min(S) <= n
PROOF BY Bounded DEF Min

LEMMA MaxIs ==
    ASSUME NEW S, IsFiniteSet(S), S \subseteq Nat, S # {}
    PROVE  Max(S) \in S /\ \A n \in S : n <= Max(S)
PROOF
<1>1. Max(S) \in S /\ \A n \in S : Max(S) >= n
  BY Bounded DEF Max
<1> QED BY <1>1

\* A finite set of numbers has one order.
Ordered(order, S) ==
    /\ order \in [1 .. Cardinality(S) -> S]
    /\ \A k, l \in DOMAIN order : k < l => order[k] < order[l]

LEMMA OrderExists ==
    ASSUME NEW S, IsFiniteSet(S), \A x \in S : x \in Nat
    PROVE  \E order : Ordered(order, S)
PROOF
<1> DEFINE Wrong == {T \in SUBSET S : ~\E order : Ordered(order, T)}
<1>1. SUFFICES ASSUME Wrong # {} PROVE FALSE
  OBVIOUS
<1>2. PICK T \in Wrong : \A U \in Wrong : U \subseteq T => U = T
  <2>1. Wrong \subseteq SUBSET S
    OBVIOUS
  <2> HIDE DEF Wrong
  <2> QED BY <1>1, <2>1, SmallestOne
<1>3. /\ T \subseteq Nat /\ T \in SUBSET S /\ ~\E order : Ordered(order, T)
      /\ \A U \in SUBSET T : U # T => \E order : Ordered(order, U)
  BY <1>2
<1> HIDE DEF Wrong
<1>4. IsFiniteSet(T)
  BY <1>3, FS_Subset
<1>5. T # {}
  <2> SUFFICES ASSUME T = {} PROVE FALSE
    OBVIOUS
  <2> DEFINE order == [k \in 1 .. 0 |-> 0]
  <2>1. Cardinality(T) = 0
    BY FS_EmptySet
  <2>2. order \in [1 .. 0 -> T] /\ DOMAIN order = {}
    OBVIOUS
  <2> HIDE DEF order
  <2>3. Ordered(order, T)
    BY <2>1, <2>2 DEF Ordered
  <2> QED BY <1>3, <2>3
<1> DEFINE m == Max(T)
           U == T \ {m}
           n == Cardinality(T)
<1>6. m \in T /\ \A k \in T : k <= m
  BY <1>3, <1>4, <1>5, MaxIs
<1> HIDE DEF m
<1>7. n \in Nat /\ n > 0 /\ Cardinality(U) = n - 1
  <2>1. Cardinality(T) \in Nat /\ Cardinality(T) # 0
    BY <1>4, <1>5, FS_CardinalityType, FS_EmptySet
  <2>2. Cardinality(U) = Cardinality(T) - 1
    BY <1>4, <1>6, FS_RemoveElement
  <2> QED BY <2>1, <2>2
<1>8. PICK before : Ordered(before, U)
  BY <1>3, <1>6
<1> HIDE DEF n
<1> DEFINE order == [k \in 1 .. n |-> IF k = n THEN m ELSE before[k]]
<1>9. /\ before \in [1 .. n - 1 -> U]
      /\ \A k, l \in 1 .. n - 1 : k < l => before[k] < before[l]
  <2>1. before \in [1 .. n - 1 -> U]
    BY <1>7, <1>8 DEF Ordered
  <2>2. DOMAIN before = 1 .. n - 1
    BY <2>1
  <2> QED BY <1>8, <2>1, <2>2 DEF Ordered
<1>10. \A k \in 1 .. n : k = n \/ k \in 1 .. n - 1
  BY <1>7
<1>11. order \in [1 .. n -> T]
  BY <1>6, <1>9, <1>10
<1>12. ASSUME NEW k \in 1 .. n, NEW l \in 1 .. n, k < l PROVE order[k] < order[l]
  <2>1. k \in 1 .. n - 1 /\ before[k] \in U
    BY <1>9, <1>7, <1>12
  <2>2. before[k] < m
    <3>1. before[k] \in T /\ before[k] # m /\ before[k] \in Nat /\ m \in Nat
      BY <1>3, <1>6, <2>1
    <3>2. before[k] <= m
      BY <1>6, <3>1
    <3> QED BY <3>1, <3>2
  <2> QED BY <1>9, <1>10, <1>12, <2>1, <2>2
<1>13. Ordered(order, T)
  <2>1. DOMAIN order = 1 .. n
    OBVIOUS
  <2> HIDE DEF order
  <2> QED BY <1>11, <1>12, <2>1 DEF Ordered, n
<1> QED BY <1>3, <1>13

LEMMA InOrderIs ==
    ASSUME NEW S, IsFiniteSet(S), S \subseteq Nat
    PROVE  /\ Cardinality(S) \in Nat
           /\ InOrder(S) \in [1 .. Cardinality(S) -> S]
           /\ \A k, l \in 1 .. Cardinality(S) : k < l => InOrder(S)[k] < InOrder(S)[l]
           /\ \A k, l \in 1 .. Cardinality(S) : k # l => InOrder(S)[k] # InOrder(S)[l]
           /\ \A x \in S : \E k \in 1 .. Cardinality(S) : x = InOrder(S)[k]
PROOF
<1> DEFINE order == InOrder(S)
           n == Cardinality(S)
<1>1. n \in Nat
  BY FS_CardinalityType
<1>2. order \in [1 .. n -> S] /\ \A k, l \in DOMAIN order : k < l => order[k] < order[l]
  BY OrderExists DEF Ordered, InOrder
<1> HIDE DEF order
<1>3. \A k, l \in 1 .. n : k < l => order[k] < order[l]
  BY <1>2
<1>4. ASSUME NEW k \in 1 .. n, NEW l \in 1 .. n, k # l PROVE order[k] # order[l]
  <2>1. order[k] \in Nat /\ order[l] \in Nat
    BY <1>2
  <2>2. k < l \/ l < k
    BY <1>1, <1>4
  <2> QED BY <1>3, <2>1, <2>2
<1>5. order \in Injection(1 .. n, S)
  BY <1>2, <1>4 DEF Injection, IsInjective
<1>6. order \in Surjection(1 .. n, S)
  <2>1. Cardinality(1 .. n) = n
    BY <1>1, FS_Interval
  <2> HIDE DEF n
  <2>2. n = Cardinality(S)
    BY DEF n
  <2> QED BY <1>5, <2>1, <2>2, FS_Injection
<1>7. \A x \in S : \E k \in 1 .. n : x = order[k]
  BY <1>6 DEF Surjection
<1> QED BY <1>1, <1>2, <1>3, <1>4, <1>7 DEF order

-----------------------------------------------------------------------------
(***************************************************************************)
(* Types.                                                                  *)
(***************************************************************************)

LEMMA ListTyped ==
    ASSUME ranked \in Lists
    PROVE  /\ Len(ranked) \in Nat /\ Ranks = 1 .. Len(ranked)
           /\ Ranks \subseteq Nat /\ IsFiniteSet(Ranks)
           /\ \A i \in Ranks : /\ ranked[i].path \in Paths /\ ranked[i].range \in Ranges
                               /\ ranked[i].shown \in Nat /\ ranked[i].priority \in Nat
                               /\ ranked[i].traced \in BOOLEAN
           /\ \A i, j \in Ranks : i # j /\ ranked[i].path = ranked[j].path =>
                  ranked[i].range # ranked[j].range /\ Symbols[ranked[i].path] = {}
PROOF
<1> DEFINE Record == [path: Paths, range: Ranges, shown: Nat, priority: Nat,
                      text: Texts, traced: BOOLEAN]
<1>1. ranked \in Seq(Record)
  BY ListsAssumption
<1>2. /\ \A r \in Record : /\ r.path \in Paths /\ r.range \in Ranges /\ r.shown \in Nat
                           /\ r.priority \in Nat /\ r.traced \in BOOLEAN
  OBVIOUS
<1> HIDE DEF Record
<1>3. Len(ranked) \in Nat /\ Ranks = 1 .. Len(ranked) /\ \A i \in Ranks : ranked[i] \in Record
  BY <1>1 DEF Ranks
<1>4. IsFiniteSet(Ranks)
  BY <1>3, FS_Interval
<1>5. \A i \in Ranks : /\ ranked[i].path \in Paths /\ ranked[i].range \in Ranges
                        /\ ranked[i].shown \in Nat /\ ranked[i].priority \in Nat
                        /\ ranked[i].traced \in BOOLEAN
  BY <1>2, <1>3
<1>6. \A i, j \in Ranks : i # j /\ ranked[i].path = ranked[j].path =>
          ranked[i].range # ranked[j].range /\ Symbols[ranked[i].path] = {}
  BY ListsAssumption DEF Ranks
<1>7. Ranks \subseteq Nat
  BY <1>3
<1> QED BY <1>3, <1>4, <1>5, <1>6, <1>7

UnitType == [rank: Ranks, range: Ranges, shown: Nat, back: BOOLEAN]

LEMMA PackTyped ==
    ASSUME pack \in Seq(UnitType)
    PROVE  /\ Len(pack) \in Nat /\ DOMAIN pack = 1 .. Len(pack)
           /\ DOMAIN pack \subseteq Nat /\ IsFiniteSet(DOMAIN pack)
           /\ \A k \in DOMAIN pack : /\ pack[k] \in UnitType
                                     /\ pack[k].rank \in Ranks /\ pack[k].range \in Ranges
                                     /\ pack[k].shown \in Nat /\ pack[k].back \in BOOLEAN
PROOF
<1>1. \A u \in UnitType : /\ u.rank \in Ranks /\ u.range \in Ranges
                          /\ u.shown \in Nat /\ u.back \in BOOLEAN
  BY DEF UnitType
<1>2. /\ Len(pack) \in Nat /\ DOMAIN pack = 1 .. Len(pack)
      /\ \A k \in DOMAIN pack : pack[k] \in UnitType
  OBVIOUS
<1>3. IsFiniteSet(DOMAIN pack)
  BY <1>2, FS_Interval
<1> QED BY <1>1, <1>2, <1>3

\* The tokens of candidates and of units are sums of natural numbers.
LEMMA TotalIsSum ==
    ASSUME ranked \in Lists, NEW S \in SUBSET Ranks
    PROVE  /\ IsFiniteSet(S) /\ TotalTokens(S) = SumFunctionOnSet(Tokens(ranked), S)
           /\ \A i \in Ranks : Tokens(ranked)[i] = estimate_tokens(ranked[i])
                               /\ Tokens(ranked)[i] \in Nat
           /\ TotalTokens(S) \in Nat
PROOF
<1>1. IsFiniteSet(S)
  BY ListTyped, FS_Subset
<1>2. \A i \in Ranks : Tokens(ranked)[i] = estimate_tokens(ranked[i])
                       /\ Tokens(ranked)[i] \in Nat
  BY ListTyped, BudgetsAssumption DEF Tokens, estimate_tokens, Ranks
<1> QED BY <1>1, <1>2, SumRemoves DEF TotalTokens

LEMMA PackIsSum ==
    ASSUME pack \in Seq(UnitType), NEW S \in SUBSET DOMAIN pack
    PROVE  /\ IsFiniteSet(S) /\ PackTokens(S) = SumFunctionOnSet(Tokens(pack), S)
           /\ \A k \in DOMAIN pack : Tokens(pack)[k] = estimate_tokens(pack[k])
                                     /\ Tokens(pack)[k] \in Nat
           /\ PackTokens(S) \in Nat
PROOF
<1>1. IsFiniteSet(S)
  BY PackTyped, FS_Subset
<1>2. \A k \in DOMAIN pack : Tokens(pack)[k] = estimate_tokens(pack[k])
                             /\ Tokens(pack)[k] \in Nat
  BY PackTyped, BudgetsAssumption DEF Tokens, estimate_tokens
<1> QED BY <1>1, <1>2, SumRemoves DEF PackTokens

LEMMA BudgetTyped ==
    ASSUME budget \in Budgets
    PROVE  /\ budget.file_limit \in BOOLEAN /\ budget.available \in Nat
           /\ budget.max_per_file \in Nat /\ budget.max_primary \in Nat
           /\ budget.region_files \in Nat /\ budget.region_tokens \in Nat
PROOF BY BudgetsAssumption

LEMMA MinusTyped == \A m, n \in Nat : Minus(m, n) \in Nat /\ m <= Minus(m, n) + n
PROOF BY DEF Minus

\* Ranges of lines.
LEMMA RangeTyped ==
    ASSUME NEW r \in Ranges, r # NoRange
    PROVE  /\ r \in LineRanges /\ r.start \in Nat /\ r.end \in Nat /\ r.start <= r.end
           /\ r.start \in LinesOf(r) /\ r.end \in LinesOf(r)
           /\ LinesOf(r) \subseteq Nat /\ IsFiniteSet(LinesOf(r))
           /\ r = [start |-> r.start, end |-> r.end]
PROOF
<1>1. r \in LineRanges /\ r.start \in Nat /\ r.end \in Nat /\ r.start <= r.end
  BY DEF Ranges, LineRanges
<1>2. r = [start |-> r.start, end |-> r.end]
  BY <1>1 DEF LineRanges
<1>3. IsFiniteSet(LinesOf(r))
  BY <1>1, FS_Interval DEF LinesOf
<1> QED BY <1>1, <1>2, <1>3 DEF LinesOf

LEMMA RangeOfTyped ==
    ASSUME NEW lines, IsFiniteSet(lines), lines \subseteq Nat, lines # {}
    PROVE  /\ RangeOf(lines) \in LineRanges /\ RangeOf(lines) \in Ranges
           /\ RangeOf(lines) # NoRange
           /\ lines \subseteq LinesOf(RangeOf(lines))
           /\ RangeOf(lines).start = Min(lines) /\ RangeOf(lines).end = Max(lines)
PROOF
<1>1. Min(lines) \in lines /\ \A n \in lines : Min(lines) <= n
  BY MinIs
<1>2. Max(lines) \in lines /\ \A n \in lines : n <= Max(lines)
  BY MaxIs
<1>3. Min(lines) \in Nat /\ Max(lines) \in Nat /\ Min(lines) <= Max(lines)
  BY <1>1, <1>2
<1> DEFINE first == Min(lines)
           last == Max(lines)
<1> HIDE DEF first, last
<1>4. /\ RangeOf(lines) = [start |-> first, end |-> last]
      /\ RangeOf(lines).start = first /\ RangeOf(lines).end = last
  BY DEF RangeOf, first, last
<1>5. RangeOf(lines) \in LineRanges
  BY <1>3, <1>4 DEF LineRanges, first, last
<1>6. lines \subseteq LinesOf(RangeOf(lines))
  BY <1>1, <1>2, <1>3, <1>4 DEF LinesOf, first, last
<1>7. RangeOf(lines) \in Ranges /\ RangeOf(lines) # NoRange
  BY <1>5, FilesAssumption DEF Ranges
<1> QED BY <1>4, <1>5, <1>6, <1>7 DEF first, last

LEMMA CoveredTyped ==
    ASSUME NEW path, NEW r \in LineRanges
    PROVE  /\ Covered(path, r) \subseteq LinesOf(r) /\ Covered(path, r) \subseteq Nat
           /\ IsFiniteSet(Covered(path, r)) /\ Cardinality(Covered(path, r)) \in Nat
PROOF
<1>1. LinesOf(r) \subseteq Nat /\ IsFiniteSet(LinesOf(r))
  BY RangeTyped, FilesAssumption DEF Ranges
<1>2. Covered(path, r) \in SUBSET LinesOf(r)
  BY DEF Covered
<1> QED BY <1>1, <1>2, FS_Subset, FS_CardinalityType

\* A grown unit is a unit, and its growth pays for it.
LEMMA GrownTyped ==
    ASSUME NEW unit \in UnitType, NEW lines, IsFiniteSet(lines), lines \subseteq Nat, lines # {}
    PROVE  /\ Grown(unit, lines) \in UnitType
           /\ Grown(unit, lines).rank = unit.rank /\ Grown(unit, lines).back = unit.back
           /\ Grown(unit, lines).range = RangeOf(lines)
           /\ Grown(unit, lines).shown = Cardinality(lines)
           /\ Growth(unit, lines) \in Nat
           /\ estimate_tokens(Grown(unit, lines)) <= estimate_tokens(unit) + Growth(unit, lines)
PROOF
<1>1. RangeOf(lines) \in Ranges /\ Cardinality(lines) \in Nat
  BY RangeOfTyped, FS_CardinalityType
<1> DEFINE range == RangeOf(lines)
           shown == Cardinality(lines)
<1> HIDE DEF range, shown
<1>2. Grown(unit, lines) = [unit EXCEPT !.range = range, !.shown = shown]
  BY DEF Grown, range, shown
<1>3. range \in Ranges /\ shown \in Nat
  BY <1>1 DEF range, shown
<1>4. /\ Grown(unit, lines) \in UnitType
      /\ Grown(unit, lines).rank = unit.rank /\ Grown(unit, lines).back = unit.back
      /\ Grown(unit, lines).range = range /\ Grown(unit, lines).shown = shown
  BY <1>2, <1>3 DEF UnitType
<1>5. unit.shown \in Nat /\ Overhead \in Nat
  BY BudgetsAssumption DEF UnitType
<1>6. Growth(unit, lines) = Minus(Overhead + shown, Overhead + unit.shown)
  BY DEF Growth, estimate_tokens, shown
<1>7. /\ Growth(unit, lines) \in Nat
      /\ Overhead + shown <= Overhead + unit.shown + Growth(unit, lines)
  BY <1>3, <1>5, <1>6 DEF Minus
<1>8. estimate_tokens(Grown(unit, lines)) = Overhead + shown
      /\ estimate_tokens(unit) = Overhead + unit.shown
  BY <1>4 DEF estimate_tokens
<1> QED BY <1>4, <1>7, <1>8 DEF range, shown

-----------------------------------------------------------------------------
(***************************************************************************)
(* What the steps do to the pack.                                          *)
(***************************************************************************)

LEMMA InsertIs ==
    ASSUME NEW S, NEW s \in Seq(S), NEW e \in S, NEW place \in 1 .. Len(s) + 1
    PROVE  /\ InsertAt(s, place, e) \in Seq(S) /\ Len(InsertAt(s, place, e)) = Len(s) + 1
           /\ \A k \in 1 .. Len(s) + 1 :
                 InsertAt(s, place, e)[k] =
                     IF k < place THEN s[k] ELSE IF k = place THEN e ELSE s[k - 1]
PROOF
<1> DEFINE before == SubSeq(s, 1, place - 1)
           after == SubSeq(s, place, Len(s))
<1>0. Len(s) \in Nat /\ \A k \in 1 .. Len(s) : s[k] \in S
  OBVIOUS
<1>1. /\ before \in Seq(S) /\ Len(before) = place - 1
      /\ \A k \in 1 .. place - 1 : before[k] = s[k]
  <2>1. \A k \in 1 .. place - 1 : s[k] \in S
    BY <1>0
  <2> QED BY <1>0, <2>1, SubSeqProperties
<1>2. /\ after \in Seq(S) /\ Len(after) = Len(s) - place + 1
      /\ \A k \in 1 .. Len(s) - place + 1 : after[k] = s[place + k - 1]
  <2>1. \A k \in place .. Len(s) : s[k] \in S
    BY <1>0
  <2> QED BY <1>0, <2>1, SubSeqProperties
<1> HIDE DEF before, after
<1>3. /\ before \o <<e>> \in Seq(S) /\ Len(before \o <<e>>) = place
      /\ \A k \in 1 .. place : (before \o <<e>>)[k] = IF k < place THEN s[k] ELSE e
  <2>1. <<e>> \in Seq(S) /\ Len(<<e>>) = 1 /\ <<e>>[1] = e
    OBVIOUS
  <2> QED BY <1>0, <1>1, <2>1, ConcatProperties
<1>4. /\ (before \o <<e>>) \o after \in Seq(S)
      /\ Len((before \o <<e>>) \o after) = Len(s) + 1
      /\ \A k \in 1 .. Len(s) + 1 : ((before \o <<e>>) \o after)[k] =
             IF k <= place THEN (before \o <<e>>)[k] ELSE after[k - place]
  BY <1>0, <1>2, <1>3, ConcatProperties
<1>5. InsertAt(s, place, e) = (before \o <<e>>) \o after
  BY DEF InsertAt, before, after
<1>6. ASSUME NEW k \in 1 .. Len(s) + 1
      PROVE  ((before \o <<e>>) \o after)[k] =
                 IF k < place THEN s[k] ELSE IF k = place THEN e ELSE s[k - 1]
  <2>1. CASE k <= place
    BY <1>3, <1>4, <2>1
  <2>2. CASE ~(k <= place)
    <3>1. k - place \in 1 .. Len(s) - place + 1 /\ place + (k - place) - 1 = k - 1
      BY <1>0, <2>2
    <3>2. after[k - place] = s[k - 1]
      BY <1>2, <3>1
    <3> QED BY <1>4, <2>2, <3>2
  <2> QED BY <2>1, <2>2
<1> QED BY <1>4, <1>5, <1>6

LEMMA UnitTyped ==
    ASSUME ranked \in Lists, NEW i \in Ranks, NEW b \in BOOLEAN
    PROVE  /\ Unit(i, b) \in UnitType /\ Unit(i, b).rank = i /\ Unit(i, b).back = b
           /\ Unit(i, b).range = ranked[i].range /\ Unit(i, b).shown = ranked[i].shown
PROOF BY ListTyped DEF Unit, UnitType

\* Selection presents the units of the ranks it chose, in their order.
LEMMA UnitsAre ==
    ASSUME ranked \in Lists, NEW S \in SUBSET Ranks
    PROVE  /\ Units(S) \in Seq(UnitType) /\ IsFiniteSet(S)
           /\ \A k \in DOMAIN Units(S) :
                 /\ Units(S)[k].rank \in S
                 /\ Units(S)[k] = Unit(Units(S)[k].rank, FALSE)
           /\ \A k, l \in DOMAIN Units(S) : k < l => Units(S)[k].rank < Units(S)[l].rank
           /\ \A k, l \in DOMAIN Units(S) : k # l => Units(S)[k].rank # Units(S)[l].rank
           /\ \A i \in S : \E k \in DOMAIN Units(S) : Units(S)[k].rank = i
PROOF
<1> DEFINE n == Cardinality(S)
           order == InOrder(S)
<1>1. IsFiniteSet(S) /\ S \subseteq Nat
  BY ListTyped, FS_Subset
<1>2. /\ n \in Nat /\ order \in [1 .. n -> S]
      /\ \A k, l \in 1 .. n : k < l => order[k] < order[l]
      /\ \A k, l \in 1 .. n : k # l => order[k] # order[l]
      /\ \A i \in S : \E k \in 1 .. n : i = order[k]
  BY <1>1, InOrderIs
<1>3. Units(S) = [k \in 1 .. n |-> Unit(order[k], FALSE)]
  BY DEF Units
<1> HIDE DEF n, order
<1>4. \A k \in 1 .. n : order[k] \in S /\ order[k] \in Ranks
  BY <1>2
<1>5. DOMAIN Units(S) = 1 .. n /\ \A k \in 1 .. n : Units(S)[k] = Unit(order[k], FALSE)
  BY <1>3
<1>6. \A k \in 1 .. n : Units(S)[k] \in UnitType /\ Units(S)[k].rank = order[k]
  BY <1>4, <1>5, UnitTyped
<1>7. Units(S) \in Seq(UnitType)
  <2>1. Units(S) \in [1 .. n -> UnitType]
    BY <1>3, <1>4, UnitTyped
  <2> QED BY <1>2, <2>1
<1>8. \A k \in DOMAIN Units(S) : /\ Units(S)[k].rank \in S
                                  /\ Units(S)[k] = Unit(Units(S)[k].rank, FALSE)
  BY <1>4, <1>5, <1>6
<1>9. /\ \A k, l \in DOMAIN Units(S) : k < l => Units(S)[k].rank < Units(S)[l].rank
      /\ \A k, l \in DOMAIN Units(S) : k # l => Units(S)[k].rank # Units(S)[l].rank
  BY <1>2, <1>5, <1>6
<1>10. \A i \in S : \E k \in DOMAIN Units(S) : Units(S)[k].rank = i
  BY <1>2, <1>5, <1>6
<1> QED BY <1>1, <1>7, <1>8, <1>9, <1>10

LEMMA MineAre ==
    ASSUME pack \in Seq(UnitType), NEW path
    PROVE  /\ unit_indices(path) \subseteq DOMAIN pack /\ unit_indices(path) \subseteq Nat
           /\ IsFiniteSet(unit_indices(path))
           /\ unit_indices(path) # {} =>
                 /\ Min(unit_indices(path)) \in unit_indices(path)
                 /\ \A k \in unit_indices(path) : Min(unit_indices(path)) <= k
                 /\ Max(unit_indices(path)) \in unit_indices(path)
                 /\ \A k \in unit_indices(path) : k <= Max(unit_indices(path))
PROOF
<1>1. unit_indices(path) \in SUBSET DOMAIN pack
  BY DEF unit_indices
<1>2. IsFiniteSet(unit_indices(path)) /\ unit_indices(path) \subseteq Nat
  BY <1>1, PackTyped, FS_Subset
<1> QED BY <1>1, <1>2, MinIs, MaxIs

\* A pass goes from one unit of the file to the next, up to the last.
LEMMA NextUnitIs ==
    ASSUME pack \in Seq(UnitType), at \in Nat, NEW then, NEW place, NextUnit(then, place)
    PROVE  \/ /\ pc' = pc /\ at' \in Mine /\ at' > at
              /\ \A k \in Mine : k < at' <=> k <= at
           \/ /\ pc' = then /\ at' = place
              /\ \A k \in Mine : k <= at
PROOF
<1> DEFINE later == {k \in Mine : k > at}
<1>1. Mine \subseteq Nat /\ IsFiniteSet(later) /\ later \subseteq Nat
  <2>1. Mine \subseteq Nat /\ IsFiniteSet(Mine)
    BY MineAre DEF Mine
  <2>2. later \in SUBSET Mine
    OBVIOUS
  <2> QED BY <2>1, <2>2, FS_Subset
<1>2. CASE later # {}
  <2>1. pc' = pc /\ at' = Min(later)
    BY <1>2 DEF NextUnit
  <2>2. Min(later) \in later /\ \A k \in later : Min(later) <= k
    <3> HIDE DEF later
    <3> QED BY <1>1, <1>2, MinIs
  <2>3. at' \in Mine /\ at' > at /\ \A k \in Mine : k > at => at' <= k
    BY <2>1, <2>2
  <2>4. \A k \in Mine : k < at' <=> k <= at
    BY <1>1, <2>3
  <2> QED BY <2>1, <2>3, <2>4
<1>3. CASE later = {}
  <2>1. pc' = then /\ at' = place
    BY <1>3 DEF NextUnit
  <2>2. \A k \in Mine : ~(k > at)
    BY <1>3
  <2> QED BY <1>1, <2>1, <2>2
<1> QED BY <1>2, <1>3

\* Where the builder is: in a pass over the first file it has still to widen, at one of its
\* units, of which there are some.
PathOf(k) == ranked[pack[k].rank].path
Passes == {"widen", "readmit", "absorb", "retarget"}
Where ==
    /\ pc = "select" => pack = <<>>
    /\ pc \in {"select", "selected", "done"} => todo = <<>>
    /\ \A n \in DOMAIN todo : unit_indices(todo[n]) # {}
    /\ \A m, n \in DOMAIN todo : m # n => todo[m] # todo[n]
    /\ pc \in Passes => todo # <<>>
    /\ pc \in {"widen", "absorb", "retarget"} => at \in Mine
    /\ pc = "readmit" => at > 0

Typed == TypeOK /\ Where

LEMMA TypedIs ==
    ASSUME Typed
    PROVE  /\ budget \in Budgets /\ ranked \in Lists /\ pack \in Seq(UnitType)
           /\ chosen \subseteq Ranks /\ todo \in Seq(Paths) /\ at \in Nat
           /\ fileTokens \in Nat /\ remaining \in Nat
           /\ pc \in Passes =>
                 /\ todo # <<>> /\ Path \in Paths /\ 1 \in DOMAIN todo /\ Path = todo[1]
                 /\ Mine # {}
           /\ pc \in {"widen", "absorb", "retarget"} =>
                 at \in DOMAIN pack /\ PathOf(at) = Path
PROOF
<1>1. /\ budget \in Budgets /\ ranked \in Lists /\ pack \in Seq(UnitType)
      /\ chosen \subseteq Ranks /\ todo \in Seq(Paths) /\ at \in Nat
      /\ fileTokens \in Nat /\ remaining \in Nat
  BY DEF Typed, TypeOK, UnitType
<1>2. ASSUME pc \in Passes
      PROVE  /\ todo # <<>> /\ Path \in Paths /\ 1 \in DOMAIN todo /\ Path = todo[1]
             /\ Mine # {}
  <2>1. todo # <<>>
    BY <1>2 DEF Typed, Where
  <2>2. Path \in Paths /\ 1 \in DOMAIN todo /\ Path = todo[1]
    BY <1>1, <2>1 DEF Path
  <2>3. Mine # {}
    BY <2>2 DEF Typed, Where, Mine
  <2> QED BY <2>1, <2>2, <2>3
<1>3. pc \in {"widen", "absorb", "retarget"} => at \in DOMAIN pack /\ PathOf(at) = Path
  BY DEF Typed, Where, Mine, unit_indices, PathOf
<1> QED BY <1>1, <1>2, <1>3

\* A unit of the file grows to show some lines, and the file and the pack pay.
Grows(lines) ==
    /\ pc \in {"widen", "absorb"}
    /\ lines \subseteq Nat /\ IsFiniteSet(lines) /\ lines # {}
    /\ Fits(Growth(pack[at], lines))
    /\ pack' = [pack EXCEPT ![at] = Grown(@, lines)]
    /\ Spend(Growth(pack[at], lines))

\* A candidate of the file comes back.
Returns ==
    /\ pc = "readmit" /\ at \in Ranks /\ Readmits(at)
    /\ pack' = InsertAt(pack, Max(Mine) + 1, Unit(at, TRUE))
    /\ Spend(estimate_tokens(ranked[at]))

Pays == <<pack, fileTokens, remaining>>

LEMMA ExtendedIs ==
    ASSUME Typed, pc = "absorb", NEW range \in ExtendedTo(at)
    PROVE  /\ pack[at].range \in LineRanges /\ range \in LineRanges
           /\ \E c \in Chunks[Path] :
                 /\ c \in LineRanges /\ ~overlaps_unit(Path, {at}, c)
                 /\ LinesOf(range) = LinesOf(pack[at].range) \cup LinesOf(c)
                 /\ LinesOf(pack[at].range) \cap LinesOf(c) = {}
PROOF
<1> DEFINE old == pack[at].range
<1>1. old \in Ranges /\ Path \in Paths
  BY TypedIs, PackTyped DEF Passes
<1>2. old # NoRange
  BY DEF ExtendedTo
<1>3. PICK c \in Chunks[Path] :
         /\ (IF side = "after" THEN c.start = old.end + 1 ELSE c.end + 1 = old.start)
         /\ ~overlaps_unit(Path, {at}, c)
         /\ range = RangeOf(LinesOf(old) \cup LinesOf(c))
  BY DEF ExtendedTo
<1>4. c \in LineRanges /\ c \in Ranges /\ c # NoRange
  BY <1>1, FilesAssumption DEF Ranges
<1> DEFINE lines == LinesOf(old) \cup LinesOf(c)
<1> HIDE DEF old
<1>5. /\ old.start \in Nat /\ old.end \in Nat /\ old.start <= old.end /\ old \in LineRanges
      /\ LinesOf(old) \subseteq Nat /\ IsFiniteSet(LinesOf(old))
      /\ old.start \in LinesOf(old)
  BY <1>1, <1>2, RangeTyped
<1>6. /\ c.start \in Nat /\ c.end \in Nat /\ c.start <= c.end
      /\ LinesOf(c) \subseteq Nat /\ IsFiniteSet(LinesOf(c))
  BY <1>4, RangeTyped
<1>7. IsFiniteSet(lines) /\ lines \subseteq Nat /\ lines # {}
  BY <1>5, <1>6, FS_Union
<1>8. /\ RangeOf(lines) \in LineRanges
      /\ RangeOf(lines).start = Min(lines) /\ RangeOf(lines).end = Max(lines)
      /\ Min(lines) \in lines /\ \A n \in lines : Min(lines) <= n
      /\ Max(lines) \in lines /\ \A n \in lines : n <= Max(lines)
  <2> HIDE DEF lines
  <2> QED BY <1>7, RangeOfTyped, MinIs, MaxIs
<1>9. range = RangeOf(lines) /\ range \in LineRanges
  BY <1>3, <1>8
<1>10. \A n \in Nat : n \in lines <=> Min(lines) <= n /\ n <= Max(lines)
  <2>1. CASE c.start = old.end + 1
    <3>1. \A n \in Nat : n \in lines <=> old.start <= n /\ n <= c.end
      BY <1>5, <1>6, <2>1 DEF LinesOf
    <3>2. Min(lines) = old.start /\ Max(lines) = c.end
      <4>1. old.start \in lines /\ c.end \in lines
        BY <1>5, <1>6, <2>1, <3>1
      <4>2. Min(lines) \in Nat /\ Max(lines) \in Nat
        BY <1>7, <1>8
      <4> HIDE DEF lines
      <4> QED BY <1>5, <1>6, <1>8, <3>1, <4>1, <4>2
    <3> QED BY <3>1, <3>2
  <2>2. CASE c.end + 1 = old.start
    <3>1. \A n \in Nat : n \in lines <=> c.start <= n /\ n <= old.end
      BY <1>5, <1>6, <2>2 DEF LinesOf
    <3>2. Min(lines) = c.start /\ Max(lines) = old.end
      <4>1. c.start \in lines /\ old.end \in lines
        BY <1>5, <1>6, <2>2, <3>1
      <4>2. Min(lines) \in Nat /\ Max(lines) \in Nat
        BY <1>7, <1>8
      <4> HIDE DEF lines
      <4> QED BY <1>5, <1>6, <1>8, <3>1, <4>1, <4>2
    <3> QED BY <3>1, <3>2
  <2> QED BY <1>3, <2>1, <2>2
<1>11. LinesOf(range) = lines
  <2>1. range.start = Min(lines) /\ range.end = Max(lines)
    BY <1>8, <1>9
  <2>2. Min(lines) \in Nat /\ Max(lines) \in Nat
    BY <1>7, <1>8
  <2>3. \A n : n \in LinesOf(range) <=> n \in Nat /\ Min(lines) <= n /\ n <= Max(lines)
    BY <2>1, <2>2 DEF LinesOf
  <2> HIDE DEF lines
  <2> QED BY <1>7, <1>10, <2>3
<1>12. LinesOf(old) \cap LinesOf(c) = {}
  BY <1>3, <1>5, <1>6 DEF LinesOf
<1> QED BY <1>3, <1>4, <1>5, <1>9, <1>11, <1>12 DEF old

\* A unit that is widened shows the lines of the symbol around it, all of them in chunks.
LEMMA WidenedIs ==
    ASSUME Typed, pc = "widen", WidenedTo(pack[at]) # {}
    PROVE  /\ pack[at].range \in LineRanges /\ Symbols[Path] # {}
           /\ WidenedTo(pack[at]) \subseteq Nat /\ IsFiniteSet(WidenedTo(pack[at]))
           /\ LinesOf(pack[at].range) \subseteq WidenedTo(pack[at])
PROOF
<1> DEFINE old == pack[at].range
           E == enclosing_symbol(Path, old)
           Wanted(s) == [start |-> Min({old.start, s.start}), end |-> Max({old.end, s.end})]
<1>1. old \in Ranges /\ Path \in Paths
  BY TypedIs, PackTyped DEF Passes
<1>2. old # NoRange /\ WidenedTo(pack[at]) = UNION {Covered(Path, Wanted(s)) : s \in E}
  BY DEF WidenedTo
<1>3. PICK s \in E : TRUE
  <2> HIDE DEF E, Wanted
  <2> QED BY <1>2
<1>4. /\ \A t \in E : /\ t \in Symbols[Path] /\ t \in LineRanges
                      /\ t.start <= old.start /\ t.end >= old.end
      /\ \A t \in E, u \in E : \/ t.end - t.start < u.end - u.start
                               \/ t.end - t.start = u.end - u.start /\ t.start <= u.start
  <2>1. Symbols[Path] \subseteq LineRanges
    BY <1>1, FilesAssumption
  <2>2. \A t \in E : t \in Around(Path, old)
    BY DEF enclosing_symbol
  <2> QED BY <2>1, <2>2 DEF enclosing_symbol, Around
<1> HIDE DEF E
<1>5. \A t \in LineRanges : t.start \in Nat /\ t.end \in Nat /\ t.start <= t.end
                            /\ t = [start |-> t.start, end |-> t.end]
  BY DEF LineRanges
<1>6. \A t \in E : t = s
  <2>1. ASSUME NEW t \in E PROVE t.start = s.start /\ t.end = s.end
    <3>1. /\ t.start \in Nat /\ t.end \in Nat /\ s.start \in Nat /\ s.end \in Nat
      BY <1>4, <1>5
    <3>2. /\ \/ t.end - t.start < s.end - s.start
             \/ t.end - t.start = s.end - s.start /\ t.start <= s.start
          /\ \/ s.end - s.start < t.end - t.start
             \/ s.end - s.start = t.end - t.start /\ s.start <= t.start
      BY <1>4
    <3> QED BY <3>1, <3>2
  <2> QED BY <1>4, <1>5, <2>1
<1>7. old \in LineRanges /\ old.start \in Nat /\ old.end \in Nat
  BY <1>1, <1>2, RangeTyped
<1>8. s \in LineRanges /\ s.start \in Nat /\ s.end \in Nat /\ s.start <= s.end
      /\ s = [start |-> s.start, end |-> s.end] /\ s.start <= old.start /\ s.end >= old.end
  BY <1>3, <1>4, <1>5
<1>9. Wanted(s) = s
  <2>1. IsFiniteSet({old.start, s.start}) /\ IsFiniteSet({old.end, s.end})
    BY PairFinite
  <2>2. /\ Min({old.start, s.start}) \in {old.start, s.start}
        /\ \A n \in {old.start, s.start} : Min({old.start, s.start}) <= n
    <3>1. {old.start, s.start} \subseteq Nat /\ {old.start, s.start} # {}
      BY <1>7, <1>8
    <3> QED BY <2>1, <3>1, MinIs
  <2>3. /\ Max({old.end, s.end}) \in {old.end, s.end}
        /\ \A n \in {old.end, s.end} : n <= Max({old.end, s.end})
    <3>1. {old.end, s.end} \subseteq Nat /\ {old.end, s.end} # {}
      BY <1>7, <1>8
    <3> QED BY <2>1, <3>1, MaxIs
  <2>4. Min({old.start, s.start}) = s.start
    BY <1>7, <1>8, <2>2
  <2>5. Max({old.end, s.end}) = s.end
    BY <1>7, <1>8, <2>3
  <2> QED BY <1>8, <2>4, <2>5
<1> HIDE DEF Wanted
<1>10. WidenedTo(pack[at]) = Covered(Path, s)
  BY <1>2, <1>3, <1>6, <1>9
<1>11. Covered(Path, s) = LinesOf(s)
  BY <1>1, <1>3, <1>4, FilesAssumption DEF Covered
<1>12. LinesOf(s) \subseteq Nat /\ IsFiniteSet(LinesOf(s))
  BY <1>8, <1>10, <1>11, CoveredTyped
<1>13. LinesOf(old) \subseteq LinesOf(s)
  BY <1>7, <1>8 DEF LinesOf
<1> QED BY <1>3, <1>4, <1>7, <1>10, <1>11, <1>12, <1>13

LEMMA WidenGrows ==
    ASSUME Typed, Widen
    PROVE  \/ UNCHANGED Pays
           \/ \E lines : /\ Grows(lines) /\ Symbols[Path] # {}
                         /\ pack[at].range \in LineRanges
                         /\ LinesOf(pack[at].range) \subseteq lines
PROOF
<1> DEFINE lines == WidenedTo(pack[at])
<1>1. CASE UNCHANGED Pays
  BY <1>1
<1>2. CASE ~UNCHANGED Pays
  <2>1. /\ lines # {} /\ Fits(Growth(pack[at], lines))
        /\ pack' = [pack EXCEPT ![at] = Grown(@, lines)]
        /\ Spend(Growth(pack[at], lines)) /\ pc = "widen"
    BY <1>2 DEF Widen, Pays
  <2>2. /\ lines \subseteq Nat /\ IsFiniteSet(lines) /\ Symbols[Path] # {}
        /\ pack[at].range \in LineRanges /\ LinesOf(pack[at].range) \subseteq lines
    BY <2>1, WidenedIs
  <2> HIDE DEF lines
  <2> QED BY <2>1, <2>2 DEF Grows
<1> QED BY <1>1, <1>2

LEMMA AbsorbGrows ==
    ASSUME Typed, Absorb
    PROVE  \/ UNCHANGED Pays
           \/ \E range \in ExtendedTo(at) :
                 /\ RangeOf(Covered(Path, range)) = range
                 /\ Grows(Covered(Path, range))
PROOF
<1>1. CASE UNCHANGED Pays
  BY <1>1
<1>2. CASE ~UNCHANGED Pays
  <2>1. PICK range \in Absorbs(at) :
           /\ pack' = [pack EXCEPT ![at] = Grown(@, Covered(Path, range))]
           /\ Spend(Growth(pack[at], Covered(Path, range)))
    BY <1>2 DEF Absorb, Pays
  <2>2. /\ pc = "absorb" /\ range \in ExtendedTo(at)
        /\ RangeOf(Covered(Path, range)) = range
        /\ Fits(Growth(pack[at], Covered(Path, range)))
    BY <2>1 DEF Absorb, Absorbs
  <2>3. range \in LineRanges /\ Covered(Path, range) # {}
    <3>1. PICK c \in Chunks[Path] : c \in LineRanges /\ LinesOf(c) \subseteq LinesOf(range)
      BY <2>2, ExtendedIs
    <3>2. c.start \in LinesOf(c)
      BY <3>1 DEF LineRanges, LinesOf
    <3>3. c.start \in Covered(Path, range)
      BY <3>1, <3>2 DEF Covered
    <3> QED BY <2>2, <3>3, ExtendedIs
  <2>4. Covered(Path, range) \subseteq Nat /\ IsFiniteSet(Covered(Path, range))
    BY <2>3, CoveredTyped
  <2>5. Grows(Covered(Path, range))
    BY <2>1, <2>2, <2>3, <2>4 DEF Grows
  <2> QED BY <2>2, <2>5
<1> QED BY <1>1, <1>2

LEMMA ReadmitReturns ==
    ASSUME Readmit
    PROVE  UNCHANGED Pays \/ Returns
PROOF BY DEF Readmit, Returns, Pays

\* What a step that changes the pack leaves of it.
LEMMA GrowsPack ==
    ASSUME Typed, NEW lines, Grows(lines)
    PROVE  /\ pack' \in Seq(UnitType) /\ DOMAIN pack' = DOMAIN pack
           /\ at \in DOMAIN pack /\ pack'[at] = Grown(pack[at], lines)
           /\ \A k \in DOMAIN pack : k # at => pack'[k] = pack[k]
           /\ \A k \in DOMAIN pack : pack'[k].rank = pack[k].rank /\ pack'[k].back = pack[k].back
PROOF
<1>1. at \in DOMAIN pack /\ pack \in Seq(UnitType)
  BY TypedIs DEF Grows
<1>2. pack[at] \in UnitType
  BY <1>1, PackTyped
<1>3. /\ Grown(pack[at], lines) \in UnitType
      /\ Grown(pack[at], lines).rank = pack[at].rank
      /\ Grown(pack[at], lines).back = pack[at].back
  BY <1>2, GrownTyped DEF Grows
<1> DEFINE new == Grown(pack[at], lines)
<1> HIDE DEF new
<1>4. pack' = [pack EXCEPT ![at] = new]
  BY DEF Grows, new
<1>5. new \in UnitType /\ new.rank = pack[at].rank /\ new.back = pack[at].back
  BY <1>3 DEF new
<1>6. pack' \in Seq(UnitType) /\ DOMAIN pack' = DOMAIN pack
  BY <1>1, <1>4, <1>5
<1>7. pack'[at] = new /\ \A k \in DOMAIN pack : k # at => pack'[k] = pack[k]
  BY <1>1, <1>4
<1> QED BY <1>1, <1>5, <1>6, <1>7 DEF new

\* Where a unit was before another came in at a place.
Was(place, k) == IF k < place THEN k ELSE k - 1

LEMMA ReturnsPack ==
    ASSUME Typed, Returns
    PROVE  \E place \in DOMAIN pack' :
              /\ pack' \in Seq(UnitType) /\ DOMAIN pack' = 1 .. Len(pack) + 1
              /\ pack'[place] = Unit(at, TRUE)
              /\ \A k \in DOMAIN pack' : k # place =>
                    Was(place, k) \in DOMAIN pack /\ pack'[k] = pack[Was(place, k)]
              /\ \A k, l \in DOMAIN pack' : k # place /\ l # place /\ k # l =>
                    Was(place, k) # Was(place, l) /\ (k < l => Was(place, k) < Was(place, l))
              /\ \A k \in DOMAIN pack : \E l \in DOMAIN pack' : l # place /\ k = Was(place, l)
PROOF
<1> DEFINE place == Max(Mine) + 1
           new == Unit(at, TRUE)
<1>1. pack \in Seq(UnitType) /\ new \in UnitType
  BY TypedIs, UnitTyped DEF Returns
<1>2. Max(Mine) \in DOMAIN pack
  <2>1. Mine # {}
    BY TypedIs DEF Returns, Passes
  <2> QED BY <1>1, <2>1, MineAre DEF Mine
<1>3. Len(pack) \in Nat /\ DOMAIN pack = 1 .. Len(pack) /\ place \in 1 .. Len(pack) + 1
  BY <1>1, <1>2, PackTyped
<1>4. pack' = InsertAt(pack, place, new)
  BY DEF Returns
<1> HIDE DEF place, new
<1>5. /\ pack' \in Seq(UnitType) /\ Len(pack') = Len(pack) + 1
      /\ \A k \in 1 .. Len(pack) + 1 :
            pack'[k] = IF k < place THEN pack[k] ELSE IF k = place THEN new ELSE pack[k - 1]
  <2> DEFINE inserted == InsertAt(pack, place, new)
  <2>1. /\ inserted \in Seq(UnitType) /\ Len(inserted) = Len(pack) + 1
        /\ \A k \in 1 .. Len(pack) + 1 :
              inserted[k] = IF k < place THEN pack[k] ELSE IF k = place THEN new ELSE pack[k - 1]
    BY <1>1, <1>3, InsertIs
  <2>2. pack' = inserted
    BY <1>4
  <2> HIDE DEF inserted
  <2> QED BY <2>1, <2>2
<1>6. DOMAIN pack' = 1 .. Len(pack) + 1 /\ place \in DOMAIN pack' /\ pack'[place] = new
  BY <1>3, <1>5
<1>7. ASSUME NEW k \in DOMAIN pack', k # place
      PROVE  Was(place, k) \in DOMAIN pack /\ pack'[k] = pack[Was(place, k)]
  BY <1>3, <1>5, <1>6, <1>7 DEF Was
<1>8. ASSUME NEW k \in DOMAIN pack', NEW l \in DOMAIN pack', k # place, l # place, k # l
      PROVE  Was(place, k) # Was(place, l) /\ (k < l => Was(place, k) < Was(place, l))
  BY <1>3, <1>6, <1>8 DEF Was
<1>9. ASSUME NEW k \in DOMAIN pack
      PROVE  \E l \in DOMAIN pack' : l # place /\ k = Was(place, l)
  <2>1. CASE k < place
    BY <1>3, <1>6, <2>1 DEF Was
  <2>2. CASE ~(k < place)
    <3>1. k + 1 \in DOMAIN pack' /\ k + 1 # place /\ k = Was(place, k + 1)
      BY <1>3, <1>6, <2>2 DEF Was
    <3> QED BY <3>1
  <2> QED BY <2>1, <2>2
<1> QED BY <1>5, <1>6, <1>7, <1>8, <1>9 DEF new
-----------------------------------------------------------------------------
(***************************************************************************)
(* The types hold, and the builder is where its passes put it.             *)
(***************************************************************************)

LEMMA SpendTyped ==
    ASSUME fileTokens \in Nat, remaining \in Nat, NEW t \in Nat, Fits(t), Spend(t)
    PROVE  fileTokens' \in Nat /\ remaining' \in Nat
PROOF BY DEF Fits, Spend

LEMMA GrowthTyped ==
    ASSUME Typed, NEW lines, Grows(lines)
    PROVE  Growth(pack[at], lines) \in Nat
PROOF
<1>1. at \in DOMAIN pack /\ pack[at] \in UnitType
  BY TypedIs, PackTyped DEF Grows
<1> QED BY <1>1, GrownTyped DEF Grows

\* Growing changes no unit's file, and coming back takes no unit from a file.
LEMMA GrowsFiles ==
    ASSUME Typed, NEW lines, Grows(lines), ranked' = ranked, NEW path
    PROVE  unit_indices(path)' = unit_indices(path)
PROOF BY GrowsPack DEF unit_indices

LEMMA ReturnsFiles ==
    ASSUME Typed, Returns, ranked' = ranked, NEW path, unit_indices(path) # {}
    PROVE  unit_indices(path)' # {}
PROOF
<1>1. PICK place \in DOMAIN pack' :
         /\ \A k \in DOMAIN pack' : k # place =>
               Was(place, k) \in DOMAIN pack /\ pack'[k] = pack[Was(place, k)]
         /\ \A k \in DOMAIN pack : \E l \in DOMAIN pack' : l # place /\ k = Was(place, l)
  BY ReturnsPack
<1>2. PICK k \in DOMAIN pack : ranked[pack[k].rank].path = path
  BY DEF unit_indices
<1>3. PICK l \in DOMAIN pack' : l # place /\ k = Was(place, l)
  BY <1>1, <1>2
<1>4. pack'[l] = pack[k]
  BY <1>1, <1>3
<1> QED BY <1>2, <1>3, <1>4 DEF unit_indices

LEMMA PaysTyped ==
    ASSUME Typed, ranked' = ranked, UNCHANGED Pays \/ (\E lines : Grows(lines)) \/ Returns
    PROVE  /\ pack' \in Seq(UnitType) /\ fileTokens' \in Nat /\ remaining' \in Nat
           /\ \A path : unit_indices(path) # {} => unit_indices(path)' # {}
           /\ ~Returns => \A path : unit_indices(path)' = unit_indices(path)
PROOF
<1>1. CASE UNCHANGED Pays
  <2>1. pack' = pack /\ fileTokens' = fileTokens /\ remaining' = remaining
    BY <1>1 DEF Pays
  <2>2. \A path : unit_indices(path)' = unit_indices(path)
    BY <2>1 DEF unit_indices
  <2> QED BY <2>1, <2>2, TypedIs
<1>2. CASE \E lines : Grows(lines)
  <2>1. PICK lines : Grows(lines)
    BY <1>2
  <2>2. pack' \in Seq(UnitType)
    BY <2>1, GrowsPack
  <2>3. fileTokens' \in Nat /\ remaining' \in Nat
    <3>1. /\ Growth(pack[at], lines) \in Nat /\ Fits(Growth(pack[at], lines))
          /\ Spend(Growth(pack[at], lines))
      BY <2>1, GrowthTyped DEF Grows
    <3> QED BY <3>1, TypedIs, SpendTyped
  <2>4. \A path : unit_indices(path)' = unit_indices(path)
    BY <2>1, GrowsFiles
  <2> QED BY <2>2, <2>3, <2>4
<1>3. CASE Returns
  <2>1. pack' \in Seq(UnitType)
    BY <1>3, ReturnsPack
  <2>2. fileTokens' \in Nat /\ remaining' \in Nat
    <3>1. estimate_tokens(ranked[at]) \in Nat
      BY <1>3, TypedIs, ListTyped, BudgetsAssumption DEF Returns, estimate_tokens
    <3>2. Fits(estimate_tokens(ranked[at])) /\ Spend(estimate_tokens(ranked[at]))
      BY <1>3 DEF Returns, Readmits
    <3> QED BY <3>1, <3>2, TypedIs, SpendTyped
  <2>3. \A path : unit_indices(path) # {} => unit_indices(path)' # {}
    BY <1>3, ReturnsFiles
  <2> QED BY <1>3, <2>1, <2>2, <2>3
<1> QED BY <1>1, <1>2, <1>3

\* The files to widen are distinct, and each has a unit.
LEMMA RegionPathsAre ==
    ASSUME ranked \in Lists, pack \in Seq(UnitType), budget \in Budgets
    PROVE  /\ RegionPaths \in Seq(Paths)
           /\ \A n \in DOMAIN RegionPaths : unit_indices(RegionPaths[n]) # {}
           /\ \A m, n \in DOMAIN RegionPaths : m # n => RegionPaths[m] # RegionPaths[n]
PROOF
<1> DEFINE order == InOrder(FirstUnits)
           c == Cardinality(FirstUnits)
           m == Min({c, budget.region_files})
           path(k) == ranked[pack[k].rank].path
<1>1. FirstUnits \in SUBSET DOMAIN pack /\ FirstUnits \subseteq Nat /\ IsFiniteSet(FirstUnits)
  <2>1. FirstUnits \in SUBSET DOMAIN pack
    BY DEF FirstUnits
  <2> QED BY <2>1, PackTyped, FS_Subset
<1>2. /\ c \in Nat /\ order \in [1 .. c -> FirstUnits]
      /\ \A k, l \in 1 .. c : k # l => order[k] # order[l]
  BY <1>1, InOrderIs
<1>3. m \in Nat /\ m <= c
  <2>1. budget.region_files \in Nat
    BY BudgetTyped
  <2> HIDE DEF c
  <2>2. {c, budget.region_files} \subseteq Nat /\ {c, budget.region_files} # {}
    BY <1>2, <2>1
  <2>3. Min({c, budget.region_files}) \in {c, budget.region_files}
        /\ \A n \in {c, budget.region_files} : Min({c, budget.region_files}) <= n
    BY <2>2, PairFinite, MinIs
  <2> QED BY <2>2, <2>3
<1>4. RegionPaths = [n \in 1 .. m |-> path(order[n])]
  BY DEF RegionPaths
<1> HIDE DEF order, c, m
<1>5. \A n \in 1 .. m : n \in 1 .. c /\ order[n] \in FirstUnits /\ order[n] \in DOMAIN pack
  BY <1>1, <1>2, <1>3
<1>6. \A k \in DOMAIN pack : path(k) \in Paths /\ k \in unit_indices(path(k))
  BY PackTyped, ListTyped DEF unit_indices
<1>7. DOMAIN RegionPaths = 1 .. m /\ \A n \in 1 .. m : RegionPaths[n] = path(order[n])
  BY <1>4
<1>8. RegionPaths \in Seq(Paths)
  <2> HIDE DEF path
  <2>1. RegionPaths \in [1 .. m -> Paths]
    BY <1>4, <1>5, <1>6
  <2> QED BY <1>3, <2>1
<1>9. \A n \in DOMAIN RegionPaths : unit_indices(RegionPaths[n]) # {}
  <2> HIDE DEF path
  <2> QED BY <1>5, <1>6, <1>7
<1>10. ASSUME NEW k \in FirstUnits, NEW l \in FirstUnits, path(k) = path(l)
       PROVE  k = l
  <2>1. k \in unit_indices(path(l)) /\ l \in unit_indices(path(k))
    BY <1>1, <1>6, <1>10
  <2>2. k <= l /\ l <= k
    BY <2>1 DEF FirstUnits
  <2> QED BY <1>1, <2>2
<1>11. \A i, n \in DOMAIN RegionPaths : i # n => RegionPaths[i] # RegionPaths[n]
  <2> HIDE DEF path
  <2> QED BY <1>2, <1>5, <1>7, <1>10
<1> QED BY <1>8, <1>9, <1>11

LEMMA KeyTyped ==
    ASSUME ranked \in Lists, NEW i \in Ranks
    PROVE  KeyOf(i) \in Paths \X Ranges
PROOF BY ListTyped DEF KeyOf

LEMMA InitTyped == ASSUME Init PROVE Typed
PROOF
<1>1. ranked \in Lists
  BY DEF Init
<1>2. refused \in [Ranks -> {"no", "cap", "budget", "alike"}]
  BY DEF Init
<1>3. traces \in [Ranks -> (Paths \X Ranges) \cup {<<>>}]
  BY <1>1, KeyTyped DEF Init
<1>4. /\ budget \in Budgets /\ chosen \subseteq Ranks
      /\ pack \in Seq(UnitType) /\ todo \in Seq(Paths)
      /\ at \in Nat /\ fileTokens \in Nat /\ remaining \in Nat
      /\ side \in {"after", "before"} /\ grew \in BOOLEAN
      /\ pc \in {"select", "selected", "file", "widen", "readmit", "absorb", "retarget", "done"}
  <2>1. \A S : <<>> \in Seq(S)
    OBVIOUS
  <2>2. pack \in Seq(UnitType) /\ todo \in Seq(Paths)
    BY <2>1 DEF Init
  <2> QED BY <2>2 DEF Init
<1>5. TypeOK
  BY <1>1, <1>2, <1>3, <1>4 DEF TypeOK, UnitType
<1>6. Where
  BY DEF Init, Where, Passes
<1> QED BY <1>5, <1>6 DEF Typed

LEMMA RefusalTyped == ASSUME NEW i PROVE Refusal(i) \in {"no", "cap", "budget", "alike"}
PROOF BY DEF Refusal

LEMMA ScanTyped ==
    ASSUME refused \in [Ranks -> {"no", "cap", "budget", "alike"}], Scan
    PROVE  refused' \in [Ranks -> {"no", "cap", "budget", "alike"}]
PROOF BY RefusalTyped DEF Scan

\* What every step leaves alone, and what a step of selection does.
Selects ==
    /\ chosen' \subseteq Ranks /\ refused' \in [Ranks -> {"no", "cap", "budget", "alike"}]
    /\ pc = "select"
    /\ UNCHANGED <<traces, todo, at, walk, fileTokens, remaining>>

LEMMA SelectionSteps ==
    ASSUME Typed, SelectRound \/ SelectionEnds \/ SelectPrefix \/ NoCapacity
    PROVE  /\ Selects /\ UNCHANGED <<budget, ranked>>
           /\ \/ pack' = pack /\ pc' = pc /\ SelectRound
              \/ \E S \in SUBSET Ranks : /\ Present(S)
                                         /\ SelectionEnds \/ SelectPrefix \/ NoCapacity
PROOF
<1>1. chosen \subseteq Ranks /\ refused \in [Ranks -> {"no", "cap", "budget", "alike"}]
  BY DEF Typed, TypeOK
<1>2. CASE SelectRound
  <2>1. PICK best \in Best : chosen' = chosen \cup {best}
    BY <1>2 DEF SelectRound
  <2>2. best \in Ranks
    BY DEF Best, Fit, Open
  <2> QED BY <1>1, <1>2, <2>1, <2>2, ScanTyped DEF SelectRound, Selects
<1>3. CASE SelectionEnds
  BY <1>1, <1>3, ScanTyped DEF SelectionEnds, Present, Selects
<1>4. CASE SelectPrefix
  <2>1. {i \in Ranks : i <= budget.max_primary} \in SUBSET Ranks
    OBVIOUS
  <2> QED BY <1>1, <1>4, <2>1 DEF SelectPrefix, Present, Selects
<1>5. CASE NoCapacity
  <2>1. {} \in SUBSET Ranks
    OBVIOUS
  <2> QED BY <1>1, <1>5, <2>1 DEF NoCapacity, Present, Selects
<1> QED BY <1>2, <1>3, <1>4, <1>5

LEMMA SelectTyped ==
    ASSUME Typed, SelectRound \/ SelectionEnds \/ SelectPrefix \/ NoCapacity
    PROVE  Typed'
PROOF
<1>1. /\ Selects /\ UNCHANGED <<budget, ranked>>
      /\ \/ pack' = pack /\ pc' = pc
         \/ \E S \in SUBSET Ranks : Present(S)
  BY SelectionSteps
<1>2. todo = <<>> /\ todo' = <<>> /\ pc = "select" /\ pack = <<>>
  BY <1>1 DEF Typed, Where, Selects
<1>3. pack' \in Seq(UnitType) /\ ((pc' = "select" /\ pack' = <<>>) \/ pc' = "selected")
  <2>1. CASE pack' = pack /\ pc' = pc
    BY <1>2, <2>1, TypedIs
  <2>2. CASE \E S \in SUBSET Ranks : Present(S)
    <3>1. PICK S \in SUBSET Ranks : Present(S)
      BY <2>2
    <3>2. Units(S) \in Seq(UnitType)
      BY TypedIs, UnitsAre
    <3> QED BY <3>1, <3>2 DEF Present
  <2> QED BY <1>1, <2>1, <2>2
<1>4. TypeOK'
  BY <1>1, <1>3 DEF Typed, TypeOK, Selects, walk, UnitType, Ranks
<1>5. Where'
  BY <1>2, <1>3 DEF Where, Passes
<1> QED BY <1>4, <1>5 DEF Typed

\* The steps between the passes over the files.
LEMMA BetweenTyped ==
    ASSUME Typed, StartWidening \/ OpenFile \/ Finish
    PROVE  Typed'
PROOF
<1>1. /\ UNCHANGED <<selection, pack, traces, walk>>
  BY DEF StartWidening, OpenFile, Finish
<1>2. \A path : unit_indices(path)' = unit_indices(path)
  BY <1>1 DEF unit_indices, selection
<1>3. /\ budget \in Budgets /\ ranked \in Lists /\ pack \in Seq(UnitType) /\ at \in Nat
      /\ fileTokens \in Nat /\ remaining \in Nat /\ todo \in Seq(Paths)
  BY TypedIs
<1>4. CASE StartWidening
  <2>1. remaining' \in Nat
    <3>1. PackTokens(DOMAIN pack) \in Nat
      BY <1>3, PackIsSum
    <3> QED BY <1>3, <1>4, <3>1, BudgetTyped, MinusTyped DEF StartWidening
  <2>2. /\ todo' \in Seq(Paths)
        /\ \A n \in DOMAIN todo' : unit_indices(todo'[n]) # {}
        /\ \A m, n \in DOMAIN todo' : m # n => todo'[m] # todo'[n]
    <3>1. CASE todo' = <<>>
      BY <3>1
    <3>2. CASE todo' = RegionPaths
      BY <1>3, <3>2, RegionPathsAre
    <3> QED BY <1>4, <3>1, <3>2 DEF StartWidening
  <2>3. pc' = "file" /\ at' = at /\ fileTokens' = fileTokens
    BY <1>4 DEF StartWidening
  <2>4. TypeOK'
    BY <1>1, <1>3, <2>1, <2>2, <2>3 DEF Typed, TypeOK, selection, walk, Ranks
  <2>5. (\A n \in DOMAIN todo : unit_indices(todo[n]) # {})'
    BY <1>1, <2>2 DEF unit_indices, selection
  <2>6. Where'
    BY <2>2, <2>3, <2>5 DEF Where, Passes
  <2> QED BY <2>4, <2>6 DEF Typed
<1>5. CASE OpenFile
  <2>1. pc' = "widen" /\ at' = Min(Mine) /\ fileTokens' = PackTokens(Mine)
        /\ todo' = todo /\ remaining' = remaining /\ todo # <<>>
    BY <1>5 DEF OpenFile
  <2>2. Path \in Paths /\ 1 \in DOMAIN todo /\ Path = todo[1]
    BY <1>3, <2>1 DEF Path
  <2>3. Mine # {}
    BY <2>2 DEF Typed, Where, Mine
  <2>4. at' \in Mine /\ at' \in Nat /\ fileTokens' \in Nat
    <3>1. /\ Mine \subseteq Nat /\ Min(Mine) \in Mine /\ Mine \in SUBSET DOMAIN pack
      BY <1>3, <2>3, MineAre DEF Mine
    <3> QED BY <1>3, <2>1, <3>1, PackIsSum
  <2>5. TypeOK'
    BY <1>1, <1>3, <2>1, <2>4 DEF Typed, TypeOK, selection, walk, Ranks
  <2>6. /\ \A n \in DOMAIN todo : unit_indices(todo[n])' # {} /\ Mine' = Mine
    BY <1>2, <2>1 DEF Typed, Where, Mine, Path
  <2>7. Where'
    BY <2>1, <2>4, <2>6 DEF Typed, Where, Passes
  <2> QED BY <2>5, <2>7 DEF Typed
<1>6. CASE Finish
  <2>1. pc' = "done" /\ todo = <<>> /\ UNCHANGED <<todo, at, fileTokens, remaining>>
    BY <1>6 DEF Finish
  <2>2. TypeOK'
    BY <1>1, <1>3, <2>1 DEF Typed, TypeOK, selection, walk, Ranks
  <2>3. Where'
    BY <1>2, <2>1 DEF Typed, Where, Passes
  <2> QED BY <2>2, <2>3 DEF Typed
<1> QED BY <1>4, <1>5, <1>6

LEMMA WidenTyped == ASSUME Typed, Widen PROVE Typed'
PROOF
<1>1. /\ pc = "widen" /\ NextUnit("readmit", 1) /\ UNCHANGED <<selection, traces, todo, walk>>
  BY DEF Widen
<1>2. ranked' = ranked /\ budget' = budget
  BY <1>1 DEF selection
<1>3. UNCHANGED Pays \/ (\E lines : Grows(lines))
  BY WidenGrows
<1>4. ~Returns
  BY <1>1 DEF Returns
<1>5. /\ pack' \in Seq(UnitType) /\ fileTokens' \in Nat /\ remaining' \in Nat
      /\ \A path : unit_indices(path)' = unit_indices(path)
  BY <1>2, <1>3, <1>4, PaysTyped
<1>6. /\ pc' \in {"widen", "readmit"} /\ at' \in Nat /\ (pc' = "readmit" => at' > 0)
      /\ (pc' = "widen" => at' \in Mine)
  <2>1. \/ pc' = pc /\ at' \in Mine /\ at' > at
        \/ pc' = "readmit" /\ at' = 1
    BY <1>1, TypedIs, NextUnitIs
  <2>2. \A k \in Mine : k \in Nat
    BY TypedIs, MineAre DEF Mine
  <2>3. CASE pc' = pc /\ at' \in Mine
    BY <1>1, <2>2, <2>3
  <2>4. CASE pc' = "readmit" /\ at' = 1
    BY <2>4
  <2> QED BY <2>1, <2>3, <2>4
<1>7. TypeOK'
  BY <1>1, <1>5, <1>6 DEF Typed, TypeOK, selection, walk, Ranks, UnitType
<1>8. Mine' = Mine /\ todo' = todo
  BY <1>1, <1>5 DEF Mine, Path
<1>9. (\A n \in DOMAIN todo : unit_indices(todo[n]) # {})'
  BY <1>5, <1>8 DEF Typed, Where
<1>10. todo # <<>>
  BY <1>1, TypedIs DEF Passes
<1>11. Where'
  BY <1>6, <1>8, <1>9, <1>10 DEF Typed, Where, Passes
<1> QED BY <1>7, <1>11 DEF Typed

LEMMA ReadmitTyped == ASSUME Typed, Readmit \/ ReadmitEnds PROVE Typed'
PROOF
<1>1. /\ pc = "readmit" /\ UNCHANGED <<selection, traces, todo>>
  BY DEF Readmit, ReadmitEnds
<1>2. ranked' = ranked /\ budget' = budget
  BY <1>1 DEF selection
<1>3. UNCHANGED Pays \/ Returns
  BY ReadmitReturns DEF ReadmitEnds, Pays
<1>4. /\ pack' \in Seq(UnitType) /\ fileTokens' \in Nat /\ remaining' \in Nat
      /\ \A path : unit_indices(path) # {} => unit_indices(path)' # {}
      /\ ~Returns => \A path : unit_indices(path)' = unit_indices(path)
  BY <1>2, <1>3, PaysTyped
<1>5. at \in Nat /\ todo # <<>> /\ Mine # {}
  BY <1>1, TypedIs DEF Passes
<1>6. \/ pc' = pc /\ at' = at + 1 /\ UNCHANGED walk
      \/ /\ pc' = "absorb" /\ at' = Min(Mine) /\ side' = "after" /\ grew' = FALSE
         /\ UNCHANGED <<pack, ranked, todo>>
  BY <1>1, <1>2 DEF Readmit, ReadmitEnds
<1>7. Min(Mine) \in Mine /\ Min(Mine) \in Nat
  <2>1. Min(Mine) \in Mine /\ Mine \subseteq Nat
    BY <1>5, TypedIs, MineAre DEF Mine
  <2> QED BY <2>1
<1>8. /\ pc' \in {"readmit", "absorb"} /\ at' \in Nat
      /\ side' \in {"after", "before"} /\ grew' \in BOOLEAN
  <2>1. side \in {"after", "before"} /\ grew \in BOOLEAN
    BY DEF Typed, TypeOK
  <2>2. CASE pc' = pc /\ at' = at + 1 /\ UNCHANGED walk
    BY <1>1, <1>5, <2>1, <2>2 DEF walk
  <2>3. CASE pc' = "absorb" /\ at' = Min(Mine) /\ side' = "after" /\ grew' = FALSE
    BY <1>7, <2>3
  <2> QED BY <1>6, <2>2, <2>3
<1>9. TypeOK'
  BY <1>1, <1>4, <1>8 DEF Typed, TypeOK, selection, Ranks, UnitType
<1>10. (\A n \in DOMAIN todo : unit_indices(todo[n]) # {})'
  BY <1>1, <1>4 DEF Typed, Where
<1>11. (pc' = "absorb" => at' \in Mine') /\ (pc' = "readmit" => at' > 0)
  BY <1>1, <1>5, <1>6, <1>7 DEF Mine, Path, unit_indices
<1>12. Where'
  <2>1. (\A m, n \in DOMAIN todo : m # n => todo[m] # todo[n])'
    BY <1>1 DEF Typed, Where
  <2>2. todo' # <<>>
    BY <1>1, <1>5
  <2> QED BY <1>8, <1>10, <1>11, <2>1, <2>2 DEF Where, Passes
<1> QED BY <1>9, <1>12 DEF Typed

LEMMA AbsorbTyped == ASSUME Typed, Absorb PROVE Typed'
PROOF
<1>1. /\ pc = "absorb" /\ UNCHANGED <<selection, traces, todo>>
  BY DEF Absorb
<1>2. ranked' = ranked /\ budget' = budget
  BY <1>1 DEF selection
<1>3. UNCHANGED Pays \/ (\E lines : Grows(lines))
  BY AbsorbGrows
<1>4. ~Returns
  BY <1>1 DEF Returns
<1>5. /\ pack' \in Seq(UnitType) /\ fileTokens' \in Nat /\ remaining' \in Nat
      /\ \A path : unit_indices(path)' = unit_indices(path)
  BY <1>2, <1>3, <1>4, PaysTyped
<1>6. /\ Mine \subseteq Nat /\ Min(Mine) \in Mine /\ at \in Mine
  <2>1. Mine # {} /\ at \in Mine
    BY <1>1, TypedIs DEF Typed, Where, Passes
  <2> QED BY <2>1, TypedIs, MineAre DEF Mine
<1>7. \/ side' = "before" /\ UNCHANGED <<pc, at>>
      \/ side' = "after" /\ UNCHANGED <<pc, at>>
      \/ side' = "after" /\ NextUnit("retarget", Min(Mine))
  BY DEF Absorb
<1>8. side' \in {"after", "before"} /\ grew' \in BOOLEAN
  BY DEF Absorb, Typed, TypeOK
<1>9. pc' \in {"absorb", "retarget"} /\ at' \in Mine
  <2>1. CASE UNCHANGED <<pc, at>>
    BY <1>1, <1>6, <2>1
  <2>2. CASE NextUnit("retarget", Min(Mine))
    <3>1. \/ pc' = pc /\ at' \in Mine
          \/ pc' = "retarget" /\ at' = Min(Mine)
      BY <2>2, TypedIs, NextUnitIs
    <3> QED BY <1>1, <1>6, <3>1
  <2> QED BY <1>7, <2>1, <2>2
<1>10. at' \in Nat
  BY <1>6, <1>9
<1>11. TypeOK'
  BY <1>1, <1>5, <1>8, <1>9, <1>10 DEF Typed, TypeOK, selection, Ranks, UnitType
<1>12. Mine' = Mine /\ todo' = todo
  BY <1>1, <1>5 DEF Mine, Path
<1>13. (\A n \in DOMAIN todo : unit_indices(todo[n]) # {})'
  BY <1>5, <1>12 DEF Typed, Where
<1>14. todo # <<>>
  BY <1>1, TypedIs DEF Passes
<1>15. Where'
  <2>1. (\A m, n \in DOMAIN todo : m # n => todo[m] # todo[n])'
    BY <1>12 DEF Typed, Where
  <2> QED BY <1>9, <1>12, <1>13, <1>14, <2>1 DEF Where, Passes
<1> QED BY <1>11, <1>15 DEF Typed

LEMMA RetargetTyped == ASSUME Typed, Retarget PROVE Typed'
PROOF
<1>1. /\ pc = "retarget" /\ NextUnit("file", 0)
      /\ UNCHANGED <<selection, pack, walk, fileTokens, remaining>>
      /\ traces' = IF pack[at].back THEN traces ELSE retarget_trace(at)
  BY DEF Retarget
<1>2. \A path : unit_indices(path)' = unit_indices(path)
  BY <1>1 DEF unit_indices, selection
<1>3. at \in DOMAIN pack /\ todo \in Seq(Paths) /\ todo # <<>> /\ ranked \in Lists
  BY <1>1, TypedIs DEF Passes
<1>4. traces' \in [Ranks -> (Paths \X Ranges) \cup {<<>>}]
  <2>1. RetrievalUnitKey(pack[at]) \in Paths \X Ranges
    BY <1>3, TypedIs, PackTyped, ListTyped DEF RetrievalUnitKey
  <2> QED BY <1>1, <2>1 DEF retarget_trace, Typed, TypeOK
<1>5. \/ pc' = "retarget" /\ at' \in Mine /\ todo' = todo
      \/ pc' = "file" /\ at' = 0 /\ todo' = Tail(todo)
  <2>1. \/ pc' = pc /\ at' \in Mine
        \/ pc' = "file" /\ at' = 0
    BY <1>1, TypedIs, NextUnitIs
  <2>2. todo' = IF pc' = "file" THEN Tail(todo) ELSE todo
    BY DEF Retarget
  <2> QED BY <1>1, <2>1, <2>2
<1>6. \A k \in Mine : k \in Nat
  BY TypedIs, MineAre DEF Mine
<1>7. /\ pc' \in {"retarget", "file"} /\ at' \in Nat /\ todo' \in Seq(Paths)
  <2>1. Tail(todo) \in Seq(Paths)
    BY <1>3
  <2>2. at' \in Nat
    BY <1>5, <1>6
  <2> QED BY <1>3, <1>5, <2>1, <2>2
<1>8. TypeOK'
  BY <1>1, <1>4, <1>7 DEF Typed, TypeOK, selection, walk, Ranks
<1>9. CASE pc' = "retarget" /\ at' \in Mine /\ todo' = todo
  <2>1. Mine' = Mine
    BY <1>2, <1>9 DEF Mine, Path
  <2>2. (\A n \in DOMAIN todo : unit_indices(todo[n]) # {})'
    BY <1>2, <1>9 DEF Typed, Where
  <2>3. Where'
    BY <1>3, <1>9, <2>1, <2>2 DEF Typed, Where, Passes
  <2> QED BY <1>8, <2>3 DEF Typed
<1>10. CASE pc' = "file" /\ at' = 0 /\ todo' = Tail(todo)
  <2>1. \A n \in DOMAIN todo' : n + 1 \in DOMAIN todo /\ todo'[n] = todo[n + 1] /\ n \in Nat
    BY <1>3, <1>10
  <2>2. (\A n \in DOMAIN todo : unit_indices(todo[n]) # {})'
    <3>1. \A n \in DOMAIN todo' : unit_indices(todo'[n]) # {}
      BY <2>1 DEF Typed, Where
    <3> QED BY <1>1, <3>1 DEF unit_indices, selection
  <2>3. \A m, n \in DOMAIN todo' : m # n => todo'[m] # todo'[n]
    <3>1. \A m, n \in DOMAIN todo : m # n => todo[m] # todo[n]
      BY DEF Typed, Where
    <3> QED BY <2>1, <3>1
  <2>4. Where'
    BY <1>10, <2>2, <2>3 DEF Where, Passes
  <2> QED BY <1>8, <2>4 DEF Typed
<1> QED BY <1>5, <1>9, <1>10

LEMMA StepTyped == ASSUME Typed, [Next]_vars PROVE Typed'
PROOF
<1>1. CASE SelectRound \/ SelectionEnds \/ SelectPrefix \/ NoCapacity
  BY <1>1, SelectTyped
<1>2. CASE StartWidening \/ OpenFile \/ Finish
  BY <1>2, BetweenTyped
<1>3. CASE Widen
  BY <1>3, WidenTyped
<1>4. CASE Readmit \/ ReadmitEnds
  BY <1>4, ReadmitTyped
<1>5. CASE Absorb
  BY <1>5, AbsorbTyped
<1>6. CASE Retarget
  BY <1>6, RetargetTyped
<1>7. CASE UNCHANGED vars
  BY <1>7 DEF vars, selection, walk, Typed, TypeOK, Where, Mine, Path, unit_indices, Ranks
<1> QED BY <1>1, <1>2, <1>3, <1>4, <1>5, <1>6, <1>7 DEF Next

\* Whatever the files, the lists and the budgets, every variable keeps its type: a token
\* counter of widening (budget.remaining in region.rs) is never below zero.
THEOREM Types == Spec => []TypeOK
PROOF
<1>1. Init => Typed
  BY InitTyped
<1>2. Typed /\ [Next]_vars => Typed'
  BY StepTyped
<1>3. Typed => TypeOK
  BY DEF Typed
<1> QED BY <1>1, <1>2, <1>3, PTL DEF Spec

-----------------------------------------------------------------------------
(***************************************************************************)
(* What selection chose is kept.                                           *)
(***************************************************************************)

LEMMA OverlapIs ==
    ASSUME NEW r \in Ranges, NEW s \in Ranges
    PROVE  Overlap(r, s) <=> r # NoRange /\ s # NoRange /\ \E l \in LinesOf(r) : l \in LinesOf(s)
PROOF
<1>1. CASE r # NoRange /\ s # NoRange
  <2>1. r.start \in Nat /\ r.end \in Nat /\ s.start \in Nat /\ s.end \in Nat
        /\ r.start <= r.end /\ s.start <= s.end
    BY <1>1, RangeTyped
  <2>2. Overlap(r, s) <=> r.start <= s.end /\ s.start <= r.end
    BY <1>1 DEF Overlap
  <2>3. ASSUME r.start <= s.end, s.start <= r.end
        PROVE  \E l \in LinesOf(r) : l \in LinesOf(s)
    <3>1. CASE r.start <= s.start
      <4>1. s.start \in LinesOf(r) /\ s.start \in LinesOf(s)
        BY <2>1, <2>3, <3>1 DEF LinesOf
      <4> QED BY <4>1
    <3>2. CASE ~(r.start <= s.start)
      <4>1. r.start \in LinesOf(r) /\ r.start \in LinesOf(s)
        BY <2>1, <2>3, <3>2 DEF LinesOf
      <4> QED BY <4>1
    <3> QED BY <3>1, <3>2
  <2>4. ASSUME NEW l \in LinesOf(r), l \in LinesOf(s)
        PROVE  r.start <= s.end /\ s.start <= r.end
    BY <2>1, <2>4 DEF LinesOf
  <2> QED BY <1>1, <2>2, <2>3, <2>4
<1>2. CASE ~(r # NoRange /\ s # NoRange)
  BY <1>2 DEF Overlap
<1> QED BY <1>1, <1>2

\* The two ways a unit grows: to the symbol around it, and by a chunk.
Widens(lines) ==
    /\ pc = "widen" /\ Grows(lines) /\ Symbols[Path] # {}
    /\ pack[at].range \in LineRanges /\ LinesOf(pack[at].range) \subseteq lines
Extends(range) ==
    /\ pc = "absorb" /\ range \in ExtendedTo(at)
    /\ RangeOf(Covered(Path, range)) = range /\ Grows(Covered(Path, range))
Growing == (\E lines : Widens(lines)) \/ (\E range : Extends(range))

\* Units are of different candidates.
Distinct == \A k, l \in DOMAIN pack : k # l => pack[k].rank # pack[l].rank

LEMMA GrowingIs ==
    ASSUME Typed, Distinct, Growing
    PROVE  /\ at \in DOMAIN pack /\ DOMAIN pack' = DOMAIN pack /\ PathOf(at) = Path
           /\ pc \in {"widen", "absorb"} /\ \E lines : Grows(lines)
           /\ pack' \in Seq(UnitType)
           /\ \A k \in DOMAIN pack : k # at => pack'[k] = pack[k]
           /\ \A k \in DOMAIN pack : pack'[k].rank = pack[k].rank /\ pack'[k].back = pack[k].back
           /\ pack[at].range \in LineRanges /\ pack'[at].range \in LineRanges
           /\ LinesOf(pack[at].range) \subseteq LinesOf(pack'[at].range)
           /\ \A l \in Mine \ {at} : \A line \in LinesOf(pack'[at].range) \ LinesOf(pack[at].range) :
                 pack[l].range = NoRange \/ line \notin LinesOf(pack[l].range)
           /\ \E line \in LinesOf(pack'[at].range) : \A l \in Mine \ {at} :
                 pack[l].range = NoRange \/ line \notin LinesOf(pack[l].range)
PROOF
<1>1. PICK lines : /\ Grows(lines)
                   /\ Widens(lines) \/ \E range : Extends(range) /\ lines = Covered(Path, range)
  BY DEF Growing, Widens, Extends
<1>2. /\ at \in DOMAIN pack /\ PathOf(at) = Path /\ pc \in {"widen", "absorb"}
      /\ Path \in Paths
  BY <1>1, TypedIs DEF Grows, Passes
<1>3. /\ pack' \in Seq(UnitType) /\ DOMAIN pack' = DOMAIN pack
      /\ pack'[at] = Grown(pack[at], lines)
      /\ \A k \in DOMAIN pack : k # at => pack'[k] = pack[k]
      /\ \A k \in DOMAIN pack : pack'[k].rank = pack[k].rank /\ pack'[k].back = pack[k].back
  BY <1>1, GrowsPack
<1>4. /\ pack'[at].range = RangeOf(lines) /\ lines \subseteq LinesOf(RangeOf(lines))
      /\ RangeOf(lines) \in LineRanges
  <2>1. IsFiniteSet(lines) /\ lines \subseteq Nat /\ lines # {} /\ pack[at] \in UnitType
    BY <1>1, <1>2, TypedIs, PackTyped DEF Grows
  <2>2. Grown(pack[at], lines).range = RangeOf(lines)
    BY <2>1, GrownTyped
  <2>3. lines \subseteq LinesOf(RangeOf(lines)) /\ RangeOf(lines) \in LineRanges
    BY <2>1, RangeOfTyped
  <2> QED BY <1>3, <2>2, <2>3
<1>5. Mine \subseteq DOMAIN pack /\ \A l \in Mine : ranked[pack[l].rank].path = Path
  BY DEF Mine, unit_indices
<1> DEFINE old == pack[at].range
           new == pack'[at].range
<1>6. CASE Widens(lines)
  <2>1. Symbols[Path] # {} /\ old \in LineRanges /\ LinesOf(old) \subseteq lines
    BY <1>6 DEF Widens
  <2>2. Mine \ {at} = {}
    <3> SUFFICES ASSUME NEW l \in Mine, l # at PROVE FALSE
      OBVIOUS
    <3>1. pack[l].rank # pack[at].rank
      BY <1>2, <1>5 DEF Distinct
    <3>2. /\ pack[l].rank \in Ranks /\ pack[at].rank \in Ranks
          /\ ranked[pack[l].rank].path = Path /\ ranked[pack[at].rank].path = Path
      BY <1>2, <1>5, TypedIs, PackTyped DEF PathOf
    <3>3. Symbols[Path] = {}
      BY <3>1, <3>2, TypedIs, ListTyped
    <3> QED BY <2>1, <3>3
  <2>3. PICK line \in LinesOf(new) : TRUE
    <3>1. new # NoRange /\ new \in Ranges
      BY <1>4, FilesAssumption DEF Ranges
    <3>2. new.start \in LinesOf(new)
      BY <3>1, RangeTyped
    <3> QED BY <3>2
  <2> QED BY <1>1, <1>2, <1>3, <1>4, <2>1, <2>2, <2>3
<1>7. CASE \E range : Extends(range) /\ lines = Covered(Path, range)
  <2>1. PICK range : Extends(range) /\ lines = Covered(Path, range)
    BY <1>7
  <2>2. /\ pc = "absorb" /\ range \in ExtendedTo(at) /\ new = range
    BY <1>4, <2>1 DEF Extends
  <2>3. PICK c \in Chunks[Path] :
           /\ c \in LineRanges /\ ~overlaps_unit(Path, {at}, c)
           /\ LinesOf(new) = LinesOf(old) \cup LinesOf(c)
    BY <2>2, ExtendedIs
  <2>4. old \in LineRanges
    BY <2>2, ExtendedIs
  <2>5. c \in Ranges /\ c # NoRange
    BY <2>3, FilesAssumption DEF Ranges
  <2>6. \A l \in Mine \ {at} : \A line \in LinesOf(c) :
           pack[l].range = NoRange \/ line \notin LinesOf(pack[l].range)
    <3> SUFFICES ASSUME NEW l \in Mine \ {at}, NEW line \in LinesOf(c),
                        pack[l].range # NoRange, line \in LinesOf(pack[l].range)
                 PROVE  FALSE
      OBVIOUS
    <3>1. pack[l].range \in Ranges
      BY <1>5, TypedIs, PackTyped
    <3>2. Overlap(pack[l].range, c)
      BY <2>5, <3>1, OverlapIs
    <3> QED BY <2>3, <3>2 DEF overlaps_unit, Mine
  <2>7. c.start \in LinesOf(c)
    BY <2>5, RangeTyped
  <2>8. \E line \in LinesOf(new) : \A l \in Mine \ {at} :
           pack[l].range = NoRange \/ line \notin LinesOf(pack[l].range)
    BY <2>3, <2>6, <2>7
  <2>9. \A l \in Mine \ {at} : \A line \in LinesOf(new) \ LinesOf(old) :
           pack[l].range = NoRange \/ line \notin LinesOf(pack[l].range)
    BY <2>3, <2>6
  <2>10. new \in LineRanges /\ LinesOf(old) \subseteq LinesOf(new)
    BY <1>4, <2>3
  <2> HIDE DEF old, new
  <2> QED BY <1>1, <1>2, <1>3, <2>4, <2>8, <2>9, <2>10 DEF old, new
<1> QED BY <1>1, <1>6, <1>7

\* Where a step leaves the pack.
LEMMA StepIs ==
    ASSUME Typed, [Next]_vars
    PROVE  /\ budget' = budget /\ ranked' = ranked
           /\ \/ SelectRound /\ UNCHANGED <<pack, pc>>
              \/ /\ pc = "select" /\ \E S \in SUBSET Ranks : Present(S)
              \/ /\ UNCHANGED <<chosen, refused>> /\ (pc' = "select" <=> pc = "select")
                 /\ Growing \/ Returns \/ pack' = pack
PROOF
<1>1. CASE SelectRound \/ SelectionEnds \/ SelectPrefix \/ NoCapacity
  BY <1>1, SelectionSteps DEF Selects
<1>2. CASE StartWidening \/ OpenFile \/ Finish
  BY <1>2 DEF StartWidening, OpenFile, Finish, selection
<1>3. CASE Widen
  <2>1. pack' = pack \/ \E lines : Widens(lines)
    BY <1>3, WidenGrows DEF Pays, Widens, Widen
  <2>2. pc = "widen" /\ pc' # "select" /\ UNCHANGED <<budget, ranked, chosen, refused>>
    BY <1>3 DEF Widen, NextUnit, selection
  <2> QED BY <2>1, <2>2 DEF Growing
<1>4. CASE Readmit \/ ReadmitEnds
  <2>1. pack' = pack \/ Returns
    BY <1>4, ReadmitReturns DEF Pays, ReadmitEnds
  <2>2. pc = "readmit" /\ pc' # "select" /\ UNCHANGED <<budget, ranked, chosen, refused>>
    BY <1>4 DEF Readmit, ReadmitEnds, selection
  <2> QED BY <2>1, <2>2
<1>5. CASE Absorb
  <2>1. pack' = pack \/ \E range : Extends(range)
    BY <1>5, AbsorbGrows DEF Pays, Extends, Absorb
  <2>2. pc = "absorb" /\ pc' # "select" /\ UNCHANGED <<budget, ranked, chosen, refused>>
    BY <1>5 DEF Absorb, NextUnit, selection
  <2> QED BY <2>1, <2>2 DEF Growing
<1>6. CASE Retarget
  BY <1>6 DEF Retarget, NextUnit, selection
<1>7. CASE UNCHANGED vars
  BY <1>7 DEF vars, selection
<1> QED BY <1>1, <1>2, <1>3, <1>4, <1>5, <1>6, <1>7 DEF Next

\* A unit whose file has still to be widened is as selection presented it; candidates come
\* back to a file in rank order, and none has before the file's first pass is over.
Untouched(k) == pack[k] = Unit(pack[k].rank, FALSE)
Waiting(k) ==
    \/ pc = "selected"
    \/ \E n \in DOMAIN todo : todo[n] = PathOf(k) /\ (n > 1 \/ pc = "file")
Fresh ==
    /\ \A k \in DOMAIN pack : Waiting(k) => Untouched(k)
    /\ pc = "widen" => \A k \in Mine : ~pack[k].back
    /\ pc = "readmit" => \A k \in Mine : pack[k].back => pack[k].rank < at

\* Units are of different candidates, those that came back of candidates selection left out;
\* a unit has lines if and only if its candidate has.
Ours ==
    /\ Distinct
    /\ \A k \in DOMAIN pack : pack[k].back =>
          pack[k].rank \notin chosen /\ ranked[pack[k].rank].range # NoRange
    /\ \A k \in DOMAIN pack : pack[k].range = NoRange <=> ranked[pack[k].rank].range = NoRange

\* The parts of SelectionKept; before anything is presented the pack is empty.
ChosenKept == pc # "select" => {pack[k].rank : k \in Selected} = chosen
OrderKept == \A k, l \in Selected : k < l => pack[k].rank < pack[l].rank
LinesKept ==
    \A k \in DOMAIN pack : ranked[pack[k].rank].range # NoRange =>
        LinesOf(ranked[pack[k].rank].range) \subseteq LinesOf(pack[k].range)
ApartKept ==
    \A k \in DOMAIN pack : \A l \in unit_indices(ranked[pack[k].rank].path) \ {k} :
        Overlap(pack[k].range, pack[l].range) =>
            /\ ~pack[k].back /\ ~pack[l].back
            /\ Overlap(ranked[pack[k].rank].range, ranked[pack[l].rank].range)

\* What a candidate that comes back is, and where the other units go.
Comes(place) ==
    /\ place \in DOMAIN pack' /\ pack' \in Seq(UnitType)
    /\ pack'[place] = Unit(at, TRUE)
    /\ \A k \in DOMAIN pack' : k # place =>
          Was(place, k) \in DOMAIN pack /\ pack'[k] = pack[Was(place, k)]
    /\ \A k, l \in DOMAIN pack' : k # place /\ l # place /\ k # l =>
          Was(place, k) # Was(place, l) /\ (k < l => Was(place, k) < Was(place, l))
    /\ \A k \in DOMAIN pack : \E l \in DOMAIN pack' : l # place /\ k = Was(place, l)
    /\ pc = "readmit" /\ at \in Ranks /\ at \notin chosen
    /\ ranked[at].path = Path /\ ranked[at].range # NoRange
    /\ \A k \in Mine : ~Overlap(pack[k].range, ranked[at].range)
    /\ pack'[place].rank = at /\ pack'[place].back = TRUE
    /\ pack'[place].range = ranked[at].range

LEMMA ReturnsIs ==
    ASSUME Typed, Returns
    PROVE  \E place \in DOMAIN pack' : Comes(place)
PROOF
<1>1. PICK place \in DOMAIN pack' :
         /\ pack' \in Seq(UnitType)
         /\ pack'[place] = Unit(at, TRUE)
         /\ \A k \in DOMAIN pack' : k # place =>
               Was(place, k) \in DOMAIN pack /\ pack'[k] = pack[Was(place, k)]
         /\ \A k, l \in DOMAIN pack' : k # place /\ l # place /\ k # l =>
               Was(place, k) # Was(place, l) /\ (k < l => Was(place, k) < Was(place, l))
         /\ \A k \in DOMAIN pack : \E l \in DOMAIN pack' : l # place /\ k = Was(place, l)
  BY ReturnsPack
<1>2. /\ pc = "readmit" /\ at \in Ranks /\ at \notin chosen
      /\ ranked[at].path = Path /\ ranked[at].range # NoRange
      /\ ~overlaps_unit(Path, {}, ranked[at].range)
  BY DEF Returns, Readmits
<1>3. /\ Unit(at, TRUE).rank = at /\ Unit(at, TRUE).back = TRUE
      /\ Unit(at, TRUE).range = ranked[at].range
  BY DEF Unit
<1>4. \A k \in Mine : ~Overlap(pack[k].range, ranked[at].range)
  BY <1>2 DEF overlaps_unit, Mine
<1> QED BY <1>1, <1>2, <1>3, <1>4 DEF Comes

\* The candidate was not in the pack.
LEMMA ComesNew ==
    ASSUME Typed, Fresh, ChosenKept, NEW place, Comes(place)
    PROVE  \A k \in DOMAIN pack : pack[k].rank # at
PROOF
<1> SUFFICES ASSUME NEW k \in DOMAIN pack, pack[k].rank = at PROVE FALSE
  OBVIOUS
<1>1. pack[k].back
  <2>1. pack[k].back \in BOOLEAN
    BY TypedIs, PackTyped
  <2>2. ~pack[k].back => at \in chosen
    BY DEF ChosenKept, Selected, Comes
  <2> QED BY <2>1, <2>2 DEF Comes
<1>2. k \in Mine
  BY DEF Comes, Mine, unit_indices
<1>3. at < at
  BY <1>1, <1>2 DEF Fresh, Comes
<1>4. at \in Nat
  BY TypedIs
<1> QED BY <1>3, <1>4

\* While a file is gone over, the units of the files after it stay as they were.
LEMMA WaitingStays ==
    ASSUME Typed, Fresh, Distinct, ranked' = ranked, todo' = todo,
           pc \in Passes, pc' \in Passes, Growing \/ Returns \/ pack' = pack
    PROVE  (\A k \in DOMAIN pack : Waiting(k) => Untouched(k))'
PROOF
<1> SUFFICES ASSUME NEW k \in DOMAIN pack', Waiting(k)' PROVE Untouched(k)'
  OBVIOUS
<1>1. /\ \A m, n \in DOMAIN todo : m # n => todo[m] # todo[n]
      /\ 1 \in DOMAIN todo /\ Path = todo[1]
  BY TypedIs DEF Typed, Where
<1>2. PICK n \in DOMAIN todo : n > 1 /\ todo[n] = ranked[pack'[k].rank].path
  BY DEF Waiting, PathOf, Passes
<1>3. todo[n] # Path
  BY <1>1, <1>2
<1>4. \A l \in DOMAIN pack : pack[l] = pack'[k] => pack'[k] = Unit(pack'[k].rank, FALSE)
  BY <1>2 DEF Fresh, Waiting, Untouched, PathOf
<1>5. \E l \in DOMAIN pack : pack[l] = pack'[k]
  <2>1. CASE pack' = pack
    BY <2>1
  <2>2. CASE Growing
    BY <1>2, <1>3, <2>2, GrowingIs DEF PathOf
  <2>3. CASE Returns
    <3>1. PICK place \in DOMAIN pack' : Comes(place)
      BY <2>3, ReturnsIs
    <3>2. k # place
      BY <1>2, <1>3, <3>1 DEF Comes
    <3> QED BY <3>1, <3>2 DEF Comes
  <2> QED BY <2>1, <2>2, <2>3
<1> QED BY <1>4, <1>5 DEF Untouched, Unit

LEMMA FreshStep ==
    ASSUME Typed, Fresh, Distinct, ChosenKept, [Next]_vars
    PROVE  Fresh'
PROOF
<1>1. budget' = budget /\ ranked' = ranked
  BY StepIs
<1>2. CASE SelectRound \/ SelectionEnds \/ SelectPrefix \/ NoCapacity
  <2>1. \/ pack' = pack /\ pc' = pc /\ pc = "select"
        \/ \E S \in SUBSET Ranks : Present(S)
    BY <1>2, SelectionSteps DEF Selects
  <2>2. CASE pack' = pack /\ pc' = pc /\ pc = "select"
    <3>1. pack' = <<>> /\ pc' = "select"
      BY <2>2 DEF Typed, Where
    <3> QED BY <3>1 DEF Fresh
  <2>3. CASE \E S \in SUBSET Ranks : Present(S)
    <3>1. PICK S \in SUBSET Ranks : Present(S)
      BY <2>3
    <3>2. pc' = "selected" /\ pack' = Units(S)
      BY <3>1 DEF Present
    <3>3. \A k \in DOMAIN pack' : pack'[k] = Unit(pack'[k].rank, FALSE)
      BY <3>2, TypedIs, UnitsAre
    <3> QED BY <1>1, <3>2, <3>3 DEF Fresh, Untouched, Unit
  <2> QED BY <2>1, <2>2, <2>3
<1>3. CASE StartWidening
  BY <1>1, <1>3 DEF StartWidening, Fresh, Untouched, Unit, Waiting, PathOf
<1>4. CASE OpenFile
  <2>1. /\ pc = "file" /\ pc' = "widen" /\ UNCHANGED <<pack, todo>> /\ todo # <<>>
    BY <1>4 DEF OpenFile
  <2>2. (\A k \in DOMAIN pack : Waiting(k) => Untouched(k))'
    BY <1>1, <2>1 DEF Fresh, Waiting, Untouched, Unit, PathOf
  <2>3. 1 \in DOMAIN todo /\ Path = todo[1]
    BY <2>1, TypedIs DEF Path
  <2>4. ASSUME NEW k \in Mine PROVE pack[k].back = FALSE
    <3>1. k \in DOMAIN pack /\ PathOf(k) = Path
      BY <2>4 DEF Mine, unit_indices, PathOf
    <3>2. Untouched(k)
      BY <2>1, <2>3, <3>1 DEF Fresh, Waiting
    <3>3. Unit(pack[k].rank, FALSE).back = FALSE
      BY DEF Unit
    <3> QED BY <3>2, <3>3 DEF Untouched
  <2>5. (pc = "widen" => \A k \in Mine : ~pack[k].back)'
    BY <1>1, <2>1, <2>4 DEF Mine, unit_indices, Path
  <2> QED BY <2>1, <2>2, <2>5 DEF Fresh
<1>5. CASE Finish
  BY <1>5 DEF Finish, Fresh, Waiting
<1>6. CASE Widen
  <2>1. /\ pc = "widen" /\ NextUnit("readmit", 1) /\ UNCHANGED <<selection, traces, todo, walk>>
    BY <1>6 DEF Widen
  <2>2. pc' = "widen" \/ pc' = "readmit"
    BY <2>1 DEF NextUnit
  <2>3. Growing \/ pack' = pack
    BY <1>6, WidenGrows DEF Pays, Widens, Growing, Widen
  <2>4. (\A k \in DOMAIN pack : Waiting(k) => Untouched(k))'
    BY <1>1, <2>1, <2>2, <2>3, WaitingStays DEF Passes
  <2>5. /\ DOMAIN pack' = DOMAIN pack
        /\ \A k \in DOMAIN pack : pack'[k].rank = pack[k].rank /\ pack'[k].back = pack[k].back
    BY <2>3, GrowingIs
  <2>6. Mine' = Mine
    BY <1>1, <2>1, <2>5 DEF Mine, unit_indices, Path
  <2>7. \A k \in Mine : k \in DOMAIN pack /\ ~pack[k].back
    BY <2>1 DEF Fresh, Mine, unit_indices
  <2> QED BY <2>2, <2>4, <2>5, <2>6, <2>7 DEF Fresh
<1>7. CASE Readmit
  <2>1. /\ pc = "readmit" /\ pc' = "readmit" /\ at \in Ranks /\ at' = at + 1
        /\ UNCHANGED <<selection, traces, todo, walk>>
    BY <1>7 DEF Readmit
  <2>2. pack' = pack \/ Returns
    BY <1>7, ReadmitReturns DEF Pays
  <2>3. (\A k \in DOMAIN pack : Waiting(k) => Untouched(k))'
    BY <1>1, <2>1, <2>2, WaitingStays DEF Passes
  <2>4. at \in Nat /\ \A k \in DOMAIN pack : pack[k].rank \in Nat
    BY TypedIs, PackTyped, ListTyped
  <2>5. ASSUME NEW k \in DOMAIN pack', ranked[pack'[k].rank].path = Path, pack'[k].back
        PROVE  pack'[k].rank < at + 1
    <3>1. ASSUME NEW l \in DOMAIN pack, pack'[k] = pack[l] PROVE pack'[k].rank < at + 1
      <4>1. pack[l].rank < at
        BY <2>1, <2>5, <3>1 DEF Fresh, Mine, unit_indices
      <4>2. pack[l].rank \in Nat
        BY <2>4
      <4> QED BY <2>4, <3>1, <4>1, <4>2
    <3>2. CASE pack' = pack
      BY <3>1, <3>2
    <3>3. CASE Returns
      <4>1. PICK place \in DOMAIN pack' : Comes(place)
        BY <3>3, ReturnsIs
      <4>2. CASE k = place
        <5>1. pack'[k].rank = at
          BY <4>1, <4>2 DEF Comes
        <5> QED BY <2>4, <5>1
      <4>3. CASE k # place
        BY <3>1, <4>1, <4>3 DEF Comes
      <4> QED BY <4>2, <4>3
    <3> QED BY <2>2, <3>2, <3>3
  <2>6. \A k \in Mine' : k \in DOMAIN pack' /\ ranked[pack'[k].rank].path = Path
    BY <1>1, <2>1 DEF Mine, unit_indices, Path
  <2> QED BY <2>1, <2>3, <2>5, <2>6 DEF Fresh
<1>8. CASE ReadmitEnds \/ Absorb
  <2>1. /\ pc \in Passes /\ pc' \in {"absorb", "retarget"} /\ todo' = todo
    BY <1>8 DEF ReadmitEnds, Absorb, NextUnit, Passes
  <2>2. Growing \/ pack' = pack
    BY <1>8, AbsorbGrows DEF Pays, Extends, Growing, Absorb, ReadmitEnds
  <2>3. (\A k \in DOMAIN pack : Waiting(k) => Untouched(k))'
    BY <1>1, <2>1, <2>2, WaitingStays DEF Passes
  <2> QED BY <2>1, <2>3 DEF Fresh
<1>9. CASE Retarget
  <2>1. /\ pc = "retarget" /\ pack' = pack /\ pc' \in {"retarget", "file"}
        /\ todo' = IF pc' = "file" THEN Tail(todo) ELSE todo
    BY <1>9 DEF Retarget, NextUnit
  <2>2. todo \in Seq(Paths) /\ todo # <<>>
    BY <2>1, TypedIs DEF Passes
  <2>3. CASE pc' = "retarget"
    <3>1. (\A k \in DOMAIN pack : Waiting(k) => Untouched(k))'
      BY <1>1, <2>1, <2>3, WaitingStays DEF Passes
    <3> QED BY <2>3, <3>1 DEF Fresh
  <2>4. CASE pc' = "file"
    <3>1. \A n \in DOMAIN todo' : n + 1 \in DOMAIN todo /\ todo'[n] = todo[n + 1] /\ n + 1 > 1
      BY <2>1, <2>2, <2>4
    <3>2. ASSUME NEW k \in DOMAIN pack', Waiting(k)' PROVE Waiting(k)
      <4>1. PICK n \in DOMAIN todo' : todo'[n] = PathOf(k)
        BY <1>1, <2>1, <2>4, <3>2 DEF Waiting, PathOf
      <4> QED BY <3>1, <4>1 DEF Waiting
    <3>3. (\A k \in DOMAIN pack : Waiting(k) => Untouched(k))'
      BY <1>1, <2>1, <3>2 DEF Fresh, Untouched, Unit
    <3> QED BY <2>4, <3>3 DEF Fresh
  <2> QED BY <2>1, <2>3, <2>4
<1>10. CASE UNCHANGED vars
  BY <1>10 DEF vars, selection, Fresh, Waiting, Untouched, Unit, PathOf, Mine, Path, unit_indices
<1> QED BY <1>2, <1>3, <1>4, <1>5, <1>6, <1>7, <1>8, <1>9, <1>10 DEF Next

\* What every unit is, it is after units have grown or come back.
LEMMA OursStep ==
    ASSUME Typed, Fresh, Ours, ChosenKept, [Next]_vars
    PROVE  Ours'
PROOF
<1>1. budget' = budget /\ ranked' = ranked
  BY StepIs
<1>2. CASE SelectRound /\ UNCHANGED <<pack, pc>>
  <2>1. pack' = <<>>
    BY <1>2 DEF SelectRound, Typed, Where
  <2> QED BY <2>1 DEF Ours, Distinct
<1>3. CASE pc = "select" /\ \E S \in SUBSET Ranks : Present(S)
  <2>1. PICK S \in SUBSET Ranks : Present(S)
    BY <1>3
  <2>2. /\ pack' = Units(S)
        /\ \A k \in DOMAIN pack' : pack'[k].rank \in S /\ pack'[k] = Unit(pack'[k].rank, FALSE)
        /\ \A k, l \in DOMAIN pack' : k # l => pack'[k].rank # pack'[l].rank
    BY <2>1, TypedIs, UnitsAre DEF Present
  <2>3. \A k \in DOMAIN pack' : ~pack'[k].back /\ pack'[k].range = ranked[pack'[k].rank].range
    BY <2>2 DEF Unit
  <2> QED BY <1>1, <2>2, <2>3 DEF Ours, Distinct
<1>4. CASE UNCHANGED <<chosen, refused>> /\ pack' = pack
  BY <1>1, <1>4 DEF Ours, Distinct
<1>5. CASE UNCHANGED <<chosen, refused>> /\ Growing
  <2>1. /\ at \in DOMAIN pack /\ DOMAIN pack' = DOMAIN pack
        /\ \A k \in DOMAIN pack : k # at => pack'[k] = pack[k]
        /\ \A k \in DOMAIN pack : pack'[k].rank = pack[k].rank /\ pack'[k].back = pack[k].back
        /\ pack[at].range \in LineRanges /\ pack'[at].range \in LineRanges
    BY <1>5, GrowingIs DEF Ours
  <2>2. pack[at].range # NoRange /\ pack'[at].range # NoRange
    BY <2>1, FilesAssumption
  <2> QED BY <1>1, <1>5, <2>1, <2>2 DEF Ours, Distinct
<1>6. CASE UNCHANGED <<chosen, refused>> /\ Returns
  <2>1. PICK place \in DOMAIN pack' : Comes(place)
    BY <1>6, ReturnsIs
  <2>2. \A k \in DOMAIN pack : pack[k].rank # at
    BY <2>1, ComesNew
  <2>3. Distinct'
    <3> SUFFICES ASSUME NEW k \in DOMAIN pack', NEW l \in DOMAIN pack', k # l
                 PROVE  pack'[k].rank # pack'[l].rank
      BY DEF Distinct
    <3>1. CASE k = place
      <4>1. pack'[k].rank = at /\ \E m \in DOMAIN pack : pack'[l] = pack[m]
        BY <2>1, <3>1 DEF Comes
      <4> QED BY <2>2, <4>1
    <3>2. CASE l = place
      <4>1. pack'[l].rank = at /\ \E m \in DOMAIN pack : pack'[k] = pack[m]
        BY <2>1, <3>2 DEF Comes
      <4> QED BY <2>2, <4>1
    <3>3. CASE k # place /\ l # place
      BY <2>1, <3>3 DEF Comes, Ours, Distinct
    <3> QED BY <3>1, <3>2, <3>3
  <2>4. ASSUME NEW k \in DOMAIN pack'
        PROVE  /\ pack'[k].back => pack'[k].rank \notin chosen
                                   /\ ranked[pack'[k].rank].range # NoRange
               /\ pack'[k].range = NoRange <=> ranked[pack'[k].rank].range = NoRange
    <3>1. CASE k = place
      BY <2>1, <3>1 DEF Comes
    <3>2. CASE k # place
      BY <2>1, <3>2 DEF Comes, Ours
    <3> QED BY <3>1, <3>2
  <2> QED BY <1>1, <1>6, <2>3, <2>4 DEF Ours
<1> QED BY <1>2, <1>3, <1>4, <1>5, <1>6, StepIs

\* The chosen units are all there.
LEMMA ChosenStep ==
    ASSUME Typed, Ours, ChosenKept, [Next]_vars
    PROVE  ChosenKept'
PROOF
<1>1. CASE SelectRound /\ UNCHANGED <<pack, pc>>
  BY <1>1 DEF SelectRound, ChosenKept
<1>2. CASE pc = "select" /\ \E S \in SUBSET Ranks : Present(S)
  <2>1. PICK S \in SUBSET Ranks : Present(S)
    BY <1>2
  <2>2. /\ pack' = Units(S) /\ chosen' = S
        /\ \A k \in DOMAIN pack' : pack'[k].rank \in S /\ pack'[k] = Unit(pack'[k].rank, FALSE)
        /\ \A i \in S : \E k \in DOMAIN pack' : pack'[k].rank = i
    BY <2>1, TypedIs, UnitsAre DEF Present
  <2>3. \A k \in DOMAIN pack' : ~pack'[k].back
    BY <2>2 DEF Unit
  <2>4. Selected' = DOMAIN pack'
    BY <2>3 DEF Selected
  <2> QED BY <2>2, <2>4 DEF ChosenKept
<1>3. CASE /\ UNCHANGED <<chosen, refused>> /\ (pc' = "select" <=> pc = "select")
           /\ pack' = pack
  BY <1>3 DEF ChosenKept, Selected
<1>4. CASE /\ UNCHANGED <<chosen, refused>> /\ (pc' = "select" <=> pc = "select") /\ Growing
  <2>1. /\ DOMAIN pack' = DOMAIN pack
        /\ \A k \in DOMAIN pack : pack'[k].rank = pack[k].rank /\ pack'[k].back = pack[k].back
    BY <1>4, GrowingIs DEF Ours
  <2>2. Selected' = Selected
    BY <2>1 DEF Selected
  <2>3. \A k \in Selected : pack'[k].rank = pack[k].rank
    BY <2>1 DEF Selected
  <2> QED BY <1>4, <2>2, <2>3 DEF ChosenKept
<1>5. CASE /\ UNCHANGED <<chosen, refused>> /\ (pc' = "select" <=> pc = "select") /\ Returns
  <2>1. PICK place \in DOMAIN pack' : Comes(place)
    BY <1>5, ReturnsIs
  <2>2. \A k \in Selected' : \E l \in Selected : pack'[k] = pack[l]
    BY <2>1 DEF Comes, Selected
  <2>3. \A l \in Selected : \E k \in Selected' : pack'[k] = pack[l]
    <3> SUFFICES ASSUME NEW l \in Selected PROVE \E k \in Selected' : pack'[k] = pack[l]
      OBVIOUS
    <3>1. l \in DOMAIN pack /\ ~pack[l].back
      BY DEF Selected
    <3>2. PICK k \in DOMAIN pack' : k # place /\ l = Was(place, k)
      BY <2>1, <3>1 DEF Comes
    <3>3. pack'[k] = pack[l]
      BY <2>1, <3>2 DEF Comes
    <3> QED BY <3>1, <3>2, <3>3 DEF Selected
  <2>4. {pack[k].rank : k \in Selected}' = {pack[k].rank : k \in Selected}
    BY <2>2, <2>3
  <2> QED BY <1>5, <2>4 DEF ChosenKept
<1> QED BY <1>1, <1>2, <1>3, <1>4, <1>5, StepIs

LEMMA OrderStep ==
    ASSUME Typed, Ours, OrderKept, [Next]_vars
    PROVE  OrderKept'
PROOF
<1>1. CASE SelectRound /\ UNCHANGED <<pack, pc>>
  BY <1>1 DEF OrderKept, Selected
<1>2. CASE pc = "select" /\ \E S \in SUBSET Ranks : Present(S)
  <2>1. PICK S \in SUBSET Ranks : Present(S)
    BY <1>2
  <2>2. \A k, l \in DOMAIN pack' : k < l => pack'[k].rank < pack'[l].rank
    BY <2>1, TypedIs, UnitsAre DEF Present
  <2> QED BY <2>2 DEF OrderKept, Selected
<1>3. CASE pack' = pack
  BY <1>3 DEF OrderKept, Selected
<1>4. CASE Growing
  <2>1. /\ DOMAIN pack' = DOMAIN pack
        /\ \A k \in DOMAIN pack : pack'[k].rank = pack[k].rank /\ pack'[k].back = pack[k].back
    BY <1>4, GrowingIs DEF Ours
  <2> QED BY <2>1 DEF OrderKept, Selected
<1>5. CASE Returns
  <2>1. PICK place \in DOMAIN pack' : Comes(place)
    BY <1>5, ReturnsIs
  <2>2. \A k \in Selected' : k # place /\ k \in DOMAIN pack' /\ ~pack'[k].back
    BY <2>1 DEF Comes, Selected
  <2>3. \A k \in Selected' : Was(place, k) \in Selected /\ pack'[k] = pack[Was(place, k)]
    BY <2>1, <2>2 DEF Comes, Selected
  <2>4. \A k, l \in Selected' : k < l => k # l
    <3>1. \A k \in Selected' : k \in Nat
      <4>1. DOMAIN pack' \subseteq Nat
        BY <2>1 DEF Comes
      <4> QED BY <2>2, <4>1
    <3> QED BY <3>1
  <2>5. \A k, l \in Selected' : k < l => Was(place, k) < Was(place, l)
    BY <2>1, <2>2, <2>4 DEF Comes
  <2> QED BY <2>3, <2>5 DEF OrderKept
<1> QED BY <1>1, <1>2, <1>3, <1>4, <1>5, StepIs

\* No unit loses a line.
LEMMA LinesStep ==
    ASSUME Typed, Ours, LinesKept, [Next]_vars
    PROVE  LinesKept'
PROOF
<1>0. ranked' = ranked
  BY StepIs
<1>1. CASE SelectRound /\ UNCHANGED <<pack, pc>>
  BY <1>0, <1>1 DEF LinesKept
<1>2. CASE pc = "select" /\ \E S \in SUBSET Ranks : Present(S)
  <2>1. PICK S \in SUBSET Ranks : Present(S)
    BY <1>2
  <2>2. \A k \in DOMAIN pack' : pack'[k] = Unit(pack'[k].rank, FALSE)
    BY <2>1, TypedIs, UnitsAre DEF Present
  <2>3. \A k \in DOMAIN pack' : pack'[k].range = ranked[pack'[k].rank].range
    BY <2>2 DEF Unit
  <2> QED BY <1>0, <2>3 DEF LinesKept
<1>3. CASE pack' = pack
  BY <1>0, <1>3 DEF LinesKept
<1>4. CASE Growing
  <2>1. /\ at \in DOMAIN pack /\ DOMAIN pack' = DOMAIN pack
        /\ \A k \in DOMAIN pack : k # at => pack'[k] = pack[k]
        /\ \A k \in DOMAIN pack : pack'[k].rank = pack[k].rank
        /\ LinesOf(pack[at].range) \subseteq LinesOf(pack'[at].range)
    BY <1>4, GrowingIs DEF Ours
  <2>2. ASSUME NEW k \in DOMAIN pack, ranked[pack[k].rank].range # NoRange
        PROVE  LinesOf(ranked[pack[k].rank].range) \subseteq LinesOf(pack'[k].range)
    <3>1. LinesOf(ranked[pack[k].rank].range) \subseteq LinesOf(pack[k].range)
      BY <2>2 DEF LinesKept
    <3>2. CASE k = at
      BY <2>1, <3>1, <3>2
    <3>3. CASE k # at
      BY <2>1, <3>1, <3>3
    <3> QED BY <3>2, <3>3
  <2> QED BY <1>0, <2>1, <2>2 DEF LinesKept
<1>5. CASE Returns
  <2>1. PICK place \in DOMAIN pack' : Comes(place)
    BY <1>5, ReturnsIs
  <2>2. ASSUME NEW k \in DOMAIN pack', ranked[pack'[k].rank].range # NoRange
        PROVE  LinesOf(ranked[pack'[k].rank].range) \subseteq LinesOf(pack'[k].range)
    <3>1. CASE k = place
      <4>1. pack'[k].rank = at /\ pack'[k].range = ranked[at].range
        BY <2>1, <3>1 DEF Comes
      <4> QED BY <4>1
    <3>2. CASE k # place
      <4>1. \E l \in DOMAIN pack : pack'[k] = pack[l]
        BY <2>1, <3>2 DEF Comes
      <4> QED BY <2>2, <4>1 DEF LinesKept
    <3> QED BY <3>1, <3>2
  <2> QED BY <1>0, <2>2 DEF LinesKept
<1> QED BY <1>1, <1>2, <1>3, <1>4, <1>5, StepIs

\* Two units may share lines as their candidates did.
MayShare(k, l) ==
    /\ ~pack[k].back /\ ~pack[l].back
    /\ Overlap(ranked[pack[k].rank].range, ranked[pack[l].rank].range)

LEMMA ApartIs ==
    ApartKept <=>
        \A k, l \in DOMAIN pack :
            k # l /\ PathOf(k) = PathOf(l) /\ Overlap(pack[k].range, pack[l].range)
                => MayShare(k, l)
PROOF BY DEF ApartKept, MayShare, PathOf, unit_indices

LEMMA OverlapTurns ==
    ASSUME NEW r \in Ranges, NEW s \in Ranges PROVE Overlap(r, s) <=> Overlap(s, r)
PROOF BY OverlapIs

LEMMA ApartStep ==
    ASSUME Typed, Ours, ApartKept, [Next]_vars
    PROVE  ApartKept'
PROOF
<1>0. ranked' = ranked
  BY StepIs
<1>1. CASE SelectRound /\ UNCHANGED <<pack, pc>>
  BY <1>0, <1>1 DEF ApartKept, unit_indices
<1>2. CASE pc = "select" /\ \E S \in SUBSET Ranks : Present(S)
  <2>1. PICK S \in SUBSET Ranks : Present(S)
    BY <1>2
  <2>2. \A k \in DOMAIN pack' : pack'[k] = Unit(pack'[k].rank, FALSE)
    BY <2>1, TypedIs, UnitsAre DEF Present
  <2>3. \A k \in DOMAIN pack' : ~pack'[k].back /\ pack'[k].range = ranked[pack'[k].rank].range
    BY <2>2 DEF Unit
  <2> QED BY <1>0, <2>3 DEF ApartKept, unit_indices
<1>3. CASE pack' = pack
  BY <1>0, <1>3 DEF ApartKept, unit_indices
<1>4. CASE Growing
  <2>1. /\ at \in DOMAIN pack /\ DOMAIN pack' = DOMAIN pack /\ PathOf(at) = Path
        /\ pack' \in Seq(UnitType)
        /\ \A k \in DOMAIN pack : k # at => pack'[k] = pack[k]
        /\ \A k \in DOMAIN pack : pack'[k].rank = pack[k].rank /\ pack'[k].back = pack[k].back
        /\ pack[at].range \in LineRanges /\ pack'[at].range \in LineRanges
        /\ \A l \in Mine \ {at} :
              \A line \in LinesOf(pack'[at].range) \ LinesOf(pack[at].range) :
                 pack[l].range = NoRange \/ line \notin LinesOf(pack[l].range)
    BY <1>4, GrowingIs DEF Ours
  <2>2. \A k \in DOMAIN pack : pack[k].range \in Ranges
    BY TypedIs, PackTyped
  <2>3. /\ pack[at].range \in Ranges /\ pack'[at].range \in Ranges
        /\ pack[at].range # NoRange /\ pack'[at].range # NoRange
    BY <2>1, FilesAssumption DEF Ranges
  <2>4. ASSUME NEW l \in DOMAIN pack, l # at, PathOf(l) = PathOf(at),
               Overlap(pack'[at].range, pack[l].range)
        PROVE  Overlap(pack[at].range, pack[l].range)
    <3>1. l \in Mine
      BY <2>1, <2>4 DEF Mine, unit_indices, PathOf
    <3>2. PICK line \in LinesOf(pack'[at].range) :
             pack[l].range # NoRange /\ line \in LinesOf(pack[l].range)
      BY <2>2, <2>3, <2>4, OverlapIs
    <3>3. line \in LinesOf(pack[at].range)
      BY <2>1, <2>4, <3>1, <3>2
    <3> QED BY <2>2, <2>3, <3>2, <3>3, OverlapIs
  <2>5. ASSUME NEW k \in DOMAIN pack, NEW l \in DOMAIN pack, k # l, PathOf(k) = PathOf(l),
               Overlap(pack'[k].range, pack'[l].range)
        PROVE  MayShare(k, l)
    <3>1. Overlap(pack[k].range, pack[l].range)
      <4>1. CASE k = at
        <5>1. pack'[l] = pack[l]
          BY <2>1, <2>5, <4>1
        <5> QED BY <2>4, <2>5, <4>1, <5>1
      <4>2. CASE l = at
        <5>1. pack'[k] = pack[k]
          BY <2>1, <2>5, <4>2
        <5>2. Overlap(pack'[at].range, pack[k].range)
          BY <2>2, <2>3, <2>5, <4>2, <5>1, OverlapTurns
        <5>3. Overlap(pack[at].range, pack[k].range)
          BY <2>4, <2>5, <4>2, <5>2
        <5> QED BY <2>2, <4>2, <5>3, OverlapTurns
      <4>3. CASE k # at /\ l # at
        BY <2>1, <2>5, <4>3
      <4> QED BY <4>1, <4>2, <4>3
    <3> QED BY <2>5, <3>1, ApartIs
  <2> QED BY <1>0, <2>1, <2>5 DEF ApartKept, MayShare, PathOf, unit_indices
<1>5. CASE Returns
  <2>1. PICK place \in DOMAIN pack' : Comes(place)
    BY <1>5, ReturnsIs
  <2>2. \A k \in DOMAIN pack : pack[k].range \in Ranges
    BY TypedIs, PackTyped
  <2>3. ranked[at].range \in Ranges
    BY <2>1, TypedIs, ListTyped DEF Comes
  <2>4. ASSUME NEW k \in DOMAIN pack', k # place, ranked[pack'[k].rank].path = Path
        PROVE  /\ ~Overlap(pack'[k].range, pack'[place].range)
               /\ ~Overlap(pack'[place].range, pack'[k].range)
    <3>1. PICK l \in DOMAIN pack : pack'[k] = pack[l]
      BY <2>1, <2>4 DEF Comes
    <3>2. ~Overlap(pack[l].range, ranked[at].range)
      BY <2>1, <2>4, <3>1 DEF Comes, Mine, unit_indices
    <3>3. ~Overlap(ranked[at].range, pack[l].range)
      BY <2>2, <2>3, <3>2, OverlapTurns
    <3> QED BY <2>1, <3>1, <3>2, <3>3 DEF Comes
  <2>5. ranked[pack'[place].rank].path = Path
    BY <2>1 DEF Comes
  <2>6. ASSUME NEW k \in DOMAIN pack', NEW l \in DOMAIN pack', k # l,
               ranked[pack'[k].rank].path = ranked[pack'[l].rank].path,
               Overlap(pack'[k].range, pack'[l].range)
        PROVE  /\ ~pack'[k].back /\ ~pack'[l].back
               /\ Overlap(ranked[pack'[k].rank].range, ranked[pack'[l].rank].range)
    <3>1. k # place /\ l # place
      BY <2>4, <2>5, <2>6
    <3>2. PICK m \in DOMAIN pack, n \in DOMAIN pack :
             m # n /\ pack'[k] = pack[m] /\ pack'[l] = pack[n]
      BY <2>1, <2>6, <3>1 DEF Comes
    <3> QED BY <2>6, <3>2, ApartIs DEF MayShare, PathOf
  <2> QED BY <1>0, <2>6 DEF ApartKept, unit_indices
<1> QED BY <1>1, <1>2, <1>3, <1>4, <1>5, StepIs

\* The inductive invariant under which the pack keeps what was chosen.
Kept == Typed /\ Fresh /\ Ours /\ ChosenKept /\ OrderKept /\ LinesKept /\ ApartKept

LEMMA InitKept == ASSUME Init PROVE Kept
PROOF
<1>1. Typed
  BY InitTyped
<1>2. DOMAIN pack = {} /\ pc = "select" /\ Selected = {}
  BY DEF Init, Selected
<1> QED BY <1>1, <1>2 DEF Kept, Fresh, Ours, Distinct, ChosenKept, OrderKept, LinesKept, ApartKept

LEMMA StepKept == ASSUME Kept, [Next]_vars PROVE Kept'
PROOF
<1>1. Distinct
  BY DEF Kept, Ours
<1>2. Typed' /\ Fresh'
  BY <1>1, StepTyped, FreshStep DEF Kept
<1>3. Ours' /\ ChosenKept' /\ OrderKept'
  BY OursStep, ChosenStep, OrderStep DEF Kept
<1>4. LinesKept' /\ ApartKept'
  BY LinesStep, ApartStep DEF Kept
<1> QED BY <1>2, <1>3, <1>4 DEF Kept

\* "Nothing selection chose is removed or reordered" (region.rs), for any files, lists and
\* budgets: the chosen units stay in rank order with at least their lines, and widening
\* makes no unit share a line with another that it did not share before.
THEOREM SelectionIsKept == Spec => []SelectionKept
PROOF
<1>1. Init => Kept
  BY InitKept
<1>2. Kept /\ [Next]_vars => Kept'
  BY StepKept
<1>3. Kept => SelectionKept
  BY DEF Kept, ChosenKept, OrderKept, LinesKept, ApartKept, SelectionKept
<1> QED BY <1>1, <1>2, <1>3, PTL DEF Spec

-----------------------------------------------------------------------------
(***************************************************************************)
(* What selection passes over.                                             *)
(***************************************************************************)

\* While selection goes on, no open candidate has more priority than a chosen one.
Ranked ==
    pc = "select" =>
    /\ \A i \in Open : \A j \in chosen : ranked[j].priority >= ranked[i].priority
    /\ Capacity /\ ~budget.file_limit => Cardinality(chosen) <= budget.max_primary
    /\ ~Capacity \/ budget.file_limit => chosen = {}

\* A reason to pass over a candidate, and that it is one, beside better ones alone.
Justified(i, why) ==
    /\ why = "budget" =>
           TotalTokens(Better(i)) + estimate_tokens(ranked[i]) > budget.available
    /\ why = "cap" =>
           Cardinality(InFile(Better(i), ranked[i].path)) >= budget.max_per_file
    /\ why = "alike" =>
           ranked[i].priority = 0 /\ \E j \in chosen : ranked[j].text = ranked[i].text

\* When rounds are over, the candidates that are still open are left out for a full pack.
FullPack ==
    \A i \in Open :
        pc # "select" /\ ~budget.file_limit /\ Capacity =>
            Cardinality(Better(i)) = budget.max_primary

\* What holds of each candidate passed over.
Reason(i) == Justified(i, refused[i])

LEMMA RefusedIs ==
    chosen \subseteq Ranks => (RefusedForBetter <=> FullPack /\ \A i \in Ranks : Reason(i))
PROOF
<1>1. Open \subseteq Ranks
  BY DEF Open
<1> QED BY <1>1 DEF RefusedForBetter, FullPack, Reason, Justified

LEMMA EstimateTyped ==
    ASSUME ranked \in Lists, NEW i \in Ranks
    PROVE  estimate_tokens(ranked[i]) \in Nat
PROOF BY ListTyped, BudgetsAssumption DEF estimate_tokens

\* A reason stays one as more candidates are chosen.
LEMMA JustifiedStays ==
    ASSUME Typed, chosen \subseteq chosen', chosen' \subseteq Ranks,
           ranked' = ranked, budget' = budget,
           NEW i \in Ranks, NEW why, Justified(i, why)
    PROVE  Justified(i, why)'
PROOF
<1> DEFINE more == {j \in chosen' : ranked[j].priority >= ranked[i].priority}
<1>1. /\ more = Better(i)' /\ more \in SUBSET Ranks
      /\ Better(i) \in SUBSET more /\ Better(i) \in SUBSET Ranks
  BY TypedIs DEF Better
<1> HIDE DEF more
<1>2. TotalTokens(Better(i)) <= TotalTokens(more)
      /\ TotalTokens(Better(i)) \in Nat /\ TotalTokens(more) \in Nat
  <2>1. /\ IsFiniteSet(more) /\ TotalTokens(more) = SumFunctionOnSet(Tokens(ranked), more)
        /\ TotalTokens(Better(i)) = SumFunctionOnSet(Tokens(ranked), Better(i))
        /\ \A j \in more : Tokens(ranked)[j] \in Nat
        /\ TotalTokens(Better(i)) \in Nat /\ TotalTokens(more) \in Nat
    BY <1>1, TypedIs, TotalIsSum
  <2>2. SumFunctionOnSet(Tokens(ranked), Better(i)) <= SumFunctionOnSet(Tokens(ranked), more)
    BY <1>1, <2>1, SumGrows
  <2> QED BY <2>1, <2>2
<1>3. Cardinality(InFile(Better(i), ranked[i].path)) <= Cardinality(InFile(more, ranked[i].path))
      /\ Cardinality(InFile(Better(i), ranked[i].path)) \in Nat
      /\ Cardinality(InFile(more, ranked[i].path)) \in Nat
  <2>1. IsFiniteSet(more)
    BY <1>1, TypedIs, TotalIsSum
  <2>2. /\ InFile(Better(i), ranked[i].path) \subseteq InFile(more, ranked[i].path)
        /\ InFile(more, ranked[i].path) \subseteq more
    BY <1>1 DEF InFile
  <2>3. IsFiniteSet(InFile(more, ranked[i].path))
    BY <2>1, <2>2, FS_Subset
  <2> QED BY <2>2, <2>3, FS_Subset, FS_CardinalityType
<1>4. estimate_tokens(ranked[i]) \in Nat /\ budget.available \in Nat /\ budget.max_per_file \in Nat
  BY TypedIs, EstimateTyped, BudgetTyped
<1>5. /\ TotalTokens(Better(i))' = TotalTokens(more)
      /\ InFile(Better(i), ranked[i].path)' = InFile(more, ranked[i].path)
  BY <1>1 DEF TotalTokens, InFile
<1>6. why = "budget" => TotalTokens(more) + estimate_tokens(ranked[i]) > budget.available
  BY <1>2, <1>4 DEF Justified
<1>7. why = "cap" => Cardinality(InFile(more, ranked[i].path)) >= budget.max_per_file
  BY <1>3, <1>4 DEF Justified
<1>8. why = "alike" =>
          ranked[i].priority = 0 /\ \E j \in chosen' : ranked[j].text = ranked[i].text
  BY DEF Justified
<1> QED BY <1>5, <1>6, <1>7, <1>8 DEF Justified, estimate_tokens

\* What a round finds against an open candidate is a reason.
LEMMA RefusalJustified ==
    ASSUME Typed, Ranked, pc = "select", NEW i \in Open
    PROVE  Better(i) = chosen /\ Justified(i, Refusal(i))
PROOF
<1>1. Better(i) = chosen
  BY DEF Ranked, Better
<1>2. i \in Ranks /\ chosen \in SUBSET Ranks
  BY TypedIs DEF Open
<1>3. /\ TotalTokens(chosen) \in Nat /\ estimate_tokens(ranked[i]) \in Nat
      /\ budget.available \in Nat
  BY <1>2, TypedIs, TotalIsSum, EstimateTyped, BudgetTyped
<1>4. Refusal(i) = "budget" =>
          TotalTokens(chosen) + estimate_tokens(ranked[i]) > budget.available
  <2>1. Refusal(i) = "budget" =>
            estimate_tokens(ranked[i]) > Minus(budget.available, TotalTokens(chosen))
    BY DEF Refusal
  <2> QED BY <1>3, <2>1 DEF Minus
<1>5. Refusal(i) = "cap" =>
          Cardinality(InFile(chosen, ranked[i].path)) >= budget.max_per_file
  BY DEF Refusal
<1>6. Refusal(i) = "alike" =>
          ranked[i].priority = 0 /\ \E j \in chosen : ranked[j].text = ranked[i].text
  BY DEF Refusal
<1> QED BY <1>1, <1>4, <1>5, <1>6 DEF Justified

LEMMA ScanIs ==
    ASSUME Scan, NEW i \in Ranks
    PROVE  refused'[i] = IF i \in Open THEN Refusal(i) ELSE refused[i]
PROOF BY DEF Scan

LEMMA PriorityTyped ==
    ASSUME ranked \in Lists, NEW i \in Ranks PROVE ranked[i].priority \in Nat
PROOF BY ListTyped

LEMMA RankedStep == ASSUME Typed, Ranked, [Next]_vars PROVE Ranked'
PROOF
<1>1. budget' = budget /\ ranked' = ranked
  BY StepIs
<1>2. CASE SelectRound
  <2>1. /\ pc = "select" /\ Capacity /\ ~budget.file_limit /\ Scan /\ pc' = pc
        /\ Cardinality(chosen) < budget.max_primary
    BY <1>2 DEF SelectRound
  <2>2. PICK best \in Best : chosen' = chosen \cup {best}
    BY <1>2 DEF SelectRound
  <2>3. /\ best \in Fit /\ best \in Open /\ best \in Ranks
        /\ \A j \in Fit : ranked[j].priority <= ranked[best].priority
    BY DEF Best, Fit, Open
  <2>4. ASSUME NEW i \in Open'
        PROVE  i \in Fit
    <3>1. i \in Ranks /\ i \notin chosen /\ refused'[i] = "no"
      BY <1>1, <2>2, <2>4 DEF Open, Ranks
    <3>2. i \in Open /\ Refusal(i) = "no"
      BY <2>1, <3>1, ScanIs DEF Open
    <3> QED BY <3>2 DEF Fit
  <2>5. ASSUME NEW i \in Open', NEW j \in chosen'
        PROVE  ranked[j].priority >= ranked[i].priority
    <3>1. i \in Fit /\ i \in Open /\ i \in Ranks
      BY <2>4 DEF Fit, Open
    <3>2. CASE j = best
      <4>1. ranked[i].priority <= ranked[best].priority
        BY <2>3, <3>1
      <4>2. ranked[i].priority \in Nat /\ ranked[best].priority \in Nat
        BY <2>3, <3>1, TypedIs, PriorityTyped
      <4> QED BY <3>2, <4>1, <4>2
    <3>3. CASE j # best
      BY <2>1, <2>2, <3>1, <3>3 DEF Ranked
    <3> QED BY <3>2, <3>3
  <2>6. Cardinality(chosen') <= budget.max_primary
    <3>1. IsFiniteSet(chosen) /\ Cardinality(chosen) \in Nat /\ budget.max_primary \in Nat
      BY TypedIs, TotalIsSum, FS_CardinalityType, BudgetTyped
    <3>2. Cardinality(chosen') = Cardinality(chosen) \/ Cardinality(chosen') = Cardinality(chosen) + 1
      BY <2>2, <3>1, FS_AddElement
    <3> QED BY <2>1, <3>1, <3>2
  <2>7. Capacity'
    BY <1>1, <2>1 DEF Capacity
  <2> QED BY <1>1, <2>1, <2>5, <2>6, <2>7 DEF Ranked
<1>3. CASE SelectionEnds \/ SelectPrefix \/ NoCapacity
  <2>1. pc' = "selected"
    BY <1>3 DEF SelectionEnds, SelectPrefix, NoCapacity, Present
  <2> QED BY <2>1 DEF Ranked
<1>4. CASE UNCHANGED <<chosen, refused>> /\ (pc' = "select" <=> pc = "select")
  BY <1>1, <1>4 DEF Ranked, Open, Capacity, Ranks
<1>5. \/ SelectRound \/ SelectionEnds \/ SelectPrefix \/ NoCapacity
      \/ UNCHANGED <<chosen, refused>> /\ (pc' = "select" <=> pc = "select")
  BY StepIs, SelectionSteps DEF Next, StartWidening, OpenFile, Finish, Widen, Readmit,
     ReadmitEnds, Absorb, Retarget, NextUnit, selection, vars
<1> QED BY <1>2, <1>3, <1>4, <1>5

LEMMA RefusedStep ==
    ASSUME Typed, Ranked, RefusedForBetter, [Next]_vars
    PROVE  RefusedForBetter'
PROOF
<1>1. budget' = budget /\ ranked' = ranked /\ Capacity' = Capacity /\ Ranks' = Ranks
  BY StepIs DEF Capacity, Ranks
<1>2. chosen \subseteq Ranks /\ chosen' \subseteq Ranks
  BY <1>1, StepTyped, TypedIs DEF Typed, TypeOK
<1>3. FullPack /\ \A i \in Ranks : Reason(i)
  BY <1>2, RefusedIs
<1>4. SUFFICES FullPack' /\ \A i \in Ranks : Reason(i)'
  <2>1. (chosen \subseteq Ranks => (RefusedForBetter <=> FullPack /\ \A i \in Ranks : Reason(i)))'
    BY RefusedIs, PTL
  <2> QED BY <1>1, <1>2, <2>1
<1>5. ASSUME NEW i \in Ranks, chosen \subseteq chosen',
             NEW why, Justified(i, why), why = refused'[i]
      PROVE  Reason(i)'
  <2>1. Justified(i, why)'
    BY <1>1, <1>2, <1>5, JustifiedStays
  <2> QED BY <1>5, <2>1 DEF Reason, Justified
<1>6. ASSUME pc = "select", Scan, chosen \subseteq chosen', NEW i \in Ranks
      PROVE  Reason(i)'
  <2>1. PICK why : why = refused'[i]
    OBVIOUS
  <2>2. Justified(i, why)
    BY <1>3, <1>6, <2>1, ScanIs, RefusalJustified DEF Reason
  <2> QED BY <1>5, <1>6, <2>1, <2>2
<1>7. ASSUME refused' = refused, chosen \subseteq chosen', NEW i \in Ranks
      PROVE  Reason(i)'
  <2>1. PICK why : why = refused'[i]
    OBVIOUS
  <2>2. Justified(i, why)
    BY <1>3, <1>7, <2>1 DEF Reason
  <2> QED BY <1>5, <1>7, <2>1, <2>2
<1>8. CASE SelectRound
  <2>1. pc = "select" /\ pc' = "select" /\ Scan /\ chosen \subseteq chosen'
    BY <1>8 DEF SelectRound
  <2> QED BY <1>6, <2>1 DEF FullPack
<1>9. CASE SelectionEnds
  <2>1. /\ pc = "select" /\ chosen' = chosen /\ Capacity /\ ~budget.file_limit
        /\ \/ Cardinality(chosen) >= budget.max_primary /\ refused' = refused
           \/ Fit = {} /\ Scan
    BY <1>9 DEF SelectionEnds, Present
  <2>2. CASE Cardinality(chosen) >= budget.max_primary /\ refused' = refused
    <3>1. Cardinality(chosen) = budget.max_primary
      <4>1. Cardinality(chosen) <= budget.max_primary
        BY <2>1 DEF Ranked
      <4>2. Cardinality(chosen) \in Nat /\ budget.max_primary \in Nat
        BY TypedIs, TotalIsSum, FS_CardinalityType, BudgetTyped
      <4> QED BY <2>2, <4>1, <4>2
    <3>2. \A i \in Open : Better(i) = chosen
      BY <2>1, RefusalJustified
    <3>3. /\ Open' = Open /\ \A i : Better(i)' = Better(i)
      BY <1>1, <2>1, <2>2 DEF Open, Better
    <3>4. FullPack'
      BY <1>1, <3>1, <3>2, <3>3 DEF FullPack
    <3> QED BY <1>7, <2>1, <2>2, <3>4
  <2>3. CASE Fit = {} /\ Scan
    <3>1. Open' = {}
      <4> SUFFICES ASSUME NEW i \in Open' PROVE FALSE
        OBVIOUS
      <4>1. i \in Ranks /\ i \notin chosen /\ refused'[i] = "no"
        BY <1>1, <2>1 DEF Open
      <4>2. i \in Open /\ Refusal(i) = "no"
        BY <2>3, <4>1, ScanIs DEF Open
      <4> QED BY <2>3, <4>2 DEF Fit
    <3>2. FullPack'
      BY <3>1 DEF FullPack
    <3> QED BY <1>6, <2>1, <2>3, <3>2
  <2> QED BY <2>1, <2>2, <2>3
<1>10. CASE SelectPrefix \/ NoCapacity
  <2>1. /\ pc = "select" /\ refused' = refused /\ (~Capacity \/ budget.file_limit)
    BY <1>10 DEF SelectPrefix, NoCapacity
  <2>2. chosen = {}
    BY <2>1 DEF Ranked
  <2>3. FullPack'
    BY <1>1, <2>1 DEF FullPack
  <2> QED BY <1>7, <2>1, <2>2, <2>3
<1>11. CASE UNCHANGED <<chosen, refused>> /\ (pc' = "select" <=> pc = "select")
  <2>1. /\ Open' = Open /\ \A i : Better(i)' = Better(i)
    BY <1>1, <1>11 DEF Open, Better
  <2>2. FullPack'
    BY <1>1, <1>3, <1>11, <2>1 DEF FullPack
  <2> QED BY <1>7, <1>11, <2>2
<1>12. \/ SelectRound \/ SelectionEnds \/ SelectPrefix \/ NoCapacity
       \/ UNCHANGED <<chosen, refused>> /\ (pc' = "select" <=> pc = "select")
  BY DEF Next, StartWidening, OpenFile, Finish, Widen, Readmit, ReadmitEnds, Absorb, Retarget,
     NextUnit, selection, vars
<1> QED BY <1>8, <1>9, <1>10, <1>11, <1>12

-----------------------------------------------------------------------------
(***************************************************************************)
(* The tokens of the pack.                                                 *)
(***************************************************************************)

\* Units as selection presents them cost what their candidates do.
LEMMA UnitsTokens ==
    ASSUME ranked \in Lists, NEW S \in SUBSET Ranks, NEW D \in SUBSET DOMAIN Units(S)
    PROVE  SumFunctionOnSet(Tokens(Units(S)), D) = TotalTokens({Units(S)[k].rank : k \in D})
PROOF
<1> DEFINE units == Units(S)
           T == {units[k].rank : k \in D}
           b == [k \in D |-> units[k].rank]
<1>1. /\ units \in Seq(UnitType) /\ IsFiniteSet(S)
      /\ \A k \in DOMAIN units : units[k].rank \in S /\ units[k] = Unit(units[k].rank, FALSE)
      /\ \A k, l \in DOMAIN units : k # l => units[k].rank # units[l].rank
  BY UnitsAre
<1>2. IsFiniteSet(D)
  <2>1. DOMAIN units = 1 .. Len(units) /\ Len(units) \in Nat
    BY <1>1
  <2>2. IsFiniteSet(DOMAIN units)
    BY <2>1, FS_Interval
  <2> QED BY <2>2, FS_Subset
<1> HIDE DEF units
<1>3. T \in SUBSET Ranks /\ \A k \in D : k \in DOMAIN units /\ units[k].rank \in Ranks
  BY <1>1 DEF units
<1>4. \A k \in D : /\ Tokens(units)[k] = estimate_tokens(ranked[units[k].rank])
                   /\ Tokens(units)[k] \in Nat
                   /\ Tokens(ranked)[units[k].rank] = Tokens(units)[k]
  <2> SUFFICES ASSUME NEW k \in D
               PROVE  /\ Tokens(units)[k] = estimate_tokens(ranked[units[k].rank])
                      /\ Tokens(units)[k] \in Nat
                      /\ Tokens(ranked)[units[k].rank] = Tokens(units)[k]
    OBVIOUS
  <2>1. Tokens(units)[k] = estimate_tokens(units[k])
    BY <1>3 DEF Tokens
  <2>2. units[k].shown = ranked[units[k].rank].shown
    <3>1. units[k] = Unit(units[k].rank, FALSE)
      BY <1>1, <1>3
    <3>2. \A i : Unit(i, FALSE).shown = ranked[i].shown
      BY DEF Unit
    <3> QED BY <3>1, <3>2
  <2>3. estimate_tokens(units[k]) = estimate_tokens(ranked[units[k].rank])
    BY <2>2 DEF estimate_tokens
  <2> QED BY <1>3, <2>1, <2>3, TotalIsSum
<1>5. /\ b \in [D -> T] /\ \A k, l \in D : k # l => b[k] # b[l]
      /\ \A i \in T : \E k \in D : i = b[k]
      /\ \A k \in D : Tokens(ranked)[b[k]] = Tokens(units)[k]
  BY <1>1, <1>3, <1>4 DEF units
<1>6. IsFiniteSet(T) /\ TotalTokens(T) = SumFunctionOnSet(Tokens(ranked), T)
  <2> HIDE DEF T
  <2> QED BY <1>3, TotalIsSum
<1> HIDE DEF T, b
<1>7. SumFunctionOnSet(Tokens(units), D) = SumFunctionOnSet(Tokens(ranked), T)
  BY <1>2, <1>4, <1>5, <1>6, SumRenamed
<1> QED BY <1>6, <1>7 DEF T, units

\* The tokens of the units at some places of the pack after a step.
Later(places) == SumFunctionOnSet(Tokens(pack'), places)

LEMMA LaterTyped ==
    ASSUME pack' \in Seq(UnitType), ranked' = ranked, ranked \in Lists, NEW U \in SUBSET DOMAIN pack'
    PROVE  /\ IsFiniteSet(U) /\ Later(U) \in Nat
           /\ \A k \in DOMAIN pack' : Tokens(pack')[k] = estimate_tokens(pack'[k])
                                      /\ Tokens(pack')[k] \in Nat
PROOF
<1>1. /\ Len(pack') \in Nat /\ DOMAIN pack' = 1 .. Len(pack')
      /\ \A k \in DOMAIN pack' : pack'[k] \in UnitType
  OBVIOUS
<1>2. IsFiniteSet(U)
  <2>1. IsFiniteSet(DOMAIN pack')
    BY <1>1, FS_Interval
  <2> QED BY <2>1, FS_Subset
<1>3. \A k \in DOMAIN pack' : Tokens(pack')[k] = estimate_tokens(pack'[k])
  BY DEF Tokens
<1>4. \A u \in UnitType : estimate_tokens(u) \in Nat
  BY BudgetsAssumption DEF UnitType, estimate_tokens
<1>5. \A k \in DOMAIN pack' : Tokens(pack')[k] \in Nat
  BY <1>1, <1>3, <1>4
<1> QED BY <1>2, <1>3, <1>5, SumRemoves DEF Later

\* When a unit grows, the sets of units it is in pay for it, and no other does.
LEMMA GrowsTokens ==
    ASSUME Typed, ranked' = ranked, NEW lines, Grows(lines), NEW U \in SUBSET DOMAIN pack
    PROVE  /\ Later(U) <= PackTokens(U) + Growth(pack[at], lines)
           /\ at \notin U => Later(U) = PackTokens(U)
PROOF
<1> DEFINE t == Growth(pack[at], lines)
<1>1. /\ pack' \in Seq(UnitType) /\ DOMAIN pack' = DOMAIN pack
      /\ at \in DOMAIN pack /\ pack'[at] = Grown(pack[at], lines)
      /\ \A k \in DOMAIN pack : k # at => pack'[k] = pack[k]
  BY GrowsPack
<1>2. ranked \in Lists /\ pack \in Seq(UnitType)
  BY TypedIs
<1>3. /\ IsFiniteSet(U) /\ PackTokens(U) = SumFunctionOnSet(Tokens(pack), U)
      /\ \A k \in U : Tokens(pack)[k] = estimate_tokens(pack[k]) /\ Tokens(pack)[k] \in Nat
      /\ PackTokens(U) \in Nat
  BY <1>2, PackIsSum
<1>4. /\ Later(U) \in Nat
      /\ \A k \in U : Tokens(pack')[k] = estimate_tokens(pack'[k]) /\ Tokens(pack')[k] \in Nat
  BY <1>1, <1>2, LaterTyped
<1>5. /\ t \in Nat /\ estimate_tokens(pack'[at]) <= estimate_tokens(pack[at]) + t
  <2>1. pack[at] \in UnitType
    BY <1>1, <1>2, PackTyped
  <2> QED BY <1>1, <2>1, GrownTyped DEF Grows
<1> HIDE DEF t
<1>6. \A W \in SUBSET U : at \notin W => SumFunctionOnSet(Tokens(pack'), W) = SumFunctionOnSet(Tokens(pack), W)
  <2> SUFFICES ASSUME NEW W \in SUBSET U, at \notin W
               PROVE  SumFunctionOnSet(Tokens(pack'), W) = SumFunctionOnSet(Tokens(pack), W)
    OBVIOUS
  <2>1. \A k \in W : Tokens(pack')[k] = Tokens(pack)[k] /\ Tokens(pack)[k] \in Nat
    BY <1>1, <1>3, <1>4
  <2>2. IsFiniteSet(W)
    BY <1>3, FS_Subset
  <2> QED BY <2>1, <2>2, SumEqual
<1>7. CASE at \notin U
  BY <1>3, <1>4, <1>5, <1>6, <1>7 DEF Later, t
<1>8. CASE at \in U
  <2> DEFINE rest == SumFunctionOnSet(Tokens(pack), U \ {at})
  <2>1. PackTokens(U) = estimate_tokens(pack[at]) + rest
    BY <1>3, <1>8, SumRemoves
  <2>2. Later(U) = estimate_tokens(pack'[at]) + SumFunctionOnSet(Tokens(pack'), U \ {at})
    <3> DEFINE f == Tokens(pack')
    <3>1. Later(U) = SumFunctionOnSet(f, U) /\ f[at] = estimate_tokens(pack'[at])
          /\ \A k \in U : f[k] \in Nat
      BY <1>4, <1>8 DEF Later
    <3> HIDE DEF f
    <3>2. SumFunctionOnSet(f, U) = f[at] + SumFunctionOnSet(f, U \ {at})
      BY <1>3, <1>8, <3>1, SumRemoves
    <3> QED BY <3>1, <3>2 DEF f
  <2>3. SumFunctionOnSet(Tokens(pack'), U \ {at}) = rest
    BY <1>6
  <2>4. rest \in Nat
    <3>1. U \ {at} \in SUBSET DOMAIN pack
      OBVIOUS
    <3> QED BY <1>2, <3>1, PackIsSum
  <2>5. estimate_tokens(pack[at]) \in Nat /\ estimate_tokens(pack'[at]) \in Nat
    BY <1>3, <1>4, <1>8
  <2> HIDE DEF rest
  <2>6. Later(U) <= PackTokens(U) + t
    BY <1>5, <2>1, <2>2, <2>3, <2>4, <2>5
  <2> QED BY <1>8, <2>6 DEF t
<1> QED BY <1>7, <1>8

\* When a candidate comes back, it alone is paid for.
LEMMA ComesTokens ==
    ASSUME Typed, ranked' = ranked, NEW place, Comes(place),
           NEW U \in SUBSET DOMAIN pack, NEW V \in SUBSET DOMAIN pack',
           U = {Was(place, k) : k \in V \ {place}}
    PROVE  /\ place \notin V => Later(V) = PackTokens(U)
           /\ place \in V => Later(V) = PackTokens(U) + estimate_tokens(ranked[at])
PROOF
<1> DEFINE W == V \ {place}
           b == [k \in W |-> Was(place, k)]
<1>1. ranked \in Lists /\ pack \in Seq(UnitType) /\ pack' \in Seq(UnitType)
  BY TypedIs DEF Comes
<1>2. /\ IsFiniteSet(U) /\ PackTokens(U) = SumFunctionOnSet(Tokens(pack), U)
      /\ \A k \in DOMAIN pack : Tokens(pack)[k] = estimate_tokens(pack[k])
      /\ PackTokens(U) \in Nat
  BY <1>1, PackIsSum
<1>3. /\ IsFiniteSet(V) /\ Later(V) \in Nat
      /\ \A k \in DOMAIN pack' : Tokens(pack')[k] = estimate_tokens(pack'[k])
                                 /\ Tokens(pack')[k] \in Nat
  BY <1>1, LaterTyped
<1>4. IsFiniteSet(W) /\ \A k \in W : Tokens(pack')[k] \in Nat
  BY <1>3, FS_Subset
<1>5. \A k \in W : Was(place, k) \in DOMAIN pack /\ pack'[k] = pack[Was(place, k)]
  BY DEF Comes
<1>6. /\ b \in [W -> U] /\ \A k, l \in W : k # l => b[k] # b[l]
      /\ \A m \in U : \E k \in W : m = b[k]
  BY DEF Comes
<1>7. \A k \in W : Tokens(pack)[b[k]] = Tokens(pack')[k]
  BY <1>2, <1>3, <1>5
<1> HIDE DEF b
<1>8. SumFunctionOnSet(Tokens(pack'), W) = SumFunctionOnSet(Tokens(pack), U)
  <2> DEFINE f == Tokens(pack')
             g == Tokens(pack)
  <2>1. /\ IsFiniteSet(W) /\ IsFiniteSet(U) /\ \A k \in W : f[k] \in Nat
        /\ b \in [W -> U] /\ \A k, l \in W : k # l => b[k] # b[l]
        /\ \A m \in U : \E k \in W : m = b[k]
        /\ \A k \in W : g[b[k]] = f[k]
    BY <1>2, <1>4, <1>6, <1>7
  <2> HIDE DEF W, f, g
  <2>2. SumFunctionOnSet(f, W) = SumFunctionOnSet(g, U)
    BY ONLY <2>1, SumRenamed
  <2> QED BY <2>2 DEF f, g
<1>9. CASE place \notin V
  <2>1. W = V
    BY <1>9
  <2> QED BY <1>2, <1>8, <1>9, <2>1 DEF Later
<1>10. CASE place \in V
  <2>1. Later(V) = Tokens(pack')[place] + SumFunctionOnSet(Tokens(pack'), W)
    BY <1>3, <1>10, SumRemoves DEF Later
  <2>2. Tokens(pack')[place] = estimate_tokens(ranked[at])
    <3>1. pack'[place] = Unit(at, TRUE) /\ place \in DOMAIN pack'
      BY DEF Comes
    <3>2. Unit(at, TRUE).shown = ranked[at].shown
      BY DEF Unit
    <3> QED BY <1>3, <3>1, <3>2 DEF estimate_tokens
  <2>3. estimate_tokens(ranked[at]) \in Nat
    BY <1>1, EstimateTyped DEF Comes
  <2> QED BY <1>2, <1>8, <1>10, <2>1, <2>2, <2>3
<1> QED BY <1>9, <1>10

\* What is spent: the rounds stay within the caller's tokens; a file's units within its cap,
\* or they are the ones selection chose; and while a file is widened, its counter is at
\* least what its units cost, and the tokens that remain are still free.
Mined(path) ==
    \/ PackTokens(unit_indices(path)) <= budget.region_tokens
    \/ PackTokens(unit_indices(path)) = TotalTokens(InFile(chosen, path))
Spent ==
    /\ pc = "select" /\ ~budget.file_limit => TotalTokens(chosen) <= budget.available
    /\ PackTokens(DOMAIN pack) <= budget.available
    /\ pc \notin {"select", "selected"} => PackTokens(DOMAIN pack) + remaining <= budget.available
    /\ \A path \in Paths : Mined(path)
    /\ pc \in Passes =>
          /\ PackTokens(Mine) <= fileTokens
          /\ \/ fileTokens <= budget.region_tokens
             \/ PackTokens(Mine) = TotalTokens(InFile(chosen, Path))

\* The units of a file after a step.
Then(path) == {k \in DOMAIN pack' : ranked[pack'[k].rank].path = path}

\* What a step that widens costs the pack and the files.
LEMMA PaidFor ==
    ASSUME Typed, Distinct, ranked' = ranked, Growing \/ Returns
    PROVE  \E t \in Nat :
              /\ Fits(t) /\ Spend(t) /\ pack' \in Seq(UnitType) /\ pc \in Passes
              /\ Later(DOMAIN pack') <= PackTokens(DOMAIN pack) + t
              /\ Later(Then(Path)) <= PackTokens(Mine) + t
              /\ \A path : path # Path => Later(Then(path)) = PackTokens(unit_indices(path))
PROOF
<1>1. CASE Growing
  <2>1. PICK lines : Grows(lines)
    BY <1>1, GrowingIs
  <2>2. /\ at \in DOMAIN pack /\ PathOf(at) = Path /\ DOMAIN pack' = DOMAIN pack
        /\ pack' \in Seq(UnitType) /\ pc \in Passes
        /\ \A k \in DOMAIN pack : pack'[k].rank = pack[k].rank
    BY <1>1, GrowingIs DEF Passes
  <2> DEFINE t == Growth(pack[at], lines)
  <2>3. t \in Nat /\ Fits(t) /\ Spend(t)
    BY <2>1, GrowthTyped DEF Grows
  <2>4. \A path : Then(path) = unit_indices(path) /\ unit_indices(path) \in SUBSET DOMAIN pack
    BY <2>2 DEF Then, unit_indices
  <2>5. \A U \in SUBSET DOMAIN pack : /\ Later(U) <= PackTokens(U) + t
                                      /\ at \notin U => Later(U) = PackTokens(U)
    BY <2>1, GrowsTokens
  <2>6. \A path : path # Path => at \notin unit_indices(path)
    BY <2>2 DEF unit_indices, PathOf
  <2> HIDE DEF t
  <2>7. Later(DOMAIN pack') <= PackTokens(DOMAIN pack) + t
    BY <2>2, <2>5
  <2>8. Later(Then(Path)) <= PackTokens(Mine) + t
    BY <2>4, <2>5 DEF Mine
  <2>9. \A path : path # Path => Later(Then(path)) = PackTokens(unit_indices(path))
    BY <2>4, <2>5, <2>6
  <2> QED BY <2>2, <2>3, <2>7, <2>8, <2>9
<1>2. CASE Returns
  <2>1. PICK place \in DOMAIN pack' : Comes(place)
    BY <1>2, ReturnsIs
  <2> DEFINE t == estimate_tokens(ranked[at])
  <2>2. t \in Nat /\ Fits(t) /\ Spend(t)
    BY <1>2, TypedIs, EstimateTyped DEF Returns, Readmits
  <2>3. pack' \in Seq(UnitType) /\ pc \in Passes
    BY <2>1 DEF Comes, Passes
  <2>4. \A path : /\ unit_indices(path) = {Was(place, k) : k \in Then(path) \ {place}}
                  /\ unit_indices(path) \in SUBSET DOMAIN pack
                  /\ Then(path) \in SUBSET DOMAIN pack'
                  /\ place \in Then(path) <=> path = Path
    <3> SUFFICES ASSUME NEW path
                 PROVE  /\ unit_indices(path) = {Was(place, k) : k \in Then(path) \ {place}}
                        /\ unit_indices(path) \in SUBSET DOMAIN pack
                        /\ Then(path) \in SUBSET DOMAIN pack'
                        /\ place \in Then(path) <=> path = Path
      OBVIOUS
    <3>1. place \in Then(path) <=> path = Path
      BY <2>1 DEF Comes, Then
    <3>2. ASSUME NEW k \in Then(path) \ {place} PROVE Was(place, k) \in unit_indices(path)
      BY <2>1 DEF Comes, Then, unit_indices
    <3>3. ASSUME NEW m \in unit_indices(path)
          PROVE  \E k \in Then(path) \ {place} : m = Was(place, k)
      <4>1. m \in DOMAIN pack /\ ranked[pack[m].rank].path = path
        BY DEF unit_indices
      <4>2. PICK k \in DOMAIN pack' : k # place /\ m = Was(place, k)
        BY <2>1, <4>1 DEF Comes
      <4>3. pack'[k] = pack[m]
        BY <2>1, <4>2 DEF Comes
      <4> QED BY <4>1, <4>2, <4>3 DEF Then
    <3>4. unit_indices(path) = {Was(place, k) : k \in Then(path) \ {place}}
      BY <3>2, <3>3
    <3> QED BY <3>1, <3>4 DEF unit_indices, Then
  <2>5. DOMAIN pack = {Was(place, k) : k \in DOMAIN pack' \ {place}}
    BY <2>1 DEF Comes
  <2>6. \A U \in SUBSET DOMAIN pack, V \in SUBSET DOMAIN pack' :
           U = {Was(place, k) : k \in V \ {place}} =>
               /\ place \notin V => Later(V) = PackTokens(U)
               /\ place \in V => Later(V) = PackTokens(U) + t
    BY <2>1, ComesTokens
  <2> HIDE DEF t
  <2>7. Later(DOMAIN pack') = PackTokens(DOMAIN pack) + t
    BY <2>5, <2>6
  <2>8. \A path : path # Path => Later(Then(path)) = PackTokens(unit_indices(path))
    <3> SUFFICES ASSUME NEW path, path # Path
                 PROVE  Later(Then(path)) = PackTokens(unit_indices(path))
      OBVIOUS
    <3>1. /\ unit_indices(path) = {Was(place, k) : k \in Then(path) \ {place}}
          /\ unit_indices(path) \in SUBSET DOMAIN pack /\ Then(path) \in SUBSET DOMAIN pack'
          /\ place \notin Then(path)
      BY <2>4
    <3> QED BY ONLY <2>6, <3>1
  <2>9. Later(Then(Path)) = PackTokens(Mine) + t
    <3>1. /\ Mine = {Was(place, k) : k \in Then(Path) \ {place}}
          /\ Mine \in SUBSET DOMAIN pack /\ Then(Path) \in SUBSET DOMAIN pack'
          /\ place \in Then(Path)
      BY <2>4 DEF Mine
    <3> QED BY ONLY <2>6, <3>1
  <2>10. PackTokens(DOMAIN pack) \in Nat /\ PackTokens(Mine) \in Nat
    <3>1. Mine \in SUBSET DOMAIN pack
      BY DEF Mine, unit_indices
    <3> QED BY <3>1, TypedIs, PackIsSum
  <2>11. /\ Later(DOMAIN pack') <= PackTokens(DOMAIN pack) + t
         /\ Later(Then(Path)) <= PackTokens(Mine) + t
    BY <2>2, <2>7, <2>9, <2>10
  <2> QED BY <2>2, <2>3, <2>8, <2>11
<1> QED BY <1>1, <1>2

\* The steps of the passes that may pay.
LEMMA PayingSteps ==
    ASSUME Typed, Widen \/ Readmit \/ ReadmitEnds \/ Absorb
    PROVE  /\ pc \in Passes /\ pc' \in Passes
           /\ UNCHANGED <<budget, ranked, chosen, refused, todo>>
           /\ UNCHANGED Pays \/ Growing \/ Returns
PROOF
<1>1. CASE Widen
  <2>1. UNCHANGED Pays \/ \E lines : Widens(lines)
    BY <1>1, WidenGrows DEF Widens, Widen
  <2>2. /\ pc = "widen" /\ pc' \in {"widen", "readmit"}
        /\ UNCHANGED <<budget, ranked, chosen, refused, todo>>
    BY <1>1 DEF Widen, NextUnit, selection
  <2> QED BY <2>1, <2>2 DEF Growing, Passes
<1>2. CASE Readmit \/ ReadmitEnds
  <2>1. UNCHANGED Pays \/ Returns
    BY <1>2, ReadmitReturns DEF Pays, ReadmitEnds
  <2>2. /\ pc = "readmit" /\ pc' \in {"readmit", "absorb"}
        /\ UNCHANGED <<budget, ranked, chosen, refused, todo>>
    BY <1>2 DEF Readmit, ReadmitEnds, selection
  <2> QED BY <2>1, <2>2 DEF Passes
<1>3. CASE Absorb
  <2>1. UNCHANGED Pays \/ \E range : Extends(range)
    BY <1>3, AbsorbGrows DEF Extends, Absorb
  <2>2. /\ pc = "absorb" /\ pc' \in {"absorb", "retarget"}
        /\ UNCHANGED <<budget, ranked, chosen, refused, todo>>
    BY <1>3 DEF Absorb, NextUnit, selection
  <2> QED BY <2>1, <2>2 DEF Growing, Passes
<1> QED BY <1>1, <1>2, <1>3

\* The parts of Spent in terms of a pack that has not changed.
LEMMA SpentStays ==
    ASSUME UNCHANGED <<budget, ranked, chosen, pack>>
    PROVE  /\ PackTokens(DOMAIN pack)' = PackTokens(DOMAIN pack)
           /\ \A path : unit_indices(path)' = unit_indices(path)
           /\ \A path : PackTokens(unit_indices(path))' = PackTokens(unit_indices(path))
           /\ \A path : Mined(path)' <=> Mined(path)
           /\ todo' = todo => Mine' = Mine /\ PackTokens(Mine)' = PackTokens(Mine) /\ Path' = Path
           /\ TotalTokens(chosen)' = TotalTokens(chosen)
           /\ \A path : TotalTokens(InFile(chosen, path))' = TotalTokens(InFile(chosen, path))
PROOF
<1>1. \A path : unit_indices(path)' = unit_indices(path)
  BY DEF unit_indices
<1>2. \A path : PackTokens(unit_indices(path))' = PackTokens(unit_indices(path))
  BY <1>1 DEF PackTokens
<1>3. PackTokens(DOMAIN pack)' = PackTokens(DOMAIN pack)
  BY DEF PackTokens
<1>4. \A path : TotalTokens(InFile(chosen, path))' = TotalTokens(InFile(chosen, path))
  BY DEF TotalTokens, InFile
<1>5. TotalTokens(chosen)' = TotalTokens(chosen)
  BY DEF TotalTokens
<1>6. todo' = todo => Mine' = Mine /\ PackTokens(Mine)' = PackTokens(Mine) /\ Path' = Path
  BY DEF Mine, Path, PackTokens, unit_indices
<1>7. \A path : Mined(path)' <=> Mined(path)
  BY <1>2, <1>4 DEF Mined
<1> QED BY <1>1, <1>2, <1>3, <1>4, <1>5, <1>6, <1>7

\* The tokens of the units selection presents.
LEMMA PresentTokens ==
    ASSUME Typed, ranked' = ranked, NEW S \in SUBSET Ranks, Present(S)
    PROVE  /\ Later(DOMAIN pack') = TotalTokens(S)
           /\ \A path : Later(Then(path)) = TotalTokens(InFile(S, path))
PROOF
<1>1. /\ pack' = Units(S) /\ ranked \in Lists
      /\ \A k \in DOMAIN pack' : pack'[k].rank \in S
      /\ \A i \in S : \E k \in DOMAIN pack' : pack'[k].rank = i
  BY TypedIs, UnitsAre DEF Present
<1>2. \A D \in SUBSET DOMAIN pack' : Later(D) = TotalTokens({pack'[k].rank : k \in D})
  BY <1>1, UnitsTokens DEF Later
<1>3. {pack'[k].rank : k \in DOMAIN pack'} = S
  BY <1>1
<1>4. \A path : /\ Then(path) \in SUBSET DOMAIN pack'
                /\ {pack'[k].rank : k \in Then(path)} = InFile(S, path)
  BY <1>1 DEF Then, InFile
<1>5. DOMAIN pack' \in SUBSET DOMAIN pack'
  OBVIOUS
<1>6. Later(DOMAIN pack') = TotalTokens(S)
  BY <1>2, <1>3, <1>5
<1> QED BY <1>2, <1>4, <1>6

\* Selection stays within the caller's tokens.
LEMMA SelectionSpends ==
    ASSUME Typed, Ranked, Spent, SelectRound \/ SelectionEnds \/ SelectPrefix \/ NoCapacity
    PROVE  TotalTokens(chosen') <= budget.available
PROOF
<1>1. /\ ranked \in Lists /\ chosen \in SUBSET Ranks /\ budget.available \in Nat /\ budget \in Budgets
  BY TypedIs, BudgetTyped
<1>2. CASE SelectRound
  <2>1. PICK best \in Best : chosen' = chosen \cup {best}
    BY <1>2 DEF SelectRound
  <2>2. best \in Ranks /\ best \notin chosen /\ Refusal(best) = "no"
    BY DEF Best, Fit, Open
  <2>3. TotalTokens(chosen) <= budget.available
    BY <1>2 DEF SelectRound, Spent
  <2>4. ~(estimate_tokens(ranked[best]) > Minus(budget.available, TotalTokens(chosen)))
    BY <2>2 DEF Refusal
  <2>5. /\ TotalTokens(chosen) \in Nat /\ estimate_tokens(ranked[best]) \in Nat
        /\ Tokens(ranked)[best] = estimate_tokens(ranked[best])
        /\ TotalTokens(chosen) = SumFunctionOnSet(Tokens(ranked), chosen)
    BY <1>1, <2>2, TotalIsSum
  <2>6. TotalTokens(chosen) + estimate_tokens(ranked[best]) <= budget.available
    BY <1>1, <2>3, <2>4, <2>5 DEF Minus
  <2> DEFINE more == chosen \cup {best}
             f == Tokens(ranked)
  <2>7. more \in SUBSET Ranks /\ best \in more /\ more \ {best} = chosen
    BY <1>1, <2>2
  <2> HIDE DEF more, f
  <2>8. /\ IsFiniteSet(more) /\ TotalTokens(more) = SumFunctionOnSet(f, more)
        /\ \A i \in more : f[i] \in Nat
    BY <1>1, <2>7, TotalIsSum DEF f
  <2>9. SumFunctionOnSet(f, more) = f[best] + SumFunctionOnSet(f, more \ {best})
    BY ONLY <2>7, <2>8, SumRemoves
  <2>10. TotalTokens(more) = estimate_tokens(ranked[best]) + TotalTokens(chosen)
    BY <2>5, <2>7, <2>8, <2>9 DEF f
  <2>11. TotalTokens(more) <= budget.available
    BY <2>5, <2>6, <2>10
  <2> QED BY <2>1, <2>11 DEF more
<1>3. CASE SelectionEnds
  BY <1>3 DEF SelectionEnds, Present, Spent
<1>4. CASE SelectPrefix
  <2> DEFINE S == {i \in Ranks : i <= budget.max_primary}
  <2>1. budget.file_limit /\ chosen' = S /\ S \in SUBSET Ranks
    BY <1>4 DEF SelectPrefix, Present
  <2> HIDE DEF S
  <2>2. SumFunctionOnSet(Tokens(ranked), Ranks) <= budget.available
    BY <1>1, <2>1, BudgetsAssumption DEF Ranks
  <2>3. /\ IsFiniteSet(Ranks) /\ \A i \in Ranks : Tokens(ranked)[i] \in Nat
        /\ TotalTokens(S) = SumFunctionOnSet(Tokens(ranked), S)
        /\ TotalTokens(S) \in Nat /\ TotalTokens(Ranks) \in Nat
        /\ TotalTokens(Ranks) = SumFunctionOnSet(Tokens(ranked), Ranks)
    <3>1. Ranks \in SUBSET Ranks
      OBVIOUS
    <3> QED BY <1>1, <2>1, <3>1, TotalIsSum
  <2>4. SumFunctionOnSet(Tokens(ranked), S) <= SumFunctionOnSet(Tokens(ranked), Ranks)
    BY <2>1, <2>3, SumGrows
  <2> QED BY <1>1, <2>1, <2>2, <2>3, <2>4
<1>5. CASE NoCapacity
  <2>1. chosen' = {}
    BY <1>5 DEF NoCapacity, Present
  <2>2. TotalTokens({}) = 0
    BY SumOfNone DEF TotalTokens
  <2> QED BY <1>1, <2>1, <2>2
<1> QED BY <1>2, <1>3, <1>4, <1>5

LEMMA NoneTokens ==
    pack = <<>> => /\ PackTokens(DOMAIN pack) = 0
                   /\ \A path : PackTokens(unit_indices(path)) = 0
PROOF
<1> SUFFICES ASSUME pack = <<>>
             PROVE  /\ PackTokens(DOMAIN pack) = 0
                    /\ \A path : PackTokens(unit_indices(path)) = 0
  OBVIOUS
<1>1. DOMAIN pack = {} /\ \A path : unit_indices(path) = {}
  BY DEF unit_indices
<1>2. PackTokens({}) = 0
  BY SumOfNone DEF PackTokens
<1> QED BY <1>1, <1>2

\* What costs more tokens and is paid from those that remain stays within a limit.
LEMMA PaidWithin ==
    ASSUME NEW cost \in Nat, NEW later \in Nat, NEW t \in Nat, NEW rest \in Nat, NEW limit \in Nat,
           later <= cost + t, cost + rest <= limit, t <= rest
    PROVE  later + (rest - t) <= limit /\ later <= limit
PROOF OBVIOUS

LEMMA InitSpent == ASSUME Init PROVE Spent
PROOF
<1>1. pack = <<>> /\ chosen = {} /\ pc = "select" /\ budget \in Budgets
  BY DEF Init
<1>2. TotalTokens(chosen) = 0
  BY <1>1, SumOfNone DEF TotalTokens
<1>3. PackTokens(DOMAIN pack) = 0 /\ \A path : PackTokens(unit_indices(path)) = 0
  BY <1>1, NoneTokens
<1>4. budget.available \in Nat /\ budget.region_tokens \in Nat
  BY <1>1, BudgetTyped
<1>5. \A path \in Paths : Mined(path)
  BY <1>3, <1>4 DEF Mined
<1> QED BY <1>1, <1>2, <1>3, <1>4, <1>5 DEF Spent, Passes

LEMMA SpentStep ==
    ASSUME Typed, Ranked, Distinct, Spent, [Next]_vars
    PROVE  Spent'
PROOF
<1>1. budget' = budget /\ ranked' = ranked
  BY StepIs
<1>2. /\ budget.available \in Nat /\ budget.region_tokens \in Nat
      /\ fileTokens \in Nat /\ remaining \in Nat /\ pack \in Seq(UnitType)
      /\ PackTokens(DOMAIN pack) \in Nat
      /\ \A path : PackTokens(unit_indices(path)) \in Nat
  <2>1. DOMAIN pack \in SUBSET DOMAIN pack /\ \A path : unit_indices(path) \in SUBSET DOMAIN pack
    BY DEF unit_indices
  <2> QED BY <2>1, TypedIs, BudgetTyped, PackIsSum
<1>3. CASE SelectRound
  <2>1. pc = "select" /\ pc' = "select" /\ pack' = pack /\ pack = <<>>
    BY <1>3 DEF SelectRound, Typed, Where
  <2>2. TotalTokens(chosen') <= budget.available
    BY <1>3, SelectionSpends
  <2>3. (TotalTokens(chosen) <= budget.available)'
    BY <1>1, <2>2 DEF TotalTokens
  <2>4. (PackTokens(DOMAIN pack) = 0 /\ \A path : PackTokens(unit_indices(path)) = 0)'
    <3>1. (pack = <<>> => /\ PackTokens(DOMAIN pack) = 0
                           /\ \A path : PackTokens(unit_indices(path)) = 0)'
      BY NoneTokens, PTL
    <3> QED BY <2>1, <3>1
  <2>5. (\A path \in Paths : Mined(path))'
    BY <1>1, <1>2, <2>4 DEF Mined
  <2> QED BY <1>1, <1>2, <2>1, <2>3, <2>4, <2>5 DEF Spent, Passes
<1>4. CASE SelectionEnds \/ SelectPrefix \/ NoCapacity
  <2>1. PICK S \in SUBSET Ranks : Present(S)
    BY <1>4, SelectionSteps DEF SelectRound, SelectionEnds, SelectPrefix, NoCapacity, Present
  <2>2. chosen' = S /\ pc' = "selected"
    BY <2>1 DEF Present
  <2>3. TotalTokens(S) <= budget.available
    BY <1>4, <2>2, SelectionSpends
  <2>4. /\ Later(DOMAIN pack') = TotalTokens(S)
        /\ \A path : Later(Then(path)) = TotalTokens(InFile(S, path))
    BY <1>1, <2>1, PresentTokens
  <2>5. (PackTokens(DOMAIN pack) <= budget.available)'
    BY <1>1, <2>3, <2>4 DEF PackTokens, Later
  <2>6. (\A path \in Paths : Mined(path))'
    BY <1>1, <2>2, <2>4 DEF Mined, PackTokens, Later, Then, unit_indices, TotalTokens, InFile
  <2> QED BY <2>2, <2>5, <2>6 DEF Spent, Passes
<1>5. CASE StartWidening
  <2>1. /\ UNCHANGED <<budget, ranked, chosen, pack>> /\ pc' = "file"
        /\ remaining' = Minus(budget.available, PackTokens(DOMAIN pack))
    BY <1>5 DEF StartWidening, selection
  <2>2. PackTokens(DOMAIN pack) <= budget.available
    BY DEF Spent
  <2>3. PackTokens(DOMAIN pack) + remaining' <= budget.available
    BY <1>2, <2>1, <2>2 DEF Minus
  <2> QED BY <1>1, <2>1, <2>2, <2>3, SpentStays DEF Spent, Passes
<1>6. CASE OpenFile
  <2>1. /\ UNCHANGED <<budget, ranked, chosen, pack, todo, remaining>>
        /\ pc = "file" /\ pc' = "widen" /\ fileTokens' = PackTokens(Mine) /\ todo # <<>>
    BY <1>6 DEF OpenFile, selection
  <2>2. Path \in Paths
    BY <2>1, TypedIs DEF Path
  <2>3. Mined(Path) /\ PackTokens(Mine) \in Nat
    BY <1>2, <2>2 DEF Spent, Mine
  <2>4. /\ PackTokens(Mine) <= fileTokens'
        /\ \/ fileTokens' <= budget.region_tokens
           \/ PackTokens(Mine) = TotalTokens(InFile(chosen, Path))
    BY <2>1, <2>3 DEF Mined, Mine
  <2> QED BY <1>1, <2>1, <2>4, SpentStays DEF Spent, Passes
<1>7. CASE Finish \/ Retarget
  <2>1. /\ UNCHANGED <<budget, ranked, chosen, pack, fileTokens, remaining>>
        /\ pc \notin {"select", "selected"} /\ pc' \notin {"select", "selected"}
        /\ pc' \in Passes => pc \in Passes /\ todo' = todo
    BY <1>7 DEF Finish, Retarget, NextUnit, Passes, selection
  <2> QED BY <1>1, <2>1, SpentStays DEF Spent
<1>8. CASE Widen \/ Readmit \/ ReadmitEnds \/ Absorb
  <2>1. /\ pc \in Passes /\ pc' \in Passes
        /\ UNCHANGED <<budget, ranked, chosen, refused, todo>>
        /\ UNCHANGED Pays \/ Growing \/ Returns
    BY <1>8, PayingSteps
  <2>2. pc' \notin {"select", "selected"} /\ pc \notin {"select", "selected"}
    BY <2>1 DEF Passes
  <2>3. CASE UNCHANGED Pays
    <3>1. UNCHANGED <<pack, fileTokens, remaining>>
      BY <2>3 DEF Pays
    <3> QED BY <2>1, <2>2, <3>1, SpentStays DEF Spent
  <2>4. CASE Growing \/ Returns
    <3>1. PICK t \in Nat :
             /\ Fits(t) /\ Spend(t) /\ pack' \in Seq(UnitType)
             /\ Later(DOMAIN pack') <= PackTokens(DOMAIN pack) + t
             /\ Later(Then(Path)) <= PackTokens(Mine) + t
             /\ \A path : path # Path => Later(Then(path)) = PackTokens(unit_indices(path))
      BY <2>1, <2>4, PaidFor
    <3>2. /\ PackTokens(DOMAIN pack)' = Later(DOMAIN pack')
          /\ PackTokens(Mine)' = Later(Then(Path))
          /\ \A path : PackTokens(unit_indices(path))' = Later(Then(path))
      BY <2>1 DEF PackTokens, Later, Then, unit_indices, Mine, Path
    <3>3. /\ fileTokens' = fileTokens + t /\ remaining' = remaining - t
          /\ fileTokens + t <= budget.region_tokens /\ t <= remaining
      BY <3>1 DEF Fits, Spend
    <3>4. /\ PackTokens(DOMAIN pack) + remaining <= budget.available
          /\ PackTokens(Mine) <= fileTokens /\ PackTokens(Mine) \in Nat
      BY <1>2, <2>1, <2>2 DEF Spent, Mine
    <3>5. Later(DOMAIN pack') \in Nat /\ Later(Then(Path)) \in Nat
      <4>1. DOMAIN pack' \in SUBSET DOMAIN pack' /\ Then(Path) \in SUBSET DOMAIN pack'
        BY DEF Then
      <4> QED BY <1>1, <3>1, <4>1, TypedIs, LaterTyped
    <3>6. /\ Later(DOMAIN pack') + remaining' <= budget.available
          /\ Later(DOMAIN pack') <= budget.available
          /\ Later(Then(Path)) <= fileTokens' /\ fileTokens' <= budget.region_tokens
          /\ Later(Then(Path)) <= budget.region_tokens
      <4>1. PackTokens(DOMAIN pack) \in Nat /\ budget.available \in Nat /\ remaining \in Nat
        BY <1>2
      <4>2. /\ Later(DOMAIN pack') + (remaining - t) <= budget.available
            /\ Later(DOMAIN pack') <= budget.available
        BY ONLY <3>1, <3>3, <3>4, <3>5, <4>1, PaidWithin
      <4>3. Later(Then(Path)) <= fileTokens + t
        <5>1. fileTokens \in Nat /\ PackTokens(Mine) \in Nat /\ t \in Nat
          BY <1>2, <3>4
        <5> QED BY ONLY <3>1, <3>4, <3>5, <5>1
      <4>4. Later(Then(Path)) <= budget.region_tokens
        <5>1. budget.region_tokens \in Nat /\ fileTokens + t \in Nat
          BY <1>2
        <5> QED BY ONLY <3>3, <3>5, <4>3, <5>1
      <4> QED BY ONLY <3>3, <4>2, <4>3, <4>4
    <3>7. (\A path \in Paths : Mined(path))'
      <4> SUFFICES ASSUME NEW path \in Paths PROVE Mined(path)'
        OBVIOUS
      <4>1. TotalTokens(InFile(chosen, path))' = TotalTokens(InFile(chosen, path))
        BY <2>1 DEF TotalTokens, InFile
      <4>2. CASE path = Path
        BY <2>1, <3>2, <3>6, <4>2 DEF Mined
      <4>3. CASE path # Path
        <5>1. PackTokens(unit_indices(path))' = PackTokens(unit_indices(path))
          BY <3>1, <3>2, <4>3
        <5>2. Mined(path)
          BY DEF Spent
        <5> QED BY <2>1, <4>1, <5>1, <5>2 DEF Mined
      <4> QED BY <4>2, <4>3
    <3> QED BY <2>1, <2>2, <3>2, <3>6, <3>7 DEF Spent
  <2> QED BY <2>1, <2>3, <2>4
<1>9. CASE UNCHANGED vars
  <2>1. UNCHANGED <<budget, ranked, chosen, pack, todo, pc, fileTokens, remaining>>
    BY <1>9 DEF vars, selection
  <2> QED BY <2>1, SpentStays DEF Spent
<1> QED BY <1>3, <1>4, <1>5, <1>6, <1>7, <1>8, <1>9 DEF Next

\* The inductive invariant under which the budget is well spent.
WellSpent == Kept /\ Ranked /\ RefusedForBetter /\ Spent

LEMMA InitWellSpent == ASSUME Init PROVE WellSpent
PROOF
<1>1. Kept /\ Spent
  BY InitKept, InitSpent
<1>2. chosen = {} /\ pc = "select" /\ \A i \in Ranks : refused[i] = "no"
  BY DEF Init
<1>3. ranked \in Lists /\ budget.max_primary \in Nat
  BY <1>1, TypedIs, BudgetTyped DEF Kept
<1>4. Ranked
  <2>1. Cardinality({}) = 0
    BY FS_EmptySet
  <2> QED BY <1>2, <1>3, <2>1 DEF Ranked
<1>5. RefusedForBetter
  BY <1>2 DEF RefusedForBetter
<1> QED BY <1>1, <1>4, <1>5 DEF WellSpent

LEMMA StepWellSpent == ASSUME WellSpent, [Next]_vars PROVE WellSpent'
PROOF
<1>1. Typed /\ Ranked /\ RefusedForBetter /\ Spent /\ Distinct
  BY DEF WellSpent, Kept, Ours
<1>2. Kept'
  BY StepKept DEF WellSpent
<1>3. Ranked' /\ RefusedForBetter'
  BY <1>1, RankedStep, RefusedStep
<1>4. Spent'
  BY <1>1, SpentStep
<1> QED BY <1>2, <1>3, <1>4 DEF WellSpent

LEMMA WithinIs == ASSUME WellSpent PROVE WithinBudget
PROOF
<1>1. PackTokens(DOMAIN pack) <= budget.available
  BY DEF WellSpent, Spent
<1>2. \A k \in DOMAIN pack : ranked[pack[k].rank].path \in Paths
  BY TypedIs, PackTyped, ListTyped DEF WellSpent, Kept
<1>3. \A path \in Paths : Mined(path)
  BY DEF WellSpent, Spent
<1> QED BY <1>1, <1>2, <1>3 DEF WithinBudget, Mined

\* For any files, lists and budgets: the pack never costs more than the caller's tokens, a
\* widened file no more than its cap, and a candidate is left out only for ones of at least
\* its priority (select_context_units and region.rs).
THEOREM BudgetIsWellSpent == Spec => []BudgetWellSpent
PROOF
<1>1. Init => WellSpent
  BY InitWellSpent
<1>2. WellSpent /\ [Next]_vars => WellSpent'
  BY StepWellSpent
<1>3. WellSpent => BudgetWellSpent
  BY WithinIs DEF WellSpent, BudgetWellSpent
<1> QED BY <1>1, <1>2, <1>3, PTL DEF Spec

-----------------------------------------------------------------------------
(***************************************************************************)
(* The traces follow the units.                                            *)
(***************************************************************************)

\* A unit that grew shows a line no other unit of its file shows.
Alone(k, line) ==
    \A l \in unit_indices(PathOf(k)) \ {k} :
        pack[l].range = NoRange \/ line \notin LinesOf(pack[l].range)
Private ==
    \A k \in DOMAIN pack : pack[k].range # ranked[pack[k].rank].range =>
        \E line \in LinesOf(pack[k].range) : Alone(k, line)

LEMMA PrivateStep ==
    ASSUME Typed, Ours, Private, [Next]_vars
    PROVE  Private'
PROOF
<1>0. ranked' = ranked
  BY StepIs
<1>1. CASE SelectRound /\ UNCHANGED <<pack, pc>>
  BY <1>0, <1>1 DEF Private, Alone, PathOf, unit_indices
<1>2. CASE pc = "select" /\ \E S \in SUBSET Ranks : Present(S)
  <2>1. PICK S \in SUBSET Ranks : Present(S)
    BY <1>2
  <2>2. \A k \in DOMAIN pack' : pack'[k] = Unit(pack'[k].rank, FALSE)
    BY <2>1, TypedIs, UnitsAre DEF Present
  <2>3. \A k \in DOMAIN pack' : pack'[k].range = ranked[pack'[k].rank].range
    BY <2>2 DEF Unit
  <2> QED BY <1>0, <2>3 DEF Private
<1>3. CASE pack' = pack
  BY <1>0, <1>3 DEF Private, Alone, PathOf, unit_indices
<1>4. SUFFICES ASSUME Growing \/ Returns,
                      NEW k \in DOMAIN pack', pack'[k].range # ranked[pack'[k].rank].range
               PROVE  \E line \in LinesOf(pack'[k].range) :
                         \A l \in Then(ranked[pack'[k].rank].path) \ {k} :
                            pack'[l].range = NoRange \/ line \notin LinesOf(pack'[l].range)
  BY <1>0, <1>1, <1>2, <1>3, StepIs DEF Private, Alone, PathOf, unit_indices, Then
<1> DEFINE path == ranked[pack'[k].rank].path
<1>5. CASE Growing
  <2>1. /\ at \in DOMAIN pack /\ DOMAIN pack' = DOMAIN pack /\ PathOf(at) = Path
        /\ \A l \in DOMAIN pack : l # at => pack'[l] = pack[l]
        /\ \A l \in DOMAIN pack : pack'[l].rank = pack[l].rank
    BY <1>5, GrowingIs DEF Ours
  <2>2. /\ \A l \in Mine \ {at} : \A line \in LinesOf(pack'[at].range) \ LinesOf(pack[at].range) :
              pack[l].range = NoRange \/ line \notin LinesOf(pack[l].range)
        /\ \E line \in LinesOf(pack'[at].range) : \A l \in Mine \ {at} :
              pack[l].range = NoRange \/ line \notin LinesOf(pack[l].range)
    BY <1>5, GrowingIs DEF Ours
  <2>3. Then(path) = unit_indices(path) /\ path = PathOf(k) /\ unit_indices(path) \subseteq DOMAIN pack
    BY <2>1 DEF Then, unit_indices, PathOf
  <2>4. CASE k = at
    <3>1. path = Path /\ Mine = unit_indices(path)
      BY <2>1, <2>3, <2>4 DEF Mine
    <3>2. \A l \in Then(path) \ {k} : l \in Mine \ {at} /\ pack'[l] = pack[l]
      BY <2>1, <2>3, <2>4, <3>1
    <3> QED BY <2>2, <2>4, <3>2
  <2>5. CASE k # at
    <3>1. pack'[k] = pack[k] /\ k \in DOMAIN pack
      BY <2>1, <2>5
    <3>2. PICK line \in LinesOf(pack[k].range) : Alone(k, line)
      BY <1>4, <3>1 DEF Private
    <3>3. pack[k].range # NoRange
      BY <1>4, <3>1 DEF Ours
    <3>4. ASSUME NEW l \in Then(path) \ {k}
          PROVE  pack'[l].range = NoRange \/ line \notin LinesOf(pack'[l].range)
      <4>1. l \in unit_indices(PathOf(k)) \ {k} /\ l \in DOMAIN pack
        BY <2>3
      <4>2. pack[l].range = NoRange \/ line \notin LinesOf(pack[l].range)
        BY <3>2, <4>1 DEF Alone
      <4>3. CASE l # at
        BY <2>1, <4>1, <4>2, <4>3
      <4>4. CASE l = at
        <5>1. PathOf(k) = Path
          BY <2>1, <4>1, <4>4 DEF unit_indices, PathOf
        <5>2. k \in Mine \ {at}
          BY <2>5, <3>1, <5>1 DEF Mine, unit_indices, PathOf
        <5>3. pack[at].range # NoRange
          BY <1>5, GrowingIs, FilesAssumption DEF Ours
        <5> QED BY <2>2, <3>2, <3>3, <4>2, <4>4, <5>2, <5>3
      <4> QED BY <4>3, <4>4
    <3> QED BY <3>1, <3>2, <3>4
  <2> QED BY <2>4, <2>5
<1>6. CASE Returns
  <2>1. PICK place \in DOMAIN pack' : Comes(place)
    BY <1>6, ReturnsIs
  <2>2. k # place
    BY <1>4, <2>1 DEF Comes
  <2> DEFINE m == Was(place, k)
  <2>3. m \in DOMAIN pack /\ pack'[k] = pack[m]
    BY <2>1, <2>2 DEF Comes
  <2>4. PICK line \in LinesOf(pack[m].range) : Alone(m, line)
    BY <1>4, <2>3 DEF Private
  <2> HIDE DEF m
  <2>5. ASSUME NEW l \in Then(path) \ {k}
        PROVE  pack'[l].range = NoRange \/ line \notin LinesOf(pack'[l].range)
    <3>1. l \in DOMAIN pack' /\ ranked[pack'[l].rank].path = path
      BY DEF Then
    <3>2. CASE l = place
      <4>1. ranked[at].path = path /\ ranked[at].path = Path /\ pack'[l].range = ranked[at].range
        BY <2>1, <3>1, <3>2 DEF Comes
      <4>2. m \in Mine
        BY <2>3, <4>1 DEF Mine, unit_indices
      <4>3. ~Overlap(pack[m].range, ranked[at].range)
        BY <2>1, <4>2 DEF Comes
      <4>4. pack[m].range \in Ranges /\ ranked[at].range \in Ranges
        BY <2>1, <2>3, TypedIs, PackTyped, ListTyped DEF Comes
      <4>5. pack[m].range # NoRange /\ ranked[at].range # NoRange
        BY <1>4, <2>1, <2>3 DEF Comes, Ours
      <4>6. line \notin LinesOf(ranked[at].range)
        BY <2>4, <4>3, <4>4, <4>5, OverlapIs
      <4> QED BY <4>1, <4>6
    <3>3. CASE l # place
      <4>1. PICK n \in DOMAIN pack : n # m /\ pack'[l] = pack[n]
        BY <2>1, <2>2, <3>1, <3>3 DEF Comes, m
      <4>2. n \in unit_indices(PathOf(m)) \ {m}
        BY <2>3, <3>1, <4>1 DEF unit_indices, PathOf
      <4> QED BY <2>4, <4>1, <4>2 DEF Alone
    <3> QED BY <3>2, <3>3
  <2> QED BY <2>3, <2>4, <2>5
<1> QED BY <1>4, <1>5, <1>6

\* The traces of a file move at the end of its widening, unit after unit.
ToDo(path) == \E n \in DOMAIN todo : todo[n] = path
Due(k) == ToDo(PathOf(k)) /\ ~(pc = "retarget" /\ PathOf(k) = Path /\ k < at)
Settled(k) == ~pack[k].back /\ ~Due(k)

\* A trace answers to the key of the chosen unit of its candidate once it has moved, and
\* until then, or when the candidate was not chosen, to the candidate's own.
TraceIs(i) ==
    /\ ~ranked[i].traced => traces[i] = <<>>
    /\ ranked[i].traced =>
          /\ \A k \in DOMAIN pack :
                pack[k].rank = i /\ Settled(k) => traces[i] = RetrievalUnitKey(pack[k])
          /\ (\A k \in DOMAIN pack : pack[k].rank = i => ~Settled(k)) => traces[i] = KeyOf(i)
TracesAre == \A i \in Ranks : TraceIs(i)

\* Steps that keep the traces, and of each settled unit what it is.
LEMMA TracesStay ==
    ASSUME TracesAre, ranked' = ranked, traces' = traces,
           \A k \in DOMAIN pack : Settled(k) =>
               \E l \in DOMAIN pack' : pack'[l] = pack[k] /\ Settled(l)',
           \A l \in DOMAIN pack' : Settled(l)' =>
               \E k \in DOMAIN pack : pack'[l] = pack[k] /\ Settled(k)
    PROVE  TracesAre'
PROOF
<1> SUFFICES ASSUME NEW i \in Ranks PROVE TraceIs(i)'
  BY DEF TracesAre, Ranks
<1>1. TraceIs(i)
  BY DEF TracesAre
<1>2. ASSUME NEW l \in DOMAIN pack', pack'[l].rank = i, Settled(l)', ranked[i].traced
      PROVE  traces[i] = RetrievalUnitKey(pack'[l])
  <2>1. PICK k \in DOMAIN pack : pack'[l] = pack[k] /\ Settled(k)
    BY <1>2
  <2>2. traces[i] = RetrievalUnitKey(pack[k])
    BY <1>1, <1>2, <2>1 DEF TraceIs
  <2> QED BY <2>1, <2>2
<1>3. ASSUME \A l \in DOMAIN pack' : pack'[l].rank = i => ~Settled(l)', ranked[i].traced
      PROVE  traces[i] = KeyOf(i)
  <2>1. \A k \in DOMAIN pack : pack[k].rank = i => ~Settled(k)
    BY <1>3
  <2> QED BY <1>1, <1>3, <2>1 DEF TraceIs
<1>4. \A l \in DOMAIN pack' : RetrievalUnitKey(pack[l])' = RetrievalUnitKey(pack'[l])
  BY DEF RetrievalUnitKey
<1>5. KeyOf(i)' = KeyOf(i)
  BY DEF KeyOf
<1>6. ~ranked[i].traced => traces[i] = <<>>
  BY <1>1 DEF TraceIs
<1> QED BY <1>2, <1>3, <1>4, <1>5, <1>6 DEF TraceIs

\* While units are as selection presented them, each trace answers to its candidate's key.
LEMMA UntouchedKey ==
    \A k : Untouched(k) => RetrievalUnitKey(pack[k]) = KeyOf(pack[k].rank)
PROOF BY DEF Untouched, Unit, RetrievalUnitKey, KeyOf

LEMMA UntouchedTraces ==
    ASSUME TracesAre, \A k \in DOMAIN pack : Untouched(k), ranked' = ranked, traces' = traces,
           (\A k \in DOMAIN pack : Untouched(k))'
    PROVE  TracesAre'
PROOF
<1>1. ASSUME NEW i \in Ranks
      PROVE  /\ ranked[i].traced => traces[i] = KeyOf(i)
             /\ ~ranked[i].traced => traces[i] = <<>>
  <2>1. TraceIs(i)
    BY DEF TracesAre
  <2> QED BY <2>1, UntouchedKey DEF TraceIs
<1>2. (\A k \in DOMAIN pack : RetrievalUnitKey(pack[k]) = KeyOf(pack[k].rank))'
  <2>1. (\A k : Untouched(k) => RetrievalUnitKey(pack[k]) = KeyOf(pack[k].rank))'
    BY UntouchedKey, PTL
  <2> QED BY <2>1
<1>3. \A i \in Ranks : KeyOf(i)' = KeyOf(i)
  BY DEF KeyOf
<1> SUFFICES ASSUME NEW i \in Ranks PROVE TraceIs(i)'
  BY DEF TracesAre, Ranks
<1>4. \A k \in DOMAIN pack' : pack'[k].rank = i => RetrievalUnitKey(pack[k])' = KeyOf(i)'
  BY <1>2
<1> QED BY <1>1, <1>3, <1>4 DEF TraceIs

\* While units are widened, those of the files still to widen are due.
LEMMA DueInPasses ==
    ASSUME Typed, Widen \/ Readmit \/ ReadmitEnds \/ Absorb
    PROVE  /\ \A k \in DOMAIN pack : Due(k) <=> ToDo(PathOf(k))
           /\ \A k \in DOMAIN pack' : Due(k)' <=> ToDo(ranked[pack'[k].rank].path)
PROOF
<1>1. pc # "retarget" /\ UNCHANGED <<ranked, todo>>
  BY DEF Widen, Readmit, ReadmitEnds, Absorb, selection
<1>2. \A k \in DOMAIN pack : Due(k) <=> ToDo(PathOf(k))
  BY <1>1 DEF Due
<1>3. \A path : ToDo(path)' <=> ToDo(path)
  BY <1>1 DEF ToDo
<1>4. pc' = "retarget" => \A k \in Mine' : ~(k < at')
  <2> SUFFICES ASSUME pc' = "retarget" PROVE \A k \in Mine' : ~(k < at')
    OBVIOUS
  <2>1. Absorb /\ pc = "absorb" /\ pc' # pc
    BY DEF Absorb, Widen, Readmit, ReadmitEnds, NextUnit
  <2>2. at' = Min(Mine)
    BY <2>1 DEF Absorb, NextUnit
  <2>3. Mine' = Mine
    <3>1. \A path : unit_indices(path)' = unit_indices(path)
      <4>1. UNCHANGED Pays \/ \E lines : Grows(lines)
        BY <2>1, AbsorbGrows
      <4>2. ~Returns
        BY <2>1 DEF Returns
      <4> QED BY <1>1, <4>1, <4>2, PaysTyped
    <3> QED BY <1>1, <3>1 DEF Mine, Path
  <2>4. Mine # {} /\ pack \in Seq(UnitType)
    BY <2>1, TypedIs DEF Passes
  <2>5. \A k \in Mine : Min(Mine) <= k /\ k \in Nat /\ Min(Mine) \in Nat
    BY <2>4, MineAre DEF Mine
  <2> QED BY <2>2, <2>3, <2>5
<1>5. \A k \in DOMAIN pack' : PathOf(k)' = ranked[pack'[k].rank].path
  BY <1>1 DEF PathOf
<1>6. \A k \in DOMAIN pack' : PathOf(k)' = Path' => k \in Mine'
  BY DEF PathOf, Mine, unit_indices
<1>7. \A k \in DOMAIN pack' : Due(k)' <=> ToDo(PathOf(k))'
  BY <1>4, <1>6 DEF Due
<1>8. \A k \in DOMAIN pack' : ToDo(PathOf(k))' <=> ToDo(ranked[pack'[k].rank].path)
  BY <1>1 DEF ToDo, PathOf
<1> QED BY <1>2, <1>7, <1>8

\* No trace but that of a unit's candidate answers to the key the candidate had.
LEMMA KeyIsOwn ==
    ASSUME Kept, Private, TracesAre, pc = "retarget", ~pack[at].back,
           NEW i \in Ranks, i # pack[at].rank
    PROVE  traces[i] # KeyOf(pack[at].rank)
PROOF
<1> DEFINE own == pack[at].rank
<1> SUFFICES ASSUME traces[i] = KeyOf(own) PROVE FALSE
  OBVIOUS
<1>1. /\ at \in DOMAIN pack /\ PathOf(at) = Path /\ ranked \in Lists /\ pack \in Seq(UnitType)
      /\ own \in Ranks /\ pack[at].range \in Ranges /\ ranked[own].range \in Ranges
  BY TypedIs, PackTyped, ListTyped DEF Kept
<1>2. TraceIs(i)
  BY DEF TracesAre
<1>3. KeyOf(i) # KeyOf(own) /\ KeyOf(own) # <<>>
  BY <1>1, ListTyped DEF KeyOf
<1>4. PICK k \in DOMAIN pack : /\ pack[k].rank = i /\ Settled(k)
                               /\ RetrievalUnitKey(pack[k]) = KeyOf(own)
  BY <1>2, <1>3 DEF TraceIs
<1>5. /\ PathOf(k) = PathOf(at) /\ pack[k].range = ranked[own].range /\ k # at
      /\ pack[k].range # ranked[i].range /\ ranked[i].range \in Ranges
  BY <1>1, <1>3, <1>4, ListTyped DEF KeyOf, RetrievalUnitKey, PathOf
<1>6. pack[k].range # NoRange
  BY <1>4, <1>5 DEF Kept, Ours
<1>7. PICK line \in LinesOf(pack[k].range) : Alone(k, line)
  BY <1>4, <1>5 DEF Private
<1>8. at \in unit_indices(PathOf(k)) \ {k}
  BY <1>1, <1>5 DEF unit_indices, PathOf
<1>9. pack[at].range # NoRange
  BY <1>1, <1>5, <1>6 DEF Kept, Ours
<1>10. line \in LinesOf(pack[at].range)
  BY <1>1, <1>5, <1>6, <1>7 DEF Kept, LinesKept
<1> QED BY <1>7, <1>8, <1>9, <1>10 DEF Alone

\* Once its trace has moved, a unit is due no more; with the last of a file none is.
LEMMA RetargetDue ==
    ASSUME Typed, Retarget
    PROVE  \A k \in DOMAIN pack : Due(k)' <=> Due(k) /\ k # at
PROOF
<1>1. /\ pc = "retarget" /\ NextUnit("file", 0) /\ UNCHANGED <<ranked, pack>>
      /\ todo' = IF pc' = "file" THEN Tail(todo) ELSE todo
  BY DEF Retarget, selection
<1>2. /\ at \in DOMAIN pack /\ PathOf(at) = Path /\ todo \in Seq(Paths) /\ todo # <<>>
      /\ at \in Nat /\ pack \in Seq(UnitType) /\ Path = todo[1]
      /\ \A m, n \in DOMAIN todo : m # n => todo[m] # todo[n]
  BY <1>1, TypedIs DEF Passes, Typed, Where
<1>3. \A k \in DOMAIN pack : k \in Nat /\ (k \in Mine <=> PathOf(k) = Path)
  BY <1>2, PackTyped DEF Mine, unit_indices, PathOf
<1>4. \A k \in DOMAIN pack : Due(k) <=> ToDo(PathOf(k)) /\ ~(PathOf(k) = Path /\ k < at)
  BY <1>1 DEF Due
<1>5. ToDo(Path)
  BY <1>2 DEF ToDo
<1>6. \/ /\ pc' = "retarget" /\ todo' = todo /\ at' \in Mine
         /\ \A k \in Mine : k < at' <=> k <= at
      \/ /\ pc' = "file" /\ todo' = Tail(todo)
         /\ \A k \in Mine : k <= at
  BY <1>1, <1>2, NextUnitIs
<1> SUFFICES ASSUME NEW k \in DOMAIN pack PROVE Due(k)' <=> Due(k) /\ k # at
  OBVIOUS
<1>7. PathOf(k)' = PathOf(k)
  BY <1>1 DEF PathOf
<1>8. CASE /\ pc' = "retarget" /\ todo' = todo
           /\ \A m \in Mine : m < at' <=> m <= at
  <2>1. Due(k)' <=> ToDo(PathOf(k)) /\ ~(PathOf(k) = Path /\ k < at')
    BY <1>7, <1>8 DEF Due, ToDo, Path
  <2>2. PathOf(k) = Path => (k < at' <=> k <= at)
    BY <1>3, <1>8
  <2>3. PathOf(k) # Path => k # at
    BY <1>2
  <2>4. k <= at <=> k < at \/ k = at
    BY <1>2, <1>3
  <2> QED BY <1>4, <2>1, <2>2, <2>3, <2>4
<1>9. CASE pc' = "file" /\ todo' = Tail(todo) /\ \A m \in Mine : m <= at
  <2>1. Due(k)' <=> \E n \in DOMAIN todo' : todo'[n] = PathOf(k)
    BY <1>7, <1>9 DEF Due, ToDo
  <2>2. /\ \A n \in DOMAIN todo' : n + 1 \in DOMAIN todo /\ todo'[n] = todo[n + 1] /\ n + 1 # 1
        /\ \A n \in DOMAIN todo : n = 1 \/ (n - 1 \in DOMAIN todo' /\ todo'[n - 1] = todo[n])
        /\ 1 \in DOMAIN todo
    BY <1>2, <1>9
  <2>3. Due(k)' <=> ToDo(PathOf(k)) /\ PathOf(k) # Path
    <3>1. Due(k)' => ToDo(PathOf(k)) /\ PathOf(k) # Path
      BY <1>2, <2>1, <2>2 DEF ToDo
    <3>2. ToDo(PathOf(k)) /\ PathOf(k) # Path => Due(k)'
      BY <1>2, <2>1, <2>2 DEF ToDo
    <3> QED BY <3>1, <3>2
  <2>4. PathOf(k) = Path => k <= at
    BY <1>3, <1>9
  <2>5. PathOf(k) # Path => k # at
    BY <1>2
  <2>6. k <= at <=> k < at \/ k = at
    BY <1>2, <1>3
  <2> QED BY <1>4, <2>3, <2>4, <2>5, <2>6
<1> QED BY <1>6, <1>8, <1>9

LEMMA PayingTraces ==
    ASSUME Kept, TracesAre, Widen \/ Readmit \/ ReadmitEnds \/ Absorb
    PROVE  TracesAre'
PROOF
<1>1. /\ pc \in Passes /\ UNCHANGED <<budget, ranked, chosen, refused, todo>>
      /\ UNCHANGED Pays \/ Growing \/ Returns
  BY PayingSteps DEF Kept
<1>2. traces' = traces
  BY DEF Widen, Readmit, ReadmitEnds, Absorb
<1>3. /\ \A k \in DOMAIN pack : Settled(k) <=> ~pack[k].back /\ ~ToDo(PathOf(k))
      /\ \A k \in DOMAIN pack' :
            Settled(k)' <=> ~pack'[k].back /\ ~ToDo(ranked[pack'[k].rank].path)
  BY DueInPasses DEF Settled, Kept
<1>4. \A k \in DOMAIN pack, l \in DOMAIN pack' :
         pack'[l] = pack[k] => (Settled(k) <=> Settled(l)')
  BY <1>3 DEF PathOf
<1>5. SUFFICES /\ \A k \in DOMAIN pack : Settled(k) => \E l \in DOMAIN pack' : pack'[l] = pack[k]
               /\ \A l \in DOMAIN pack' : Settled(l)' => \E k \in DOMAIN pack : pack'[l] = pack[k]
  <2>1. ASSUME NEW k \in DOMAIN pack, Settled(k), \E l \in DOMAIN pack' : pack'[l] = pack[k]
        PROVE  \E l \in DOMAIN pack' : pack'[l] = pack[k] /\ Settled(l)'
    BY <1>4, <2>1
  <2>2. ASSUME NEW l \in DOMAIN pack', Settled(l)', \E k \in DOMAIN pack : pack'[l] = pack[k]
        PROVE  \E k \in DOMAIN pack : pack'[l] = pack[k] /\ Settled(k)
    BY <1>4, <2>2
  <2> QED BY <1>1, <1>2, <2>1, <2>2, TracesStay
<1>6. CASE UNCHANGED Pays
  BY <1>6 DEF Pays
<1>7. CASE Growing
  <2>1. /\ at \in DOMAIN pack /\ DOMAIN pack' = DOMAIN pack /\ PathOf(at) = Path
        /\ \A k \in DOMAIN pack : k # at => pack'[k] = pack[k]
        /\ \A k \in DOMAIN pack : pack'[k].rank = pack[k].rank
    BY <1>7, GrowingIs DEF Kept, Ours
  <2>2. ToDo(Path)
    BY <1>1, TypedIs DEF Kept, ToDo
  <2>3. \A k \in DOMAIN pack : k = at => ~Settled(k) /\ ~Settled(k)'
    BY <1>3, <2>1, <2>2 DEF PathOf
  <2> QED BY <2>1, <2>3
<1>8. CASE Returns
  <2>1. PICK place \in DOMAIN pack' : Comes(place)
    BY <1>8, ReturnsIs DEF Kept
  <2>2. ~Settled(place)'
    BY <1>3, <2>1 DEF Comes
  <2>3. \A l \in DOMAIN pack' : Settled(l)' => l # place
    BY <2>2
  <2> QED BY <2>1, <2>3 DEF Comes
<1> QED BY <1>1, <1>6, <1>7, <1>8

LEMMA RetargetTraces ==
    ASSUME Kept, Private, TracesAre, Retarget
    PROVE  TracesAre'
PROOF
<1>1. /\ pc = "retarget" /\ UNCHANGED <<ranked, pack>>
      /\ traces' = IF pack[at].back THEN traces ELSE retarget_trace(at)
  BY DEF Retarget, selection
<1>2. Typed /\ at \in DOMAIN pack /\ pack[at].rank \in Ranks /\ Due(at)
  <2>1. Typed /\ at \in DOMAIN pack /\ pack[at].rank \in Ranks /\ at \in Nat
        /\ 1 \in DOMAIN todo /\ Path = todo[1] /\ PathOf(at) = Path
    BY <1>1, TypedIs, PackTyped DEF Kept, Passes
  <2>2. Due(at)
    BY <2>1 DEF Due, ToDo
  <2> QED BY <2>1, <2>2
<1>3. \A k \in DOMAIN pack : k # at => (Settled(k)' <=> Settled(k))
  BY <1>1, <1>2, RetargetDue DEF Settled
<1>4. \A k \in DOMAIN pack : k = at => ~Settled(k) /\ (Settled(k)' <=> ~pack[k].back)
  BY <1>1, <1>2, RetargetDue DEF Settled
<1>5. \A k \in DOMAIN pack : pack[k].rank = pack[at].rank => k = at
  BY <1>2 DEF Kept, Ours, Distinct
<1>6. /\ \A k \in DOMAIN pack : RetrievalUnitKey(pack[k])' = RetrievalUnitKey(pack[k])
      /\ \A i : KeyOf(i)' = KeyOf(i)
  BY <1>1 DEF RetrievalUnitKey, KeyOf
<1> SUFFICES ASSUME NEW i \in Ranks PROVE TraceIs(i)'
  BY <1>1 DEF TracesAre, Ranks
<1>7. TraceIs(i)
  BY DEF TracesAre
<1>8. CASE i # pack[at].rank
  <2>1. traces'[i] = traces[i]
    <3>1. CASE pack[at].back
      BY <1>1, <3>1
    <3>2. CASE ~pack[at].back
      <4>1. traces[i] # KeyOf(pack[at].rank)
        BY <1>1, <1>8, <3>2, KeyIsOwn
      <4> QED BY <1>1, <3>2, <4>1 DEF retarget_trace
    <3> QED BY <3>1, <3>2
  <2>2. \A k \in DOMAIN pack : pack[k].rank = i => k # at
    BY <1>8
  <2> QED BY <1>1, <1>3, <1>6, <1>7, <2>1, <2>2 DEF TraceIs
<1>9. CASE i = pack[at].rank
  <2>1. \A k \in DOMAIN pack : pack[k].rank = i => ~Settled(k)
    BY <1>4, <1>5, <1>9
  <2>2. /\ ~ranked[i].traced => traces[i] = <<>>
        /\ ranked[i].traced => traces[i] = KeyOf(i)
    BY <1>7, <2>1 DEF TraceIs
  <2>3. CASE pack[at].back
    <3>1. \A k \in DOMAIN pack : pack[k].rank = i => ~Settled(k)'
      BY <1>4, <1>5, <1>9, <2>3
    <3> QED BY <1>1, <1>6, <2>2, <2>3, <3>1 DEF TraceIs
  <2>4. CASE ~pack[at].back
    <3>1. traces'[i] = IF traces[i] = KeyOf(i) THEN RetrievalUnitKey(pack[at]) ELSE traces[i]
      BY <1>1, <1>9, <2>4 DEF retarget_trace
    <3>2. KeyOf(i) # <<>>
      BY DEF KeyOf
    <3>3. \A k \in DOMAIN pack : pack[k].rank = i => k = at
      BY <1>5, <1>9
    <3>4. \A k \in DOMAIN pack : k = at => Settled(k)'
      BY <1>4, <2>4
    <3> QED BY <1>1, <1>2, <1>6, <1>9, <2>2, <3>1, <3>2, <3>3, <3>4 DEF TraceIs
  <2> QED BY <2>3, <2>4
<1> QED BY <1>8, <1>9

LEMMA TracesStep ==
    ASSUME Kept, Private, TracesAre, [Next]_vars
    PROVE  TracesAre'
PROOF
<1>1. budget' = budget /\ ranked' = ranked /\ Typed /\ Fresh
  BY StepIs DEF Kept
<1>2. CASE SelectRound
  <2>1. traces' = traces /\ pack = <<>> /\ pack' = pack
    BY <1>1, <1>2 DEF SelectRound, Typed, Where
  <2> QED BY <1>1, <2>1, TracesStay
<1>3. CASE SelectionEnds \/ SelectPrefix \/ NoCapacity
  <2>1. PICK S \in SUBSET Ranks : Present(S)
    BY <1>1, <1>3, SelectionSteps DEF SelectRound, SelectionEnds, SelectPrefix, NoCapacity, Present
  <2>2. traces' = traces /\ pack = <<>> /\ pack' = Units(S)
    BY <1>1, <1>3, <2>1 DEF SelectionEnds, SelectPrefix, NoCapacity, Present, Typed, Where
  <2>3. \A k \in DOMAIN pack' : pack'[k] = Unit(pack'[k].rank, FALSE)
    BY <1>1, <2>2, TypedIs, UnitsAre
  <2>4. (\A k \in DOMAIN pack : Untouched(k))'
    BY <1>1, <2>3 DEF Untouched, Unit
  <2>5. \A k \in DOMAIN pack : Untouched(k)
    BY <2>2
  <2> QED BY <1>1, <2>2, <2>4, <2>5, UntouchedTraces
<1>4. CASE StartWidening
  <2>1. pc = "selected" /\ traces' = traces /\ pack' = pack
    BY <1>4 DEF StartWidening
  <2>2. \A k \in DOMAIN pack : Untouched(k)
    BY <1>1, <2>1 DEF Fresh, Waiting
  <2>3. (\A k \in DOMAIN pack : Untouched(k))'
    BY <1>1, <2>1, <2>2 DEF Untouched, Unit
  <2> QED BY <1>1, <2>1, <2>2, <2>3, UntouchedTraces
<1>5. CASE OpenFile \/ Finish
  <2>1. pc # "retarget" /\ pc' # "retarget" /\ UNCHANGED <<traces, pack, todo>>
    BY <1>5 DEF OpenFile, Finish
  <2>2. \A k \in DOMAIN pack : Settled(k)' <=> Settled(k)
    BY <1>1, <2>1 DEF Settled, Due, ToDo, PathOf
  <2> QED BY <1>1, <2>1, <2>2, TracesStay
<1>6. CASE Widen \/ Readmit \/ ReadmitEnds \/ Absorb
  BY <1>6, PayingTraces
<1>7. CASE Retarget
  BY <1>7, RetargetTraces
<1>8. CASE UNCHANGED vars
  <2>1. UNCHANGED <<traces, pack, todo, pc, at>>
    BY <1>8 DEF vars
  <2>2. \A k \in DOMAIN pack : Settled(k)' <=> Settled(k)
    BY <1>1, <2>1 DEF Settled, Due, ToDo, PathOf, Path
  <2> QED BY <1>1, <2>1, <2>2, TracesStay
<1> QED BY <1>2, <1>3, <1>4, <1>5, <1>6, <1>7, <1>8 DEF Next

\* Units of one file have different lines, but for a unit and a candidate it grew over.
LEMMA RangesDiffer ==
    ASSUME Kept, Private, NEW k \in DOMAIN pack, NEW l \in DOMAIN pack, k # l,
           PathOf(k) = PathOf(l)
    PROVE  /\ pack[k].range # pack[l].range
           /\ pack[l].back => pack[k].range # ranked[pack[l].rank].range
PROOF
<1>1. /\ \A m \in DOMAIN pack : /\ pack[m].rank \in Ranks /\ pack[m].range \in Ranges
                                /\ ranked[pack[m].rank].range \in Ranges
      /\ ranked \in Lists
  BY TypedIs, PackTyped, ListTyped DEF Kept
<1>2. ranked[pack[k].rank].range # ranked[pack[l].rank].range
  <2>1. pack[k].rank # pack[l].rank
    BY DEF Kept, Ours, Distinct
  <2> QED BY <1>1, <2>1, ListTyped DEF PathOf
<1>3. k \in unit_indices(PathOf(l)) \ {l} /\ l \in unit_indices(PathOf(k)) \ {k}
  BY DEF unit_indices, PathOf
<1>4. pack[k].range # pack[l].range
  <2> SUFFICES ASSUME pack[k].range = pack[l].range PROVE FALSE
    OBVIOUS
  <2>1. pack[k].range # NoRange
    BY <1>2 DEF Kept, Ours
  <2>2. CASE pack[k].range # ranked[pack[k].rank].range
    <3>1. PICK line \in LinesOf(pack[k].range) : Alone(k, line)
      BY <2>2 DEF Private
    <3> QED BY <1>3, <2>1, <3>1 DEF Alone
  <2>3. CASE pack[l].range # ranked[pack[l].rank].range
    <3>1. PICK line \in LinesOf(pack[l].range) : Alone(l, line)
      BY <2>3 DEF Private
    <3> QED BY <1>3, <2>1, <3>1 DEF Alone
  <2> QED BY <1>2, <2>2, <2>3
<1>5. ASSUME pack[l].back, pack[k].range = ranked[pack[l].rank].range PROVE FALSE
  <2>1. ranked[pack[l].rank].range # NoRange /\ pack[l].range # NoRange
    BY <1>5 DEF Kept, Ours
  <2>2. LinesOf(pack[k].range) \subseteq LinesOf(pack[l].range)
    BY <1>5, <2>1 DEF Kept, LinesKept
  <2>3. pack[k].range.start \in LinesOf(pack[k].range)
    BY <1>1, <1>5, <2>1, RangeTyped
  <2>4. Overlap(pack[k].range, pack[l].range)
    BY <1>1, <1>5, <2>1, <2>2, <2>3, OverlapIs
  <2>5. ~pack[l].back
    BY <2>4, ApartIs DEF Kept, MayShare
  <2> QED BY <1>5, <2>5
<1> QED BY <1>4, <1>5

\* The inductive invariant under which every unit keeps its trace.
Attributed == Kept /\ Private /\ TracesAre

LEMMA InitAttributed == ASSUME Init PROVE Attributed
PROOF
<1>1. Kept
  BY InitKept
<1>2. pack = <<>> /\ traces = [i \in Ranks |-> IF ranked[i].traced THEN KeyOf(i) ELSE <<>>]
  BY DEF Init
<1>3. Private /\ TracesAre
  BY <1>2 DEF Private, TracesAre, TraceIs
<1> QED BY <1>1, <1>3 DEF Attributed

LEMMA StepAttributed == ASSUME Attributed, [Next]_vars PROVE Attributed'
PROOF
<1>1. Kept /\ Typed /\ Ours /\ Private /\ TracesAre
  BY DEF Attributed, Kept
<1>2. Kept' /\ Private' /\ TracesAre'
  BY <1>1, StepKept, PrivateStep, TracesStep
<1> QED BY <1>2 DEF Attributed

LEMMA AttributedFollows == ASSUME Attributed PROVE AttributionFollows
PROOF
<1> SUFFICES ASSUME pc = "done", NEW k \in DOMAIN pack
             PROVE  LET own == pack[k].rank
                        lost == pack[k].back /\ pack[k].range # ranked[own].range
                    IN  /\ own \in Answering(pack[k]) <=> ranked[own].traced /\ ~lost
                        /\ \A i \in Answering(pack[k]) \ {own} :
                              /\ KeyOf(i) = RetrievalUnitKey(pack[k])
                              /\ \A l \in DOMAIN pack : pack[l].rank # i
  BY DEF AttributionFollows
<1> DEFINE own == pack[k].rank
<1>1. Kept /\ Private /\ TracesAre /\ Typed /\ Ours /\ Distinct
  BY DEF Attributed, Kept, Ours
<1>2. /\ own \in Ranks /\ pack[k].back \in BOOLEAN
      /\ \A i \in Ranks : ranked[i].traced \in BOOLEAN
      /\ \A l \in DOMAIN pack : pack[l].back \in BOOLEAN
  BY <1>1, TypedIs, PackTyped, ListTyped
<1>3. todo = <<>>
  BY <1>1 DEF Typed, Where
<1>4. \A l \in DOMAIN pack : Settled(l) <=> ~pack[l].back
  BY <1>3 DEF Settled, Due, ToDo
<1>5. \A i \in Ranks : TraceIs(i)
  BY <1>1 DEF TracesAre
<1>6. RetrievalUnitKey(pack[k]) # <<>> /\ RetrievalUnitKey(pack[k]) = <<PathOf(k), pack[k].range>>
  BY DEF RetrievalUnitKey, PathOf
<1>7. \A l \in DOMAIN pack : pack[l].rank = own => l = k
  BY <1>1 DEF Distinct
<1>8. own \in Answering(pack[k])
          <=> ranked[own].traced /\ ~(pack[k].back /\ pack[k].range # ranked[own].range)
  <2>1. own \in Answering(pack[k]) <=> traces[own] = RetrievalUnitKey(pack[k])
    BY <1>2 DEF Answering
  <2>2. CASE ~ranked[own].traced
    BY <1>2, <1>5, <1>6, <2>1, <2>2 DEF TraceIs
  <2>3. CASE ranked[own].traced /\ ~pack[k].back
    BY <1>2, <1>4, <1>5, <2>1, <2>3 DEF TraceIs
  <2>4. CASE ranked[own].traced /\ pack[k].back
    <3>1. \A l \in DOMAIN pack : pack[l].rank = own => ~Settled(l)
      BY <1>4, <1>7, <2>4
    <3>2. traces[own] = KeyOf(own)
      BY <1>2, <1>5, <2>4, <3>1 DEF TraceIs
    <3>3. KeyOf(own) = RetrievalUnitKey(pack[k]) <=> pack[k].range = ranked[own].range
      BY DEF KeyOf, RetrievalUnitKey
    <3> QED BY <2>1, <2>4, <3>2, <3>3
  <2> QED BY <1>2, <2>2, <2>3, <2>4
<1>9. ASSUME NEW i \in Answering(pack[k]), i # own
      PROVE  /\ KeyOf(i) = RetrievalUnitKey(pack[k])
             /\ \A l \in DOMAIN pack : pack[l].rank # i
  <2>1. i \in Ranks /\ traces[i] = RetrievalUnitKey(pack[k])
    BY DEF Answering
  <2>2. ranked[i].traced
    BY <1>2, <1>5, <1>6, <2>1 DEF TraceIs
  <2>3. \A l \in DOMAIN pack : pack[l].rank = i => ~Settled(l)
    <3> SUFFICES ASSUME NEW l \in DOMAIN pack, pack[l].rank = i, Settled(l) PROVE FALSE
      OBVIOUS
    <3>1. RetrievalUnitKey(pack[l]) = RetrievalUnitKey(pack[k])
      BY <1>5, <2>1, <2>2 DEF TraceIs
    <3>2. PathOf(k) = PathOf(l) /\ pack[k].range = pack[l].range /\ k # l
      BY <1>9, <3>1 DEF RetrievalUnitKey, PathOf
    <3> QED BY <1>1, <3>2, RangesDiffer
  <2>4. KeyOf(i) = RetrievalUnitKey(pack[k])
    BY <1>5, <2>1, <2>2, <2>3 DEF TraceIs
  <2>5. ASSUME NEW l \in DOMAIN pack, pack[l].rank = i PROVE FALSE
    <3>1. pack[l].back
      BY <1>2, <1>4, <2>3, <2>5
    <3>2. PathOf(k) = PathOf(l) /\ pack[k].range = ranked[pack[l].rank].range /\ k # l
      BY <1>9, <2>4, <2>5 DEF KeyOf, RetrievalUnitKey, PathOf
    <3> QED BY <1>1, <3>1, <3>2, RangesDiffer
  <2> QED BY <2>4, <2>5
<1> QED BY <1>8, <1>9

\* For any files, lists and budgets: when the pack is ready, a unit is answered for by the
\* trace of its own candidate unless it came back and then grew, and by no trace of another
\* unit (retarget_traces in region.rs).
THEOREM AttributionIsKept == Spec => []AttributionFollows
PROOF
<1>1. Init => Attributed
  BY InitAttributed
<1>2. Attributed /\ [Next]_vars => Attributed'
  BY StepAttributed
<1>3. Attributed => AttributionFollows
  BY AttributedFollows
<1> QED BY <1>1, <1>2, <1>3, PTL DEF Spec
=============================================================================
