------------------------------ MODULE SumProofs ------------------------------
(***************************************************************************)
(* The sums the books are kept in: SumFunctionOnSet of the community       *)
(* modules, over any finite set. A fold is a choice, so nothing about it   *)
(* follows by expanding it; that there is one to choose, and that it is a  *)
(* sum, is shown by induction on finite sets, in the form of a smallest    *)
(* set on which the claim fails.                                           *)
(***************************************************************************)
EXTENDS Integers, Functions, FiniteSetTheorems, WellFoundedInduction, TLAPS

\* One step of the fold, and the functions that satisfy it on the subsets of S.
Added(f, g, s) ==
    IF s = {} THEN 0
    ELSE LET x == CHOOSE x \in s : TRUE IN f[x] + g[s \ {x}]

Sums(f, S, g) == g = [s \in SUBSET S |-> Added(f, g, s)]

\* Finitely many numbers; functions that agree on T.
Addable(f, S) == IsFiniteSet(S) /\ \A x \in S : f[x] \in Int
SameOn(e, f, T) == \A x \in T : e[x] = f[x]

LEMMA SumIsFold ==
    ASSUME NEW f, NEW S
    PROVE  SumFunctionOnSet(f, S) = (CHOOSE g : Sums(f, S, g))[S]
BY DEF SumFunctionOnSet, FoldFunctionOnSet, MapThenFoldSet, Sums, Added

\* Induction on finite sets: what fails for a subset of S fails for a smallest one.
LEMMA SmallestSubset ==
    ASSUME NEW S, IsFiniteSet(S), NEW B, B \subseteq SUBSET S, B # {}
    PROVE  \E s \in B : \A t \in SUBSET s : t # s => t \notin B
<1>1. B \subseteq FiniteSubsetsOf(S)
  BY FS_FiniteSubsetsOfFinite
<1>2. IsWellFoundedOn(StrictSubsetOrdering(S), FiniteSubsetsOf(S))
  BY FS_StrictSubsetOrderingWellFounded
<1>3. PICK s \in B : \A t \in B : <<t, s>> \notin StrictSubsetOrdering(S)
  BY <1>1, <1>2, WFMin
<1>4. ASSUME NEW t \in SUBSET s, t # s, t \in B PROVE FALSE
  <2>1. t \in SUBSET S /\ s \in SUBSET S
    BY <1>4
  <2>2. <<t, s>> \in StrictSubsetOrdering(S)
    BY <1>4, <2>1 DEF StrictSubsetOrdering
  <2> QED BY <1>3, <1>4, <2>2
<1> QED BY <1>3, <1>4

\* Two folds agree wherever the functions summed do.
LEMMA FoldsAgree ==
    ASSUME NEW S, IsFiniteSet(S), NEW T, T \subseteq S, NEW e, NEW f,
           SameOn(e, f, T), NEW g, Sums(e, S, g), NEW h, Sums(f, T, h)
    PROVE  \A s \in SUBSET T : g[s] = h[s]
<1> USE DEF SameOn
<1> DEFINE B == {s \in SUBSET T : g[s] # h[s]}
<1> SUFFICES ASSUME B # {} PROVE FALSE
  OBVIOUS
<1>1. B \subseteq SUBSET S
  OBVIOUS
<1>2. PICK s \in B : \A t \in SUBSET s : t # s => t \notin B
  <2> HIDE DEF B
  <2> QED BY <1>1, SmallestSubset
<1>3. s \in SUBSET T /\ s \in SUBSET S /\ g[s] # h[s]
  BY <1>2
<1>4. g[s] = Added(e, g, s) /\ h[s] = Added(f, h, s)
  BY <1>3 DEF Sums
<1>5. s # {}
  BY <1>3, <1>4 DEF Added
<1> DEFINE x == CHOOSE x \in s : TRUE
<1>6. x \in s
  BY <1>5
<1>7. g[s] = e[x] + g[s \ {x}] /\ h[s] = f[x] + h[s \ {x}]
  BY <1>4, <1>5 DEF Added
<1> HIDE DEF x
<1>8. e[x] = f[x]
  BY <1>3, <1>6
<1>9. g[s \ {x}] = h[s \ {x}]
  BY <1>2, <1>3, <1>6
<1> QED BY <1>3, <1>7, <1>8, <1>9

TakesOut(f, S, g) ==
    \A s \in SUBSET S : \A x \in s : g[s] = f[x] + g[s \ {x}]

\* A fold takes out any element of a set, not only the one CHOOSE picks.
LEMMA FoldTakesOut ==
    ASSUME NEW f, NEW S, Addable(f, S), NEW g \in [SUBSET S -> Int], Sums(f, S, g)
    PROVE  TakesOut(f, S, g)
<1> USE DEF Addable
<1> DEFINE B == {s \in SUBSET S : \E x \in s : g[s] # f[x] + g[s \ {x}]}
<1> SUFFICES ASSUME B # {} PROVE FALSE
  BY DEF TakesOut
<1>1. B \subseteq SUBSET S
  OBVIOUS
<1>2. PICK s \in B : \A t \in SUBSET s : t # s => t \notin B
  <2> HIDE DEF B
  <2> QED BY <1>1, SmallestSubset
<1>3. PICK x \in s : g[s] # f[x] + g[s \ {x}]
  OBVIOUS
<1> DEFINE y == CHOOSE z \in s : TRUE
<1>4. y \in s /\ s \in SUBSET S
  BY <1>3
<1>5. g[s] = f[y] + g[s \ {y}]
  BY <1>3, <1>4 DEF Sums, Added
<1> HIDE DEF y
<1>6. x # y
  BY <1>3, <1>5
<1>7. \A t \in SUBSET s : t # s => \A z \in t : g[t] = f[z] + g[t \ {z}]
  BY <1>2, <1>4
<1> HIDE DEF B
<1>8. /\ s \ {x} \in SUBSET s /\ s \ {x} # s /\ y \in s \ {x}
      /\ s \ {y} \in SUBSET s /\ s \ {y} # s /\ x \in s \ {y}
  BY <1>3, <1>4, <1>6
<1>9. /\ g[s \ {x}] = f[y] + g[(s \ {x}) \ {y}]
      /\ g[s \ {y}] = f[x] + g[(s \ {y}) \ {x}]
  BY <1>7, <1>8
<1>10. (s \ {x}) \ {y} = (s \ {y}) \ {x}
  OBVIOUS
<1> DEFINE r == g[(s \ {x}) \ {y}]
<1>11. f[x] \in Int /\ f[y] \in Int /\ r \in Int
  <2>1. (s \ {x}) \ {y} \in SUBSET S
    BY <1>4
  <2> QED BY <1>3, <1>4, <2>1
<1>12. g[s] = f[y] + (f[x] + r) /\ g[s \ {x}] = f[y] + r
  BY <1>5, <1>9, <1>10
<1> HIDE DEF r
<1> QED BY <1>3, <1>11, <1>12

\* The fold of a finite set exists: it is built size by size.
LEMMA FoldExists ==
    ASSUME NEW S, IsFiniteSet(S), NEW f, \A x \in S : f[x] \in Int
    PROVE  \E g \in [SUBSET S -> Int] : Sums(f, S, g)
<1> DEFINE Built(T) == \E g \in [SUBSET T -> Int] : Sums(f, T, g)
           B == {T \in SUBSET S : ~ Built(T)}
<1> SUFFICES ASSUME B # {} PROVE FALSE
  <2>1. S \in SUBSET S
    OBVIOUS
  <2> QED BY <2>1
<1>1. PICK T \in B : \A U \in SUBSET T : U # T => U \notin B
  <2>1. B \subseteq SUBSET S
    OBVIOUS
  <2> HIDE DEF B
  <2> QED BY <2>1, SmallestSubset
<1>2. T \in SUBSET S /\ ~ Built(T) /\ IsFiniteSet(T)
  BY <1>1, FS_Subset
<1>3. \A U \in SUBSET T : U # T => Built(U)
  BY <1>1, <1>2
<1> DEFINE h(U) == CHOOSE g \in [SUBSET U -> Int] : Sums(f, U, g)
<1>4. \A U \in SUBSET T : U # T => h(U) \in [SUBSET U -> Int] /\ Sums(f, U, h(U))
  BY <1>3
<1> HIDE DEF h, B
<1>5. \A U \in SUBSET T : U # T => h(U)[U] \in Int
  BY <1>4
<1> DEFINE below == [U \in SUBSET T |-> h(U)[U]]
           g == [U \in SUBSET T |-> IF U = T THEN Added(f, below, T) ELSE h(U)[U]]
<1>6. Added(f, below, T) \in Int
  <2>1. CASE T = {}
    BY <2>1 DEF Added
  <2>2. CASE T # {}
    <3> DEFINE x == CHOOSE x \in T : TRUE
    <3>1. x \in T
      BY <2>2
    <3>2. Added(f, below, T) = f[x] + below[T \ {x}]
      BY <2>2 DEF Added
    <3> HIDE DEF x
    <3>3. below[T \ {x}] \in Int /\ f[x] \in Int
      BY <1>2, <1>5, <3>1
    <3> QED BY <3>2, <3>3
  <2> QED BY <2>1, <2>2
<1>7. g \in [SUBSET T -> Int]
  <2> HIDE DEF below
  <2> QED BY <1>5, <1>6
<1>8. \A U \in SUBSET T : U # T => g[U] = h(U)[U]
  OBVIOUS
<1>9. g[T] = Added(f, below, T)
  OBVIOUS
<1>10. \A U \in SUBSET T : U # T => g[U] = Added(f, g, U)
  <2> SUFFICES ASSUME NEW U \in SUBSET T, U # T PROVE g[U] = Added(f, g, U)
    OBVIOUS
  <2>1. g[U] = Added(f, h(U), U)
    <3>1. h(U)[U] = Added(f, h(U), U)
      BY <1>4 DEF Sums
    <3> QED BY <1>8, <3>1
  <2>2. CASE U = {}
    BY <2>1, <2>2 DEF Added
  <2>3. CASE U # {}
    <3> DEFINE x == CHOOSE x \in U : TRUE
    <3>1. x \in U
      BY <2>3
    <3>2. Added(f, h(U), U) = f[x] + h(U)[U \ {x}] /\ Added(f, g, U) = f[x] + g[U \ {x}]
      BY <2>3 DEF Added
    <3> HIDE DEF x, g
    <3>3. U \ {x} \in SUBSET T /\ U \ {x} # T
      BY <3>1
    <3>4. h(U)[U \ {x}] = h(U \ {x})[U \ {x}]
      <4>1. IsFiniteSet(U)
        BY <1>2, FS_Subset
      <4>2. Sums(f, U, h(U)) /\ Sums(f, U \ {x}, h(U \ {x}))
        BY <1>4, <3>3
      <4> QED BY <4>1, <4>2, FoldsAgree DEF SameOn
    <3> QED BY <1>8, <2>1, <3>2, <3>3, <3>4
  <2> QED BY <2>2, <2>3
<1>11. Added(f, below, T) = Added(f, g, T)
  <2>1. CASE T = {}
    BY <2>1 DEF Added
  <2>2. CASE T # {}
    <3> DEFINE x == CHOOSE x \in T : TRUE
    <3>1. x \in T
      BY <2>2
    <3>2. /\ Added(f, below, T) = f[x] + below[T \ {x}]
          /\ Added(f, g, T) = f[x] + g[T \ {x}]
      BY <2>2 DEF Added
    <3> HIDE DEF x
    <3>3. T \ {x} \in SUBSET T /\ T \ {x} # T
      BY <3>1
    <3> QED BY <1>8, <3>2, <3>3
  <2> QED BY <2>1, <2>2
<1>12. \A U \in SUBSET T : g[U] = Added(f, g, U)
  BY <1>9, <1>10, <1>11
<1>13. Sums(f, T, g)
  <2>1. g = [U \in SUBSET T |-> g[U]]
    BY <1>7
  <2> HIDE DEF g
  <2> QED BY <1>12, <2>1 DEF Sums
<1> QED BY <1>2, <1>7, <1>13

\* The sums of all subsets of S.
SumsAll(f, S, g) ==
    /\ g \in [SUBSET S -> Int]
    /\ Sums(f, S, g)
    /\ \A T \in SUBSET S : SumFunctionOnSet(f, T) = g[T]

\* What SumFunctionOnSet computes, on every subset of S at once.
LEMMA SumsOfSubsets ==
    ASSUME NEW f, NEW S, Addable(f, S)
    PROVE  \E g : SumsAll(f, S, g)
<1> USE DEF Addable
<1>1. PICK g \in [SUBSET S -> Int] : Sums(f, S, g)
  BY FoldExists
<1>2. ASSUME NEW T \in SUBSET S PROVE SumFunctionOnSet(f, T) = g[T]
  <2>1. IsFiniteSet(T) /\ \A x \in T : f[x] \in Int
    BY FS_Subset
  <2> DEFINE h == CHOOSE h : Sums(f, T, h)
  <2>2. Sums(f, T, h)
    <3>1. \E h0 : Sums(f, T, h0)
      BY <2>1, FoldExists
    <3> QED BY <3>1
  <2>3. SumFunctionOnSet(f, T) = h[T]
    BY SumIsFold
  <2> HIDE DEF h
  <2>4. g[T] = h[T]
    <3>1. \A s \in SUBSET T : g[s] = h[s]
      BY <1>1, <2>2, FoldsAgree DEF SameOn
    <3> QED BY <3>1
  <2> QED BY <2>3, <2>4
<1> QED BY <1>1, <1>2 DEF SumsAll

\* A sum over nothing, and the type of a sum.
LEMMA SumOfNothing == ASSUME NEW f PROVE SumFunctionOnSet(f, {}) = 0
<1>1. Addable(f, {})
  BY FS_EmptySet DEF Addable
<1>2. PICK g : SumsAll(f, {}, g)
  BY <1>1, SumsOfSubsets
<1>3. g[{}] = Added(f, g, {})
  BY <1>2 DEF SumsAll, Sums
<1> QED BY <1>2, <1>3 DEF SumsAll, Added

LEMMA SumType ==
    ASSUME NEW f, NEW S, Addable(f, S)
    PROVE  SumFunctionOnSet(f, S) \in Int
<1>1. PICK g : SumsAll(f, S, g)
  BY SumsOfSubsets
<1> QED BY <1>1 DEF SumsAll

\* A sum is one of its terms and the sum of the others.
LEMMA SumTakesOut ==
    ASSUME NEW f, NEW S, Addable(f, S), NEW x \in S
    PROVE  SumFunctionOnSet(f, S) = f[x] + SumFunctionOnSet(f, S \ {x})
<1>1. PICK g : SumsAll(f, S, g)
  BY SumsOfSubsets
<1>2. g \in [SUBSET S -> Int] /\ Sums(f, S, g)
  BY <1>1 DEF SumsAll
<1>4. TakesOut(f, S, g)
  BY <1>2, FoldTakesOut
<1>5. g[S] = f[x] + g[S \ {x}]
  BY <1>4 DEF TakesOut
<1> QED BY <1>1, <1>5 DEF SumsAll

LEMMA SumPutsIn ==
    ASSUME NEW f, NEW S, NEW x, x \notin S, Addable(f, S \cup {x})
    PROVE  SumFunctionOnSet(f, S \cup {x}) = f[x] + SumFunctionOnSet(f, S)
<1>1. (S \cup {x}) \ {x} = S /\ x \in S \cup {x}
  OBVIOUS
<1> QED BY <1>1, SumTakesOut

\* A sum depends on the terms it adds only.
LEMMA SumOfSame ==
    ASSUME NEW e, NEW f, NEW S, Addable(e, S), SameOn(e, f, S)
    PROVE  SumFunctionOnSet(e, S) = SumFunctionOnSet(f, S)
<1>1. Addable(f, S)
  BY DEF Addable, SameOn
<1>2. PICK g : SumsAll(e, S, g)
  BY SumsOfSubsets
<1>3. PICK h : SumsAll(f, S, h)
  BY <1>1, SumsOfSubsets
<1>4. IsFiniteSet(S) /\ Sums(e, S, g) /\ Sums(f, S, h)
  BY <1>2, <1>3 DEF SumsAll, Addable
<1>5. \A s \in SUBSET S : g[s] = h[s]
  BY <1>4, FoldsAgree
<1> QED BY <1>2, <1>3, <1>5 DEF SumsAll

\* Changing one term changes the sum by as much.
LEMMA SumChanged ==
    ASSUME NEW e, NEW f, NEW S, Addable(e, S), NEW x \in S, f[x] \in Int,
           SameOn(e, f, S \ {x})
    PROVE  SumFunctionOnSet(f, S) = SumFunctionOnSet(e, S) + f[x] - e[x]
<1>1. Addable(e, S \ {x}) /\ Addable(f, S) /\ e[x] \in Int
  BY FS_RemoveElement DEF Addable, SameOn
<1>2. SumFunctionOnSet(e, S \ {x}) = SumFunctionOnSet(f, S \ {x})
  BY <1>1, SumOfSame
<1>3. SumFunctionOnSet(e, S \ {x}) \in Int
  BY <1>1, SumType
<1>4. /\ SumFunctionOnSet(e, S) = e[x] + SumFunctionOnSet(e, S \ {x})
      /\ SumFunctionOnSet(f, S) = f[x] + SumFunctionOnSet(f, S \ {x})
  BY <1>1, SumTakesOut
<1> QED BY <1>1, <1>2, <1>3, <1>4

\* Natural numbers have a natural sum, and zeros the sum zero.
LEMMA SumOfNaturals ==
    ASSUME NEW f, NEW S, Addable(f, S), \A x \in S : f[x] \in Nat
    PROVE  SumFunctionOnSet(f, S) \in Nat
<1> DEFINE B == {T \in SUBSET S : SumFunctionOnSet(f, T) \notin Nat}
<1> SUFFICES ASSUME B # {} PROVE FALSE
  OBVIOUS
<1>1. PICK T \in B : \A t \in SUBSET T : t # T => t \notin B
  <2>1. B \subseteq SUBSET S /\ IsFiniteSet(S)
    BY DEF Addable
  <2> HIDE DEF B
  <2> QED BY <2>1, SmallestSubset
<1>2. T # {}
  BY SumOfNothing
<1>3. PICK x \in T : TRUE
  BY <1>2
<1>4. Addable(f, T)
  BY FS_Subset DEF Addable
<1>5. SumFunctionOnSet(f, T) = f[x] + SumFunctionOnSet(f, T \ {x})
  BY <1>4, SumTakesOut
<1>6. T \ {x} \in SUBSET T /\ T \ {x} # T /\ T \ {x} \in SUBSET S
  OBVIOUS
<1>7. SumFunctionOnSet(f, T \ {x}) \in Nat /\ f[x] \in Nat
  BY <1>1, <1>6
<1> QED BY <1>5, <1>7

LEMMA SumOfZeros ==
    ASSUME NEW f, NEW S, Addable(f, S), \A x \in S : f[x] = 0
    PROVE  SumFunctionOnSet(f, S) = 0
<1> DEFINE B == {T \in SUBSET S : SumFunctionOnSet(f, T) # 0}
<1> SUFFICES ASSUME B # {} PROVE FALSE
  OBVIOUS
<1>1. PICK T \in B : \A t \in SUBSET T : t # T => t \notin B
  <2>1. B \subseteq SUBSET S /\ IsFiniteSet(S)
    BY DEF Addable
  <2> HIDE DEF B
  <2> QED BY <2>1, SmallestSubset
<1>2. T # {}
  BY SumOfNothing
<1>3. PICK x \in T : TRUE
  BY <1>2
<1>4. Addable(f, T)
  BY FS_Subset DEF Addable
<1>5. SumFunctionOnSet(f, T) = f[x] + SumFunctionOnSet(f, T \ {x})
  BY <1>4, SumTakesOut
<1>6. T \ {x} \in SUBSET T /\ T \ {x} # T /\ T \ {x} \in SUBSET S
  OBVIOUS
<1>7. SumFunctionOnSet(f, T \ {x}) = 0 /\ f[x] = 0
  BY <1>1, <1>6
<1> QED BY <1>5, <1>7
=============================================================================
