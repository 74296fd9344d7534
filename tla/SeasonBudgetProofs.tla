------------------------- MODULE SeasonBudgetProofs -------------------------
(***************************************************************************)
(* What SeasonBudget promises, for any number of members, any fees and any *)
(* payout structures.  First the sums: the facts about them that           *)
(* LeagueEscrowProofs has too (the names of the two components clash, and  *)
(* no theorem can be cited through INSTANCE), then what the settings need. *)
(***************************************************************************)
EXTENDS SeasonBudget, FiniteSetTheorems, WellFoundedInduction, TLAPS

\* Of some subsets of a finite set, one is minimal.
LEMMA MinimalSubset ==
  ASSUME NEW S, IsFiniteSet(S), NEW R, R \subseteq SUBSET S, R # {}
  PROVE  \E s \in R : \A r \in R : ~(r \subseteq s /\ r # s)
<1>1. IsWellFoundedOn(StrictSubsetOrdering(S), SUBSET S)
  BY FS_StrictSubsetOrderingWellFounded, FS_FiniteSubsetsOfFinite
<1>2. \E s \in R : \A r \in R : <<r, s>> \notin StrictSubsetOrdering(S)
  BY <1>1, WFMin, Zenon
<1> QED
  BY <1>2 DEF StrictSubsetOrdering

\* A family of subsets that has each set all of whose strict subsets it has.
LEMMA SubsetInduction ==
  ASSUME NEW S, IsFiniteSet(S), NEW T,
         \A s \in SUBSET S : (\A r \in SUBSET s : r # s => r \in T) => s \in T
  PROVE  SUBSET S \subseteq T
<1> DEFINE Rest == (SUBSET S) \ T
<1>1. SUFFICES ASSUME Rest # {} PROVE FALSE
  OBVIOUS
<1>2. PICK s \in Rest : \A r \in Rest : ~(r \subseteq s /\ r # s)
  <2>1. Rest \subseteq SUBSET S
    OBVIOUS
  <2> HIDE DEF Rest
  <2> QED
    BY <1>1, <2>1, MinimalSubset
<1> QED
  BY <1>2

\* A family that has the empty set and is closed under adding an element has every
\* subset of a finite set: induction over subsets, without an operator parameter.
LEMMA FiniteClosure ==
  ASSUME NEW S, IsFiniteSet(S), NEW T, {} \in T,
         \A s \in SUBSET S : \A x \in S \ s : s \in T => s \cup {x} \in T
  PROVE  SUBSET S \subseteq T
<1>1. ASSUME NEW s \in SUBSET S, \A r \in SUBSET s : r # s => r \in T
      PROVE  s \in T
  <2>1. CASE s = {}
    BY <2>1
  <2>2. ASSUME NEW x \in s PROVE s \in T
    <3>1. s \ {x} \in SUBSET S /\ x \in S \ (s \ {x}) /\ (s \ {x}) \cup {x} = s
      OBVIOUS
    <3>2. s \ {x} \in T
      BY <1>1
    <3> QED
      BY <3>1, <3>2
  <2> QED
    BY <2>1, <2>2
<1> QED
  BY <1>1, SubsetInduction

\* What a sum does: nothing on {}, and one summand for each element more.
Additive(f, S, g) ==
  /\ g \in [SUBSET S -> Nat]
  /\ g[{}] = 0
  /\ \A s \in SUBSET S : \A x \in S \ s : g[s \cup {x}] = g[s] + f[x]

\* There is an additive function on the subsets of a finite set.
LEMMA AdditiveExists ==
  ASSUME NEW f, NEW S, IsFiniteSet(S), \A x \in S : f[x] \in Nat
  PROVE  \E g : Additive(f, S, g)
<1> DEFINE T == {X \in SUBSET S : \E g : Additive(f, X, g)}
<1>1. {} \in T
  <2>1. Additive(f, {}, [s \in SUBSET {} |-> 0])
    BY DEF Additive
  <2> QED
    BY <2>1
<1>2. ASSUME NEW X \in SUBSET S, NEW x \in S \ X, X \in T
      PROVE  X \cup {x} \in T
  <2>1. PICK g : Additive(f, X, g)
    BY <1>2
  <2> DEFINE h == [s \in SUBSET (X \cup {x}) |-> IF x \in s THEN g[s \ {x}] + f[x] ELSE g[s]]
  <2>2. \A s \in SUBSET (X \cup {x}) : s \ {x} \in SUBSET X
    OBVIOUS
  <2>3. \A s \in SUBSET (X \cup {x}) : x \notin s => s \in SUBSET X
    OBVIOUS
  <2>4. h \in [SUBSET (X \cup {x}) -> Nat]
    BY <2>1, <2>2, <2>3 DEF Additive
  <2>5. h[{}] = 0
    BY <2>1 DEF Additive
  <2>6. ASSUME NEW s \in SUBSET (X \cup {x}), NEW y \in (X \cup {x}) \ s
        PROVE  h[s \cup {y}] = h[s] + f[y]
    <3>1. s \cup {y} \in SUBSET (X \cup {x})
      OBVIOUS
    <3>2. CASE y = x
      <4>1. (s \cup {y}) \ {x} = s /\ x \notin s
        BY <3>2
      <4> QED
        BY <3>1, <3>2, <4>1
    <3>3. CASE y # x /\ x \in s
      <4>1. (s \cup {y}) \ {x} = (s \ {x}) \cup {y} /\ y \in X \ (s \ {x})
        BY <3>3
      <4>2. g[(s \ {x}) \cup {y}] = g[s \ {x}] + f[y]
        BY <2>1, <2>2, <4>1 DEF Additive
      <4>3. g[s \ {x}] \in Nat /\ f[x] \in Nat /\ f[y] \in Nat
        BY <2>1, <2>2 DEF Additive
      <4>4. h[s \cup {y}] = g[s \ {x}] + f[y] + f[x] /\ h[s] = g[s \ {x}] + f[x]
        BY <3>1, <3>3, <4>1, <4>2
      <4> QED
        BY <4>3, <4>4
    <3>4. CASE y # x /\ x \notin s
      BY <2>1, <2>3, <3>1, <3>4 DEF Additive
    <3> QED
      BY <3>2, <3>3, <3>4
  <2>7. Additive(f, X \cup {x}, h)
    <3> HIDE DEF h
    <3> QED
      BY <2>4, <2>5, <2>6 DEF Additive
  <2> QED
    BY <2>7
<1>3. SUBSET S \subseteq T
  <2> HIDE DEF T
  <2> QED
    BY <1>1, <1>2, FiniteClosure
<1> QED
  BY <1>3

\* The equation of the library's fold.
Unfolds(f, S, g) ==
  g = [s \in SUBSET S |-> IF s = {} THEN 0
                          ELSE LET x == CHOOSE x \in s : TRUE IN f[x] + g[s \ {x}]]

\* An additive function unfolds the way the fold is defined: at any chosen element.
LEMMA AdditiveUnfolds ==
  ASSUME NEW f, NEW S, \A x \in S : f[x] \in Nat, NEW g, Additive(f, S, g)
  PROVE  Unfolds(f, S, g)
<1>1. g = [s \in SUBSET S |-> g[s]] /\ \A s \in SUBSET S : g[s] \in Nat
  BY DEF Additive
<1>2. ASSUME NEW s \in SUBSET S
      PROVE  g[s] = IF s = {} THEN 0 ELSE LET x == CHOOSE x \in s : TRUE IN f[x] + g[s \ {x}]
  <2>1. CASE s = {}
    BY <2>1 DEF Additive
  <2>2. CASE s # {}
    <3> DEFINE x == CHOOSE x \in s : TRUE
    <3>1. x \in s
      BY <2>2
    <3> HIDE DEF x
    <3>2. s \ {x} \in SUBSET S /\ x \in S \ (s \ {x}) /\ (s \ {x}) \cup {x} = s
      BY <3>1
    <3>3. g[s] = g[s \ {x}] + f[x]
      BY <3>2 DEF Additive
    <3>4. g[s \ {x}] \in Nat /\ f[x] \in Nat
      BY <1>1, <3>2
    <3>5. g[s] = f[x] + g[s \ {x}]
      BY <3>3, <3>4
    <3> QED
      BY <2>2, <3>5 DEF x
  <2> QED
    BY <2>1, <2>2
<1> QED
  BY <1>1, <1>2 DEF Unfolds

\* Only one function unfolds that way.
LEMMA UnfoldingIsUnique ==
  ASSUME NEW f, NEW S, IsFiniteSet(S), NEW g, NEW h, Unfolds(f, S, g), Unfolds(f, S, h)
  PROVE  g = h
<1> DEFINE T == {s \in SUBSET S : g[s] = h[s]}
<1>1. ASSUME NEW s \in SUBSET S, \A r \in SUBSET s : r # s => r \in T
      PROVE  s \in T
  <2>1. CASE s = {}
    BY <2>1 DEF Unfolds
  <2>2. CASE s # {}
    <3> DEFINE x == CHOOSE x \in s : TRUE
    <3>1. x \in s
      BY <2>2
    <3>2. g[s] = f[x] + g[s \ {x}] /\ h[s] = f[x] + h[s \ {x}]
      BY <2>2 DEF Unfolds
    <3> HIDE DEF x
    <3>3. s \ {x} \in T
      BY <1>1, <3>1
    <3> QED
      BY <3>2, <3>3
  <2> QED
    BY <2>1, <2>2
<1>2. SUBSET S \subseteq T
  <2> HIDE DEF T
  <2> QED
    BY <1>1, SubsetInduction
<1>3. \A s \in SUBSET S : g[s] = h[s]
  BY <1>2
<1> QED
  BY <1>3 DEF Unfolds

\* So the fold computes the one additive function there is.
LEMMA SumIsAdditive ==
  ASSUME NEW f, NEW S, IsFiniteSet(S), \A x \in S : f[x] \in Nat,
         NEW g, Additive(f, S, g)
  PROVE  Sum(f, S) = g[S]
<1>1. Sum(f, S) = (CHOOSE h : Unfolds(f, S, h))[S]
  BY Zenon DEF Sum, MapThenSumSet, MapThenFoldSet, Unfolds
<1>2. Unfolds(f, S, g)
  BY AdditiveUnfolds
<1>3. \A h : Unfolds(f, S, h) => h = g
  BY <1>2, UnfoldingIsUnique
<1> QED
  BY <1>1, <1>2, <1>3

\* Nothing adds up to zero.
LEMMA SumEmpty ==
  ASSUME NEW f
  PROVE  Sum(f, {}) = 0
<1>1. Additive(f, {}, [s \in SUBSET {} |-> 0])
  BY DEF Additive
<1> QED
  BY <1>1, SumIsAdditive, FS_EmptySet

\* Natural numbers add up to a natural number.
LEMMA SumType ==
  ASSUME NEW f, NEW S, IsFiniteSet(S), \A x \in S : f[x] \in Nat
  PROVE  Sum(f, S) \in Nat
<1>1. PICK g : Additive(f, S, g)
  BY AdditiveExists
<1>2. Sum(f, S) = g[S]
  BY <1>1, SumIsAdditive
<1> QED
  BY <1>1, <1>2 DEF Additive

\* One more element adds its entry.
LEMMA SumAdd ==
  ASSUME NEW f, NEW S, IsFiniteSet(S), NEW x, x \notin S, \A y \in S \cup {x} : f[y] \in Nat
  PROVE  Sum(f, S \cup {x}) = Sum(f, S) + f[x]
<1>1. IsFiniteSet(S \cup {x})
  BY FS_AddElement
<1>2. PICK g : Additive(f, S \cup {x}, g)
  BY <1>1, AdditiveExists
<1>3. Additive(f, S, [s \in SUBSET S |-> g[s]])
  <2>1. \A s \in SUBSET S : s \in SUBSET (S \cup {x})
    OBVIOUS
  <2>2. ASSUME NEW s \in SUBSET S, NEW y \in S \ s PROVE g[s \cup {y}] = g[s] + f[y]
    BY <1>2 DEF Additive
  <2> QED
    BY <1>2, <2>1, <2>2 DEF Additive
<1>4. Sum(f, S) = g[S]
  BY <1>3, SumIsAdditive
<1>5. Sum(f, S \cup {x}) = g[S \cup {x}]
  BY <1>1, <1>2, SumIsAdditive
<1>6. g[S \cup {x}] = g[S] + f[x]
  BY <1>2 DEF Additive
<1> QED
  BY <1>4, <1>5, <1>6

\* One element less takes its entry away.
LEMMA SumRemove ==
  ASSUME NEW f, NEW S, IsFiniteSet(S), NEW x \in S, \A y \in S : f[y] \in Nat
  PROVE  /\ Sum(f, S) = Sum(f, S \ {x}) + f[x]
         /\ Sum(f, S \ {x}) \in Nat
<1>1. IsFiniteSet(S \ {x}) /\ (S \ {x}) \cup {x} = S
  BY FS_RemoveElement
<1>2. Sum(f, S \ {x}) \in Nat
  BY <1>1, SumType
<1>3. Sum(f, (S \ {x}) \cup {x}) = Sum(f, S \ {x}) + f[x]
  BY <1>1, SumAdd
<1> QED
  BY <1>1, <1>2, <1>3

\* No entry is more than the sum.
LEMMA SumMember ==
  ASSUME NEW f, NEW S, IsFiniteSet(S), NEW x \in S, \A y \in S : f[y] \in Nat
  PROVE  f[x] <= Sum(f, S) /\ Sum(f, S) \in Nat
<1>1. Sum(f, S) = Sum(f, S \ {x}) + f[x] /\ Sum(f, S \ {x}) \in Nat
  BY SumRemove
<1> QED
  BY <1>1

\* Two books with the same entries have the same sum.
LEMMA SumSame ==
  ASSUME NEW f, NEW g, NEW S, IsFiniteSet(S),
         \A x \in S : f[x] \in Nat /\ g[x] = f[x]
  PROVE  Sum(g, S) = Sum(f, S)
<1> DEFINE T == {s \in SUBSET S : Sum(g, s) = Sum(f, s)}
<1>1. {} \in T
  BY SumEmpty
<1>2. ASSUME NEW s \in SUBSET S, NEW x \in S \ s, s \in T
      PROVE  s \cup {x} \in T
  <2>1. IsFiniteSet(s)
    BY FS_Subset
  <2>2. /\ Sum(f, s \cup {x}) = Sum(f, s) + f[x]
        /\ Sum(g, s \cup {x}) = Sum(g, s) + g[x]
    BY <2>1, SumAdd
  <2> QED
    BY <1>2, <2>2
<1>3. SUBSET S \subseteq T
  <2> HIDE DEF T
  <2> QED
    BY <1>1, <1>2, FiniteClosure
<1> QED
  BY <1>3

\* A book of zeros adds up to zero.
LEMMA SumZero ==
  ASSUME NEW f, NEW S, IsFiniteSet(S), \A x \in S : f[x] = 0
  PROVE  Sum(f, S) = 0
<1>1. Additive(f, S, [s \in SUBSET S |-> 0])
  BY DEF Additive
<1> QED
  BY <1>1, SumIsAdditive

\* A book of which one entry changes.
LEMMA SumExcept ==
  ASSUME NEW f, NEW g, NEW S, IsFiniteSet(S), NEW x \in S,
         \A y \in S : f[y] \in Nat /\ g[y] \in Nat /\ (y # x => g[y] = f[y])
  PROVE  Sum(g, S) + f[x] = Sum(f, S) + g[x]
<1>1. IsFiniteSet(S \ {x})
  BY FS_RemoveElement
<1>2. Sum(g, S \ {x}) = Sum(f, S \ {x})
  BY <1>1, SumSame
<1>3. Sum(f, S) = Sum(f, S \ {x}) + f[x] /\ Sum(g, S) = Sum(g, S \ {x}) + g[x]
  BY SumRemove
<1>4. Sum(f, S \ {x}) \in Nat
  BY SumRemove
<1> QED
  BY <1>2, <1>3, <1>4

\* Two sets of entries that have none in common.
LEMMA SumDisjoint ==
  ASSUME NEW f, NEW S, IsFiniteSet(S), NEW R, IsFiniteSet(R), S \cap R = {},
         \A x \in S \cup R : f[x] \in Nat
  PROVE  Sum(f, S \cup R) = Sum(f, S) + Sum(f, R)
<1> DEFINE T == {r \in SUBSET R : Sum(f, S \cup r) = Sum(f, S) + Sum(f, r)}
<1>1. {} \in T
  <2>1. S \cup {} = S /\ Sum(f, {}) = 0 /\ Sum(f, S) \in Nat
    BY SumEmpty, SumType
  <2> QED
    BY <2>1
<1>2. ASSUME NEW r \in SUBSET R, NEW x \in R \ r, r \in T
      PROVE  r \cup {x} \in T
  <2>1. IsFiniteSet(r) /\ IsFiniteSet(S \cup r)
    BY FS_Subset, FS_Union
  <2>2. S \cup (r \cup {x}) = (S \cup r) \cup {x} /\ x \notin S \cup r
    OBVIOUS
  <2>3. Sum(f, (S \cup r) \cup {x}) = Sum(f, S \cup r) + f[x]
    BY <2>1, <2>2, SumAdd
  <2>4. Sum(f, r \cup {x}) = Sum(f, r) + f[x]
    BY <2>1, SumAdd
  <2>5. Sum(f, S) \in Nat /\ Sum(f, r) \in Nat /\ f[x] \in Nat
    BY <2>1, SumType
  <2>6. Sum(f, S \cup r) = Sum(f, S) + Sum(f, r)
    BY <1>2
  <2>7. Sum(f, S \cup (r \cup {x})) = Sum(f, S) + Sum(f, r \cup {x})
    <3>1. Sum(f, S \cup (r \cup {x})) = Sum(f, (S \cup r) \cup {x})
      BY <2>2, Zenon
    <3> QED
      BY <2>3, <2>4, <2>5, <2>6, <3>1
  <2> QED
    BY <2>7
<1>3. SUBSET R \subseteq T
  <2> HIDE DEF T
  <2>1. \A r \in SUBSET R : \A x \in R \ r : r \in T => r \cup {x} \in T
    BY <1>2
  <2> QED
    BY ONLY <1>1, <2>1, IsFiniteSet(R), FiniteClosure
<1> QED
  BY <1>3

\* A part of the entries and the rest make up the sum.
LEMMA SumSubset ==
  ASSUME NEW f, NEW S, IsFiniteSet(S), NEW R \in SUBSET S, \A x \in S : f[x] \in Nat
  PROVE  Sum(f, S) = Sum(f, R) + Sum(f, S \ R) /\ Sum(f, R) <= Sum(f, S)
<1>1. IsFiniteSet(R) /\ IsFiniteSet(S \ R) /\ R \cup (S \ R) = S /\ R \cap (S \ R) = {}
  BY FS_Subset
<1>2. Sum(f, R \cup (S \ R)) = Sum(f, R) + Sum(f, S \ R)
  BY <1>1, SumDisjoint
<1>3. Sum(f, R) \in Nat /\ Sum(f, S \ R) \in Nat
  BY <1>1, SumType
<1>4. Sum(f, S) = Sum(f, R) + Sum(f, S \ R)
  BY <1>1, <1>2
<1> QED
  BY <1>3, <1>4

\* Entries that are covered one by one by the entries of another book.
LEMMA SumInjection ==
  ASSUME NEW f, NEW S, IsFiniteSet(S), NEW g, NEW R, IsFiniteSet(R), NEW h \in [S -> R],
         \A x, y \in S : h[x] = h[y] => x = y,
         \A x \in S : f[x] \in Nat /\ f[x] <= g[h[x]],
         \A x \in R : g[x] \in Nat
  PROVE  Sum(f, S) <= Sum(g, R)
<1> DEFINE Image(s) == {h[x] : x \in s}
           T == {s \in SUBSET S : Sum(f, s) <= Sum(g, Image(s))}
<1>1. {} \in T
  <2>1. Image({}) = {} /\ Sum(f, {}) = 0 /\ Sum(g, {}) = 0
    BY SumEmpty
  <2> QED
    BY <2>1
<1>2. ASSUME NEW s \in SUBSET S, NEW x \in S \ s, s \in T
      PROVE  s \cup {x} \in T
  <2>1. IsFiniteSet(s) /\ Image(s) \in SUBSET R /\ IsFiniteSet(Image(s))
    BY FS_Subset
  <2>2. Image(s \cup {x}) = Image(s) \cup {h[x]} /\ h[x] \notin Image(s)
    OBVIOUS
  <2>3. Sum(f, s \cup {x}) = Sum(f, s) + f[x]
    BY <2>1, SumAdd
  <2>4. Sum(g, Image(s) \cup {h[x]}) = Sum(g, Image(s)) + g[h[x]]
    <3> HIDE DEF Image
    <3>1. \A y \in Image(s) \cup {h[x]} : g[y] \in Nat
      BY <2>1
    <3> QED
      BY <2>1, <2>2, <3>1, SumAdd
  <2>5. Sum(f, s) \in Nat /\ Sum(g, Image(s)) \in Nat /\ f[x] \in Nat /\ g[h[x]] \in Nat
        /\ f[x] <= g[h[x]]
    <3>1. \A y \in Image(s) : g[y] \in Nat
      BY <2>1
    <3> HIDE DEF Image
    <3> QED
      BY <2>1, <3>1, SumType
  <2>6. Sum(f, s) <= Sum(g, Image(s))
    BY <1>2
  <2> HIDE DEF Image
  <2>7. Sum(f, s \cup {x}) <= Sum(g, Image(s \cup {x}))
    BY <2>2, <2>3, <2>4, <2>5, <2>6
  <2> QED
    BY <2>7
<1>3. SUBSET S \subseteq T
  <2> HIDE DEF T
  <2> QED
    BY <1>1, <1>2, FiniteClosure
<1>4. Sum(f, S) <= Sum(g, Image(S))
  <2> HIDE DEF Image
  <2> QED
    BY <1>3
<1>5. Image(S) \in SUBSET R
  OBVIOUS
<1> HIDE DEF Image
<1>6. IsFiniteSet(Image(S)) /\ Sum(g, Image(S)) <= Sum(g, R)
  BY <1>5, SumSubset, FS_Subset
<1>7. Sum(f, S) \in Nat /\ Sum(g, Image(S)) \in Nat /\ Sum(g, R) \in Nat
  BY <1>5, <1>6, SumType
<1> QED
  BY <1>4, <1>6, <1>7

\* If everyone has paid c at least, all of them together have paid c times as much.
LEMMA SumAtLeast ==
  ASSUME NEW f, NEW S, IsFiniteSet(S), NEW c \in Nat, \A x \in S : f[x] \in Nat /\ f[x] >= c
  PROVE  Sum(f, S) >= c * Cardinality(S)
<1> DEFINE T == {s \in SUBSET S : Sum(f, s) >= c * Cardinality(s)}
<1>1. {} \in T
  BY SumEmpty, FS_EmptySet
<1>2. ASSUME NEW s \in SUBSET S, NEW x \in S \ s, s \in T
      PROVE  s \cup {x} \in T
  <2>1. IsFiniteSet(s) /\ Cardinality(s) \in Nat
    BY FS_Subset, FS_CardinalityType
  <2>2. Cardinality(s \cup {x}) = Cardinality(s) + 1
    BY <2>1, FS_AddElement
  <2>3. Sum(f, s \cup {x}) = Sum(f, s) + f[x] /\ Sum(f, s) \in Nat
    BY <2>1, SumAdd, SumType
  <2>4. c * (Cardinality(s) + 1) = c * Cardinality(s) + c
    BY <2>1
  <2>5. c * Cardinality(s) \in Nat
    BY <2>1
  <2> QED
    BY <1>2, <2>2, <2>3, <2>4, <2>5
<1>3. SUBSET S \subseteq T
  <2> HIDE DEF T
  <2> QED
    BY <1>1, <1>2, FiniteClosure
<1> QED
  BY <1>3

\* The first and the last of some rows is one of them.
LEMMA MinAndMax ==
  ASSUME NEW S, IsFiniteSet(S), S \subseteq Nat, S # {}
  PROVE  Min(S) \in S /\ Max(S) \in S
<1> DEFINE T == {s \in SUBSET S : s # {} => /\ \E x \in s : \A y \in s : x <= y
                                            /\ \E x \in s : \A y \in s : x >= y}
<1>1. {} \in T
  OBVIOUS
<1>2. ASSUME NEW s \in SUBSET S, NEW z \in S \ s, s \in T
      PROVE  s \cup {z} \in T
  <2>1. CASE s = {}
    BY <2>1
  <2>2. CASE s # {}
    <3>1. PICK x \in s : \A y \in s : x <= y
      BY <1>2, <2>2
    <3>2. PICK w \in s : \A y \in s : w >= y
      BY <1>2, <2>2
    <3>3. \E v \in s \cup {z} : \A y \in s \cup {z} : v <= y
      BY <3>1
    <3>4. \E v \in s \cup {z} : \A y \in s \cup {z} : v >= y
      BY <3>2
    <3> QED
      BY <3>3, <3>4
  <2> QED
    BY <2>1, <2>2
<1>3. SUBSET S \subseteq T
  <2> HIDE DEF T
  <2> QED
    BY <1>1, <1>2, FiniteClosure
<1>4. (\E x \in S : \A y \in S : x <= y) /\ (\E x \in S : \A y \in S : x >= y)
  BY <1>3
<1> QED
  BY <1>4 DEF Min, Max

-----------------------------------------------------------------------------
(* The settings.                                                              *)

\* A row that is saved is a row.
LEMMA NormalizedAreRows ==
  ASSUME NEW rows \in Seq(Row)
  PROVE  normalizeEntries(rows) \in Seq(Row)
<1> DEFINE WeeklyRow == [type : {"weekly"}, bonus : BonusType, amount : Nat, weeks : Nat, threshold : Nat]
<1>1. ASSUME NEW r \in WeeklyRow PROVE [r EXCEPT !.bonus = "weekly_high_score"] \in WeeklyRow
  BY <1>1 DEF BonusType
<1>2. ASSUME NEW r \in Row, r.type = "weekly" PROVE r \in WeeklyRow
  BY <1>2 DEF Row
<1>3. \A i \in DOMAIN rows : rows[i] \in Row
  OBVIOUS
<1>4. WeeklyRow \subseteq Row
  BY DEF Row
<1> HIDE DEF WeeklyRow
<1>5. \A i \in DOMAIN rows : normalizeEntries(rows)[i] \in Row
  BY <1>1, <1>2, <1>3, <1>4 DEF normalizeEntries
<1>6. Len(rows) \in Nat /\ DOMAIN rows = 1..Len(rows)
  OBVIOUS
<1>7. normalizeEntries(rows) \in [1..Len(rows) -> Row]
  BY <1>5, <1>6 DEF normalizeEntries
<1> QED
  BY <1>6, <1>7

\* A payout structure has finitely many rows of a kind.
LEMMA RowsAreFinite ==
  ASSUME NEW rows \in Seq(Row)
  PROVE  IsFiniteSet(DOMAIN rows) /\ DOMAIN rows \subseteq Nat
<1>1. Len(rows) \in Nat /\ DOMAIN rows = 1..Len(rows)
  OBVIOUS
<1> QED
  BY <1>1, FS_Interval

\* What one row promises, and what a placement row announces.
LEMMA RowAmounts ==
  ASSUME NEW rows \in Seq(Row), NEW i \in DOMAIN rows
  PROVE  /\ rows[i].amount \in Nat /\ Announced(rows)[i] \in Nat
         /\ rows[i].type \in {"placement", "weekly"}
         /\ rows[i].type = "placement" => Announced(rows)[i] = rows[i].amount
<1>1. rows[i] \in Row
  OBVIOUS
<1>2. /\ rows[i].amount \in Nat /\ rows[i].type \in {"placement", "weekly"}
      /\ rows[i].type = "weekly" => rows[i].weeks \in Nat
  BY <1>1 DEF Row
<1> QED
  BY <1>2 DEF Announced

\* Prizes are amounts of placement rows.
LEMMA PrizesAreRows ==
  ASSUME NEW rows \in Seq(Row), NEW p \in DOMAIN PlaceToEntry(rows)
  PROVE  \E i \in RowsOf(rows, "placement") :
           rows[i].place = p /\ PlaceToEntry(rows)[p] = rows[i].amount
           /\ i = Max({j \in RowsOf(rows, "placement") : rows[j].place = p})
<1> DEFINE RowsFor == {j \in RowsOf(rows, "placement") : rows[j].place = p}
<1>1. RowsFor # {} /\ RowsFor \in SUBSET DOMAIN rows
  BY DEF PlaceToEntry, RowsOf
<1>2. IsFiniteSet(RowsFor) /\ RowsFor \subseteq Nat
  BY <1>1, RowsAreFinite, FS_Subset
<1>3. Max(RowsFor) \in RowsFor
  <2> HIDE DEF RowsFor
  <2> QED
    BY <1>1, <1>2, MinAndMax
<1>4. PlaceToEntry(rows)[p] = rows[Max(RowsFor)].amount
  BY DEF PlaceToEntry
<1> QED
  BY <1>3, <1>4

\* A payout structure has finitely many places with a prize.
LEMMA PlacesAreFinite ==
  ASSUME NEW rows \in Seq(Row)
  PROVE  /\ IsFiniteSet(DOMAIN PlaceToEntry(rows))
         /\ \A p \in DOMAIN PlaceToEntry(rows) : PlaceToEntry(rows)[p] \in Nat
<1> DEFINE placement == RowsOf(rows, "placement")
           placeOf == [i \in placement |-> rows[i].place]
<1>1. IsFiniteSet(placement)
  <2>1. placement \in SUBSET DOMAIN rows
    BY DEF RowsOf
  <2> QED
    BY <2>1, RowsAreFinite, FS_Subset
<1>2. DOMAIN PlaceToEntry(rows) = {rows[i].place : i \in placement}
  BY DEF PlaceToEntry
<1>3. placeOf \in Surjection(placement, DOMAIN PlaceToEntry(rows))
  BY <1>2 DEF Surjection
<1>4. IsFiniteSet(DOMAIN PlaceToEntry(rows))
  BY <1>1, <1>3, FS_Surjection
<1>5. ASSUME NEW p \in DOMAIN PlaceToEntry(rows) PROVE PlaceToEntry(rows)[p] \in Nat
  <2>1. PICK i \in RowsOf(rows, "placement") : PlaceToEntry(rows)[p] = rows[i].amount
    BY PrizesAreRows
  <2>2. i \in DOMAIN rows
    BY DEF RowsOf
  <2>3. rows[i].amount \in Nat
    BY <2>2, RowAmounts
  <2> QED
    BY <2>1, <2>3
<1> QED
  BY <1>4, <1>5

\* The page's "Total Payout" is enough for every place's prize and every bonus it
\* announces, with several rows for one place too.
THEOREM TotalPayoutCoversPrizes ==
  ASSUME NEW rows \in Seq(Row)
  PROVE  LET prizes == PlaceToEntry(rows) IN
         /\ Sum(prizes, DOMAIN prizes) + Sum(Announced(rows), RowsOf(rows, "weekly")) <= totalPayout(rows)
         /\ Sum(prizes, DOMAIN prizes) \in Nat
         /\ Sum(Announced(rows), RowsOf(rows, "weekly")) \in Nat
         /\ totalPayout(rows) \in Nat
<1> DEFINE prizes == PlaceToEntry(rows)
           announced == Announced(rows)
           placement == RowsOf(rows, "placement")
           weekly == RowsOf(rows, "weekly")
           lastRow == [p \in DOMAIN prizes |-> Max({i \in placement : rows[i].place = p})]
<1>1. placement \cap weekly = {} /\ placement \cup weekly = DOMAIN rows
  BY RowAmounts DEF RowsOf
<1>2. IsFiniteSet(DOMAIN rows) /\ IsFiniteSet(placement) /\ IsFiniteSet(weekly)
  BY <1>1, RowsAreFinite, FS_Subset
<1>3. \A i \in DOMAIN rows : announced[i] \in Nat
  BY RowAmounts
<1>4. \A i \in placement : announced[i] = rows[i].amount
  BY RowAmounts DEF RowsOf
<1>5. IsFiniteSet(DOMAIN prizes) /\ \A p \in DOMAIN prizes : prizes[p] \in Nat
  BY PlacesAreFinite
<1>6. ASSUME NEW p \in DOMAIN prizes
      PROVE  /\ lastRow[p] \in placement /\ rows[lastRow[p]].place = p
             /\ prizes[p] = announced[lastRow[p]]
  <2>1. PICK i \in placement :
          rows[i].place = p /\ prizes[p] = rows[i].amount
          /\ i = Max({j \in placement : rows[j].place = p})
    BY PrizesAreRows
  <2>2. lastRow[p] = i
    BY <2>1
  <2> QED
    BY <1>4, <2>1, <2>2
<1>7. lastRow \in [DOMAIN prizes -> placement]
  BY <1>6
<1>8. \A p, q \in DOMAIN prizes : lastRow[p] = lastRow[q] => p = q
  BY <1>6
<1>9. \A p \in DOMAIN prizes : prizes[p] \in Nat /\ prizes[p] <= announced[lastRow[p]]
  <2> SUFFICES ASSUME NEW p \in DOMAIN prizes
               PROVE  prizes[p] \in Nat /\ prizes[p] <= announced[lastRow[p]]
    OBVIOUS
  <2>1. prizes[p] \in Nat /\ prizes[p] = announced[lastRow[p]]
    BY <1>5, <1>6
  <2> QED
    BY <2>1
<1>10. \A i \in placement : announced[i] \in Nat
  BY <1>1, <1>3
<1> HIDE DEF prizes, announced, placement, weekly, lastRow
<1>11. Sum(prizes, DOMAIN prizes) <= Sum(announced, placement)
  BY <1>2, <1>5, <1>7, <1>8, <1>9, <1>10, SumInjection
<1>12. /\ Sum(prizes, DOMAIN prizes) \in Nat
       /\ Sum(announced, placement) \in Nat /\ Sum(announced, weekly) \in Nat
  BY <1>1, <1>2, <1>3, <1>5, SumType
<1>13. Sum(announced, DOMAIN rows) = Sum(announced, placement) + Sum(announced, weekly)
  BY <1>1, <1>2, <1>3, SumDisjoint
<1>14. totalPayout(rows) = Sum(announced, DOMAIN rows)
  BY DEF totalPayout, announced
<1>15. /\ Sum(prizes, DOMAIN prizes) + Sum(announced, weekly) <= totalPayout(rows)
       /\ totalPayout(rows) \in Nat
  BY <1>11, <1>12, <1>13, <1>14
<1> QED
  BY <1>12, <1>15 DEF prizes, announced, weekly

-----------------------------------------------------------------------------
(* The recorded events.                                                       *)

IsLog(log) ==
  DOMAIN log \subseteq Key /\ log \in [DOMAIN log -> [amount : Nat, executed : BOOLEAN]]

Done(log) == {k \in DOMAIN log : log[k].executed}

\* There are finitely many events to record in a season.
LEMMA KeysAreFinite == IsFiniteSet(Key)
<1> DEFINE Triple == ((1..LastWeek) \X Members) \X BonusType
           asKey == [x \in Triple |-> [week |-> x[1][1], roster |-> x[1][2], bonus |-> x[2]]]
<1>1. IsFiniteSet(1..LastWeek)
  BY FS_Interval, BoundsAssumption
<1>2. IsFiniteSet(BonusType)
  <2>1. IsFiniteSet({} \cup {"weekly_high_score"} \cup {"score_threshold"})
    BY FS_EmptySet, FS_AddElement
  <2>2. IsFiniteSet({} \cup {"weekly_high_score"} \cup {"score_threshold"}
                       \cup {"highest_weekly_score"} \cup {"unset"})
    BY <2>1, FS_AddElement
  <2>3. BonusType = {} \cup {"weekly_high_score"} \cup {"score_threshold"}
                       \cup {"highest_weekly_score"} \cup {"unset"}
    BY DEF BonusType
  <2> QED
    BY <2>2, <2>3
<1>3. IsFiniteSet((1..LastWeek) \X Members)
  BY <1>1, MembersAssumption, FS_Product
<1>4. IsFiniteSet(Triple)
  BY <1>2, <1>3, FS_Product
<1>5. asKey \in Surjection(Triple, Key)
  <2>1. asKey \in [Triple -> Key]
    BY DEF Key
  <2>2. ASSUME NEW k \in Key PROVE \E x \in Triple : asKey[x] = k
    <3>1. <<<<k.week, k.roster>>, k.bonus>> \in Triple
      BY DEF Key
    <3>2. asKey[<<<<k.week, k.roster>>, k.bonus>>] = k
      BY <3>1 DEF Key
    <3> QED
      BY <3>1, <3>2
  <2> QED
    BY <2>1, <2>2 DEF Surjection
<1> QED
  BY <1>4, <1>5, FS_Surjection

\* What a set of recorded events owes is a natural number.
LEMMA OwedIsNat ==
  ASSUME NEW log, IsLog(log), NEW K \in SUBSET DOMAIN log
  PROVE  /\ IsFiniteSet(K) /\ Owed(log, K) \in Nat
         /\ \A k \in DOMAIN log : AmountsOf(log)[k] = log[k].amount /\ log[k].amount \in Nat
<1>1. K \in SUBSET Key
  BY DEF IsLog
<1>2. IsFiniteSet(K)
  BY <1>1, KeysAreFinite, FS_Subset
<1>3. \A k \in DOMAIN log : AmountsOf(log)[k] = log[k].amount /\ log[k].amount \in Nat
  BY DEF IsLog, AmountsOf
<1>4. \A k \in K : AmountsOf(log)[k] \in Nat
  BY <1>3
<1> QED
  BY <1>2, <1>3, <1>4, SumType DEF Owed

\* What is owed for some events depends on their amounts only.
LEMMA OwedSame ==
  ASSUME NEW old, IsLog(old), NEW new, IsLog(new), NEW K \in SUBSET DOMAIN old, K \subseteq DOMAIN new,
         \A k \in K : new[k].amount = old[k].amount
  PROVE  Owed(new, K) = Owed(old, K)
<1>1. IsFiniteSet(K)
  BY OwedIsNat
<1>2. \A k \in K : AmountsOf(old)[k] \in Nat /\ AmountsOf(new)[k] = AmountsOf(old)[k]
  BY DEF IsLog, AmountsOf
<1> QED
  BY <1>1, <1>2, SumSame DEF Owed

\* What two sets of events owe together.
LEMMA OwedDisjoint ==
  ASSUME NEW log, IsLog(log), NEW K \in SUBSET DOMAIN log, NEW J \in SUBSET DOMAIN log, K \cap J = {}
  PROVE  Owed(log, K \cup J) = Owed(log, K) + Owed(log, J)
<1>1. IsFiniteSet(K) /\ IsFiniteSet(J)
  BY OwedIsNat
<1>2. \A k \in K \cup J : AmountsOf(log)[k] \in Nat
  BY DEF IsLog, AmountsOf
<1> QED
  BY <1>1, <1>2, SumDisjoint DEF Owed

\* The week's new events are added to those on record, which stay as they are.
LEMMA RecordedIsLog ==
  ASSUME TypeOK, week > 1, NEW points, NEW best
  PROVE  LET recorded == Recorded(points, best) IN
         /\ IsLog(recorded) /\ DOMAIN events \subseteq DOMAIN recorded
         /\ \A k \in DOMAIN events : recorded[k] = events[k]
         /\ Done(recorded) = Executed
<1> DEFINE recorded == Recorded(points, best)
           new == NewEvents(points, best)
           earned(k) == [amount |-> settings.rows[Min(EarningRows(k, points, best))].amount,
                         executed |-> FALSE]
<1>1. /\ recorded = [k \in DOMAIN recorded |-> recorded[k]]
      /\ DOMAIN recorded = DOMAIN events \cup new
      /\ \A k \in DOMAIN recorded :
           recorded[k] = IF k \in DOMAIN events THEN events[k] ELSE earned(k)
  BY DEF Recorded
<1>2. ASSUME NEW k \in new
      PROVE  k \in Key /\ earned(k) \in [amount : Nat, executed : BOOLEAN] /\ ~earned(k).executed
  <2> DEFINE earning == EarningRows(k, points, best)
             rows == settings.rows
  <2>1. k \in [week : {week - 1}, roster : linked, bonus : BonusType] /\ earning # {}
    BY DEF NewEvents
  <2>2. week - 1 \in 1..LastWeek /\ linked \subseteq Members
    BY BoundsAssumption DEF TypeOK
  <2>3. k \in Key
    BY <2>1, <2>2 DEF Key
  <2>4. rows \in Seq(Row) /\ earning \in SUBSET DOMAIN rows
    BY DEF TypeOK, EarningRows, RowsOf
  <2>5. IsFiniteSet(earning) /\ earning \subseteq Nat
    BY <2>4, RowsAreFinite, FS_Subset
  <2>6. Min(earning) \in earning
    <3> HIDE DEF earning
    <3> QED
      BY <2>1, <2>5, MinAndMax
  <2>7. rows[Min(earning)].amount \in Nat
    BY <2>4, <2>6, RowAmounts
  <2> QED
    BY <2>3, <2>7
<1> HIDE DEF new, earned, recorded
<1>3. IsLog(recorded)
  <2>1. DOMAIN recorded \subseteq Key
    BY <1>1, <1>2 DEF TypeOK
  <2>2. \A k \in DOMAIN recorded : recorded[k] \in [amount : Nat, executed : BOOLEAN]
    BY <1>1, <1>2 DEF TypeOK
  <2> QED
    BY <1>1, <2>1, <2>2 DEF IsLog
<1>4. Done(recorded) = Executed
  BY <1>1, <1>2 DEF Done, Executed
<1>5. DOMAIN events \subseteq DOMAIN recorded /\ \A k \in DOMAIN events : recorded[k] = events[k]
  BY <1>1
<1> QED
  BY <1>3, <1>4, <1>5 DEF recorded

\* A run marks some of the events it has paid.
MarkedLog(recorded, marked) ==
  [k \in DOMAIN recorded |-> [recorded[k] EXCEPT !.executed = @ \/ k \in marked]]

\* Marking events as executed leaves what they owe.
LEMMA MarkingKeepsAmounts ==
  ASSUME NEW recorded, IsLog(recorded), NEW marked \in SUBSET DOMAIN recorded
  PROVE  LET log == MarkedLog(recorded, marked) IN
         /\ IsLog(log) /\ DOMAIN log = DOMAIN recorded
         /\ \A k \in DOMAIN recorded : log[k].amount = recorded[k].amount
         /\ Done(log) = Done(recorded) \cup marked
<1> DEFINE log == MarkedLog(recorded, marked)
<1>1. ASSUME NEW r \in [amount : Nat, executed : BOOLEAN], NEW b \in BOOLEAN
      PROVE  LET s == [r EXCEPT !.executed = @ \/ b] IN
             /\ s \in [amount : Nat, executed : BOOLEAN]
             /\ s.amount = r.amount /\ s.executed = (r.executed \/ b)
  BY <1>1
<1>2. ASSUME NEW k \in DOMAIN recorded
      PROVE  /\ log[k] \in [amount : Nat, executed : BOOLEAN]
             /\ log[k].amount = recorded[k].amount
             /\ log[k].executed = (recorded[k].executed \/ k \in marked)
  <2>1. recorded[k] \in [amount : Nat, executed : BOOLEAN] /\ (k \in marked) \in BOOLEAN
    BY DEF IsLog
  <2>2. log[k] = [recorded[k] EXCEPT !.executed = @ \/ k \in marked]
    BY DEF MarkedLog
  <2> HIDE DEF log
  <2> QED
    BY <1>1, <2>1, <2>2
<1>3. DOMAIN log = DOMAIN recorded /\ log = [k \in DOMAIN recorded |-> log[k]]
  BY DEF MarkedLog
<1> HIDE DEF log
<1>4. IsLog(log)
  BY <1>2, <1>3 DEF IsLog
<1>5. Done(log) = Done(recorded) \cup marked
  BY <1>2, <1>3 DEF Done
<1> QED
  BY <1>2, <1>3, <1>4, <1>5 DEF log

-----------------------------------------------------------------------------
(* Types.                                                                     *)

\* What the resolved places are owed is a natural number.
LEMMA ResolvedIsNat ==
  ASSUME TypeOK, NEW resolvable
  PROVE  Sum(PlaceToEntry(settings.rows), Resolved(PlaceToEntry(settings.rows), resolvable)) \in Nat
<1> DEFINE prizes == PlaceToEntry(settings.rows)
           places == Resolved(prizes, resolvable)
<1>1. IsFiniteSet(DOMAIN prizes) /\ \A p \in DOMAIN prizes : prizes[p] \in Nat
  BY PlacesAreFinite DEF TypeOK
<1>2. places \in SUBSET DOMAIN prizes
  BY DEF Resolved
<1> HIDE DEF prizes, places
<1>3. IsFiniteSet(places) /\ \A p \in places : prizes[p] \in Nat
  BY <1>1, <1>2, FS_Subset
<1>4. Sum(prizes, places) \in Nat
  BY <1>3, SumType
<1> QED
  BY <1>4 DEF prizes, places

\* What a run of the weekly job does to the record and the total: it records, or it
\* records and pays.
LEMMA WeeklyJobPays ==
  ASSUME TypeOK, NEW points, NEW best, WeeklyJob(points, best)
  PROVE  /\ IsLog(events') /\ total' \in Nat /\ lostMark' \in BOOLEAN
         /\ ~lostMark' => /\ ~lostMark
                         /\ total' + Owed(events', Done(events')) = total + Owed(events, Executed)
<1> DEFINE recorded == Recorded(points, best)
<1>1. /\ IsLog(recorded) /\ DOMAIN events \subseteq DOMAIN recorded
      /\ \A k \in DOMAIN events : recorded[k] = events[k]
      /\ Done(recorded) = Executed
  BY RecordedIsLog DEF WeeklyJob
<1>2. PICK payable \in SUBSET Unexecuted(recorded) :
        \/ events' = recorded /\ UNCHANGED <<total, lostMark>>
        \/ /\ payable # {} /\ Owed(recorded, payable) <= total
           /\ \E marked \in SUBSET payable : PayEvents(recorded, payable, marked)
  BY DEF WeeklyJob
<1> HIDE DEF recorded
<1>3. total \in Nat /\ lostMark \in BOOLEAN /\ IsLog(events)
  BY DEF TypeOK, IsLog
<1>4. Executed \in SUBSET DOMAIN events /\ Executed \in SUBSET DOMAIN recorded
  BY <1>1 DEF Executed
<1>5. Owed(recorded, Executed) = Owed(events, Executed)
  <2>1. \A k \in Executed : recorded[k].amount = events[k].amount
    BY <1>1, <1>4
  <2> QED
    BY <1>1, <1>3, <1>4, <2>1, OwedSame
<1>6. CASE events' = recorded /\ UNCHANGED <<total, lostMark>>
  BY <1>1, <1>3, <1>5, <1>6
<1>7. ASSUME Owed(recorded, payable) <= total,
             NEW marked \in SUBSET payable, PayEvents(recorded, payable, marked)
      PROVE  /\ IsLog(events') /\ total' \in Nat /\ lostMark' \in BOOLEAN
             /\ ~lostMark' => /\ ~lostMark
                             /\ total' + Owed(events', Done(events')) = total + Owed(events, Executed)
  <2>1. payable \in SUBSET DOMAIN recorded /\ payable \cap Executed = {}
    BY <1>1 DEF Unexecuted, Done
  <2>2. total' = total - Owed(recorded, payable) /\ lostMark' = (lostMark \/ marked # payable)
        /\ events' = MarkedLog(recorded, marked)
    BY <1>7 DEF PayEvents, MarkedLog
  <2>3. /\ IsLog(events') /\ DOMAIN events' = DOMAIN recorded
        /\ \A k \in DOMAIN recorded : events'[k].amount = recorded[k].amount
        /\ Done(events') = Executed \cup marked
    <3>1. marked \in SUBSET DOMAIN recorded
      BY <2>1
    <3> QED
      BY <1>1, <2>2, <3>1, MarkingKeepsAmounts
  <2>4. Owed(recorded, payable) \in Nat /\ Owed(recorded, Executed) \in Nat
    BY <1>1, <1>4, <2>1, OwedIsNat
  <2>5. total' \in Nat
    BY <1>3, <1>7, <2>2, <2>4
  <2>6. lostMark' \in BOOLEAN
    BY <2>2
  <2>7. ASSUME ~lostMark'
        PROVE  ~lostMark /\ total' + Owed(events', Done(events')) = total + Owed(events, Executed)
    <3>1. ~lostMark /\ marked = payable
      BY <2>2, <2>7
    <3>2. Done(events') = Executed \cup payable
      BY <2>3, <3>1
    <3>3. Owed(events', Executed \cup payable) = Owed(recorded, Executed \cup payable)
      <4>1. Executed \cup payable \in SUBSET DOMAIN recorded
        BY <1>4, <2>1
      <4>2. \A k \in Executed \cup payable : events'[k].amount = recorded[k].amount
        BY <2>3, <4>1
      <4> QED
        BY <1>1, <2>3, <4>1, <4>2, OwedSame
    <3>4. Owed(recorded, Executed \cup payable) = Owed(recorded, Executed) + Owed(recorded, payable)
      BY <1>1, <1>4, <2>1, OwedDisjoint
    <3>5. Owed(events', Done(events')) = Owed(events, Executed) + Owed(recorded, payable)
      BY <1>5, <3>2, <3>3, <3>4
    <3>6. total' = total - Owed(recorded, payable)
      BY <2>2
    <3> QED
      BY <1>3, <1>5, <2>4, <3>1, <3>5, <3>6
  <2> QED
    BY <2>3, <2>5, <2>6, <2>7
<1> QED
  BY <1>2, <1>6, <1>7

\* The types, action by action.
LEMMA TypeStep ==
  ASSUME TypeOK, [Next]_budgetVars
  PROVE  TypeOK'
<1> USE DEF settingsVars, chainVars, platformVars, jobVars
<1>1. ASSUME NEW fee \in Fees, NEW rows \in Structures, SaveSettings(fee, rows) PROVE TypeOK'
  <2>1. normalizeEntries(rows) \in Seq(Row)
    BY StructuresAssumption, NormalizedAreRows
  <2> QED
    BY <1>1, <2>1 DEF SaveSettings, TypeOK
<1>2. ASSUME NEW m \in Members, LinkPlatformProfile(m) PROVE TypeOK'
  BY <1>2 DEF LinkPlatformProfile, TypeOK
<1>3. ASSUME NEW m \in Members, PayEntryFee(m) PROVE TypeOK'
  <2>1. settings.fee \in Nat /\ total + settings.fee \in Nat /\ paid + 1 \in 0..MaxFees
    BY <1>3, StructuresAssumption, BoundsAssumption DEF PayEntryFee, TypeOK
  <2> QED
    BY <1>3, <2>1 DEF PayEntryFee, TypeOK
<1>4. ASSUME NEW m \in Members, ClaimRefund(m) PROVE TypeOK'
  BY <1>4 DEF ClaimRefund, TypeOK
<1>5. CASE CancelOrReactivate
  BY <1>5 DEF CancelOrReactivate, TypeOK
<1>6. CASE WeekAdvances
  BY <1>6, BoundsAssumption DEF WeekAdvances, TypeOK
<1>7. ASSUME NEW m \in Members, NEW n \in Members, SeasonCompletes(m, n) PROVE TypeOK'
  <2>1. 2 <= Cardinality(Members) /\ Cardinality(Members) \in Nat
    <3>1. IsFiniteSet({m}) /\ Cardinality({m}) = 1 /\ n \notin {m}
      BY <1>7, FS_Singleton DEF SeasonCompletes
    <3>2. Cardinality({m} \cup {n}) = 2
      BY <3>1, FS_AddElement
    <3>3. {m} \cup {n} \in SUBSET Members
      OBVIOUS
    <3> QED
      BY <3>2, <3>3, MembersAssumption, FS_Subset, FS_CardinalityType
  <2>2. standings' = <<m, n>>
    BY <1>7 DEF SeasonCompletes
  <2>3. DOMAIN standings' \subseteq 1..Cardinality(Members)
        /\ standings' \in [DOMAIN standings' -> Members]
    BY <2>1, <2>2
  <2> QED
    BY <1>7, <2>3 DEF SeasonCompletes, TypeOK
<1>8. ASSUME NEW resolvable, NEW outcome, SeasonEndJob(resolvable, outcome) PROVE TypeOK'
  <2> DEFINE prizes == PlaceToEntry(settings.rows)
             owed == Sum(prizes, Resolved(prizes, resolvable))
  <2>1. owed \in Nat
    BY ResolvedIsNat
  <2> HIDE DEF prizes
  <2>2. total' \in Nat /\ payoutStatus' \in {"pending", "executed", "failed"}
    <3>1. \/ payoutStatus' = "executed" /\ UNCHANGED total
          \/ /\ owed <= total
             /\ payoutStatus' = IF outcome = "ok" THEN "executed" ELSE "failed"
             /\ total' = IF outcome = "failed" THEN total ELSE total - owed
      BY <1>8 DEF SeasonEndJob, prizes
    <3>2. total \in Nat
      BY DEF TypeOK
    <3> HIDE DEF owed
    <3> QED
      BY <2>1, <3>1, <3>2
  <2>3. UNCHANGED <<events, lostMark, payments, paid, settingsVars, platformVars>>
    BY <1>8 DEF SeasonEndJob
  <2> QED
    BY <2>2, <2>3 DEF TypeOK
<1>9. ASSUME NEW points, NEW best, WeeklyJob(points, best) PROVE TypeOK'
  <2>1. IsLog(events') /\ total' \in Nat /\ lostMark' \in BOOLEAN
    BY <1>9, WeeklyJobPays
  <2>2. UNCHANGED <<payoutStatus, payments, paid, settingsVars, platformVars>>
    BY <1>9 DEF WeeklyJob
  <2> QED
    BY <2>1, <2>2 DEF TypeOK, IsLog
<1>10. CASE UNCHANGED budgetVars
  BY <1>10 DEF budgetVars, TypeOK
<1> QED
  BY <1>1, <1>2, <1>3, <1>4, <1>5, <1>6, <1>7, <1>8, <1>9, <1>10 DEF Next

\* Neither the jobs nor the refunds ever take more out of the league's total than is
\* in it, and an event that is recorded has an amount of the settings.
THEOREM TypeCorrect == Spec => []TypeOK
<1>1. Init => TypeOK
  <2> SUFFICES ASSUME Init PROVE TypeOK
    OBVIOUS
  <2>1. settings \in [fee : Fees, rows : Seq(Row)]
    BY StructuresAssumption DEF Init
  <2>2. /\ DOMAIN events = {} /\ events \in [DOMAIN events -> [amount : Nat, executed : BOOLEAN]]
        /\ DOMAIN standings = {} /\ standings \in [DOMAIN standings -> Members]
    BY DEF Init
  <2>3. payments \in [Members -> Nat] /\ week \in 1..LastWeek + 1 /\ paid \in 0..MaxFees
    BY BoundsAssumption DEF Init
  <2> QED
    BY <2>1, <2>2, <2>3 DEF Init, TypeOK
<1>2. TypeOK /\ [Next]_budgetVars => TypeOK'
  BY TypeStep
<1> QED
  BY <1>1, <1>2, PTL DEF Spec

-----------------------------------------------------------------------------
(* The total.                                                                 *)

\* One member's payment changes, and the total with it.
LEMMA PaymentMoves ==
  ASSUME TypeOK, TypeOK', TotalIsWhatIsLeft, NEW m \in Members,
         \A n \in Members : n # m => payments'[n] = payments[n],
         total' + payments[m] = total + payments'[m],
         UNCHANGED <<payoutStatus, lostMark, events>>
  PROVE  TotalIsWhatIsLeft'
<1> SUFFICES ASSUME payoutStatus = "pending", ~lostMark
             PROVE  total' + Owed(events, Executed) = Sum(payments', Members)
  BY DEF TotalIsWhatIsLeft, Executed
<1>1. total + Owed(events, Executed) = Sum(payments, Members)
  BY DEF TotalIsWhatIsLeft
<1>2. \A n \in Members : payments[n] \in Nat /\ payments'[n] \in Nat
  BY DEF TypeOK
<1>3. Sum(payments', Members) + payments[m] = Sum(payments, Members) + payments'[m]
  BY <1>2, MembersAssumption, SumExcept
<1>4. Owed(events, Executed) \in Nat
  <2>1. IsLog(events) /\ Executed \in SUBSET DOMAIN events
    BY DEF TypeOK, IsLog, Executed
  <2> QED
    BY <2>1, OwedIsNat
<1>5. Sum(payments, Members) \in Nat /\ Sum(payments', Members) \in Nat
  BY <1>2, MembersAssumption, SumType
<1>6. total \in Nat /\ total' \in Nat /\ payments[m] \in Nat /\ payments'[m] \in Nat
  BY <1>2 DEF TypeOK
<1> QED
  BY <1>1, <1>3, <1>4, <1>5, <1>6

\* The total, action by action.
LEMMA TotalStep ==
  ASSUME TypeOK, TotalIsWhatIsLeft, [Next]_budgetVars
  PROVE  TotalIsWhatIsLeft'
<1>0. TypeOK'
  BY TypeStep
<1>1. ASSUME UNCHANGED <<payoutStatus, lostMark, events, total, payments>> PROVE TotalIsWhatIsLeft'
  BY <1>1 DEF TotalIsWhatIsLeft, Executed
<1>2. ASSUME NEW fee \in Fees, NEW rows \in Structures, SaveSettings(fee, rows)
      PROVE  TotalIsWhatIsLeft'
  BY <1>1, <1>2 DEF SaveSettings, chainVars, jobVars
<1>3. ASSUME NEW m \in Members, LinkPlatformProfile(m) PROVE TotalIsWhatIsLeft'
  BY <1>1, <1>3 DEF LinkPlatformProfile, chainVars, jobVars
<1>4. CASE CancelOrReactivate
  BY <1>1, <1>4 DEF CancelOrReactivate, chainVars, jobVars
<1>5. CASE WeekAdvances
  BY <1>1, <1>5 DEF WeekAdvances, chainVars, jobVars
<1>6. ASSUME NEW m \in Members, NEW n \in Members, SeasonCompletes(m, n)
      PROVE  TotalIsWhatIsLeft'
  BY <1>1, <1>6 DEF SeasonCompletes, chainVars, jobVars
<1>7. ASSUME NEW m \in Members, PayEntryFee(m) PROVE TotalIsWhatIsLeft'
  <2>1. /\ payments[m] = 0 /\ payments'[m] = settings.fee /\ total' = total + settings.fee
        /\ \A n \in Members : n # m => payments'[n] = payments[n]
    BY <1>7 DEF PayEntryFee, TypeOK
  <2>2. UNCHANGED <<payoutStatus, lostMark, events>>
    BY <1>7 DEF PayEntryFee, jobVars
  <2>3. total' + payments[m] = total + payments'[m]
    BY <1>0, <2>1 DEF TypeOK
  <2> QED
    BY <1>0, <2>1, <2>2, <2>3, PaymentMoves
<1>8. ASSUME NEW m \in Members, ClaimRefund(m) PROVE TotalIsWhatIsLeft'
  <2>1. /\ payments[m] <= total /\ payments'[m] = 0 /\ total' = total - payments[m]
        /\ \A n \in Members : n # m => payments'[n] = payments[n]
    BY <1>8 DEF ClaimRefund, TypeOK
  <2>2. UNCHANGED <<payoutStatus, lostMark, events>>
    BY <1>8 DEF ClaimRefund, jobVars
  <2>3. total' + payments[m] = total + payments'[m]
    BY <2>1 DEF TypeOK
  <2> QED
    BY <1>0, <2>1, <2>2, <2>3, PaymentMoves
<1>9. ASSUME NEW resolvable, NEW outcome, SeasonEndJob(resolvable, outcome) PROVE TotalIsWhatIsLeft'
  <2>1. payoutStatus' # "pending"
    BY <1>9 DEF SeasonEndJob
  <2> QED
    BY <2>1 DEF TotalIsWhatIsLeft
<1>10. ASSUME NEW points, NEW best, WeeklyJob(points, best) PROVE TotalIsWhatIsLeft'
  <2>1. UNCHANGED <<payoutStatus, payments>>
    BY <1>10 DEF WeeklyJob
  <2>2. ~lostMark' => /\ ~lostMark
                     /\ total' + Owed(events', Done(events')) = total + Owed(events, Executed)
    BY <1>10, WeeklyJobPays
  <2>3. Executed' = Done(events')
    BY DEF Executed, Done
  <2>4. ASSUME payoutStatus' = "pending", ~lostMark'
        PROVE  total' + Owed(events', Executed') = Sum(payments', Members)
    <3>1. total + Owed(events, Executed) = Sum(payments, Members)
      BY <2>1, <2>2, <2>4 DEF TotalIsWhatIsLeft
    <3> QED
      BY <2>1, <2>2, <2>3, <2>4, <3>1
  <2> QED
    BY <2>4 DEF TotalIsWhatIsLeft
<1>11. CASE UNCHANGED budgetVars
  BY <1>1, <1>11 DEF budgetVars, chainVars, jobVars
<1> QED
  BY <1>2, <1>3, <1>4, <1>5, <1>6, <1>7, <1>8, <1>9, <1>10, <1>11 DEF Next

\* The contract's total is a balance sheet of the season: what the members have in it,
\* less the bonuses that are marked as paid.
THEOREM TotalIsAccountedFor == Spec => []TotalIsWhatIsLeft
<1>1. Init => TotalIsWhatIsLeft
  <2> SUFFICES ASSUME Init PROVE total + Owed(events, Executed) = Sum(payments, Members)
    BY DEF TotalIsWhatIsLeft
  <2>1. Executed = {} /\ total = 0
    BY DEF Init, Executed
  <2>2. Owed(events, {}) = 0
    BY SumEmpty DEF Owed
  <2>3. \A m \in Members : payments[m] = 0
    BY DEF Init
  <2>4. Sum(payments, Members) = 0
    BY <2>3, MembersAssumption, SumZero
  <2> QED
    BY <2>1, <2>2, <2>4
<1>2. TypeOK /\ TotalIsWhatIsLeft /\ [Next]_budgetVars => TotalIsWhatIsLeft'
  BY TotalStep
<1> QED
  BY <1>1, <1>2, TypeCorrect, PTL DEF Spec

-----------------------------------------------------------------------------
(* The budget.                                                                *)

\* What everyone has paid, the page's promises and the record of the events, put
\* together: the total covers the bonuses that are still owed and every prize.
LEMMA BalanceCovers ==
  ASSUME TypeOK, TotalIsWhatIsLeft
  PROVE  BudgetHolds
<1> SUFFICES ASSUME Balanced, payoutStatus = "pending"
             PROVE  Owed(events, Outstanding) + Sum(Prizes, DOMAIN Prizes) <= total
  BY DEF BudgetHolds
<1> DEFINE rows == settings.rows
           bonuses == Sum(Announced(rows), RowsOf(rows, "weekly"))
           prizes == Sum(Prizes, DOMAIN Prizes)
           all == Owed(events, DOMAIN events)
           done == Owed(events, Executed)
           open == Owed(events, Outstanding)
           in == Sum(payments, Members)
           due == settings.fee * Cardinality(Members)
<1>1. rows \in Seq(Row) /\ settings.fee \in Nat /\ total \in Nat /\ IsLog(events)
  BY StructuresAssumption DEF TypeOK, IsLog
<1>2. /\ prizes + bonuses <= totalPayout(rows) /\ prizes \in Nat /\ bonuses \in Nat
      /\ totalPayout(rows) \in Nat
  BY <1>1, TotalPayoutCoversPrizes DEF Prizes
<1>3. totalPayout(rows) <= due /\ all <= bonuses /\ ~lostMark
  BY DEF Balanced, EntryPool
<1>4. total + done = in
  BY <1>3 DEF TotalIsWhatIsLeft
<1>5. in >= due /\ in \in Nat
  <2>1. \A m \in Members : payments[m] \in Nat /\ payments[m] >= settings.fee
    BY DEF TypeOK, Balanced
  <2> QED
    BY <1>1, <2>1, MembersAssumption, SumAtLeast, SumType
<1>6. all = done + open /\ done \in Nat /\ open \in Nat /\ all \in Nat
  <2>1. /\ Executed \in SUBSET DOMAIN events /\ Outstanding \in SUBSET DOMAIN events
        /\ Executed \cap Outstanding = {} /\ Executed \cup Outstanding = DOMAIN events
    BY DEF Executed, Outstanding
  <2>2. Owed(events, Executed \cup Outstanding) = done + open
    BY <1>1, <2>1, OwedDisjoint
  <2>3. all = done + open
    BY <2>1, <2>2
  <2>4. done \in Nat /\ open \in Nat
    BY <1>1, <2>1, OwedIsNat
  <2> QED
    BY <2>3, <2>4
<1>7. due \in Nat
  BY <1>1, MembersAssumption, FS_CardinalityType
<1> HIDE DEF rows, bonuses, prizes, all, done, open, in, due
<1>8. open + prizes <= total
  BY <1>1, <1>2, <1>3, <1>4, <1>5, <1>6, <1>7
<1> QED
  BY <1>8 DEF open, prizes

\* A league whose page is in balance can pay all that it owes: every bonus on record
\* that is not executed yet, and every prize of the season.
THEOREM BudgetIsEnough == Spec => []BudgetHolds
<1>1. TypeOK /\ TotalIsWhatIsLeft => BudgetHolds
  BY BalanceCovers
<1> QED
  BY <1>1, TypeCorrect, TotalIsAccountedFor, PTL

=============================================================================
