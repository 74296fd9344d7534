------------------------- MODULE LeagueEscrowProofs -------------------------
(***************************************************************************)
(* What LeagueEscrow promises, for any leagues, accounts and amounts: its  *)
(* books add up.  First the sums themselves: the fold that a book's total  *)
(* is has one value per book, and changes with the book entry by entry.    *)
(***************************************************************************)
EXTENDS LeagueEscrow, FiniteSetTheorems, WellFoundedInduction, TLAPS

\* Of some subsets of a finite set, one is minimal.
LEMMA MinimalSubset ==
  ASSUME NEW S, IsFiniteSet(S), NEW R, R \subseteq SUBSET S, R # {}
  PROVE  \E s \in R : \A r \in R : ~(r \subseteq s /\ r # s)
<1>1. IsWellFoundedOn(StrictSubsetOrdering(S), SUBSET S)
  BY FS_StrictSubsetOrderingWellFounded, FS_FiniteSubsetsOfFinite
<1>2. \E s \in R : \A r \in R : <<r, s>> \notin StrictSubsetOrdering(S)
  BY <1>1, WFMin, Zenon
<1> QED
  BY <1>2 DEF StrictSubsetOrdering

\* A family of subsets that has each set all of whose strict subsets it has.
LEMMA SubsetInduction ==
  ASSUME NEW S, IsFiniteSet(S), NEW T,
         \A s \in SUBSET S : (\A r \in SUBSET s : r # s => r \in T) => s \in T
  PROVE  SUBSET S \subseteq T
<1> DEFINE Rest == (SUBSET S) \ T
<1>1. SUFFICES ASSUME Rest # {} PROVE FALSE
  OBVIOUS
<1>2. PICK s \in Rest : \A r \in Rest : ~(r \subseteq s /\ r # s)
  <2>1. Rest \subseteq SUBSET S
    OBVIOUS
  <2> HIDE DEF Rest
  <2> QED
    BY <1>1, <2>1, MinimalSubset
<1> QED
  BY <1>2

\* A family that has the empty set and is closed under adding an element has every
\* subset of a finite set: induction over subsets, without an operator parameter.
LEMMA FiniteClosure ==
  ASSUME NEW S, IsFiniteSet(S), NEW T, {} \in T,
         \A s \in SUBSET S : \A x \in S \ s : s \in T => s \cup {x} \in T
  PROVE  SUBSET S \subseteq T
<1>1. ASSUME NEW s \in SUBSET S, \A r \in SUBSET s : r # s => r \in T
      PROVE  s \in T
  <2>1. CASE s = {}
    BY <2>1
  <2>2. ASSUME NEW x \in s PROVE s \in T
    <3>1. s \ {x} \in SUBSET S /\ x \in S \ (s \ {x}) /\ (s \ {x}) \cup {x} = s
      OBVIOUS
    <3>2. s \ {x} \in T
      BY <1>1
    <3> QED
      BY <3>1, <3>2
  <2> QED
    BY <2>1, <2>2
<1> QED
  BY <1>1, SubsetInduction

\* What a sum does: nothing on {}, and one summand for each element more.
Additive(f, S, g) ==
  /\ g \in [SUBSET S -> Nat]
  /\ g[{}] = 0
  /\ \A s \in SUBSET S : \A x \in S \ s : g[s \cup {x}] = g[s] + f[x]

\* There is an additive function on the subsets of a finite set.
LEMMA AdditiveExists ==
  ASSUME NEW f, NEW S, IsFiniteSet(S), \A x \in S : f[x] \in Nat
  PROVE  \E g : Additive(f, S, g)
<1> DEFINE T == {X \in SUBSET S : \E g : Additive(f, X, g)}
<1>1. {} \in T
  <2>1. Additive(f, {}, [s \in SUBSET {} |-> 0])
    BY DEF Additive
  <2> QED
    BY <2>1
<1>2. ASSUME NEW X \in SUBSET S, NEW x \in S \ X, X \in T
      PROVE  X \cup {x} \in T
  <2>1. PICK g : Additive(f, X, g)
    BY <1>2
  <2> DEFINE h == [s \in SUBSET (X \cup {x}) |-> IF x \in s THEN g[s \ {x}] + f[x] ELSE g[s]]
  <2>2. \A s \in SUBSET (X \cup {x}) : s \ {x} \in SUBSET X
    OBVIOUS
  <2>3. \A s \in SUBSET (X \cup {x}) : x \notin s => s \in SUBSET X
    OBVIOUS
  <2>4. h \in [SUBSET (X \cup {x}) -> Nat]
    BY <2>1, <2>2, <2>3 DEF Additive
  <2>5. h[{}] = 0
    BY <2>1 DEF Additive
  <2>6. ASSUME NEW s \in SUBSET (X \cup {x}), NEW y \in (X \cup {x}) \ s
        PROVE  h[s \cup {y}] = h[s] + f[y]
    <3>1. s \cup {y} \in SUBSET (X \cup {x})
      OBVIOUS
    <3>2. CASE y = x
      <4>1. (s \cup {y}) \ {x} = s /\ x \notin s
        BY <3>2
      <4> QED
        BY <3>1, <3>2, <4>1
    <3>3. CASE y # x /\ x \in s
      <4>1. (s \cup {y}) \ {x} = (s \ {x}) \cup {y} /\ y \in X \ (s \ {x})
        BY <3>3
      <4>2. g[(s \ {x}) \cup {y}] = g[s \ {x}] + f[y]
        BY <2>1, <2>2, <4>1 DEF Additive
      <4>3. g[s \ {x}] \in Nat /\ f[x] \in Nat /\ f[y] \in Nat
        BY <2>1, <2>2 DEF Additive
      <4>4. h[s \cup {y}] = g[s \ {x}] + f[y] + f[x] /\ h[s] = g[s \ {x}] + f[x]
        BY <3>1, <3>3, <4>1, <4>2
      <4> QED
        BY <4>3, <4>4
    <3>4. CASE y # x /\ x \notin s
      BY <2>1, <2>3, <3>1, <3>4 DEF Additive
    <3> QED
      BY <3>2, <3>3, <3>4
  <2>7. Additive(f, X \cup {x}, h)
    <3> HIDE DEF h
    <3> QED
      BY <2>4, <2>5, <2>6 DEF Additive
  <2> QED
    BY <2>7
<1>3. SUBSET S \subseteq T
  <2> HIDE DEF T
  <2> QED
    BY <1>1, <1>2, FiniteClosure
<1> QED
  BY <1>3

\* The equation of the library's fold.
Unfolds(f, S, g) ==
  g = [s \in SUBSET S |-> IF s = {} THEN 0
                          ELSE LET x == CHOOSE x \in s : TRUE IN f[x] + g[s \ {x}]]

\* An additive function unfolds the way the fold is defined: at any chosen element.
LEMMA AdditiveUnfolds ==
  ASSUME NEW f, NEW S, \A x \in S : f[x] \in Nat, NEW g, Additive(f, S, g)
  PROVE  Unfolds(f, S, g)
<1>1. g = [s \in SUBSET S |-> g[s]] /\ \A s \in SUBSET S : g[s] \in Nat
  BY DEF Additive
<1>2. ASSUME NEW s \in SUBSET S
      PROVE  g[s] = IF s = {} THEN 0 ELSE LET x == CHOOSE x \in s : TRUE IN f[x] + g[s \ {x}]
  <2>1. CASE s = {}
    BY <2>1 DEF Additive
  <2>2. CASE s # {}
    <3> DEFINE x == CHOOSE x \in s : TRUE
    <3>1. x \in s
      BY <2>2
    <3> HIDE DEF x
    <3>2. s \ {x} \in SUBSET S /\ x \in S \ (s \ {x}) /\ (s \ {x}) \cup {x} = s
      BY <3>1
    <3>3. g[s] = g[s \ {x}] + f[x]
      BY <3>2 DEF Additive
    <3>4. g[s \ {x}] \in Nat /\ f[x] \in Nat
      BY <1>1, <3>2
    <3>5. g[s] = f[x] + g[s \ {x}]
      BY <3>3, <3>4
    <3> QED
      BY <2>2, <3>5 DEF x
  <2> QED
    BY <2>1, <2>2
<1> QED
  BY <1>1, <1>2 DEF Unfolds

\* Only one function unfolds that way.
LEMMA UnfoldingIsUnique ==
  ASSUME NEW f, NEW S, IsFiniteSet(S), NEW g, NEW h, Unfolds(f, S, g), Unfolds(f, S, h)
  PROVE  g = h
<1> DEFINE T == {s \in SUBSET S : g[s] = h[s]}
<1>1. ASSUME NEW s \in SUBSET S, \A r \in SUBSET s : r # s => r \in T
      PROVE  s \in T
  <2>1. CASE s = {}
    BY <2>1 DEF Unfolds
  <2>2. CASE s # {}
    <3> DEFINE x == CHOOSE x \in s : TRUE
    <3>1. x \in s
      BY <2>2
    <3>2. g[s] = f[x] + g[s \ {x}] /\ h[s] = f[x] + h[s \ {x}]
      BY <2>2 DEF Unfolds
    <3> HIDE DEF x
    <3>3. s \ {x} \in T
      BY <1>1, <3>1
    <3> QED
      BY <3>2, <3>3
  <2> QED
    BY <2>1, <2>2
<1>2. SUBSET S \subseteq T
  <2> HIDE DEF T
  <2> QED
    BY <1>1, SubsetInduction
<1>3. \A s \in SUBSET S : g[s] = h[s]
  BY <1>2
<1> QED
  BY <1>3 DEF Unfolds

\* So the fold computes the one additive function there is.
LEMMA SumIsAdditive ==
  ASSUME NEW f, NEW S, IsFiniteSet(S), \A x \in S : f[x] \in Nat,
         NEW g, Additive(f, S, g)
  PROVE  Sum(f, S) = g[S]
<1>1. Sum(f, S) = (CHOOSE h : Unfolds(f, S, h))[S]
  BY Zenon DEF Sum, MapThenSumSet, MapThenFoldSet, Unfolds
<1>2. Unfolds(f, S, g)
  BY AdditiveUnfolds
<1>3. \A h : Unfolds(f, S, h) => h = g
  BY <1>2, UnfoldingIsUnique
<1> QED
  BY <1>1, <1>2, <1>3

\* Nothing adds up to zero.
LEMMA SumEmpty ==
  ASSUME NEW f
  PROVE  Sum(f, {}) = 0
<1>1. Additive(f, {}, [s \in SUBSET {} |-> 0])
  BY DEF Additive
<1> QED
  BY <1>1, SumIsAdditive, FS_EmptySet

\* Natural numbers add up to a natural number.
LEMMA SumType ==
  ASSUME NEW f, NEW S, IsFiniteSet(S), \A x \in S : f[x] \in Nat
  PROVE  Sum(f, S) \in Nat
<1>1. PICK g : Additive(f, S, g)
  BY AdditiveExists
<1>2. Sum(f, S) = g[S]
  BY <1>1, SumIsAdditive
<1> QED
  BY <1>1, <1>2 DEF Additive

\* One more element adds its entry.
LEMMA SumAdd ==
  ASSUME NEW f, NEW S, IsFiniteSet(S), NEW x, x \notin S, \A y \in S \cup {x} : f[y] \in Nat
  PROVE  Sum(f, S \cup {x}) = Sum(f, S) + f[x]
<1>1. IsFiniteSet(S \cup {x})
  BY FS_AddElement
<1>2. PICK g : Additive(f, S \cup {x}, g)
  BY <1>1, AdditiveExists
<1>3. Additive(f, S, [s \in SUBSET S |-> g[s]])
  <2>1. \A s \in SUBSET S : s \in SUBSET (S \cup {x})
    OBVIOUS
  <2>2. ASSUME NEW s \in SUBSET S, NEW y \in S \ s PROVE g[s \cup {y}] = g[s] + f[y]
    BY <1>2 DEF Additive
  <2> QED
    BY <1>2, <2>1, <2>2 DEF Additive
<1>4. Sum(f, S) = g[S]
  BY <1>3, SumIsAdditive
<1>5. Sum(f, S \cup {x}) = g[S \cup {x}]
  BY <1>1, <1>2, SumIsAdditive
<1>6. g[S \cup {x}] = g[S] + f[x]
  BY <1>2 DEF Additive
<1> QED
  BY <1>4, <1>5, <1>6

\* One element less takes its entry away.
LEMMA SumRemove ==
  ASSUME NEW f, NEW S, IsFiniteSet(S), NEW x \in S, \A y \in S : f[y] \in Nat
  PROVE  /\ Sum(f, S) = Sum(f, S \ {x}) + f[x]
         /\ Sum(f, S \ {x}) \in Nat
<1>1. IsFiniteSet(S \ {x}) /\ (S \ {x}) \cup {x} = S
  BY FS_RemoveElement
<1>2. Sum(f, S \ {x}) \in Nat
  BY <1>1, SumType
<1>3. Sum(f, (S \ {x}) \cup {x}) = Sum(f, S \ {x}) + f[x]
  BY <1>1, SumAdd
<1> QED
  BY <1>1, <1>2, <1>3

\* No entry is more than the sum.
LEMMA SumMember ==
  ASSUME NEW f, NEW S, IsFiniteSet(S), NEW x \in S, \A y \in S : f[y] \in Nat
  PROVE  f[x] <= Sum(f, S) /\ Sum(f, S) \in Nat
<1>1. Sum(f, S) = Sum(f, S \ {x}) + f[x] /\ Sum(f, S \ {x}) \in Nat
  BY SumRemove
<1> QED
  BY <1>1

\* Two books with the same entries have the same sum.
LEMMA SumSame ==
  ASSUME NEW f, NEW g, NEW S, IsFiniteSet(S),
         \A x \in S : f[x] \in Nat /\ g[x] = f[x]
  PROVE  Sum(g, S) = Sum(f, S)
<1> DEFINE T == {s \in SUBSET S : Sum(g, s) = Sum(f, s)}
<1>1. {} \in T
  BY SumEmpty
<1>2. ASSUME NEW s \in SUBSET S, NEW x \in S \ s, s \in T
      PROVE  s \cup {x} \in T
  <2>1. IsFiniteSet(s)
    BY FS_Subset
  <2>2. /\ Sum(f, s \cup {x}) = Sum(f, s) + f[x]
        /\ Sum(g, s \cup {x}) = Sum(g, s) + g[x]
    BY <2>1, SumAdd
  <2> QED
    BY <1>2, <2>2
<1>3. SUBSET S \subseteq T
  <2> HIDE DEF T
  <2> QED
    BY <1>1, <1>2, FiniteClosure
<1> QED
  BY <1>3

\* A book of zeros adds up to zero.
LEMMA SumZero ==
  ASSUME NEW f, NEW S, IsFiniteSet(S), \A x \in S : f[x] = 0
  PROVE  Sum(f, S) = 0
<1>1. Additive(f, S, [s \in SUBSET S |-> 0])
  BY DEF Additive
<1> QED
  BY <1>1, SumIsAdditive

\* A book of which one entry changes.
LEMMA SumExcept ==
  ASSUME NEW f, NEW g, NEW S, IsFiniteSet(S), NEW x \in S,
         \A y \in S : f[y] \in Nat /\ g[y] \in Nat /\ (y # x => g[y] = f[y])
  PROVE  Sum(g, S) + f[x] = Sum(f, S) + g[x]
<1>1. IsFiniteSet(S \ {x})
  BY FS_RemoveElement
<1>2. Sum(g, S \ {x}) = Sum(f, S \ {x})
  BY <1>1, SumSame
<1>3. Sum(f, S) = Sum(f, S \ {x}) + f[x] /\ Sum(g, S) = Sum(g, S \ {x}) + g[x]
  BY SumRemove
<1>4. Sum(f, S \ {x}) \in Nat
  BY SumRemove
<1> QED
  BY <1>2, <1>3, <1>4

\* Two sets of entries that have none in common.
LEMMA SumDisjoint ==
  ASSUME NEW f, NEW S, IsFiniteSet(S), NEW R, IsFiniteSet(R), S \cap R = {},
         \A x \in S \cup R : f[x] \in Nat
  PROVE  Sum(f, S \cup R) = Sum(f, S) + Sum(f, R)
<1> DEFINE T == {r \in SUBSET R : Sum(f, S \cup r) = Sum(f, S) + Sum(f, r)}
<1>1. {} \in T
  <2>1. S \cup {} = S /\ Sum(f, {}) = 0 /\ Sum(f, S) \in Nat
    BY SumEmpty, SumType
  <2> QED
    BY <2>1
<1>2. ASSUME NEW r \in SUBSET R, NEW x \in R \ r, r \in T
      PROVE  r \cup {x} \in T
  <2>1. IsFiniteSet(r) /\ IsFiniteSet(S \cup r)
    BY FS_Subset, FS_Union
  <2>2. S \cup (r \cup {x}) = (S \cup r) \cup {x} /\ x \notin S \cup r
    OBVIOUS
  <2>3. Sum(f, (S \cup r) \cup {x}) = Sum(f, S \cup r) + f[x]
    BY <2>1, <2>2, SumAdd
  <2>4. Sum(f, r \cup {x}) = Sum(f, r) + f[x]
    BY <2>1, SumAdd
  <2>5. Sum(f, S) \in Nat /\ Sum(f, r) \in Nat /\ f[x] \in Nat
    BY <2>1, SumType
  <2>6. Sum(f, S \cup r) = Sum(f, S) + Sum(f, r)
    BY <1>2
  <2>7. Sum(f, S \cup (r \cup {x})) = Sum(f, S) + Sum(f, r \cup {x})
    <3>1. Sum(f, S \cup (r \cup {x})) = Sum(f, (S \cup r) \cup {x})
      BY <2>2, Zenon
    <3> QED
      BY <2>3, <2>4, <2>5, <2>6, <3>1
  <2> QED
    BY <2>7
<1>3. SUBSET R \subseteq T
  <2> HIDE DEF T
  <2>1. \A r \in SUBSET R : \A x \in R \ r : r \in T => r \cup {x} \in T
    BY <1>2
  <2> QED
    BY ONLY <1>1, <2>1, IsFiniteSet(R), FiniteClosure
<1> QED
  BY <1>3

\* Two books added up entry by entry.
LEMMA SumPlus ==
  ASSUME NEW f, NEW g, NEW h, NEW S, IsFiniteSet(S),
         \A x \in S : f[x] \in Nat /\ g[x] \in Nat /\ h[x] = f[x] + g[x]
  PROVE  Sum(h, S) = Sum(f, S) + Sum(g, S)
<1> DEFINE T == {s \in SUBSET S : Sum(h, s) = Sum(f, s) + Sum(g, s)}
<1>1. {} \in T
  BY SumEmpty
<1>2. ASSUME NEW s \in SUBSET S, NEW x \in S \ s, s \in T
      PROVE  s \cup {x} \in T
  <2>1. IsFiniteSet(s) /\ \A y \in S : h[y] \in Nat
    BY FS_Subset
  <2>2. Sum(f, s \cup {x}) = Sum(f, s) + f[x] /\ Sum(f, s) \in Nat
    BY <2>1, SumAdd, SumType
  <2>3. Sum(g, s \cup {x}) = Sum(g, s) + g[x] /\ Sum(g, s) \in Nat
    BY <2>1, SumAdd, SumType
  <2>4. Sum(h, s \cup {x}) = Sum(h, s) + h[x]
    BY <2>1, SumAdd
  <2> QED
    BY <1>2, <2>2, <2>3, <2>4
<1>3. SUBSET S \subseteq T
  <2> HIDE DEF T
  <2> QED
    BY <1>1, <1>2, FiniteClosure
<1> QED
  BY <1>3

\* The entries with one key.
Group(I, key, a) == {i \in I : key[i] = a}

\* A book grouped by a key of its entries: the groups together have what the book has.
LEMMA SumByKey ==
  ASSUME NEW f, NEW I, IsFiniteSet(I), NEW A, IsFiniteSet(A), NEW key \in [I -> A], NEW g,
         \A i \in I : f[i] \in Nat, \A a \in A : g[a] = Sum(f, Group(I, key, a))
  PROVE  Sum(g, A) = Sum(f, I)
<1> DEFINE In(B) == {i \in I : key[i] \in B}
           T == {B \in SUBSET A : Sum(g, B) = Sum(f, In(B))}
<1>0. \A a \in A : g[a] = Sum(f, Group(I, key, a)) /\ g[a] \in Nat
  <2> SUFFICES ASSUME NEW a \in A PROVE Sum(f, Group(I, key, a)) \in Nat
    OBVIOUS
  <2>1. IsFiniteSet(Group(I, key, a)) /\ \A i \in Group(I, key, a) : f[i] \in Nat
    BY FS_Subset DEF Group
  <2> QED
    BY <2>1, SumType
<1>1. {} \in T
  <2>1. In({}) = {}
    OBVIOUS
  <2> QED
    BY <2>1, SumEmpty
<1>2. ASSUME NEW B \in SUBSET A, NEW a \in A \ B, B \in T
      PROVE  B \cup {a} \in T
  <2>1. In(B \cup {a}) = In(B) \cup Group(I, key, a) /\ In(B) \cap Group(I, key, a) = {}
    BY DEF Group
  <2>2. /\ IsFiniteSet(In(B)) /\ IsFiniteSet(Group(I, key, a)) /\ IsFiniteSet(B)
        /\ \A i \in In(B) \cup Group(I, key, a) : f[i] \in Nat
    BY FS_Subset DEF Group
  <2>3. Sum(g, B) = Sum(f, In(B))
    BY <1>2
  <2> HIDE DEF In
  <2>4. Sum(f, In(B) \cup Group(I, key, a)) = Sum(f, In(B)) + Sum(f, Group(I, key, a))
    BY <2>1, <2>2, SumDisjoint
  <2>5. Sum(g, B \cup {a}) = Sum(g, B) + g[a]
    BY <1>0, <2>2, SumAdd
  <2>6. Sum(g, B \cup {a}) = Sum(f, In(B \cup {a}))
    BY <1>0, <2>1, <2>3, <2>4, <2>5
  <2> QED
    BY <2>6 DEF In
<1>3. SUBSET A \subseteq T
  <2> HIDE DEF T
  <2>1. \A B \in SUBSET A : \A a \in A \ B : B \in T => B \cup {a} \in T
    BY <1>2
  <2> QED
    BY ONLY <1>1, <2>1, IsFiniteSet(A), FiniteClosure
<1>4. In(A) = I
  OBVIOUS
<1> QED
  BY <1>3, <1>4

-----------------------------------------------------------------------------
(* Types.  What a payout list costs, and what it gives one account, is a      *)
(* natural number.                                                            *)

\* What a payout list costs, and what one account gets of it.
LEMMA PayoutsAreNat ==
  ASSUME NEW payouts \in Payouts
  PROVE  PayoutTotal(payouts) \in Nat /\ \A a \in Accounts : PaidTo(a, payouts) \in Nat
<1> DEFINE f == AmountsOf(payouts)
<1>1. PICK n \in 0..MaxPayouts : payouts \in [1..n -> [to : Accounts, amount : Amounts]]
  BY DEF Payouts, BoundedSeq, SeqOf
<1>2. DOMAIN f = 1..n /\ \A i \in 1..n : f[i] \in Nat
  BY <1>1, FundsAssumption DEF AmountsOf, Amounts
<1>3. IsFiniteSet(1..n)
  BY FS_Interval
<1>4. PayoutTotal(payouts) \in Nat
  BY <1>2, <1>3, SumType DEF PayoutTotal, Total
<1>5. ASSUME NEW a \in Accounts PROVE PaidTo(a, payouts) \in Nat
  <2> DEFINE I == {i \in DOMAIN payouts : payouts[i].to = a}
  <2>1. I \in SUBSET (1..n)
    BY <1>1
  <2>2. IsFiniteSet(I) /\ \A i \in I : f[i] \in Nat
    BY <1>2, <1>3, <2>1, FS_Subset
  <2>3. Sum(f, I) \in Nat
    <3> HIDE DEF f, I
    <3> QED
      BY <2>2, SumType
  <2> QED
    BY <2>3 DEF PaidTo
<1> QED
  BY <1>4, <1>5

\* The types, action by action.
LEMMA TypeStep ==
  ASSUME TypeOK, [Next]_escrowVars
  PROVE  TypeOK'
<1> USE DEF TypeOK
<1>1. ASSUME NEW l \in Leagues, NEW a \in Accounts, ClaimRefund(l, a) PROVE TypeOK'
  <2>1. payments[l][a] \in Nat /\ leagueTotals[l] - payments[l][a] \in Nat
        /\ pot - payments[l][a] \in Nat /\ wallet[a] + payments[l][a] \in Nat
    BY <1>1 DEF ClaimRefund
  <2> QED
    BY <1>1, <2>1 DEF ClaimRefund
<1>2. ASSUME NEW l \in Leagues, NEW a \in Accounts, NEW n \in Amounts, PayEntryFee(l, a, n)
      PROVE  TypeOK'
  <2>1. n \in Nat /\ wallet[a] - n \in Nat
    BY <1>2, FundsAssumption DEF PayEntryFee, Amounts
  <2> QED
    BY <1>2, <2>1 DEF PayEntryFee
<1>3. ASSUME NEW l \in Leagues, NEW payouts \in Payouts, DistributePayout(l, payouts)
      PROVE  TypeOK'
  <2> DEFINE total == PayoutTotal(payouts)
  <2>1. total \in Nat /\ \A a \in Accounts : PaidTo(a, payouts) \in Nat
    BY PayoutsAreNat
  <2>2. leagueTotals[l] - total \in Nat /\ pot - total \in Nat
        /\ distributed[l] + total \in Nat
    BY <1>3, <2>1 DEF DistributePayout
  <2>3. leagueTotals' \in [Leagues -> Nat] /\ pot' \in Nat /\ distributed' \in [Leagues -> Nat]
    BY <1>3, <2>2 DEF DistributePayout
  <2>4. wallet' \in [Accounts -> Nat]
    BY <1>3, <2>1 DEF DistributePayout
  <2> QED
    BY <1>3, <2>3, <2>4 DEF DistributePayout
<1>4. ASSUME NEW n \in Amounts, EmergencyWithdraw(n) PROVE TypeOK'
  BY <1>4, FundsAssumption DEF EmergencyWithdraw, Amounts, bookVars
<1>5. CASE UNCHANGED escrowVars
  BY <1>5 DEF escrowVars, bookVars, tokenVars
<1> QED
  BY <1>1, <1>2, <1>3, <1>4, <1>5 DEF Next

\* No call leaves a book, a wallet or the pot below zero: the contract's checked
\* subtractions never wrap, whatever the leagues and the members do.
THEOREM TypeCorrect == Spec => []TypeOK
<1>1. Init => TypeOK
  BY FundsAssumption DEF Init, TypeOK
<1>2. TypeOK /\ [Next]_escrowVars => TypeOK'
  BY TypeStep
<1> QED
  BY <1>1, <1>2, PTL DEF Spec

-----------------------------------------------------------------------------
(* The books.  A call changes one entry of the league's totals, and at most   *)
(* one entry of the league's payments.                                        *)

\* The total of a book of which one entry changes.
LEMMA TotalExcept ==
  ASSUME NEW S, IsFiniteSet(S), NEW book \in [S -> Nat], NEW next \in [S -> Nat], NEW x \in S,
         \A y \in S : y # x => next[y] = book[y]
  PROVE  /\ Total(next) + book[x] = Total(book) + next[x]
         /\ Total(book) \in Nat /\ Total(next) \in Nat
<1>1. Total(next) = Sum(next, S) /\ Total(book) = Sum(book, S)
  BY DEF Total
<1>2. Sum(next, S) \in Nat /\ Sum(book, S) \in Nat
  BY SumType
<1>3. Sum(next, S) + book[x] = Sum(book, S) + next[x]
  BY SumExcept
<1> QED
  BY <1>1, <1>2, <1>3

\* All that the books say of the pot and of each other: inductive, given the types.
Books == PotBacksEveryLeague /\ TotalsAreNetOfPayouts

\* Empty books add up.
LEMMA BooksAtFirst ==
  ASSUME Init
  PROVE  Books
<1>1. Total(leagueTotals) = 0
  BY IdsAssumption, SumZero DEF Init, Total
<1>2. ASSUME NEW l \in Leagues PROVE Total(payments[l]) = 0
  <2> DEFINE book == [a \in Accounts |-> 0]
  <2>1. Sum(book, Accounts) = 0
    BY IdsAssumption, SumZero
  <2> QED
    BY <2>1 DEF Init, Total
<1> QED
  BY <1>1, <1>2 DEF Init, Books, PotBacksEveryLeague, TotalsAreNetOfPayouts

\* A call that moves some of league l's money into or out of the pot, and into or out
\* of what member a has paid for l.
LEMMA EntryMoves ==
  ASSUME TypeOK, TypeOK', Books, NEW l \in Leagues, NEW a \in Accounts,
         \A k \in Leagues : k # l => leagueTotals'[k] = leagueTotals[k] /\ payments'[k] = payments[k],
         \A b \in Accounts : b # a => payments'[l][b] = payments[l][b],
         leagueTotals'[l] + payments[l][a] = leagueTotals[l] + payments'[l][a],
         pot' + payments[l][a] = pot + payments'[l][a],
         UNCHANGED <<distributed, withdrawn>>
  PROVE  Books'
<1>1. /\ Total(leagueTotals') + leagueTotals[l] = Total(leagueTotals) + leagueTotals'[l]
      /\ Total(leagueTotals) \in Nat /\ Total(leagueTotals') \in Nat
  <2>1. leagueTotals \in [Leagues -> Nat] /\ leagueTotals' \in [Leagues -> Nat]
    BY DEF TypeOK
  <2>2. \A k \in Leagues : k # l => leagueTotals'[k] = leagueTotals[k]
    OBVIOUS
  <2> QED
    BY <2>1, <2>2, IdsAssumption, TotalExcept
<1>2. /\ Total(payments'[l]) + payments[l][a] = Total(payments[l]) + payments'[l][a]
      /\ Total(payments[l]) \in Nat /\ Total(payments'[l]) \in Nat
  <2>1. payments[l] \in [Accounts -> Nat] /\ payments'[l] \in [Accounts -> Nat]
    BY DEF TypeOK
  <2> QED
    BY <2>1, IdsAssumption, TotalExcept
<1>3. /\ payments[l][a] \in Nat /\ payments'[l][a] \in Nat
      /\ leagueTotals[l] \in Nat /\ leagueTotals'[l] \in Nat
      /\ distributed[l] \in Nat /\ pot \in Nat /\ pot' \in Nat /\ withdrawn \in Nat
  BY DEF TypeOK
<1>4. PotBacksEveryLeague'
  <2>1. pot + withdrawn = Total(leagueTotals)
    BY DEF Books, PotBacksEveryLeague
  <2>2. pot' + withdrawn' = Total(leagueTotals')
    BY <1>1, <1>3, <2>1
  <2> QED
    BY <2>2 DEF PotBacksEveryLeague
<1>5. ASSUME NEW k \in Leagues
      PROVE  leagueTotals'[k] + distributed'[k] = Total(payments'[k])
  <2>1. leagueTotals[k] + distributed[k] = Total(payments[k])
    BY DEF Books, TotalsAreNetOfPayouts
  <2>2. CASE k = l
    <3>1. leagueTotals[l] + distributed[l] = Total(payments[l])
      BY <2>1, <2>2
    <3>2. leagueTotals'[l] + distributed[l] = Total(payments'[l])
      BY <1>2, <1>3, <3>1
    <3> QED
      BY <2>2, <3>2
  <2>3. CASE k # l
    BY <2>1, <2>3
  <2> QED
    BY <2>2, <2>3
<1> QED
  BY <1>4, <1>5 DEF Books, TotalsAreNetOfPayouts

\* The books, call by call.
LEMMA BooksStep ==
  ASSUME TypeOK, Books, [Next]_escrowVars
  PROVE  Books'
<1>0. TypeOK'
  BY TypeStep
<1>2. ASSUME NEW l \in Leagues, NEW a \in Accounts, ClaimRefund(l, a) PROVE Books'
  <2>1. payments'[l][a] = 0 /\ leagueTotals'[l] = leagueTotals[l] - payments[l][a]
        /\ pot' = pot - payments[l][a]
    BY <1>2 DEF ClaimRefund, TypeOK
  <2>2. \A k \in Leagues : k # l => leagueTotals'[k] = leagueTotals[k] /\ payments'[k] = payments[k]
    BY <1>2 DEF ClaimRefund, TypeOK
  <2>3. \A b \in Accounts : b # a => payments'[l][b] = payments[l][b]
    BY <1>2 DEF ClaimRefund, TypeOK
  <2>4. UNCHANGED <<distributed, withdrawn>>
    BY <1>2 DEF ClaimRefund, TypeOK
  <2>5. leagueTotals'[l] + payments[l][a] = leagueTotals[l] + payments'[l][a]
        /\ pot' + payments[l][a] = pot + payments'[l][a]
    BY <2>1 DEF TypeOK
  <2> QED
    BY <1>0, <2>2, <2>3, <2>4, <2>5, EntryMoves
<1>3. ASSUME NEW l \in Leagues, NEW a \in Accounts, NEW n \in Amounts, PayEntryFee(l, a, n)
      PROVE  Books'
  <2>0. n \in Nat
    BY FundsAssumption DEF Amounts
  <2>1. payments'[l][a] = payments[l][a] + n /\ leagueTotals'[l] = leagueTotals[l] + n
        /\ pot' = pot + n
    BY <1>3 DEF PayEntryFee, TypeOK
  <2>2. \A k \in Leagues : k # l => leagueTotals'[k] = leagueTotals[k] /\ payments'[k] = payments[k]
    BY <1>3 DEF PayEntryFee, TypeOK
  <2>3. \A b \in Accounts : b # a => payments'[l][b] = payments[l][b]
    BY <1>3 DEF PayEntryFee, TypeOK
  <2>4. UNCHANGED <<distributed, withdrawn>>
    BY <1>3 DEF PayEntryFee, TypeOK
  <2>5. leagueTotals'[l] + payments[l][a] = leagueTotals[l] + payments'[l][a]
        /\ pot' + payments[l][a] = pot + payments'[l][a]
    BY <2>0, <2>1 DEF TypeOK
  <2> QED
    BY <1>0, <2>2, <2>3, <2>4, <2>5, EntryMoves
<1>4. ASSUME NEW l \in Leagues, NEW payouts \in Payouts, DistributePayout(l, payouts)
      PROVE  Books'
  <2> DEFINE total == PayoutTotal(payouts)
  <2>1. total \in Nat
    BY PayoutsAreNat
  <2>2. /\ leagueTotals' = [leagueTotals EXCEPT ![l] = @ - total]
        /\ distributed' = [distributed EXCEPT ![l] = @ + total]
        /\ pot' = pot - total
        /\ UNCHANGED <<payments, withdrawn>>
    BY <1>4 DEF DistributePayout
  <2> HIDE DEF total
  <2>3. /\ Total(leagueTotals') + leagueTotals[l] = Total(leagueTotals) + leagueTotals'[l]
        /\ Total(leagueTotals) \in Nat /\ Total(leagueTotals') \in Nat
    <3>1. leagueTotals \in [Leagues -> Nat] /\ leagueTotals' \in [Leagues -> Nat]
      BY <1>0 DEF TypeOK
    <3>2. \A k \in Leagues : k # l => leagueTotals'[k] = leagueTotals[k]
      BY <2>2 DEF TypeOK
    <3> QED
      BY <3>1, <3>2, IdsAssumption, TotalExcept
  <2>4. PotBacksEveryLeague'
    <3>1. pot + withdrawn = Total(leagueTotals)
      BY DEF Books, PotBacksEveryLeague
    <3>2. leagueTotals'[l] = leagueTotals[l] - total
      BY <2>2 DEF TypeOK
    <3>3. leagueTotals[l] \in Nat /\ pot \in Nat /\ withdrawn \in Nat
      BY DEF TypeOK
    <3>4. (pot - total) + withdrawn = Total(leagueTotals')
      BY <2>1, <2>3, <3>1, <3>2, <3>3
    <3> QED
      BY <2>2, <3>4 DEF PotBacksEveryLeague
  <2>5. TotalsAreNetOfPayouts'
    <3>1. ASSUME NEW k \in Leagues
          PROVE  leagueTotals'[k] + distributed'[k] = leagueTotals[k] + distributed[k]
      BY <2>1, <2>2 DEF TypeOK
    <3> QED
      BY <2>2, <3>1 DEF Books, TotalsAreNetOfPayouts
  <2> QED
    BY <2>4, <2>5 DEF Books
<1>5. ASSUME NEW n \in Amounts, EmergencyWithdraw(n) PROVE Books'
  <2>1. n \in Nat
    BY FundsAssumption DEF Amounts
  <2>2. pot' + withdrawn' = pot + withdrawn
    BY <1>5, <2>1 DEF EmergencyWithdraw, TypeOK
  <2> QED
    BY <1>5, <2>2
    DEF Books, PotBacksEveryLeague, TotalsAreNetOfPayouts, EmergencyWithdraw, bookVars
<1>6. CASE UNCHANGED escrowVars
  BY <1>6 DEF Books, PotBacksEveryLeague, TotalsAreNetOfPayouts, escrowVars, bookVars, tokenVars
<1> QED
  BY <1>2, <1>3, <1>4, <1>5, <1>6 DEF Next

\* Every call enters what it moves in each of the contract's books: together they are
\* the invariant from which the next three follow.
THEOREM BooksAddUp == Spec => []Books
<1>1. Init => Books
  BY BooksAtFirst
<1>2. TypeOK /\ Books /\ [Next]_escrowVars => Books'
  BY BooksStep
<1> QED
  BY <1>1, <1>2, TypeCorrect, PTL DEF Spec

\* One pot holds the money of all leagues, and not a cent of it is unaccounted for:
\* what the contract's leagueTotals add up to is there, less what the owner took.
THEOREM PotIsBacked == Spec => []PotBacksEveryLeague
<1>1. Books => PotBacksEveryLeague
  BY DEF Books
<1> QED
  BY <1>1, BooksAddUp, PTL

\* The two books agree, league by league, once the payouts are counted.
THEOREM TotalsAreNet == Spec => []TotalsAreNetOfPayouts
<1>1. Books => TotalsAreNetOfPayouts
  BY DEF Books
<1> QED
  BY <1>1, BooksAddUp, PTL

\* A member of a league that was not paid out gets the entry fee back, however many
\* other leagues were paid out of the same pot.
THEOREM RefundsCanBePaid == Spec => []RefundsAreCovered
<1>1. TypeOK /\ Books => RefundsAreCovered
  <2> SUFFICES ASSUME TypeOK, Books, NEW l \in Leagues, NEW a \in Accounts,
                      distributed[l] = 0, withdrawn = 0
               PROVE  payments[l][a] <= leagueTotals[l] /\ payments[l][a] <= pot
    BY DEF RefundsAreCovered
  <2> USE IdsAssumption DEF TypeOK
  <2>1. payments[l][a] <= Total(payments[l]) /\ Total(payments[l]) \in Nat
    BY SumMember DEF Total
  <2>2. leagueTotals[l] <= Total(leagueTotals) /\ Total(leagueTotals) \in Nat
    BY SumMember DEF Total
  <2>3. leagueTotals[l] = Total(payments[l]) /\ pot = Total(leagueTotals)
    BY DEF Books, PotBacksEveryLeague, TotalsAreNetOfPayouts
  <2> QED
    BY <2>1, <2>2, <2>3
<1> QED
  BY <1>1, BooksAddUp, TypeCorrect, PTL

-----------------------------------------------------------------------------
(* The money.                                                                 *)

\* What the accounts hold, what the contract holds and what its owner took make up
\* what there was at first.
MoneyIsConserved == Total(wallet) + pot + withdrawn = Total([a \in Accounts |-> Funds])

\* A payout list gives its recipients, however often one is on it, what it costs.
LEMMA PayoutReachesRecipients ==
  ASSUME NEW payouts \in Payouts
  PROVE  Sum([a \in Accounts |-> PaidTo(a, payouts)], Accounts) = PayoutTotal(payouts)
<1> DEFINE f == AmountsOf(payouts)
           key == [i \in DOMAIN payouts |-> payouts[i].to]
           won == [a \in Accounts |-> PaidTo(a, payouts)]
<1>1. PICK n \in 0..MaxPayouts : payouts \in [1..n -> [to : Accounts, amount : Amounts]]
  BY DEF Payouts, BoundedSeq, SeqOf
<1>2. DOMAIN payouts = 1..n /\ DOMAIN f = 1..n /\ \A i \in 1..n : f[i] \in Nat
  BY <1>1, FundsAssumption DEF AmountsOf, Amounts
<1>3. IsFiniteSet(1..n) /\ key \in [1..n -> Accounts]
  BY <1>1, FS_Interval
<1>4. \A a \in Accounts : won[a] = Sum(f, Group(1..n, key, a))
  <2> SUFFICES ASSUME NEW a \in Accounts
               PROVE  {i \in DOMAIN payouts : payouts[i].to = a} = Group(1..n, key, a)
    BY DEF PaidTo
  <2> QED
    BY <1>2 DEF Group
<1>5. PayoutTotal(payouts) = Sum(f, 1..n)
  BY <1>2 DEF PayoutTotal, Total
<1> HIDE DEF won, f, key
<1>6. Sum(won, Accounts) = Sum(f, 1..n)
  <2>1. IsFiniteSet(1..n) /\ key \in [1..n -> Accounts] /\ \A i \in 1..n : f[i] \in Nat
    BY <1>2, <1>3
  <2>2. IsFiniteSet(Accounts)
    BY IdsAssumption
  <2> QED
    BY ONLY <1>4, <2>1, <2>2, SumByKey
<1> QED
  BY <1>5, <1>6 DEF won

\* The money, call by call.
LEMMA MoneyStep ==
  ASSUME TypeOK, MoneyIsConserved, [Next]_escrowVars
  PROVE  MoneyIsConserved'
<1> DEFINE all == Total([a \in Accounts |-> Funds])
<1>0. TypeOK'
  BY TypeStep
<1>1. /\ wallet \in [Accounts -> Nat] /\ wallet' \in [Accounts -> Nat]
      /\ pot \in Nat /\ withdrawn \in Nat /\ Total(wallet) + pot + withdrawn = all
  BY <1>0 DEF TypeOK, MoneyIsConserved
<1> HIDE DEF all
<1> SUFFICES Total(wallet') + pot' + withdrawn' = all
  BY DEF MoneyIsConserved, all
\* One account and the pot.
<1>2. ASSUME NEW a \in Accounts, \A b \in Accounts : b # a => wallet'[b] = wallet[b],
             NEW n \in Nat, NEW k \in Nat, wallet'[a] = wallet[a] + k - n,
             pot' = pot + n - k, withdrawn' = withdrawn
      PROVE  Total(wallet') + pot' + withdrawn' = all
  <2>1. /\ Total(wallet') + wallet[a] = Total(wallet) + wallet'[a]
        /\ Total(wallet) \in Nat /\ Total(wallet') \in Nat
    BY <1>1, <1>2, IdsAssumption, TotalExcept
  <2>2. wallet[a] \in Nat /\ wallet'[a] \in Nat
    BY <1>1
  <2>3. Total(wallet') = Total(wallet) + k - n
    <3>1. wallet'[a] = wallet[a] + k - n /\ n \in Nat /\ k \in Nat
      BY <1>2
    <3>2. Total(wallet') = Total(wallet) + wallet'[a] - wallet[a]
      BY ONLY <2>1, <2>2
    <3> QED
      BY ONLY <2>1, <2>2, <3>1, <3>2
  <2> QED
    BY <1>1, <1>2, <2>1, <2>3
<1>3. ASSUME NEW l \in Leagues, NEW a \in Accounts, ClaimRefund(l, a)
      PROVE  Total(wallet') + pot' + withdrawn' = all
  <2> DEFINE n == payments[l][a]
  <2>1. n \in Nat /\ wallet'[a] = wallet[a] + n /\ pot' = pot - n /\ withdrawn' = withdrawn
    BY <1>3 DEF ClaimRefund, TypeOK
  <2>2. \A b \in Accounts : b # a => wallet'[b] = wallet[b]
    BY <1>3 DEF ClaimRefund, TypeOK
  <2> HIDE DEF n
  <2>3. wallet'[a] = wallet[a] + n - 0 /\ pot' = pot + 0 - n
    BY <1>1, <2>1
  <2> QED
    BY <1>2, <2>1, <2>2, <2>3
<1>4. ASSUME NEW l \in Leagues, NEW a \in Accounts, NEW n \in Amounts, PayEntryFee(l, a, n)
      PROVE  Total(wallet') + pot' + withdrawn' = all
  <2>1. n \in Nat /\ wallet'[a] = wallet[a] - n /\ pot' = pot + n /\ withdrawn' = withdrawn
    BY <1>4, FundsAssumption DEF PayEntryFee, TypeOK, Amounts
  <2>2. \A b \in Accounts : b # a => wallet'[b] = wallet[b]
    BY <1>4 DEF PayEntryFee, TypeOK
  <2>3. wallet'[a] = wallet[a] + 0 - n /\ pot' = pot + n - 0
    BY <1>1, <2>1
  <2> QED
    BY <1>2, <2>1, <2>2, <2>3
<1>5. ASSUME NEW l \in Leagues, NEW payouts \in Payouts, DistributePayout(l, payouts)
      PROVE  Total(wallet') + pot' + withdrawn' = all
  <2> DEFINE won == [a \in Accounts |-> PaidTo(a, payouts)]
             cost == PayoutTotal(payouts)
  <2>1. cost \in Nat /\ \A a \in Accounts : won[a] \in Nat
    BY PayoutsAreNat
  <2>2. /\ \A a \in Accounts : wallet'[a] = wallet[a] + won[a]
        /\ pot' = pot - cost /\ withdrawn' = withdrawn
    BY <1>5 DEF DistributePayout
  <2>3. Sum(won, Accounts) = cost
    BY PayoutReachesRecipients
  <2> HIDE DEF won, cost
  <2>4. Sum(wallet', Accounts) = Sum(wallet, Accounts) + Sum(won, Accounts)
    BY <1>1, <2>1, <2>2, IdsAssumption, SumPlus
  <2>5. Sum(wallet, Accounts) \in Nat
    BY <1>1, IdsAssumption, SumType
  <2>6. Total(wallet) = Sum(wallet, Accounts) /\ Total(wallet') = Sum(wallet', Accounts)
    BY <1>1 DEF Total
  <2> QED
    BY <1>1, <2>1, <2>2, <2>3, <2>4, <2>5, <2>6
<1>6. ASSUME NEW n \in Amounts, EmergencyWithdraw(n)
      PROVE  Total(wallet') + pot' + withdrawn' = all
  <2>1. n \in Nat /\ pot' = pot - n /\ withdrawn' = withdrawn + n /\ wallet' = wallet
    BY <1>6, FundsAssumption DEF EmergencyWithdraw, Amounts
  <2>2. Total(wallet) \in Nat
    BY <1>1, IdsAssumption, SumType DEF Total
  <2> QED
    BY <1>1, <2>1, <2>2
<1>7. CASE UNCHANGED escrowVars
  BY <1>1, <1>7 DEF escrowVars, tokenVars
<1> QED
  BY <1>3, <1>4, <1>5, <1>6, <1>7 DEF Next

\* No call makes or loses money: a refund returns, and a payout list hands out, exactly
\* what leaves the pot, also when one account is on the list twice.
THEOREM NoMoneyIsMade == Spec => []MoneyIsConserved
<1>1. Init => MoneyIsConserved
  <2> SUFFICES ASSUME Init PROVE MoneyIsConserved
    OBVIOUS
  <2>1. wallet = [a \in Accounts |-> Funds] /\ pot = 0 /\ withdrawn = 0
    BY DEF Init
  <2>2. Total(wallet) \in Nat
    BY <2>1, FundsAssumption, IdsAssumption, SumType DEF Total
  <2> QED
    BY <2>1, <2>2 DEF MoneyIsConserved
<1>2. TypeOK /\ MoneyIsConserved /\ [Next]_escrowVars => MoneyIsConserved'
  BY MoneyStep
<1> QED
  BY <1>1, <1>2, TypeCorrect, PTL DEF Spec

=============================================================================
