----------------------------- MODULE FiniteSums -----------------------------
(***************************************************************************)
(* What sums over finite sets are, for the counters of this project: the   *)
(* bytes of all tickets (MemoryLedger) and the length of the free list     *)
(* (RootStorage) are sums that a step changes at one point.                *)
(*                                                                         *)
(* The fold of the community modules is a function defined by recursion on *)
(* the subsets of its set.  An induction is done here on a set of subsets: *)
(* if some had a property that none has, a minimal one would.              *)
(***************************************************************************)
EXTENDS Integers, Functions, FiniteSetTheorems, TLAPS

Sum(f, S) == SumFunctionOnSet(f, S)

\* The element that the fold takes next, and the function that it is.
Pick(s) == CHOOSE x \in s : TRUE

IsFold(g, f, S) ==
  g = [s \in SUBSET S |-> IF s = {} THEN 0 ELSE f[Pick(s)] + g[s \ {Pick(s)}]]

Fold(f, S) == CHOOSE g : IsFold(g, f, S)

LEMMA SumIsFold ==
  ASSUME NEW f, NEW S
  PROVE  Sum(f, S) = Fold(f, S)[S]
BY DEF Sum, SumFunctionOnSet, FoldFunctionOnSet, MapThenFoldSet, Fold, IsFold, Pick

-----------------------------------------------------------------------------
(* Induction on the subsets of a finite set *)

LEMMA MinimalSubset ==
  ASSUME NEW S, IsFiniteSet(S), NEW Q, Q \subseteq SUBSET S, Q # {}
  PROVE  \E T \in Q : \A U \in Q : U \subseteq T => U = T
<1>1. IsWellFoundedOn(StrictSubsetOrdering(S), SUBSET S)
  BY FS_StrictSubsetOrderingWellFounded, FS_FiniteSubsetsOfFinite
<1>2. PICK T \in Q : \A U \in Q : <<U, T>> \notin StrictSubsetOrdering(S)
  BY <1>1, WFMin
<1>. QED
  BY <1>2 DEF StrictSubsetOrdering

\* A set of subsets that has the empty one, and each subset of which it has those
\* of one element less, has them all.
LEMMA SubsetInduction ==
  ASSUME NEW S, IsFiniteSet(S), NEW Q, {} \in Q,
         \A s \in SUBSET S : s # {} /\ (\A x \in s : s \ {x} \in Q) => s \in Q
  PROVE  \A s \in SUBSET S : s \in Q
<1> DEFINE bad == {s \in SUBSET S : s \notin Q}
<1>1. SUFFICES ASSUME bad # {}
               PROVE  FALSE
  OBVIOUS
<1>2. PICK T \in bad : \A U \in bad : U \subseteq T => U = T
  <2>1. bad \subseteq SUBSET S
    OBVIOUS
  <2>. HIDE DEF bad
  <2>. QED
    BY <1>1, <2>1, MinimalSubset
<1>3. \A x \in T : T \ {x} \in Q
  BY <1>2
<1>. QED
  BY <1>2, <1>3

-----------------------------------------------------------------------------
(* The recursion is well-defined *)

\* Two folds of f agree where both are defined.
LEMMA FoldsAgree ==
  ASSUME NEW f, NEW S, NEW T, NEW U, IsFiniteSet(U), U \subseteq S, U \subseteq T,
         NEW g, NEW h, IsFold(g, f, S), IsFold(h, f, T)
  PROVE  \A s \in SUBSET U : g[s] = h[s]
<1> DEFINE Q == {s \in SUBSET U : g[s] = h[s]}
<1>1. {} \in Q
  BY DEF IsFold
<1>2. ASSUME NEW s \in SUBSET U, s # {}, \A y \in s : s \ {y} \in Q
      PROVE  s \in Q
  <2>1. Pick(s) \in s
    BY <1>2 DEF Pick
  <2>2. g[s] = f[Pick(s)] + g[s \ {Pick(s)}] /\ h[s] = f[Pick(s)] + h[s \ {Pick(s)}]
    BY <1>2 DEF IsFold
  <2>. QED
    BY <1>2, <2>1, <2>2
<1>. HIDE DEF Q
<1>3. \A s \in SUBSET U : s \in Q
  BY <1>1, <1>2, SubsetInduction
<1>. QED
  BY <1>3 DEF Q

LEMMA FoldExists ==
  ASSUME NEW f, NEW S, IsFiniteSet(S)
  PROVE  IsFold(Fold(f, S), f, S)
<1> DEFINE Q == {s \in SUBSET S : \E g : IsFold(g, f, s)}
<1>1. {} \in Q
  <2>1. IsFold([s \in SUBSET {} |-> 0], f, {})
    BY DEF IsFold
  <2>. QED
    BY <2>1
<1>2. ASSUME NEW T \in SUBSET S, T # {}, \A y \in T : T \ {y} \in Q
      PROVE  T \in Q
  <2> DEFINE p == Pick(T)
             G(y) == CHOOSE g : IsFold(g, f, T \ {y})
             At(s) == G(CHOOSE y \in T : s \subseteq T \ {y})[s]
             h == [s \in SUBSET T |-> IF s = T THEN f[p] + At(T \ {p}) ELSE At(s)]
  <2>1. p \in T
    BY <1>2 DEF Pick
  <2>2. \A y \in T : IsFold(G(y), f, T \ {y})
    BY <1>2
  <2> HIDE DEF G
  <2>3. ASSUME NEW s \in SUBSET T, NEW y \in T, s \subseteq T \ {y}
        PROVE  At(s) = G(y)[s]
    <3> DEFINE z == CHOOSE y_1 \in T : s \subseteq T \ {y_1}
    <3>1. z \in T /\ s \subseteq T \ {z}
      BY <2>3
    <3>2. IsFiniteSet(s)
      BY FS_Subset
    <3>3. IsFold(G(z), f, T \ {z}) /\ IsFold(G(y), f, T \ {y})
      BY <2>2, <3>1
    <3>. HIDE DEF z
    <3>4. G(z)[s] = G(y)[s]
      BY <2>3, <3>1, <3>2, <3>3, FoldsAgree
    <3>. QED
      BY <3>4 DEF z
  <2>4. ASSUME NEW s \in SUBSET T, s # {}, s # T
        PROVE  At(s) = f[Pick(s)] + At(s \ {Pick(s)})
    <3>1. PICK y \in T : s \subseteq T \ {y}
      BY <2>4
    <3>2. Pick(s) \in s /\ s \ {Pick(s)} \subseteq T \ {y} /\ s \ {Pick(s)} \in SUBSET T
      BY <2>4, <3>1 DEF Pick
    <3>3. G(y)[s] = f[Pick(s)] + G(y)[s \ {Pick(s)}]
      BY <2>2, <2>4, <3>1 DEF IsFold
    <3>. QED
      BY <2>3, <3>1, <3>2, <3>3
  <2>5. At({}) = 0
    <3>1. G(p)[{}] = 0
      BY <2>1, <2>2 DEF IsFold
    <3>. QED
      BY <2>1, <2>3, <3>1
  <2> HIDE DEF At
  <2>6. ASSUME NEW s \in SUBSET T
        PROVE  h[s] = IF s = {} THEN 0 ELSE f[Pick(s)] + h[s \ {Pick(s)}]
    <3>1. CASE s = {}
      BY <1>2, <2>5, <3>1
    <3>2. CASE s # {} /\ s # T
      <4>1. Pick(s) \in s /\ s \ {Pick(s)} \in SUBSET T /\ s \ {Pick(s)} # T
        BY <3>2 DEF Pick
      <4>. QED
        BY <2>4, <3>2, <4>1
    <3>3. CASE s = T
      <4>1. T \ {p} \in SUBSET T /\ T \ {p} # T
        BY <2>1
      <4>. QED
        BY <1>2, <3>3, <4>1
    <3>. QED
      BY <3>1, <3>2, <3>3
  <2>7. IsFold(h, f, T)
    <3>1. \A s \in SUBSET T : h[s] = IF s = {} THEN 0 ELSE f[Pick(s)] + h[s \ {Pick(s)}]
      BY <2>6
    <3>2. h = [s \in SUBSET T |-> h[s]]
      OBVIOUS
    <3>. HIDE DEF h
    <3>. QED
      BY <3>1, <3>2 DEF IsFold
  <2>. QED
    BY <2>7
<1>3. \A s \in SUBSET S : s # {} /\ (\A x \in s : s \ {x} \in Q) => s \in Q
  BY <1>2
<1>. HIDE DEF Q
<1>4. S \in Q
  BY <1>1, <1>3, SubsetInduction, S \in SUBSET S
<1>. QED
  BY <1>4 DEF Q, Fold

-----------------------------------------------------------------------------
(* Laws of sums *)

LEMMA SumEmpty ==
  ASSUME NEW f
  PROVE  Sum(f, {}) = 0
<1>1. IsFold(Fold(f, {}), f, {})
  BY FoldExists, FS_EmptySet
<1>. QED
  BY <1>1, SumIsFold DEF IsFold

LEMMA SumPicked ==
  ASSUME NEW f, NEW S, IsFiniteSet(S), S # {}
  PROVE  Pick(S) \in S /\ Sum(f, S) = f[Pick(S)] + Sum(f, S \ {Pick(S)})
<1> DEFINE p == Pick(S)
           T == S \ {p}
<1>1. p \in S
  BY DEF Pick
<1>2. IsFiniteSet(T)
  BY FS_RemoveElement
<1>3. IsFold(Fold(f, S), f, S) /\ IsFold(Fold(f, T), f, T)
  BY <1>2, FoldExists
<1>4. Fold(f, S)[T] = Fold(f, T)[T]
  BY <1>2, <1>3, FoldsAgree
<1>5. Fold(f, S)[S] = f[p] + Fold(f, S)[T]
  BY <1>3 DEF IsFold
<1>. QED
  BY <1>1, <1>4, <1>5, SumIsFold

LEMMA SumNat ==
  ASSUME NEW S, IsFiniteSet(S), NEW f, \A x \in S : f[x] \in Nat
  PROVE  Sum(f, S) \in Nat
<1> DEFINE Q == {s \in SUBSET S : Sum(f, s) \in Nat}
<1>1. {} \in Q
  BY SumEmpty
<1>2. ASSUME NEW s \in SUBSET S, s # {}, \A x \in s : s \ {x} \in Q
      PROVE  s \in Q
  <2>1. Pick(s) \in s /\ Sum(f, s) = f[Pick(s)] + Sum(f, s \ {Pick(s)})
    BY <1>2, SumPicked, FS_Subset
  <2>. QED
    BY <1>2, <2>1
<1>3. \A s \in SUBSET S : s # {} /\ (\A x \in s : s \ {x} \in Q) => s \in Q
  BY <1>2
<1>. HIDE DEF Q
<1>4. S \in Q
  BY <1>1, <1>3, SubsetInduction, S \in SUBSET S
<1>. QED
  BY <1>4 DEF Q

\* Any element can be taken out of a sum.
LEMMA SumWithout ==
  ASSUME NEW S, IsFiniteSet(S), NEW f, \A x \in S : f[x] \in Nat, NEW x \in S
  PROVE  Sum(f, S) = f[x] + Sum(f, S \ {x})
<1> DEFINE Q == {s \in SUBSET S : \A y \in s : Sum(f, s) = f[y] + Sum(f, s \ {y})}
<1>1. {} \in Q
  OBVIOUS
<1>2. ASSUME NEW s \in SUBSET S, s # {}, \A y \in s : s \ {y} \in Q, NEW y \in s
      PROVE  Sum(f, s) = f[y] + Sum(f, s \ {y})
  <2> DEFINE p == Pick(s)
  <2>1. IsFiniteSet(s)
    BY FS_Subset
  <2>2. p \in s /\ Sum(f, s) = f[p] + Sum(f, s \ {p})
    BY <1>2, <2>1, SumPicked
  <2>. HIDE DEF p
  <2>3. CASE y = p
    BY <2>2, <2>3
  <2>4. CASE y # p
    <3>1. s \ {p} \in Q /\ s \ {y} \in Q /\ y \in s \ {p} /\ p \in s \ {y}
      BY <1>2, <2>2, <2>4
    <3>2. /\ Sum(f, s \ {p}) = f[y] + Sum(f, (s \ {p}) \ {y})
          /\ Sum(f, s \ {y}) = f[p] + Sum(f, (s \ {y}) \ {p})
      BY <3>1
    <3>3. (s \ {p}) \ {y} = (s \ {y}) \ {p}
      OBVIOUS
    <3>4. Sum(f, (s \ {p}) \ {y}) \in Nat
      <4>1. (s \ {p}) \ {y} \in SUBSET S /\ IsFiniteSet((s \ {p}) \ {y})
        BY <2>1, FS_RemoveElement
      <4>. QED
        BY <4>1, SumNat
    <3>5. f[y] \in Nat /\ f[p] \in Nat
      BY <2>2
    <3>. QED
      BY <2>2, <3>2, <3>3, <3>4, <3>5
  <2>. QED
    BY <2>3, <2>4
<1>3. \A s \in SUBSET S : s # {} /\ (\A y \in s : s \ {y} \in Q) => s \in Q
  BY <1>2
<1>. HIDE DEF Q
<1>4. S \in Q
  BY <1>1, <1>3, SubsetInduction, S \in SUBSET S
<1>. QED
  BY <1>4 DEF Q

LEMMA SumSame ==
  ASSUME NEW S, IsFiniteSet(S), NEW f, NEW g, \A x \in S : f[x] = g[x]
  PROVE  Sum(f, S) = Sum(g, S)
<1> DEFINE Q == {s \in SUBSET S : Sum(f, s) = Sum(g, s)}
<1>1. {} \in Q
  BY SumEmpty
<1>2. ASSUME NEW s \in SUBSET S, s # {}, \A x \in s : s \ {x} \in Q
      PROVE  s \in Q
  <2>1. /\ Pick(s) \in s
        /\ Sum(f, s) = f[Pick(s)] + Sum(f, s \ {Pick(s)})
        /\ Sum(g, s) = g[Pick(s)] + Sum(g, s \ {Pick(s)})
    BY <1>2, SumPicked, FS_Subset
  <2>. QED
    BY <1>2, <2>1
<1>3. \A s \in SUBSET S : s # {} /\ (\A x \in s : s \ {x} \in Q) => s \in Q
  BY <1>2
<1>. HIDE DEF Q
<1>4. S \in Q
  BY <1>1, <1>3, SubsetInduction, S \in SUBSET S
<1>. QED
  BY <1>4 DEF Q

\* A change at one point changes the sum by as much.
LEMMA SumChanged ==
  ASSUME NEW S, IsFiniteSet(S), NEW f, NEW g, NEW x \in S,
         \A y \in S : f[y] \in Nat /\ g[y] \in Nat,
         \A y \in S \ {x} : g[y] = f[y]
  PROVE  /\ Sum(f, S) \in Nat /\ Sum(g, S) \in Nat
         /\ Sum(g, S) = Sum(f, S) - f[x] + g[x]
<1>1. IsFiniteSet(S \ {x})
  BY FS_RemoveElement
<1>2. /\ Sum(f, S) = f[x] + Sum(f, S \ {x})
      /\ Sum(g, S) = g[x] + Sum(g, S \ {x})
  BY SumWithout
<1>3. Sum(f, S \ {x}) = Sum(g, S \ {x}) /\ Sum(f, S \ {x}) \in Nat
  BY <1>1, SumSame, SumNat
<1>. QED
  BY <1>2, <1>3

LEMMA SumZero ==
  ASSUME NEW S, IsFiniteSet(S), NEW f, \A x \in S : f[x] = 0
  PROVE  Sum(f, S) = 0
<1> DEFINE Q == {s \in SUBSET S : Sum(f, s) = 0}
<1>1. {} \in Q
  BY SumEmpty
<1>2. ASSUME NEW s \in SUBSET S, s # {}, \A x \in s : s \ {x} \in Q
      PROVE  s \in Q
  <2>1. Pick(s) \in s /\ Sum(f, s) = f[Pick(s)] + Sum(f, s \ {Pick(s)})
    BY <1>2, SumPicked, FS_Subset
  <2>. QED
    BY <1>2, <2>1
<1>3. \A s \in SUBSET S : s # {} /\ (\A x \in s : s \ {x} \in Q) => s \in Q
  BY <1>2
<1>. HIDE DEF Q
<1>4. S \in Q
  BY <1>1, <1>3, SubsetInduction, S \in SUBSET S
<1>. QED
  BY <1>4 DEF Q

\* A summand is no more than the sum.
LEMMA SummandFits ==
  ASSUME NEW S, IsFiniteSet(S), NEW f, \A x \in S : f[x] \in Nat, NEW x \in S
  PROVE  f[x] <= Sum(f, S)
<1>1. Sum(f, S) = f[x] + Sum(f, S \ {x}) /\ Sum(f, S \ {x}) \in Nat
  BY SumWithout, SumNat, FS_RemoveElement
<1>. QED
  BY <1>1

\* The sum of a function that is 0 or 1 counts the points where it is 1.
LEMMA SumCounts ==
  ASSUME NEW S, IsFiniteSet(S), NEW f, \A x \in S : f[x] \in {0, 1}
  PROVE  Sum(f, S) = Cardinality({x \in S : f[x] = 1})
<1> DEFINE Ones(s) == {x \in s : f[x] = 1}
           Q == {s \in SUBSET S : Sum(f, s) = Cardinality(Ones(s))}
<1>1. {} \in Q
  <2>1. Ones({}) = {}
    OBVIOUS
  <2>. QED
    BY <2>1, SumEmpty, FS_EmptySet
<1>2. ASSUME NEW s \in SUBSET S, s # {}, \A x \in s : s \ {x} \in Q
      PROVE  s \in Q
  <2> DEFINE p == Pick(s)
             t == s \ {p}
  <2>1. p \in s /\ Sum(f, s) = f[p] + Sum(f, t)
    BY <1>2, SumPicked, FS_Subset
  <2>2. t \in Q
    BY <1>2, <2>1
  <2>3. IsFiniteSet(t) /\ Ones(t) \in SUBSET t
    BY FS_Subset
  <2>4. IsFiniteSet(Ones(t)) /\ Cardinality(Ones(t)) \in Nat
    BY <2>3, FS_Subset, FS_CardinalityType
  <2>5. p \notin Ones(t)
    OBVIOUS
  <2>6. CASE f[p] = 1
    <3>1. Ones(s) = Ones(t) \cup {p}
      BY <2>1, <2>6
    <3>2. Cardinality(Ones(s)) = Cardinality(Ones(t)) + 1
      <4>. HIDE DEF Ones, t, p
      <4>. QED
        BY <2>4, <2>5, <3>1, FS_AddElement
    <3>3. Sum(f, s) = 1 + Sum(f, t) /\ Sum(f, t) = Cardinality(Ones(t))
      BY <2>1, <2>2, <2>6
    <3>. HIDE DEF Ones, t
    <3>. QED
      BY <2>4, <3>2, <3>3 DEF Q
  <2>7. CASE f[p] = 0
    <3>1. Ones(s) = Ones(t)
      BY <2>1, <2>7
    <3>2. Sum(f, s) = 0 + Sum(f, t) /\ Sum(f, t) = Cardinality(Ones(t))
      BY <2>1, <2>2, <2>7
    <3>. HIDE DEF Ones, t
    <3>. QED
      BY <2>4, <3>1, <3>2
  <2>. QED
    BY <2>1, <2>6, <2>7
<1>3. \A s \in SUBSET S : s # {} /\ (\A x \in s : s \ {x} \in Q) => s \in Q
  BY <1>2
<1>. HIDE DEF Q
<1>4. S \in Q
  BY <1>1, <1>3, SubsetInduction, S \in SUBSET S
<1>. QED
  BY <1>4 DEF Q
=============================================================================
