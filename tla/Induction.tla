------------------------------ MODULE Induction ------------------------------
(***************************************************************************)
(* Induction over data, stated for sets: the theorems of the library take  *)
(* a predicate as an operator, these take the set of what satisfies it.    *)
(* And what they show of the definitions that recur in the models: the     *)
(* sums over finite sets of MapThenSumSet.                                 *)
(***************************************************************************)
EXTENDS Integers, FiniteSets, FiniteSetTheorems, WellFoundedInduction, TLAPS

LEMMA LeastNatural ==
  ASSUME NEW S \in SUBSET Nat, S # {}
  PROVE  \E n \in S : \A m \in S : n <= m
  <1> DEFINE R == {ss \in Nat \X Nat : ss[1] < ss[2]}
  <1>1. IsWellFoundedOn(R, Nat)
    BY NatLessThanWellFounded DEF OpToRel
  <1>2. \A m, n \in S : <<m, n>> \notin R => n <= m
    OBVIOUS
  <1> HIDE DEF R
  <1>3. \E n \in S : \A m \in S : <<m, n>> \notin R
    BY <1>1, WFMin
  <1> QED BY <1>2, <1>3

LEMMA NatSetInduction ==
  ASSUME NEW S, 0 \in S, \A n \in Nat : n \in S => n + 1 \in S
  PROVE  Nat \subseteq S
  <1> SUFFICES ASSUME Nat \ S # {} PROVE FALSE
    OBVIOUS
  <1>1. PICK n \in Nat \ S : \A m \in Nat \ S : n <= m
    BY LeastNatural
  <1>2. n # 0 /\ n - 1 \in Nat /\ ~(n <= n - 1)
    BY <1>1
  <1>3. n - 1 \in S
    BY <1>1, <1>2
  <1> QED BY <1>1, <1>2, <1>3

(***************************************************************************)
(* Sums over finite sets.                                                  *)
(***************************************************************************)

Pick(s) == CHOOSE x \in s : TRUE

\* The values of a function on a finite set are finitely many.
LEMMA FiniteImage ==
  ASSUME NEW S, IsFiniteSet(S), NEW f, DOMAIN f = S
  PROVE  IsFiniteSet({f[x] : x \in S})
  <1> DEFINE T == {f[x] : x \in S}
             h == [x \in S |-> f[x]]
  <1>1. h \in Surjection(S, T)
    BY DEF Surjection
  <1> HIDE DEF h, T
  <1>2. IsFiniteSet(T)
    BY <1>1, FS_Surjection
  <1> QED BY <1>2 DEF T

\* g is the recursive sum of w that MapThenSumSet defines.
Sums(g, w, S) ==
  g = [s \in SUBSET S |-> IF s = {} THEN 0 ELSE w[Pick(s)] + g[s \ {Pick(s)}]]

\* Without the element that is picked a finite set is one smaller.
LEMMA OneLess ==
  ASSUME NEW S, IsFiniteSet(S), NEW s \in SUBSET S, s # {}
  PROVE  /\ Pick(s) \in S /\ s \ {Pick(s)} \in SUBSET S
         /\ Cardinality(s) \in Nat /\ Cardinality(s) # 0
         /\ Cardinality(s \ {Pick(s)}) = Cardinality(s) - 1
  <1>1. IsFiniteSet(s)
    BY FS_Subset
  <1>2. Pick(s) \in s
    BY DEF Pick
  <1>3. Cardinality(s \ {Pick(s)}) = Cardinality(s) - 1
    BY <1>1, <1>2, FS_RemoveElement
  <1>4. Cardinality(s) \in Nat /\ Cardinality(s) # 0
    BY <1>1, FS_CardinalityType, FS_EmptySet
  <1> QED BY <1>2, <1>3, <1>4

\* A recursive sum over the subsets of a finite set exists.
LEMMA SumExists ==
  ASSUME NEW S, IsFiniteSet(S), NEW w \in [S -> Int]
  PROVE  \E g : Sums(g, w, S)
  <1> DEFINE Card == Cardinality(S)
             Upto(n) == {s \in SUBSET S : Cardinality(s) <= n}
             Part(g, n) ==
               /\ g \in [Upto(n) -> Int]
               /\ \A s \in Upto(n) :
                    g[s] = IF s = {} THEN 0 ELSE w[Pick(s)] + g[s \ {Pick(s)}]
             N == {n \in Nat : \E g : Part(g, n)}
  <1>1. 0 \in N
    <2>1. ASSUME NEW s \in Upto(0), s # {} PROVE FALSE
      <3>1. Cardinality(s) \in Nat /\ Cardinality(s) # 0
        BY <2>1, OneLess
      <3> QED BY <3>1
    <2> DEFINE g == [s \in Upto(0) |-> 0]
    <2>2. Part(g, 0)
      BY <2>1
    <2> QED BY <2>2
  <1>2. ASSUME NEW n \in Nat, n \in N PROVE n + 1 \in N
    <2>1. PICK g : Part(g, n)
      BY <1>2
    <2> DEFINE h == [s \in Upto(n + 1) |->
                       IF s = {} THEN 0 ELSE w[Pick(s)] + g[s \ {Pick(s)}]]
    <2>2. ASSUME NEW s \in Upto(n + 1), s # {}
          PROVE  s \ {Pick(s)} \in Upto(n) /\ w[Pick(s)] \in Int
      BY <2>2, OneLess
    <2>3. ASSUME NEW s \in Upto(n) PROVE s \in Upto(n + 1) /\ h[s] = g[s]
      <3>1. s \in Upto(n + 1)
        BY <2>3, FS_Subset, FS_CardinalityType
      <3> HIDE DEF Upto
      <3> QED BY <2>1, <3>1
    <2>4. Part(h, n + 1)
      <3> HIDE DEF Upto
      <3>1. h \in [Upto(n + 1) -> Int]
        BY <2>1, <2>2
      <3>2. ASSUME NEW s \in Upto(n + 1)
            PROVE h[s] = IF s = {} THEN 0 ELSE w[Pick(s)] + h[s \ {Pick(s)}]
        BY <2>2, <2>3
      <3> QED BY <3>1, <3>2
    <2> HIDE DEF h, Part
    <2> QED BY <2>4
  <1>3. Card \in Nat /\ Nat \subseteq N
    <2> HIDE DEF N
    <2> QED BY <1>1, <1>2, NatSetInduction, FS_CardinalityType
  <1>4. PICK g : Part(g, Card)
    BY <1>3
  <1>5. Upto(Card) = SUBSET S
    BY FS_Subset
  <1>6. Sums(g, w, S)
    <2> HIDE DEF Upto
    <2> QED BY <1>4, <1>5 DEF Sums
  <1> QED BY <1>6

\* The sum of integers is an integer, that of naturals a natural.
LEMMA SumTyped ==
  ASSUME NEW S, IsFiniteSet(S), NEW T, T \in {Int, Nat}, NEW w \in [S -> T],
         NEW g, Sums(g, w, S)
  PROVE  g[S] \in T
  <1> DEFINE N == {n \in Nat : \A s \in SUBSET S : Cardinality(s) = n => g[s] \in T}
  <1>1. \A s \in SUBSET S :
          g[s] = IF s = {} THEN 0 ELSE w[Pick(s)] + g[s \ {Pick(s)}]
    BY DEF Sums
  <1>2. 0 \in N
    <2>1. ASSUME NEW s \in SUBSET S, s # {} PROVE Cardinality(s) # 0
      BY <2>1, OneLess
    <2>2. \A s \in SUBSET S : s = {} => g[s] = 0
      BY <1>1
    <2>3. 0 \in T
      OBVIOUS
    <2> QED BY <2>1, <2>2, <2>3
  <1>3. ASSUME NEW n \in Nat, n \in N PROVE n + 1 \in N
    <2> SUFFICES ASSUME NEW s \in SUBSET S, Cardinality(s) = n + 1 PROVE g[s] \in T
      OBVIOUS
    <2>1. s # {}
      BY FS_EmptySet
    <2>2. Pick(s) \in S /\ s \ {Pick(s)} \in SUBSET S /\ Cardinality(s \ {Pick(s)}) = n
      BY <2>1, OneLess
    <2>3. g[s \ {Pick(s)}] \in T /\ w[Pick(s)] \in T
      BY <1>3, <2>2
    <2> QED BY <1>1, <2>1, <2>3
  <1>4. Cardinality(S) \in N
    <2> HIDE DEF N
    <2> QED BY <1>2, <1>3, NatSetInduction, FS_CardinalityType
  <1> QED BY <1>4
==============================================================================
