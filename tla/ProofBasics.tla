----------------------------- MODULE ProofBasics ----------------------------
(***************************************************************************)
(* What the proofs of this project keep needing: induction over a SET of   *)
(* natural numbers or of subsets, instead of over a predicate, so that the *)
(* provers can instantiate it; what it gives for folds over finite sets;   *)
(* and what the operators on lists return for lists of any length.         *)
(***************************************************************************)
EXTENDS Selection, FiniteSetTheorems, TLAPS

\* Least number: a set that holds 0 and the successor of each number it holds
\* has every natural number.
LEMMA NatSetInduction ==
    ASSUME NEW G, 0 \in G, \A n \in Nat : n \in G => n + 1 \in G
    PROVE  Nat \subseteq G
<1> SUFFICES ASSUME NEW k \in Nat, k \notin G
             PROVE  FALSE
  OBVIOUS
<1> DEFINE Out == {n \in Nat : n \notin G}
<1>1. Out \subseteq Nat /\ Out # {}
  OBVIOUS
<1>2. PICK m \in Out : \A n \in Out : ~(<<n, m>> \in OpToRel(<, Nat))
  BY <1>1, NatLessThanWellFounded, WFMin, Zenon
<1>3. m \in Nat /\ m # 0
  OBVIOUS
<1>4. m - 1 \in Nat /\ m - 1 < m /\ (m - 1) + 1 = m
  BY <1>3
<1>5. m - 1 \notin Out
  BY <1>2, <1>3, <1>4 DEF OpToRel
<1> QED BY <1>4, <1>5

\* A way to choose an element from every non-empty subset.
Chooses(choose, S) == \A T \in SUBSET S : T # {} => choose[T] \in T

\* A family of subsets of a finite set that holds the empty one, and a
\* non-empty one with the one less its chosen element, holds the whole set.
LEMMA SubsetInduction ==
    ASSUME NEW S, IsFiniteSet(S), NEW Good,
           NEW choose, Chooses(choose, S),
           {} \in Good,
           \A T \in SUBSET S : T # {} /\ T \ {choose[T]} \in Good => T \in Good
    PROVE  S \in Good
<1> DEFINE G == {n \in Nat : \A T \in SUBSET S : Cardinality(T) = n => T \in Good}
<1>1. \A T \in SUBSET S : IsFiniteSet(T) /\ Cardinality(T) \in Nat
  BY FS_Subset, FS_CardinalityType
<1>2. 0 \in G
  <2>1. \A T \in SUBSET S : Cardinality(T) = 0 => T = {}
    BY <1>1, FS_EmptySet
  <2> QED BY <2>1
<1>3. ASSUME NEW n \in Nat, n \in G
      PROVE  n + 1 \in G
  <2> SUFFICES ASSUME NEW T \in SUBSET S, Cardinality(T) = n + 1
               PROVE  T \in Good
    OBVIOUS
  <2>1. T # {}
    BY FS_EmptySet, <1>3
  <2>2. choose[T] \in T /\ T \ {choose[T]} \in SUBSET S
    BY <2>1 DEF Chooses
  <2>3. Cardinality(T \ {choose[T]}) = n
    <3>1. IsFiniteSet(T)
      BY <1>1
    <3>2. Cardinality(T \ {choose[T]}) = Cardinality(T) - 1
      BY <2>2, <3>1, FS_RemoveElement
    <3> QED BY <3>2
  <2>4. T \ {choose[T]} \in Good
    BY <1>3, <2>2, <2>3
  <2> QED BY <2>1, <2>4
<1>4. Nat \subseteq G
  <2> HIDE DEF G
  <2> QED BY <1>2, <1>3, NatSetInduction
<1> QED BY <1>1, <1>4

\* A finite set on which a relation is total and transitive has a greatest
\* element: what the choice of the last element of an order rests on.
LEMMA GreatestExists ==
    ASSUME NEW S, IsFiniteSet(S), S # {}, NEW R,
           \A x, y \in S : x = y \/ <<x, y>> \in R \/ <<y, x>> \in R,
           \A x, y, z \in S : <<x, y>> \in R /\ <<y, z>> \in R => <<x, z>> \in R
    PROVE  \E x \in S : \A y \in S : y = x \/ <<y, x>> \in R
<1> DEFINE Good == {T \in SUBSET S : T = {} \/ \E x \in T : \A y \in T : y = x \/ <<y, x>> \in R}
           choose == [T \in SUBSET S |-> CHOOSE x \in T : TRUE]
<1>1. Chooses(choose, S)
  BY DEF Chooses
<1>2. {} \in Good
  OBVIOUS
<1>3. ASSUME NEW T \in SUBSET S, T # {}, T \ {choose[T]} \in Good
      PROVE  T \in Good
  <2> DEFINE c == choose[T]
  <2>1. c \in T
    BY <1>1, <1>3 DEF Chooses
  <2> HIDE DEF c
  <2>2. CASE T \ {c} = {}
    BY <2>1, <2>2
  <2>3. ASSUME NEW x \in T \ {c}, \A y \in T \ {c} : y = x \/ <<y, x>> \in R
        PROVE  T \in Good
    <3>1. CASE <<c, x>> \in R
      BY <2>3, <3>1
    <3>2. CASE <<x, c>> \in R
      <4>1. \A y \in T : y = c \/ <<y, c>> \in R
        BY <2>1, <2>3, <3>2
      <4> QED BY <2>1, <4>1
    <3> QED BY <2>1, <2>3, <3>1, <3>2
  <2> QED BY <1>3, <2>2, <2>3 DEF c
<1>4. S \in Good
  <2> HIDE DEF Good, choose
  <2> QED BY <1>1, <1>2, <1>3, SubsetInduction
<1> QED BY <1>4

\* Of numbers up to a bound one is the highest.
LEMMA HighestExists ==
    ASSUME NEW n \in Nat, NEW T \in SUBSET (1..n), T # {}
    PROVE  \E x \in T : \A y \in T : x >= y
<1> DEFINE R == {p \in (1..n) \X (1..n) : p[1] =< p[2]}
<1>1. IsFiniteSet(T)
  <2>1. 1 \in Int /\ n \in Int
    OBVIOUS
  <2>2. IsFiniteSet(1..n)
    BY <2>1, FS_Interval
  <2> QED BY <2>2, FS_Subset
<1>2. \A x, y \in T : (<<x, y>> \in R) <=> x =< y
  OBVIOUS
<1>3. \A x, y \in T : x = y \/ <<x, y>> \in R \/ <<y, x>> \in R
  <2>1. \A x, y \in T : x \in Int /\ y \in Int
    OBVIOUS
  <2>2. \A x, y \in T : x =< y \/ y =< x
    BY <2>1
  <2> HIDE DEF R
  <2> QED BY <1>2, <2>2
<1>4. \A x, y, z \in T : <<x, y>> \in R /\ <<y, z>> \in R => <<x, z>> \in R
  BY <1>2
<1>5. \E x \in T : \A y \in T : y = x \/ <<y, x>> \in R
  <2> HIDE DEF R
  <2> QED BY <1>1, <1>3, <1>4, GreatestExists
<1>6. PICK x \in T : \A y \in T : y = x \/ <<y, x>> \in R
  BY <1>5
<1>7. ASSUME NEW y \in T
      PROVE  x >= y
  <2>1. y = x \/ y =< x
    <3> HIDE DEF R
    <3> QED BY <1>2, <1>6
  <2>2. x \in Int /\ y \in Int
    OBVIOUS
  <2> QED BY <2>1, <2>2
<1> QED BY <1>7

\* A finite set has an enumeration in the order of a strict total relation.
LEMMA SortedExists ==
    ASSUME NEW S, IsFiniteSet(S), NEW R,
           \A x, y \in S : x = y \/ <<x, y>> \in R \/ <<y, x>> \in R,
           \A x, y, z \in S : <<x, y>> \in R /\ <<y, z>> \in R => <<x, z>> \in R
    PROVE  \E f \in [1..Cardinality(S) -> S] :
               \A i, j \in 1..Cardinality(S) : i < j => <<f[i], f[j]>> \in R
<1> DEFINE Ordered(f, T) == \A i, j \in 1..Cardinality(T) : i < j => <<f[i], f[j]>> \in R
           Good == {T \in SUBSET S : \E f \in [1..Cardinality(T) -> T] : Ordered(f, T)}
           choose == [T \in SUBSET S |-> CHOOSE x \in T : \A y \in T : y = x \/ <<y, x>> \in R]
<1>1. ASSUME NEW T \in SUBSET S
      PROVE  IsFiniteSet(T) /\ Cardinality(T) \in Nat
  BY FS_Subset, FS_CardinalityType
<1>2. ASSUME NEW T \in SUBSET S, T # {}
      PROVE  choose[T] \in T /\ \A y \in T : y = choose[T] \/ <<y, choose[T]>> \in R
  <2>1. \E x \in T : \A y \in T : y = x \/ <<y, x>> \in R
    <3>1. IsFiniteSet(T)
      BY <1>1
    <3>2. \A x, y \in T : x = y \/ <<x, y>> \in R \/ <<y, x>> \in R
      OBVIOUS
    <3>3. \A x, y, z \in T : <<x, y>> \in R /\ <<y, z>> \in R => <<x, z>> \in R
      OBVIOUS
    <3> QED BY <1>2, <3>1, <3>2, <3>3, GreatestExists
  <2> QED BY <2>1
<1>3. Chooses(choose, S)
  <2> HIDE DEF choose
  <2> QED BY <1>2 DEF Chooses
<1>4. {} \in Good
  <2>1. Cardinality({}) = 0 /\ 1..0 = {}
    BY FS_EmptySet
  <2>2. [x \in {} |-> x] \in [1..Cardinality({}) -> {}]
    BY <2>1
  <2>3. Ordered([x \in {} |-> x], {})
    BY <2>1
  <2> HIDE DEF Ordered
  <2> QED BY <2>2, <2>3
<1>5. ASSUME NEW T \in SUBSET S, T # {}, T \ {choose[T]} \in Good
      PROVE  T \in Good
  <2> DEFINE c == choose[T]
             U == T \ {c}
             n == Cardinality(U)
  <2>1. c \in T /\ \A y \in U : <<y, c>> \in R
    BY <1>2, <1>5
  <2>2. n \in Nat /\ Cardinality(T) = n + 1
    <3>1. IsFiniteSet(T) /\ Cardinality(T) \in Nat /\ Cardinality(U) = Cardinality(T) - 1
      BY <1>1, <2>1, FS_RemoveElement
    <3>2. n \in Nat
      BY <1>1
    <3> QED BY <3>1, <3>2
  <2>3. PICK f \in [1..n -> U] : Ordered(f, U)
    BY <1>5
  <2> DEFINE g == [i \in 1..(n + 1) |-> IF i = n + 1 THEN c ELSE f[i]]
  <2> HIDE DEF c, U, n, Good, choose
  <2>4. \A i \in 1..(n + 1) : i \in 1..n \/ i = n + 1
    BY <2>2
  <2>5. U \subseteq T
    BY DEF U
  <2>6. g \in [1..(n + 1) -> T]
    BY <2>1, <2>3, <2>4, <2>5
  <2>7. ASSUME NEW i \in 1..(n + 1), NEW j \in 1..(n + 1), i < j
        PROVE  <<g[i], g[j]>> \in R
    <3>1. i \in 1..n /\ g[i] = f[i] /\ f[i] \in U
      BY <2>2, <2>3, <2>7
    <3>2. CASE j = n + 1
      BY <3>1, <3>2, <2>1
    <3>3. CASE j \in 1..n
      <4>1. j # n + 1 /\ g[j] = f[j]
        BY <2>2, <3>3
      <4>2. <<f[i], f[j]>> \in R
        BY <2>3, <2>7, <3>1, <3>3 DEF n
      <4> QED BY <3>1, <4>1, <4>2
    <3> QED BY <2>4, <3>2, <3>3
  <2>8. g \in [1..Cardinality(T) -> T] /\ Ordered(g, T)
    <3> HIDE DEF g
    <3> QED BY <2>2, <2>6, <2>7
  <2> HIDE DEF g, Ordered
  <2> QED BY <2>8 DEF Good
<1>6. S \in Good
  <2> HIDE DEF Good, choose
  <2> QED BY <1>3, <1>4, <1>5, SubsetInduction
<1> QED BY <1>6

\* f is the fold from base over the subsets of S, each taken apart by a choice
\* of its last element.
IsFold(f, S, base, choose, step) ==
    \A T \in SUBSET S : f[T] = IF T = {} THEN base ELSE step[choose[T]][f[T \ {choose[T]}]]

\* A fold over a finite set, taken apart by a choice of the last element, is
\* well defined: there is a function on the subsets that meets its equation.
LEMMA FoldExists ==
    ASSUME NEW S, IsFiniteSet(S), NEW Typ, NEW base \in Typ,
           NEW choose, Chooses(choose, S),
           NEW step \in [S -> [Typ -> Typ]]
    PROVE  \E f \in [SUBSET S -> Typ] : IsFold(f, S, base, choose, step)
<1> DEFINE Meets(f, T) == f[T] = IF T = {} THEN base ELSE step[choose[T]][f[T \ {choose[T]}]]
           G == {n \in Nat : \E f \in [SUBSET S -> Typ] :
                    \A T \in SUBSET S : Cardinality(T) =< n => Meets(f, T)}
<1>1. \A T \in SUBSET S : IsFiniteSet(T) /\ Cardinality(T) \in Nat
  BY FS_Subset, FS_CardinalityType
<1>2. 0 \in G
  <2>1. \A T \in SUBSET S : Cardinality(T) =< 0 => T = {}
    BY <1>1, FS_EmptySet
  <2>2. [T \in SUBSET S |-> base] \in [SUBSET S -> Typ]
    OBVIOUS
  <2>3. \A T \in SUBSET S : Cardinality(T) =< 0 => Meets([U \in SUBSET S |-> base], T)
    BY <2>1
  <2> QED BY <2>2, <2>3
<1>3. ASSUME NEW n \in Nat, n \in G
      PROVE  n + 1 \in G
  <2>1. PICK f \in [SUBSET S -> Typ] : \A T \in SUBSET S : Cardinality(T) =< n => Meets(f, T)
    BY <1>3
  <2> DEFINE g == [T \in SUBSET S |->
                     IF T = {} THEN base ELSE step[choose[T]][f[T \ {choose[T]}]]]
  <2>2. g \in [SUBSET S -> Typ]
    <3> SUFFICES ASSUME NEW T \in SUBSET S, T # {}
                 PROVE  step[choose[T]][f[T \ {choose[T]}]] \in Typ
      OBVIOUS
    <3>1. choose[T] \in S /\ f[T \ {choose[T]}] \in Typ
      BY DEF Chooses
    <3> QED BY <3>1
  <2>3. ASSUME NEW T \in SUBSET S, Cardinality(T) =< n
        PROVE  g[T] = f[T]
    BY <2>1, <2>3
  <2>4. ASSUME NEW T \in SUBSET S, Cardinality(T) =< n + 1
        PROVE  Meets(g, T)
    <3>1. CASE T = {}
      BY <3>1
    <3>2. CASE T # {}
      <4>1. choose[T] \in T /\ T \ {choose[T]} \in SUBSET S
        BY <3>2 DEF Chooses
      <4>2. Cardinality(T \ {choose[T]}) = Cardinality(T) - 1
        BY <1>1, <4>1, FS_RemoveElement
      <4>3. Cardinality(T \ {choose[T]}) =< n
        BY <1>1, <2>4, <4>2
      <4>4. g[T \ {choose[T]}] = f[T \ {choose[T]}]
        BY <2>3, <4>1, <4>3
      <4>5. g[T] = step[choose[T]][f[T \ {choose[T]}]]
        BY <3>2
      <4> HIDE DEF g
      <4> QED BY <3>2, <4>4, <4>5
    <3> QED BY <3>1, <3>2
  <2> HIDE DEF g, Meets
  <2> QED BY <2>2, <2>4
<1>4. Nat \subseteq G
  <2> HIDE DEF G
  <2> QED BY <1>2, <1>3, NatSetInduction
<1>5. Cardinality(S) \in G
  BY <1>1, <1>4
<1>6. PICK f \in [SUBSET S -> Typ] :
         \A T \in SUBSET S : Cardinality(T) =< Cardinality(S) => Meets(f, T)
  BY <1>5
<1>7. \A T \in SUBSET S : Cardinality(T) =< Cardinality(S)
  BY FS_Subset
<1> QED BY <1>6, <1>7 DEF IsFold

-----------------------------------------------------------------------------
(* Lists: what concatenating, flattening, filtering, sorting, reversing and *)
(* cutting them make of them.                                              *)

\* A list is a function on the numbers up to its length.
LEMMA ListShape ==
    ASSUME NEW s, IsSequence(s)
    PROVE  Len(s) \in Nat /\ DOMAIN s = 1..Len(s) /\ s = [i \in 1..Len(s) |-> s[i]]
BY DEF IsSequence

\* What is built for the numbers up to n is a list of n elements.
LEMMA IsList ==
    ASSUME NEW n \in Nat, NEW s, s = [i \in 1..n |-> s[i]]
    PROVE  IsSequence(s) /\ Len(s) = n /\ DOMAIN s = 1..n
<1>1. DOMAIN s = 1..n
  OBVIOUS
<1>2. \A i \in 1..n : s[i] \in Range(s)
  BY <1>1 DEF Range
<1>3. s \in Seq(Range(s))
  BY <1>2
<1> QED BY <1>1, <1>3 DEF IsSequence

\* f goes from base to its last value step by step.
TakesSteps(f, n, base, step) == f[0] = base /\ \A k \in 1..n : f[k] = step[k][f[k - 1]]

\* A value computed step by step is well defined, however many steps.
LEMMA StepsExist ==
    ASSUME NEW n \in Nat, NEW Typ, NEW base \in Typ, NEW step \in [1..n -> [Typ -> Typ]]
    PROVE  \E f \in [0..n -> Typ] : TakesSteps(f, n, base, step)
<1> DEFINE Meets(f, m) == f[0] = base /\ \A k \in 1..n : k =< m => f[k] = step[k][f[k - 1]]
           G == {m \in Nat : \E f \in [0..n -> Typ] : Meets(f, m)}
<1>1. 0 \in G
  <2>1. [k \in 0..n |-> base] \in [0..n -> Typ] /\ Meets([k \in 0..n |-> base], 0)
    OBVIOUS
  <2> QED BY <2>1
<1>2. ASSUME NEW m \in Nat, m \in G
      PROVE  m + 1 \in G
  <2>1. PICK f \in [0..n -> Typ] : Meets(f, m)
    BY <1>2
  <2>2. CASE m + 1 =< n
    <3> DEFINE g == [k \in 0..n |-> IF k = m + 1 THEN step[m + 1][f[m]] ELSE f[k]]
    <3>1. m + 1 \in 1..n /\ m \in 0..n
      BY <2>2
    <3>2. step[m + 1][f[m]] \in Typ
      BY <3>1
    <3>3. g \in [0..n -> Typ]
      BY <3>2
    <3>4. ASSUME NEW k \in 1..n, k =< m + 1
          PROVE  g[k] = step[k][g[k - 1]]
      <4>1. k \in 0..n /\ k - 1 \in 0..n /\ k - 1 # m + 1
        BY <3>4
      <4>2. g[k - 1] = f[k - 1]
        BY <4>1
      <4>3. CASE k = m + 1
        <5>1. k - 1 = m /\ g[k] = step[m + 1][f[m]]
          BY <4>1, <4>3
        <5> QED BY <4>2, <4>3, <5>1
      <4>4. CASE k # m + 1
        <5>1. k =< m /\ g[k] = f[k]
          BY <3>4, <4>1, <4>4
        <5> HIDE DEF g
        <5> QED BY <2>1, <4>2, <5>1
      <4> QED BY <4>3, <4>4
    <3>5. g[0] = base
      BY <2>1
    <3> HIDE DEF g
    <3> QED BY <3>3, <3>4, <3>5
  <2>3. CASE ~(m + 1 =< n)
    <3>1. Meets(f, m + 1)
      BY <2>1, <2>3
    <3> HIDE DEF Meets
    <3> QED BY <3>1
  <2> QED BY <2>2, <2>3
<1>3. n \in G
  <2> HIDE DEF G
  <2> QED BY <1>1, <1>2, NatSetInduction
<1>4. PICK f \in [0..n -> Typ] : Meets(f, n)
  BY <1>3
<1>5. \A k \in 1..n : k =< n
  OBVIOUS
<1> QED BY <1>4, <1>5 DEF TakesSteps

\* The places of the elements of a list of lists, and their order.
Places(seqs, n) == {p \in (1..n) \X Nat : p[2] \in DOMAIN seqs[p[1]]}
Ahead(p, q) == p[1] < q[1] \/ (p[1] = q[1] /\ p[2] < q[2])

\* at says which place of the lists each element of their concatenation is from.
IsLayout(at, flat, seqs, n) ==
    /\ IsSequence(flat) /\ at \in [DOMAIN flat -> Places(seqs, n)]
    /\ \A k \in DOMAIN flat : flat[k] = seqs[at[k][1]][at[k][2]]
    /\ \A p \in Places(seqs, n) : \E k \in DOMAIN flat : at[k] = p
    /\ \A j, k \in DOMAIN flat : j < k => Ahead(at[j], at[k])

\* c has the elements of s and then those of t.
IsConcat(c, s, t) ==
    /\ IsSequence(c) /\ Len(c) = Len(s) + Len(t) /\ DOMAIN c = 1..(Len(s) + Len(t))
    /\ \A k \in DOMAIN s : c[k] = s[k]
    /\ \A k \in DOMAIN t : c[Len(s) + k] = t[k]
    /\ Range(c) = Range(s) \cup Range(t)

\* One list put after another.
LEMMA ConcatShape ==
    ASSUME NEW s, IsSequence(s), NEW t, IsSequence(t)
    PROVE  IsConcat(s \o t, s, t)
<1> DEFINE T == Range(s) \cup Range(t)
           c == s \o t
<1>1. s \in Seq(T) /\ t \in Seq(T) /\ Len(s) \in Nat /\ Len(t) \in Nat /\ DOMAIN s = 1..Len(s) /\ DOMAIN t = 1..Len(t)
  BY DEF IsSequence
<1> HIDE DEF T
<1>2. c \in Seq(T) /\ Len(c) = Len(s) + Len(t)
  BY <1>1
<1>3. \A k \in 1..(Len(s) + Len(t)) : c[k] = IF k =< Len(s) THEN s[k] ELSE t[k - Len(s)]
  BY <1>1
<1>4. DOMAIN c = 1..(Len(s) + Len(t)) /\ Len(c) \in Nat
  BY <1>1, <1>2
<1> HIDE DEF c
<1>5. IsSequence(c)
  <2>1. c = [k \in 1..Len(c) |-> c[k]]
    BY <1>2
  <2> QED BY <1>4, <2>1, IsList
<1>6. \A k \in DOMAIN s : c[k] = s[k]
  BY <1>1, <1>3
<1>7. ASSUME NEW k \in DOMAIN t
      PROVE  c[Len(s) + k] = t[k]
  <2>1. Len(s) + k \in 1..(Len(s) + Len(t)) /\ ~(Len(s) + k =< Len(s)) /\ (Len(s) + k) - Len(s) = k
    BY <1>1
  <2> QED BY <1>3, <2>1
<1>8. ASSUME NEW k \in DOMAIN c
      PROVE  c[k] \in Range(s) \cup Range(t)
  <2>1. CASE k =< Len(s)
    <3>1. k \in DOMAIN s
      BY <1>1, <1>4, <2>1
    <3> QED BY <1>6, <3>1 DEF Range
  <2>2. CASE ~(k =< Len(s))
    <3>1. k - Len(s) \in DOMAIN t /\ c[k] = t[k - Len(s)]
      BY <1>1, <1>3, <1>4, <2>2
    <3> QED BY <3>1 DEF Range
  <2> QED BY <2>1, <2>2
<1>9. \A k \in DOMAIN s : k \in DOMAIN c
  BY <1>1, <1>4
<1>10. \A k \in DOMAIN t : Len(s) + k \in DOMAIN c
  BY <1>1, <1>4
<1>11. Range(c) = Range(s) \cup Range(t)
  BY <1>6, <1>7, <1>8, <1>9, <1>10 DEF Range
<1> QED BY <1>2, <1>4, <1>5, <1>6, <1>7, <1>11 DEF c, IsConcat

\* Lists of lists.
IsLists(seqs) == IsSequence(seqs) /\ \A i \in DOMAIN seqs : IsSequence(seqs[i])

\* Adding a list to a concatenation adds its places after the others.
LEMMA LayoutExtends ==
    ASSUME NEW seqs, IsLists(seqs), NEW n \in Nat, n + 1 =< Len(seqs),
           NEW flat, NEW at, IsLayout(at, flat, seqs, n)
    PROVE  \E more : IsLayout(more, flat \o seqs[n + 1], seqs, n + 1)
<1> DEFINE t == seqs[n + 1]
           c == flat \o t
           L == Len(flat)
           M == Len(t)
           more == [k \in 1..(L + M) |-> IF k =< L THEN at[k] ELSE <<n + 1, k - L>>]
<1>1. IsSequence(flat) /\ IsSequence(t)
  BY ListShape DEF IsLayout, IsLists
<1>2. L \in Nat /\ M \in Nat /\ DOMAIN flat = 1..L /\ DOMAIN t = 1..M
  BY <1>1, ListShape
<1> HIDE DEF t
<1>3. IsConcat(c, flat, t)
  BY <1>1, ConcatShape
<1>14. /\ IsSequence(c) /\ DOMAIN c = 1..(L + M)
       /\ \A k \in DOMAIN flat : c[k] = flat[k]
       /\ \A k \in DOMAIN t : c[L + k] = t[k]
  BY <1>3 DEF IsConcat
<1> HIDE DEF c, L, M
<1>4. ASSUME NEW k \in 1..(L + M)
      PROVE  \/ k \in 1..L /\ more[k] = at[k]
             \/ k - L \in 1..M /\ L + (k - L) = k /\ more[k] = <<n + 1, k - L>>
  BY <1>2
<1>5. at \in [1..L -> Places(seqs, n)]
  BY <1>2 DEF IsLayout
<1>6. \A k \in 1..L : at[k] \in Places(seqs, n) /\ at[k][1] \in 1..n /\ at[k][2] \in DOMAIN seqs[at[k][1]] /\ at[k][2] \in Nat
  BY <1>5 DEF Places
<1>7. \A p \in Places(seqs, n) : p \in Places(seqs, n + 1)
  BY DEF Places
<1>8. \A k \in 1..M : <<n + 1, k>> \in Places(seqs, n + 1)
  BY <1>2 DEF Places, t
<1>9. more \in [1..(L + M) -> Places(seqs, n + 1)]
  <2>1. \A k \in 1..(L + M) : more[k] \in Places(seqs, n + 1)
    <3> HIDE DEF more
    <3> QED BY <1>4, <1>6, <1>7, <1>8
  <2> QED BY <2>1
<1> HIDE DEF more
<1>10. ASSUME NEW k \in 1..(L + M)
       PROVE  c[k] = seqs[more[k][1]][more[k][2]]
  <2>1. CASE k \in 1..L /\ more[k] = at[k]
    BY <1>2, <1>14, <2>1 DEF IsLayout
  <2>2. CASE k - L \in 1..M /\ L + (k - L) = k /\ more[k] = <<n + 1, k - L>>
    <3>1. k - L \in DOMAIN t /\ c[k] = t[k - L]
      <4>1. PICK m \in DOMAIN t : m = k - L /\ L + m = k
        BY <1>2, <2>2
      <4>2. c[L + m] = t[m]
        BY <1>14
      <4> QED BY <4>1, <4>2
    <3>2. more[k][1] = n + 1 /\ more[k][2] = k - L
      BY <2>2
    <3> QED BY <3>1, <3>2 DEF t
  <2> QED BY <1>4, <2>1, <2>2
<1>11. ASSUME NEW p \in Places(seqs, n + 1)
       PROVE  \E k \in 1..(L + M) : more[k] = p
  <2>1. p = <<p[1], p[2]>> /\ p[1] \in 1..(n + 1) /\ p[2] \in Nat /\ p[2] \in DOMAIN seqs[p[1]]
    BY DEF Places
  <2>2. CASE p[1] = n + 1
    <3>1. p[2] \in 1..M
      BY <1>2, <2>1, <2>2 DEF t
    <3>2. L + p[2] \in 1..(L + M) /\ ~(L + p[2] =< L) /\ (L + p[2]) - L = p[2]
      BY <1>2, <3>1
    <3>3. more[L + p[2]] = <<n + 1, p[2]>>
      BY <3>2 DEF more
    <3> QED BY <2>1, <2>2, <3>2, <3>3
  <2>3. CASE p[1] # n + 1
    <3>1. p \in Places(seqs, n)
      BY <2>1, <2>3 DEF Places
    <3>2. PICK k \in 1..L : at[k] = p
      BY <1>2, <3>1 DEF IsLayout
    <3>3. k \in 1..(L + M) /\ k =< L
      BY <1>2
    <3> QED BY <3>2, <3>3 DEF more
  <2> QED BY <2>2, <2>3
<1>12. ASSUME NEW j \in 1..(L + M), NEW k \in 1..(L + M), j < k
       PROVE  Ahead(more[j], more[k])
  <2>1. CASE k \in 1..L
    <3>1. j \in 1..L /\ j =< L /\ k =< L
      BY <1>2, <1>12, <2>1
    <3>2. more[j] = at[j] /\ more[k] = at[k]
      BY <3>1 DEF more
    <3> QED BY <1>2, <1>12, <2>1, <3>1, <3>2 DEF IsLayout
  <2>2. CASE k \notin 1..L /\ j \in 1..L
    <3>1. more[j] = at[j] /\ more[k] = <<n + 1, k - L>>
      BY <1>2, <2>2 DEF more
    <3>2. at[j][1] \in 1..n
      BY <1>6, <2>2
    <3> QED BY <3>1, <3>2 DEF Ahead
  <2>3. CASE k \notin 1..L /\ j \notin 1..L
    <3>1. more[j] = <<n + 1, j - L>> /\ more[k] = <<n + 1, k - L>> /\ j - L < k - L
      BY <1>2, <1>12, <2>3 DEF more
    <3> QED BY <3>1 DEF Ahead
  <2> QED BY <2>1, <2>2, <2>3
<1>13. IsLayout(more, c, seqs, n + 1)
  BY <1>14, <1>9, <1>10, <1>11, <1>12 DEF IsLayout
<1> QED BY <1>13 DEF c, t

\* The concatenation of a list of lists has an element for each of theirs, in
\* their order.
LEMMA Flattened ==
    ASSUME NEW seqs, IsLists(seqs)
    PROVE  \E at : IsLayout(at, FlattenSeq(seqs), seqs, Len(seqs))
<1> DEFINE N == Len(seqs)
           All == UNION {Range(seqs[i]) : i \in 1..N}
           Typ == Seq(All)
           step == [i \in 1..N |-> [x \in Typ |-> x \o seqs[i]]]
           Equation(f) == f = [i \in 1..N |-> IF i = 1 THEN seqs[i] ELSE f[i - 1] \o seqs[i]]
           flatten == CHOOSE f : Equation(f)
<1>1. N \in Nat /\ DOMAIN seqs = 1..N /\ \A i \in 1..N : IsSequence(seqs[i])
  BY ListShape DEF IsLists
<1>2. \A i \in 1..N : seqs[i] \in Typ
  <2> SUFFICES ASSUME NEW i \in 1..N
               PROVE  seqs[i] \in Typ
    OBVIOUS
  <2>1. seqs[i] \in Seq(Range(seqs[i])) /\ Range(seqs[i]) \subseteq All
    BY <1>1 DEF IsSequence
  <2> HIDE DEF All
  <2> QED BY <2>1
<1>3. IsLayout(<<>>, <<>>, seqs, 0)
  <2>1. IsSequence(<<>>) /\ DOMAIN <<>> = {} /\ <<>> = [x \in {} |-> x]
    BY DEF IsSequence
  <2>2. Places(seqs, 0) = {}
    BY DEF Places
  <2> QED BY <2>1, <2>2 DEF IsLayout
<1>4. CASE N = 0
  <2>1. FlattenSeq(seqs) = seqs /\ seqs = <<>>
    BY <1>1, <1>4 DEF FlattenSeq, IsLists, IsSequence
  <2> QED BY <1>3, <1>4, <2>1
<1>5. CASE N # 0
  <2>1. step \in [1..N -> [Typ -> Typ]] /\ \A i \in 1..N, x \in Typ : step[i][x] = x \o seqs[i]
    <3> HIDE DEF All
    <3> QED BY <1>2
  <2>2. <<>> \in Typ
    OBVIOUS
  <2> HIDE DEF Typ, step, All
  <2>3. PICK g \in [0..N -> Typ] : TakesSteps(g, N, <<>>, step)
    <3> HIDE DEF N
    <3> QED BY <1>1, <2>1, <2>2, StepsExist
  <2>4. \A k \in 1..N : g[k - 1] \in Typ /\ g[k] = g[k - 1] \o seqs[k]
    <3>1. \A k \in 1..N : k - 1 \in 0..N
      BY <1>1
    <3> QED BY <2>1, <2>3, <3>1 DEF TakesSteps
  <2>5. N >= 1 /\ 1 \in 1..N /\ 1 - 1 = 0
    BY <1>1, <1>5
  <2>6. g[1] = seqs[1]
    <3>1. g[1] = <<>> \o seqs[1] /\ seqs[1] \in Typ
      BY <1>2, <2>3, <2>4, <2>5 DEF TakesSteps
    <3> QED BY <3>1 DEF Typ
  <2> DEFINE f0 == [i \in 1..N |-> g[i]]
  <2>7. Equation(f0)
    <3>1. ASSUME NEW i \in 1..N, i # 1
          PROVE  i - 1 \in 1..N
      BY <1>1, <3>1
    <3>2. \A i \in 1..N : g[i] = IF i = 1 THEN seqs[i] ELSE f0[i - 1] \o seqs[i]
      BY <2>4, <2>6, <3>1
    <3> QED BY <3>2
  <2>8. Equation(flatten)
    <3> HIDE DEF Equation
    <3> QED BY <2>7
  <2>9. FlattenSeq(seqs) = flatten[N]
    BY <1>5 DEF FlattenSeq
  <2> HIDE DEF flatten
  <2>10. \A i \in 1..N : flatten[i] = IF i = 1 THEN seqs[i] ELSE flatten[i - 1] \o seqs[i]
    BY <2>8
  <2> DEFINE G == {k \in Nat : k + 1 =< N => flatten[k + 1] = g[k + 1]
                                             /\ \E at : IsLayout(at, g[k + 1], seqs, k + 1)}
  <2> HIDE DEF N
  <2>11. 0 \in G
    <3>0. 0 + 1 = 1 /\ 0 \in Nat /\ 0 + 1 =< N
      BY <2>5
    <3>1. \E at : IsLayout(at, <<>> \o seqs[0 + 1], seqs, 0 + 1)
      BY <1>3, <3>0, LayoutExtends, Zenon DEF N
    <3>2. <<>> \o seqs[0 + 1] = g[1]
      <4>1. g[1] = g[0] \o seqs[1]
        BY <2>4, <2>5
      <4> QED BY <2>3, <3>0, <4>1 DEF TakesSteps
    <3>3. flatten[1] = g[1]
      BY <2>5, <2>6, <2>10
    <3> QED BY <3>1, <3>2, <3>3
  <2>12. ASSUME NEW k \in Nat, k \in G
         PROVE  k + 1 \in G
    <3> SUFFICES ASSUME (k + 1) + 1 =< N
                 PROVE  /\ flatten[(k + 1) + 1] = g[(k + 1) + 1]
                        /\ \E at : IsLayout(at, g[(k + 1) + 1], seqs, (k + 1) + 1)
      OBVIOUS
    <3>1. (k + 1) + 1 \in 1..N /\ k + 1 =< N /\ ((k + 1) + 1) - 1 = k + 1 /\ (k + 1) + 1 # 1
      BY <1>1
    <3>2. flatten[k + 1] = g[k + 1] /\ \E at : IsLayout(at, g[k + 1], seqs, k + 1)
      BY <2>12, <3>1
    <3>3. g[(k + 1) + 1] = g[k + 1] \o seqs[(k + 1) + 1]
      BY <2>4, <3>1
    <3>4. flatten[(k + 1) + 1] = g[(k + 1) + 1]
      BY <2>10, <3>1, <3>2, <3>3
    <3>5. \E at : IsLayout(at, g[(k + 1) + 1], seqs, (k + 1) + 1)
      BY <3>2, <3>3, LayoutExtends DEF N
    <3> QED BY <3>4, <3>5
  <2>13. N - 1 \in G
    <3> HIDE DEF G
    <3>1. Nat \subseteq G
      BY <2>11, <2>12, NatSetInduction
    <3> QED BY <1>1, <2>5, <3>1
  <2>14. (N - 1) + 1 = N
    BY <1>1
  <2> QED BY <2>9, <2>13, <2>14 DEF N
<1> QED BY <1>4, <1>5

\* A concatenation has the elements of its lists.
LEMMA FlatRange ==
    ASSUME NEW seqs, IsLists(seqs)
    PROVE  /\ IsSequence(FlattenSeq(seqs))
           /\ Range(FlattenSeq(seqs)) = UNION {Range(seqs[i]) : i \in DOMAIN seqs}
<1> DEFINE flat == FlattenSeq(seqs)
           N == Len(seqs)
<1>1. PICK at : IsLayout(at, flat, seqs, N)
  BY Flattened
<1>2. DOMAIN seqs = 1..N /\ \A i \in 1..N : IsSequence(seqs[i])
  BY ListShape DEF IsLists
<1> HIDE DEF flat, N
<1>3. ASSUME NEW k \in DOMAIN flat
      PROVE  \E i \in DOMAIN seqs : flat[k] \in Range(seqs[i])
  <2>1. at[k] \in Places(seqs, N) /\ flat[k] = seqs[at[k][1]][at[k][2]]
    BY <1>1 DEF IsLayout
  <2> QED BY <1>2, <2>1 DEF Places, Range
<1>4. ASSUME NEW i \in DOMAIN seqs, NEW j \in DOMAIN seqs[i]
      PROVE  seqs[i][j] \in Range(flat)
  <2>1. j \in Nat
    BY <1>2, ListShape
  <2>2. <<i, j>> \in Places(seqs, N)
    BY <1>2, <2>1 DEF Places
  <2>3. PICK k \in DOMAIN flat : at[k] = <<i, j>>
    BY <1>1, <2>2 DEF IsLayout
  <2>4. flat[k] = seqs[i][j]
    BY <1>1, <2>3 DEF IsLayout
  <2> QED BY <2>4 DEF Range
<1>5. Range(flat) = UNION {Range(seqs[i]) : i \in DOMAIN seqs}
  <2>1. ASSUME NEW x \in Range(flat)
        PROVE  \E i \in DOMAIN seqs : x \in Range(seqs[i])
    BY <1>3 DEF Range
  <2>2. ASSUME NEW i \in DOMAIN seqs, NEW x \in Range(seqs[i])
        PROVE  x \in Range(flat)
    <3>1. PICK j \in DOMAIN seqs[i] : x = seqs[i][j]
      BY DEF Range
    <3> QED BY <1>4, <3>1
  <2> QED BY <2>1, <2>2
<1> QED BY <1>1, <1>5 DEF IsLayout, flat

\* at says which position of s each kept element is from.
IsPick(at, kept, s, keep) ==
    /\ IsSequence(kept) /\ at \in [DOMAIN kept -> DOMAIN s \cap keep]
    /\ \A k \in DOMAIN kept : kept[k] = s[at[k]]
    /\ \A i \in DOMAIN s \cap keep : \E k \in DOMAIN kept : at[k] = i
    /\ \A j, k \in DOMAIN kept : j < k => at[j] < at[k]

\* What a selection keeps are the elements at the kept positions, in order.
LEMMA KeptShape ==
    ASSUME NEW s, IsSequence(s), NEW keep
    PROVE  /\ \E at : IsPick(at, Kept(s, keep), s, keep)
           /\ IsSequence(Kept(s, keep))
           /\ Range(Kept(s, keep)) = {s[i] : i \in DOMAIN s \cap keep}
<1> DEFINE n == Len(s)
           seqs == [i \in DOMAIN s |-> IF i \in keep THEN <<s[i]>> ELSE <<>>]
           kept == Kept(s, keep)
<1>1. n \in Nat /\ DOMAIN s = 1..n
  BY ListShape
<1>2. kept = FlattenSeq(seqs)
  BY DEF Kept
<1>3. ASSUME NEW i \in DOMAIN s
      PROVE  /\ IsSequence(seqs[i]) /\ DOMAIN seqs[i] = IF i \in keep THEN {1} ELSE {}
             /\ i \in keep => seqs[i][1] = s[i]
  <2>1. CASE i \in keep
    <3>1. seqs[i] = <<s[i]>>
      BY <2>1
    <3>2. DOMAIN <<s[i]>> = {1} /\ <<s[i]>> = [k \in 1..1 |-> <<s[i]>>[k]] /\ <<s[i]>>[1] = s[i]
      OBVIOUS
    <3>3. IsSequence(<<s[i]>>)
      BY <3>2, IsList
    <3> QED BY <2>1, <3>1, <3>2, <3>3
  <2>2. CASE i \notin keep
    <3>1. seqs[i] = <<>> /\ DOMAIN <<>> = {} /\ IsSequence(<<>>)
      BY <2>2 DEF IsSequence
    <3> QED BY <2>2, <3>1
  <2> QED BY <2>1, <2>2
<1>4. IsSequence(seqs) /\ Len(seqs) = n /\ DOMAIN seqs = DOMAIN s
  <2>1. seqs = [i \in 1..n |-> seqs[i]]
    BY <1>1
  <2> HIDE DEF seqs, n
  <2> QED BY <1>1, <2>1, IsList
<1>5. IsLists(seqs)
  BY <1>3, <1>4 DEF IsLists
<1> HIDE DEF seqs, kept, n
<1>6. PICK at : IsLayout(at, kept, seqs, n)
  BY <1>2, <1>4, <1>5, Flattened
<1> DEFINE from == [k \in DOMAIN kept |-> at[k][1]]
<1>7. \A k \in DOMAIN kept : at[k] \in Places(seqs, n) /\ kept[k] = seqs[at[k][1]][at[k][2]]
  BY <1>6 DEF IsLayout
<1>8. ASSUME NEW p \in Places(seqs, n)
      PROVE  p = <<p[1], 1>> /\ p[1] \in DOMAIN s \cap keep
  <2>1. p = <<p[1], p[2]>> /\ p[1] \in DOMAIN s /\ p[2] \in DOMAIN seqs[p[1]]
    BY <1>1 DEF Places
  <2> QED BY <1>3, <2>1
<1>9. from \in [DOMAIN kept -> DOMAIN s \cap keep] /\ \A k \in DOMAIN kept : kept[k] = s[from[k]]
  <2>1. ASSUME NEW k \in DOMAIN kept
        PROVE  from[k] \in DOMAIN s \cap keep /\ kept[k] = s[from[k]]
    <3>1. at[k] = <<from[k], 1>> /\ from[k] \in DOMAIN s \cap keep
      BY <1>7, <1>8
    <3>2. kept[k] = seqs[from[k]][1]
      BY <1>7, <3>1
    <3> HIDE DEF from
    <3> QED BY <1>3, <3>1, <3>2
  <2> QED BY <2>1
<1>10. ASSUME NEW i \in DOMAIN s \cap keep
       PROVE  \E k \in DOMAIN kept : from[k] = i
  <2>1. <<i, 1>> \in Places(seqs, n)
    BY <1>1, <1>3 DEF Places
  <2>2. PICK k \in DOMAIN kept : at[k] = <<i, 1>>
    BY <1>6, <2>1 DEF IsLayout
  <2> QED BY <2>2
<1>11. ASSUME NEW j \in DOMAIN kept, NEW k \in DOMAIN kept, j < k
       PROVE  from[j] < from[k]
  <2>1. Ahead(at[j], at[k])
    BY <1>6, <1>11 DEF IsLayout
  <2>2. at[j] = <<from[j], 1>> /\ at[k] = <<from[k], 1>>
    BY <1>7, <1>8
  <2> HIDE DEF from
  <2> QED BY <2>1, <2>2 DEF Ahead
<1> HIDE DEF from
<1>12. IsPick(from, kept, s, keep)
  BY <1>6, <1>9, <1>10, <1>11 DEF IsPick, IsLayout
<1>13. Range(kept) = {s[i] : i \in DOMAIN s \cap keep}
  BY <1>9, <1>10 DEF Range
<1> QED BY <1>12, <1>13 DEF IsPick, kept

\* The first of the found positions, if there is one.
LEMMA MinOf ==
    ASSUME NEW S \in SUBSET Nat, S # {}
    PROVE  Min(S) \in S /\ \A x \in S : Min(S) =< x
<1>1. PICK x \in S : \A y \in S : ~(<<y, x>> \in OpToRel(<, Nat))
  BY NatLessThanWellFounded, WFMin, Zenon
<1>2. ASSUME NEW y \in S
      PROVE  x =< y
  <2>1. x \in Nat /\ y \in Nat /\ ~(<<y, x>> \in OpToRel(<, Nat))
    BY <1>1
  <2> QED BY <2>1 DEF OpToRel
<1> QED BY <1>2 DEF Min

\* The last of finitely many positions.
LEMMA MaxOf ==
    ASSUME NEW n \in Nat, NEW S \in SUBSET (1..n), S # {}
    PROVE  Max(S) \in S /\ \A x \in S : Max(S) >= x
<1>1. \E x \in S : \A y \in S : x >= y
  BY HighestExists
<1> QED BY <1>1 DEF Max

\* The first of the found positions gives an element of the list.
LEMMA FirstShape ==
    ASSUME NEW s, IsSequence(s), NEW found \in SUBSET DOMAIN s, NEW default
    PROVE  /\ found = {} => FirstOr(s, found, default) = default
           /\ found # {} => \E i \in found : /\ FirstOr(s, found, default) = s[i]
                                            /\ \A j \in found : i =< j
<1>1. found \in SUBSET Nat
  <2>1. DOMAIN s = 1..Len(s)
    BY ListShape
  <2> QED BY <2>1
<1> QED BY <1>1, MinOf DEF FirstOr

\* A function between two sets of numbers of one size that repeats no value
\* leaves none out.
LEMMA Permutes ==
    ASSUME NEW n \in Nat, NEW f \in [1..n -> 1..n], \A i, j \in 1..n : f[i] = f[j] => i = j
    PROVE  \A k \in 1..n : \E i \in 1..n : f[i] = k
<1>1. IsFiniteSet(1..n)
  <2>1. 1 \in Int /\ n \in Int
    OBVIOUS
  <2> QED BY <2>1, FS_Interval
<1>2. f \in Injection(1..n, 1..n)
  BY DEF Injection, IsInjective
<1>3. f \in Surjection(1..n, 1..n)
  BY <1>1, <1>2, FS_Injection
<1> QED BY <1>3 DEF Surjection

\* A sorted list has the elements of the list it was made from.
LEMMA OrderedShape ==
    ASSUME NEW s, IsSequence(s), NEW rank \in [DOMAIN s -> Int], NEW flip \in BOOLEAN
    PROVE  /\ IsSequence(OrderedBy(s, rank, flip)) /\ DOMAIN OrderedBy(s, rank, flip) = DOMAIN s
           /\ Range(OrderedBy(s, rank, flip)) = Range(s)
           /\ \E at \in [DOMAIN s -> DOMAIN s] :
                 /\ \A k \in DOMAIN s : OrderedBy(s, rank, flip)[k] = s[at[k]]
                 /\ \A i \in DOMAIN s : \E k \in DOMAIN s : at[k] = i
                 /\ \A j, k \in DOMAIN s : at[j] = at[k] => j = k
<1> DEFINE n == Len(s)
           Before(j, i) == rank[j] < rank[i] \/ (rank[j] = rank[i] /\ (j < i) # flip)
           Earlier(j, i) == IF flip THEN i =< j ELSE j < i
           UpTo(i) == {j \in DOMAIN s : j = i \/ Before(j, i)}
           place == [i \in DOMAIN s |-> Cardinality(UpTo(i))]
           at == [k \in DOMAIN s |-> CHOOSE i \in DOMAIN s : place[i] = k]
           sorted == OrderedBy(s, rank, flip)
<1>1. n \in Nat /\ DOMAIN s = 1..n /\ IsFiniteSet(DOMAIN s) /\ Cardinality(DOMAIN s) = n
  <2>1. n \in Nat /\ DOMAIN s = 1..n
    BY ListShape
  <2>2. 1 \in Int /\ n \in Int
    BY <2>1
  <2>3. IsFiniteSet(1..n) /\ Cardinality(1..n) = n
    <3> HIDE DEF n
    <3> QED BY <2>1, <2>2, FS_Interval
  <2> QED BY <2>1, <2>3
<1>2. sorted = [k \in DOMAIN s |-> s[at[k]]]
  BY DEF OrderedBy
<1> HIDE DEF n, sorted
<1>0. ASSUME NEW i \in DOMAIN s, NEW j \in DOMAIN s
      PROVE  Before(j, i) <=> rank[j] < rank[i] \/ (rank[j] = rank[i] /\ Earlier(j, i))
  <2>1. i \in Nat /\ j \in Nat /\ (j < i <=> ~(i =< j)) /\ flip \in BOOLEAN
    BY <1>1
  <2> QED BY <2>1
<1>3. ASSUME NEW i \in DOMAIN s, NEW j \in DOMAIN s, i # j
      PROVE  Before(i, j) \/ Before(j, i)
  <2>1. i \in Nat /\ j \in Nat /\ rank[i] \in Int /\ rank[j] \in Int
    BY <1>1
  <2>2. i < j \/ j < i
    BY <1>3, <2>1
  <2>3. rank[i] < rank[j] \/ rank[j] < rank[i] \/ rank[i] = rank[j]
    BY <2>1
  <2>4. ~(i < j /\ j < i)
    BY <2>1
  <2> QED BY <2>2, <2>3, <2>4
<1>4. ASSUME NEW i \in DOMAIN s, NEW j \in DOMAIN s, NEW k \in DOMAIN s, Before(i, j), Before(j, k)
      PROVE  Before(i, k)
  <2>1. i \in Nat /\ j \in Nat /\ k \in Nat /\ rank[i] \in Int /\ rank[j] \in Int /\ rank[k] \in Int
    BY <1>1
  <2>2. /\ rank[i] < rank[j] \/ (rank[i] = rank[j] /\ Earlier(i, j))
        /\ rank[j] < rank[k] \/ (rank[j] = rank[k] /\ Earlier(j, k))
    BY <1>0, <1>1, <1>4
  <2>3. Earlier(i, j) /\ Earlier(j, k) => Earlier(i, k)
    BY <2>1
  <2>4. rank[i] < rank[k] \/ (rank[i] = rank[k] /\ Earlier(i, k))
    <3> HIDE DEF Earlier
    <3> QED BY <2>1, <2>2, <2>3
  <2> QED BY <1>0, <1>1, <2>4
<1>5. ASSUME NEW i \in DOMAIN s, NEW j \in DOMAIN s, Before(i, j)
      PROVE  ~Before(j, i) \/ i = j
  <2>1. i \in Nat /\ j \in Nat /\ rank[i] \in Int /\ rank[j] \in Int
    BY <1>1
  <2>2. rank[i] < rank[j] \/ (rank[i] = rank[j] /\ Earlier(i, j))
    BY <1>0, <1>1, <1>5
  <2>3. Earlier(i, j) /\ Earlier(j, i) => i = j
    BY <2>1
  <2>4. rank[j] < rank[i] \/ (rank[j] = rank[i] /\ Earlier(j, i)) => i = j
    <3> HIDE DEF Earlier
    <3> QED BY <2>1, <2>2, <2>3
  <2> QED BY <1>0, <1>1, <2>4
<1> HIDE DEF Before
<1>6. ASSUME NEW i \in DOMAIN s
      PROVE  IsFiniteSet(UpTo(i)) /\ Cardinality(UpTo(i)) \in 1..n
  <2>1. UpTo(i) \in SUBSET DOMAIN s /\ i \in UpTo(i)
    OBVIOUS
  <2> HIDE DEF UpTo
  <2>2. IsFiniteSet(UpTo(i)) /\ Cardinality(UpTo(i)) =< n
    BY <1>1, <2>1, FS_Subset
  <2>3. Cardinality(UpTo(i)) \in Nat /\ Cardinality(UpTo(i)) # 0
    BY <2>1, <2>2, FS_CardinalityType, FS_EmptySet
  <2> QED BY <1>1, <2>2, <2>3
<1>7. ASSUME NEW i \in DOMAIN s, NEW j \in DOMAIN s, i # j, Before(i, j)
      PROVE  Cardinality(UpTo(i)) # Cardinality(UpTo(j))
  <2>1. UpTo(i) \in SUBSET UpTo(j)
    BY <1>4, <1>7
  <2>2. j \in UpTo(j) /\ j \notin UpTo(i)
    BY <1>5, <1>7
  <2> HIDE DEF UpTo
  <2> QED BY <1>6, <2>1, <2>2, FS_Subset
<1> HIDE DEF UpTo
<1>8. place \in [1..n -> 1..n] /\ \A i, j \in 1..n : place[i] = place[j] => i = j
  BY <1>1, <1>3, <1>6, <1>7
<1>9. \A k \in 1..n : \E i \in 1..n : place[i] = k
  <2>1. n \in Nat
    BY <1>1
  <2> HIDE DEF place, n
  <2> QED BY <1>8, <2>1, Permutes
<1> HIDE DEF place
<1>10. \A k \in DOMAIN s : at[k] \in DOMAIN s /\ place[at[k]] = k
  BY <1>1, <1>9
<1>11. at \in [DOMAIN s -> DOMAIN s]
  BY <1>10
<1>12. \A i \in DOMAIN s : place[i] \in DOMAIN s /\ at[place[i]] = i
  <2> HIDE DEF at
  <2> QED BY <1>1, <1>8, <1>10
<1> HIDE DEF at
<1>13. IsSequence(sorted)
  <2>1. sorted = [k \in 1..n |-> sorted[k]]
    BY <1>1, <1>2
  <2> QED BY <1>1, <2>1, IsList
<1>14. Range(sorted) = Range(s)
  BY <1>2, <1>11, <1>12 DEF Range
<1>15. \A j, k \in DOMAIN s : at[j] = at[k] => j = k
  BY <1>10
<1> QED BY <1>2, <1>11, <1>12, <1>13, <1>14, <1>15 DEF sorted

\* The list of a finite set has its elements, each once.
LEMMA SetListed ==
    ASSUME NEW S, IsFiniteSet(S)
    PROVE  /\ IsSequence(SetToSeq(S)) /\ DOMAIN SetToSeq(S) = 1..Cardinality(S) /\ Cardinality(S) \in Nat
           /\ Range(SetToSeq(S)) = S
           /\ \A i, j \in DOMAIN SetToSeq(S) : SetToSeq(S)[i] = SetToSeq(S)[j] => i = j
<1> DEFINE n == Cardinality(S)
           list == SetToSeq(S)
<1>1. n \in Nat /\ ExistsBijection(1..n, S) /\ IsFiniteSet(1..n) /\ Cardinality(1..n) = n
  <2>1. n \in Nat /\ ExistsBijection(1..n, S)
    BY FS_CardinalityType
  <2>2. 1 \in Int /\ n \in Int
    BY <2>1
  <2> HIDE DEF n
  <2> QED BY <2>1, <2>2, FS_Interval
<1>2. \E f \in [1..n -> S] : IsInjective(f)
  BY <1>1 DEF ExistsBijection, Bijection, Injection
<1>3. list \in [1..n -> S] /\ IsInjective(list)
  BY <1>2 DEF SetToSeq
<1> HIDE DEF list
<1>4. list \in Injection(1..n, S)
  BY <1>3 DEF Injection
<1>5. list \in Surjection(1..n, S)
  BY <1>1, <1>4, FS_Injection
<1>6. Range(list) = S
  BY <1>3, <1>5 DEF Surjection, Range
<1>7. IsSequence(list)
  <2>1. list = [k \in 1..n |-> list[k]]
    BY <1>3
  <2> HIDE DEF n
  <2> QED BY <1>1, <2>1, IsList
<1> QED BY <1>1, <1>3, <1>6, <1>7 DEF list, IsInjective

\* A list turned round has the same elements.
LEMMA ReverseShape ==
    ASSUME NEW s, IsSequence(s)
    PROVE  IsSequence(Reverse(s)) /\ DOMAIN Reverse(s) = DOMAIN s /\ Range(Reverse(s)) = Range(s)
<1> DEFINE n == Len(s)
           r == Reverse(s)
<1>1. n \in Nat /\ DOMAIN s = 1..n
  BY ListShape
<1>2. r = [i \in 1..n |-> s[(n - i) + 1]]
  BY DEF Reverse
<1> HIDE DEF n, r
<1>3. \A i \in 1..n : (n - i) + 1 \in 1..n /\ (n - ((n - i) + 1)) + 1 = i
  BY <1>1
<1>4. IsSequence(r) /\ DOMAIN r = 1..n
  <2>1. r = [i \in 1..n |-> r[i]]
    BY <1>2
  <2> QED BY <1>1, <2>1, IsList
<1>5. Range(r) = Range(s)
  BY <1>1, <1>2, <1>3 DEF Range
<1> QED BY <1>1, <1>4, <1>5 DEF r

\* A list made element by element from another is a list.
LEMMA MappedShape ==
    ASSUME NEW s, IsSequence(s), NEW t, t = [i \in DOMAIN s |-> t[i]]
    PROVE  IsSequence(t) /\ DOMAIN t = DOMAIN s /\ Len(t) = Len(s)
BY ListShape, IsList

\* The empty list is one.
LEMMA EmptyShape == IsSequence(<<>>) /\ DOMAIN <<>> = {} /\ Range(<<>>) = {}
BY DEF IsSequence, Range

\* A list without positions is the empty one.
LEMMA OnlyEmpty ==
    ASSUME NEW s, IsSequence(s), DOMAIN s = {}
    PROVE  s = <<>>
<1>1. DOMAIN s = 1..Len(s) /\ Len(s) \in Nat /\ s = [i \in 1..Len(s) |-> s[i]]
  BY ListShape
<1>2. Len(s) = 0
  BY <1>1
<1> QED BY <1>1, <1>2

\* A beginning of a list.
LEMMA PrefixShape ==
    ASSUME NEW s, IsSequence(s), NEW n \in Nat, n =< Len(s)
    PROVE  /\ IsSequence(SubSeq(s, 1, n)) /\ DOMAIN SubSeq(s, 1, n) = 1..n
           /\ \A i \in 1..n : i \in DOMAIN s /\ SubSeq(s, 1, n)[i] = s[i]
<1> DEFINE T == Range(s)
           p == SubSeq(s, 1, n)
<1>1. s \in Seq(T) /\ Len(s) \in Nat /\ DOMAIN s = 1..Len(s)
  BY DEF IsSequence
<1> HIDE DEF T
<1>2. p = [i \in 1..n |-> s[i]]
  BY <1>1
<1> HIDE DEF p
<1>3. IsSequence(p) /\ DOMAIN p = 1..n
  BY <1>2, IsList
<1>4. \A i \in 1..n : i \in DOMAIN s
  BY <1>1
<1> QED BY <1>2, <1>3, <1>4 DEF p

\* A list has finitely many elements.
LEMMA RangeFinite ==
    ASSUME NEW s, IsSequence(s)
    PROVE  IsFiniteSet(Range(s)) /\ IsFiniteSet(DOMAIN s)
<1> DEFINE n == Len(s)
<1>1. n \in Nat /\ DOMAIN s = 1..n /\ IsFiniteSet(1..n)
  <2>1. n \in Nat /\ DOMAIN s = 1..n
    BY ListShape
  <2>2. 1 \in Int /\ n \in Int
    BY <2>1
  <2> HIDE DEF n
  <2> QED BY <2>1, <2>2, FS_Interval
<1>2. s \in Surjection(1..n, Range(s))
  <2>1. s = [i \in 1..n |-> s[i]]
    BY ListShape
  <2>2. s \in [1..n -> Range(s)]
    BY <1>1, <2>1 DEF Range
  <2>3. \A x \in Range(s) : \E i \in 1..n : s[i] = x
    BY <1>1 DEF Range
  <2> QED BY <2>2, <2>3 DEF Surjection
<1> QED BY <1>1, <1>2, FS_Surjection

\* A finite set of numbers has its maximum in it.
LEMMA FiniteMax ==
    ASSUME NEW S \in SUBSET Int, IsFiniteSet(S), S # {}
    PROVE  Max(S) \in S /\ \A x \in S : Max(S) >= x
<1> DEFINE R == {p \in S \X S : p[1] =< p[2]}
<1>1. \A x, y \in S : (<<x, y>> \in R) <=> x =< y
  OBVIOUS
<1>2. \A x, y \in S : x = y \/ <<x, y>> \in R \/ <<y, x>> \in R
  <2>1. \A x, y \in S : x =< y \/ y =< x
    OBVIOUS
  <2> HIDE DEF R
  <2> QED BY <1>1, <2>1
<1>3. \A x, y, z \in S : <<x, y>> \in R /\ <<y, z>> \in R => <<x, z>> \in R
  BY <1>1
<1> HIDE DEF R
<1>4. PICK x \in S : \A y \in S : y = x \/ <<y, x>> \in R
  BY <1>2, <1>3, GreatestExists
<1>5. \A y \in S : x >= y
  <2>1. ASSUME NEW y \in S
        PROVE  x >= y
    <3>1. x \in Int /\ y \in Int
      OBVIOUS
    <3>2. y = x \/ y =< x
      BY <1>1, <1>4
    <3> QED BY <3>1, <3>2
  <2> QED BY <2>1
<1> QED BY <1>5 DEF Max
=============================================================================
