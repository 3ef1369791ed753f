------------------------------ MODULE NaturalFacts ------------------------------
(***************************************************************************)
(* Facts about whole numbers that several proofs need: induction and       *)
(* primitive recursion, stated for sets and functions (instead of          *)
(* predicates and operators), and the ends of a finite set.                *)
(***************************************************************************)
EXTENDS Integers, FiniteSetTheorems, TLAPS

(* A finite set of numbers has a largest.                                  *)
LEMMA LargestExists ==
  ASSUME NEW S \in SUBSET Int, IsFiniteSet(S), S # {}
  PROVE  \E m \in S : \A l \in S : l <= m
<1> DEFINE Up(m) == {l \in S : m <= l}
           ups == {Up(m) : m \in S}
<1>1. IsWellFoundedOn(StrictSubsetOrdering(S), SUBSET S)
  BY FS_StrictSubsetOrderingWellFounded, FS_FiniteSubsetsOfFinite
<1>2. ups \subseteq SUBSET S /\ ups # {}
  OBVIOUS
<1>3. PICK u \in ups : \A v \in ups : <<v, u>> \notin StrictSubsetOrdering(S)
  <2> HIDE DEF ups
  <2> QED BY <1>1, <1>2, WFMin
<1>4. PICK m \in S : u = Up(m)
  BY <1>3
<1>5. ASSUME NEW l \in S, ~(l <= m)
      PROVE  FALSE
  <2>1. l \in Int /\ m \in Int /\ m < l
    BY <1>5
  <2>2. \A k \in S : l <= k => m <= k
    BY <2>1
  <2>3. m \in Up(m) /\ m \notin Up(l) /\ Up(l) \subseteq Up(m)
    <3>1. m <= m /\ ~(l <= m)
      BY <2>1
    <3>2. Up(l) \subseteq Up(m)
      BY <2>2
    <3>3. m \in Up(m) /\ m \notin Up(l)
      BY <3>1
    <3> QED
      BY <3>2, <3>3
  <2>4. Up(l) \in SUBSET S /\ Up(m) \in SUBSET S /\ Up(l) \in ups
    OBVIOUS
  <2> HIDE DEF Up
  <2>5. <<Up(l), Up(m)>> \in StrictSubsetOrdering(S)
    BY <2>3, <2>4 DEF StrictSubsetOrdering
  <2> QED
    BY <1>3, <1>4, <2>4, <2>5
<1> QED
  BY <1>5

(* A finite set of integers has a smallest: the largest, seen from above.  *)
LEMMA SmallestExists ==
  ASSUME NEW S \in SUBSET Int, IsFiniteSet(S), S # {}
  PROVE  \E m \in S : \A l \in S : m <= l
<1> DEFINE N == {0 - l : l \in S}
           g == [l \in S |-> 0 - l]
<1>1. g \in Surjection(S, N)
  BY DEF Surjection
<1>2. N \in SUBSET Int /\ N # {}
  <2>1. PICK l \in S : TRUE
    OBVIOUS
  <2>2. 0 - l \in N
    OBVIOUS
  <2> QED
    BY <2>2
<1>3. \A l \in S : 0 - l \in N
  OBVIOUS
<1>4. \A k \in N : \E l \in S : k = 0 - l
  OBVIOUS
<1> HIDE DEF N, g
<1>5. IsFiniteSet(N)
  BY <1>1, FS_Surjection
<1>6. PICK k \in N : \A h \in N : h <= k
  BY <1>2, <1>5, LargestExists
<1>7. PICK m \in S : k = 0 - m
  BY <1>4
<1>8. \A l \in S : 0 - l <= 0 - m
  BY <1>3, <1>6, <1>7
<1> QED
  BY <1>8

(* A set of natural numbers has a least: the largest below one of them,    *)
(* seen from above.                                                        *)
LEMMA LeastExists ==
  ASSUME NEW S \in SUBSET Nat, S # {}
  PROVE  \E m \in S : \A l \in S : m <= l
<1>1. PICK k \in S : TRUE
  OBVIOUS
<1> DEFINE Below == {l \in S : l <= k}
           Gaps == {k - l : l \in Below}
<1>2. Gaps \subseteq 0 .. k /\ Gaps # {} /\ Gaps \in SUBSET Int
  <2>1. k - k \in Gaps
    OBVIOUS
  <2>2. Gaps \subseteq 0 .. k
    OBVIOUS
  <2> QED
    BY <2>1, <2>2
<1>3. IsFiniteSet(Gaps)
  <2>1. IsFiniteSet(0 .. k)
    BY FS_Interval
  <2> QED
    BY <1>2, <2>1, FS_Subset
<1>4. PICK g \in Gaps : \A h \in Gaps : h <= g
  <2> HIDE DEF Gaps
  <2> QED BY <1>2, <1>3, LargestExists
<1>5. PICK m \in Below : g = k - m
  BY <1>4
<1>6. ASSUME NEW l \in S
      PROVE  m <= l
  <2>1. CASE l <= k
    <3>1. k - l \in Gaps
      BY <2>1
    <3>2. k - l <= k - m
      BY <1>4, <1>5, <3>1
    <3> QED
      BY <3>2
  <2>2. CASE ~(l <= k)
    BY <2>2
  <2> QED
    BY <2>1, <2>2
<1> QED
  BY <1>6

(* A set that has 0 and, with each number below n, the next one has all    *)
(* numbers up to n.                                                        *)
LEMMA InductionUpTo ==
  ASSUME NEW n \in Nat, NEW S, 0 \in S,
         \A i \in 0 .. n - 1 : i \in S => i + 1 \in S
  PROVE  0 .. n \subseteq S
<1> DEFINE Out == (0 .. n) \ S
<1> SUFFICES ASSUME Out # {} PROVE FALSE
  OBVIOUS
<1>1. PICK m \in Out : \A l \in Out : m <= l
  <2> Out \in SUBSET Nat
    OBVIOUS
  <2> HIDE DEF Out
  <2> QED BY LeastExists
<1>2. m \in 1 .. n /\ m \notin S
  OBVIOUS
<1>3. m - 1 \in 0 .. n - 1 /\ m - 1 \in S
  BY <1>1, <1>2
<1>4. (m - 1) + 1 = m
  BY <1>2
<1> QED
  BY <1>2, <1>3, <1>4

(* g is computed step by step from base, up to n.                          *)
Follows(g, base, step, n) == g[0] = base /\ \A i \in 1 .. n : g[i] = step[i][g[i - 1]]

(* A function may be defined step by step.                                 *)
LEMMA RecursionExists ==
  ASSUME NEW V, NEW base \in V, NEW n \in Nat, NEW step \in [1 .. n -> [V -> V]]
  PROVE  \E g \in [0 .. n -> V] : Follows(g, base, step, n)
<1> DEFINE Is(k, g) == Follows(g, base, step, k)
           S == {k \in 0 .. n : \E g \in [0 .. k -> V] : Is(k, g)}
<1> USE DEF Follows
<1>1. 0 \in S
  <2> DEFINE g == [i \in 0 .. 0 |-> base]
  <2>1. g \in [0 .. 0 -> V] /\ Is(0, g)
    OBVIOUS
  <2> HIDE DEF g, Is
  <2>2. \E f \in [0 .. 0 -> V] : Is(0, f)
    BY <2>1
  <2> QED
    BY <2>2
<1>2. ASSUME NEW k \in 0 .. n - 1, k \in S
      PROVE  k + 1 \in S
  <2>1. PICK g \in [0 .. k -> V] : Is(k, g)
    BY <1>2
  <2> DEFINE h == [i \in 0 .. k + 1 |-> IF i = k + 1 THEN step[k + 1][g[k]] ELSE g[i]]
  <2>2. k + 1 \in 1 .. n /\ g[k] \in V
    OBVIOUS
  <2>3. step[k + 1][g[k]] \in V
    BY <2>2
  <2>4. h \in [0 .. k + 1 -> V]
    BY <2>3
  <2>5. h[0] = base
    BY <2>1
  <2>6. ASSUME NEW i \in 1 .. k + 1
        PROVE  h[i] = step[i][h[i - 1]]
    <3>1. i - 1 \in 0 .. k /\ h[i - 1] = g[i - 1]
      BY <2>2
    <3>2. CASE i = k + 1
      <4>1. h[k + 1] = step[k + 1][g[k]]
        OBVIOUS
      <4>2. i - 1 = k
        BY <3>2
      <4>3. h[i - 1] = g[k]
        BY <3>1, <4>2
      <4> HIDE DEF h
      <4> QED
        BY <3>2, <4>1, <4>3
    <3>3. CASE i # k + 1
      <4>1. i \in 1 .. k /\ h[i] = g[i]
        BY <3>3
      <4> QED
        BY <2>1, <3>1, <4>1
    <3> QED
      BY <3>2, <3>3
  <2>7. Is(k + 1, h)
    BY <2>5, <2>6
  <2> HIDE DEF h, Is
  <2> QED
    BY <2>4, <2>7
<1> HIDE DEF S, Follows
<1>3. \A k \in 0 .. n - 1 : k \in S => k + 1 \in S
  BY <1>2
<1>4. 0 .. n \subseteq S
  BY <1>1, <1>3, InductionUpTo
<1>5. n \in 0 .. n
  OBVIOUS
<1>6. n \in S
  BY <1>4, <1>5
<1> QED
  BY <1>6 DEF S
=============================================================================
