--------------------------- MODULE BasicTheorems ----------------------------
(***************************************************************************)
(* What the proofs of the other modules need to know and the library does  *)
(* not state: quotients and remainders of numbers that are not literals,   *)
(* induction, repeated application and folds without an operator as a      *)
(* parameter, words one behind the other, and sums over a finite set.      *)
(***************************************************************************)
EXTENDS Integers, FiniteSets, FiniteSetsExt, SequencesExt, FiniteSetTheorems, SequenceTheorems,
        WellFoundedInduction, TLAPS

\* Products, quotients and remainders of numbers that are not literals.

LEMMA Times ==
    ASSUME NEW a \in Int, NEW b \in Int, NEW c \in Nat, a <= b
    PROVE  a * c <= b * c
BY SMT

LEMMA Division ==
    ASSUME NEW x \in Int, NEW b \in Nat \ {0}
    PROVE  /\ x \div b \in Int /\ x % b \in 0 .. b - 1
           /\ x = b * (x \div b) + (x % b)
BY SMT

LEMMA DivNat ==
    ASSUME NEW x \in Nat, NEW b \in Nat \ {0}
    PROVE  x \div b \in Nat
BY SMT

LEMMA Unique ==
    ASSUME NEW b \in Nat \ {0}, NEW q \in Int, NEW r \in 0 .. b - 1
    PROVE  /\ (b * q + r) \div b = q
           /\ (b * q + r) % b = r
<1>. DEFINE x == b * q + r
<1>1. x \in Int
  OBVIOUS
<1>2. /\ x \div b \in Int /\ x % b \in 0 .. b - 1
      /\ x = b * (x \div b) + (x % b)
  BY <1>1, Division
<1>3. ASSUME NEW p \in Int, NEW s \in 0 .. b - 1, b * q + r = b * p + s, p < q PROVE FALSE
  <2>1. (p + 1) * b <= q * b
    BY <1>3, Times
  <2>2. b * (p + 1) = b * p + b
    OBVIOUS
  <2>. QED BY <1>3, <2>1, <2>2
<1>4. ASSUME NEW p \in Int, NEW s \in 0 .. b - 1, b * q + r = b * p + s, q < p PROVE FALSE
  <2>1. (q + 1) * b <= p * b
    BY <1>4, Times
  <2>. QED BY <1>4, <2>1
<1>5. x \div b = q
  BY <1>2, <1>3, <1>4
<1>. HIDE DEF x
<1>6. x % b = r
  <2>1. x = b * q + r
    BY DEF x
  <2>. QED BY <1>2, <1>5, <2>1
<1>. QED BY <1>5, <1>6 DEF x

\* (b c q + r) splits
LEMMA DivDiv ==
    ASSUME NEW x \in Int, NEW a \in Nat \ {0}, NEW b \in Nat \ {0}
    PROVE  (x \div a) \div b = x \div (a * b)
<1>. DEFINE q == x \div a
            r == x % a
            p == q \div b
            s == q % b
<1>1. q \in Int /\ r \in 0 .. a - 1 /\ x = a * q + r
  BY Division
<1>2. p \in Int /\ s \in 0 .. b - 1 /\ q = b * p + s
  BY <1>1, Division
<1>. HIDE DEF q, r, p, s
<1>3. x = (a * b) * p + (a * s + r)
  BY <1>1, <1>2
<1>4. a * b \in Nat \ {0}
  OBVIOUS
<1>5. a * s + r \in 0 .. a * b - 1
  <2>1. (s + 1) * a <= b * a
    BY <1>2, Times
  <2>2. a * s + r <= a * s + (a - 1)
    BY <1>1, <1>2
  <2>. QED BY <1>1, <1>2, <2>1, <2>2
<1>. DEFINE m == a * b
            t == a * s + r
<1>6. x = m * p + t /\ m \in Nat \ {0} /\ t \in 0 .. m - 1
  BY <1>3, <1>4, <1>5
<1>. HIDE DEF m, t
<1>7. x \div m = p
  BY <1>2, <1>6, Unique
<1>. QED BY <1>7 DEF p, q, m

\* The lowest digit and the others of a remainder.
LEMMA ModSplit ==
    ASSUME NEW x \in Int, NEW a \in Nat \ {0}, NEW b \in Nat \ {0}
    PROVE  /\ x % (a * b) = a * ((x \div a) % b) + (x % a)
           /\ (x % (a * b)) \div a = (x \div a) % b
           /\ (x % (a * b)) % a = x % a
<1>. DEFINE q == x \div a
            r == x % a
            p == q \div b
            s == q % b
<1>1. q \in Int /\ r \in 0 .. a - 1 /\ x = a * q + r
  BY Division
<1>2. p \in Int /\ s \in 0 .. b - 1 /\ q = b * p + s
  BY <1>1, Division
<1>. HIDE DEF q, r, p, s
<1>3. x = (a * b) * p + (a * s + r)
  BY <1>1, <1>2
<1>4. a * b \in Nat \ {0}
  OBVIOUS
<1>5. a * s + r \in 0 .. a * b - 1
  <2>1. (s + 1) * a <= b * a
    BY <1>2, Times
  <2>2. a * s + r <= a * s + (a - 1)
    BY <1>1, <1>2
  <2>. QED BY <1>1, <1>2, <2>1, <2>2
<1>. DEFINE m == a * b
            t == a * s + r
<1>6. x = m * p + t /\ m \in Nat \ {0} /\ t \in 0 .. m - 1
  BY <1>3, <1>4, <1>5
<1>. HIDE DEF m, t
<1>7. x % m = t
  BY <1>2, <1>6, Unique
<1>8. t \div a = s /\ t % a = r
  BY <1>1, <1>2, Unique DEF t
<1>. QED BY <1>7, <1>8 DEF s, r, q, m, t

LEMMA Place ==
    ASSUME NEW w \in Nat \ {0}, NEW q \in Int, NEW r \in 0 .. w - 1, NEW j, j = w * q + r
    PROVE  j \div w = q /\ j % w = r
BY Unique

LEMMA FirstPlace ==
    ASSUME NEW w \in Nat \ {0}, NEW r \in 0 .. w - 1
    PROVE  r \div w = 0 /\ r % w = r
<1>1. r = w * 0 + r /\ 0 \in Int
  OBVIOUS
<1>. QED BY ONLY <1>1, r \in 0 .. w - 1, w \in Nat \ {0}, Place

LEMMA PlaceRange ==
    ASSUME NEW w \in Nat \ {0}, NEW m \in Nat, NEW j \in 0 .. w * m - 1
    PROVE  j \div w \in 0 .. m - 1 /\ j % w \in 0 .. w - 1
<1>. DEFINE q == j \div w
            r == j % w
<1>1. w * m \in Nat /\ w * m = m * w
  BY SMT
<1>2. j \in Int /\ j >= 0 /\ j < w * m
  BY <1>1
<1>3. q \in Int /\ r \in 0 .. w - 1 /\ j = w * q + r
  BY <1>2, Division
<1>. HIDE DEF q, r
<1>4. w * q \in Int /\ w * q = q * w
  BY <1>3
<1>5. ~ q < 0
  <2>. SUFFICES ASSUME q + 1 <= 0 PROVE FALSE
    BY <1>3
  <2>1. (q + 1) * w <= 0 * w
    BY <1>3, Times
  <2>2. (q + 1) * w = w * q + w
    BY <1>3
  <2>. QED BY <2>1, <2>2, <1>2, <1>3, <1>4
<1>6. ~ q >= m
  <2>. SUFFICES ASSUME m <= q PROVE FALSE
    BY <1>3
  <2>1. m * w <= q * w
    BY <1>3, Times
  <2>. QED BY <2>1, <1>1, <1>2, <1>3, <1>4
<1>7. q \in 0 .. m - 1
  BY <1>3, <1>5, <1>6
<1>. QED BY <1>3, <1>7 DEF q, r

LEMMA Divides ==
    ASSUME NEW m \in Nat \ {0}, NEW z \in Int
    PROVE  z % m = 0 <=> \E q \in Int : z = m * q
<1>1. z % m = 0 => \E q \in Int : z = m * q
  <2>. DEFINE q == z \div m
  <2>1. q \in Int /\ z = m * q + (z % m) /\ m * q \in Int
    BY Division
  <2>. HIDE DEF q
  <2>. QED BY <2>1
<1>2. ASSUME NEW q \in Int, z = m * q PROVE z % m = 0
  <2>1. z = m * q + 0 /\ 0 \in 0 .. m - 1
    BY <1>2
  <2>. QED BY <2>1, Place
<1>. QED BY <1>1, <1>2

LEMMA SmallerRest ==
    ASSUME NEW a \in Nat \ {0}, NEW b \in Nat
    PROVE  b % a \in Nat /\ b % a < a
OBVIOUS

-----------------------------------------------------------------------------
\* Induction over numbers, and functions defined by it.

\* Among subsets of a finite set there is a smallest one: the induction
\* principle of this module, stated without a predicate.
LEMMA SmallestSubset ==
    ASSUME NEW S, IsFiniteSet(S), NEW Q \in SUBSET SUBSET S, Q # {}
    PROVE  \E A \in Q : \A B \in SUBSET A : B # A => B \notin Q
<1>1. IsWellFoundedOn(StrictSubsetOrdering(S), SUBSET S)
  BY FS_StrictSubsetOrderingWellFounded, FS_FiniteSubsetsOfFinite
<1>2. PICK A \in Q : \A B \in Q : ~ (<<B, A>> \in StrictSubsetOrdering(S))
  BY <1>1, WFMin
<1>. QED BY <1>2 DEF StrictSubsetOrdering

\* Of natural numbers there is a smallest one.
LEMMA SmallestNumber ==
    ASSUME NEW Q \in SUBSET Nat, Q # {}
    PROVE  \E m \in Q : \A k \in Q : m <= k
<1>1. PICK n \in Q : TRUE
  OBVIOUS
<1>. DEFINE R == {1 .. k : k \in {j \in Q : j <= n}}
<1>2. IsFiniteSet(1 .. n)
  BY FS_Interval
<1>3. R \in SUBSET SUBSET (1 .. n) /\ 1 .. n \in R
  OBVIOUS
<1>4. PICK A \in R : \A B \in SUBSET A : B # A => B \notin R
  <2>. DEFINE T == 1 .. n
  <2>1. IsFiniteSet(T) /\ R \in SUBSET SUBSET T /\ R # {}
    BY <1>2, <1>3
  <2>. HIDE DEF R, T
  <2>. QED BY <2>1, SmallestSubset
<1>5. PICK m \in Q : m <= n /\ A = 1 .. m
  OBVIOUS
<1>6. ASSUME NEW k \in Q, k < m PROVE FALSE
  <2>1. 1 .. k \in R /\ 1 .. k \in SUBSET A /\ m \in A /\ m \notin 1 .. k
    BY <1>5, <1>6
  <2>. QED BY <1>4, <2>1
<1>. QED BY <1>6

\* A set of numbers with zero and all successors is all of them.
LEMMA Induction ==
    ASSUME NEW Q \in SUBSET Nat, 0 \in Q, \A n \in Q : n + 1 \in Q
    PROVE  Q = Nat
<1>. SUFFICES ASSUME Nat \ Q # {} PROVE FALSE
  OBVIOUS
<1>1. PICK m \in Nat \ Q : \A k \in Nat \ Q : m <= k
  BY SmallestNumber
<1>2. m - 1 \in Nat /\ m - 1 \in Q
  BY <1>1
<1>. QED BY <1>1, <1>2

IsIteration(g, S, c, F) ==
    /\ g \in [Nat -> S]
    /\ \A n \in Nat : g[n] = IF n = 0 THEN c ELSE F[g[n - 1]]

\* Repeated application of a function.
LEMMA Iteration ==
    ASSUME NEW S, NEW c \in S, NEW F \in [S -> S]
    PROVE  \E g : IsIteration(g, S, c, F)
<1>. DEFINE Is(h, n) == h \in [0 .. n -> S] /\ \A i \in 0 .. n : h[i] = IF i = 0 THEN c ELSE F[h[i - 1]]
            Q == {n \in Nat : \E h : Is(h, n)}
<1>1. 0 \in Q
  <2>1. Is([i \in 0 .. 0 |-> c], 0)
    OBVIOUS
  <2>. QED BY <2>1
<1>2. ASSUME NEW n \in Q PROVE n + 1 \in Q
  <2>1. PICK h : Is(h, n)
    OBVIOUS
  <2>. DEFINE k == [i \in 0 .. n + 1 |-> IF i = n + 1 THEN F[h[n]] ELSE h[i]]
  <2>2. n \in Nat /\ h[n] \in S
    BY <2>1
  <2>3. Is(k, n + 1)
    BY <2>1, <2>2
  <2>. HIDE DEF k, Is
  <2>. QED BY <2>2, <2>3
<1>3. \A n \in Nat : \E h : Is(h, n)
  <2>1. Q = Nat
    <3>. HIDE DEF Q
    <3>1. Q \in SUBSET Nat
      BY DEF Q
    <3>. QED BY <1>1, <1>2, <3>1, Induction
  <2>. QED BY <2>1
<1>. DEFINE H(n) == CHOOSE h : Is(h, n)
            g == [n \in Nat |-> H(n)[n]]
<1>4. \A n \in Nat : Is(H(n), n)
  BY <1>3
<1>5. ASSUME NEW n \in Nat PROVE H(n + 1)[n] = H(n)[n]
  <2>2. Is(H(n), n) /\ Is(H(n + 1), n + 1)
    <3>. HIDE DEF H, Is
    <3>. QED BY <1>4
  <2>. HIDE DEF H
  <2>. DEFINE R == {i \in 0 .. n : H(n + 1)[i] # H(n)[i]}
  <2>. SUFFICES ASSUME R # {} PROVE FALSE
    OBVIOUS
  <2>1. PICK m \in R : \A k \in R : m <= k
    <3>1. R \in SUBSET Nat
      OBVIOUS
    <3>. HIDE DEF R
    <3>. QED BY <3>1, SmallestNumber
  <2>3. m # 0
    BY <2>2
  <2>4. m - 1 \in 0 .. n /\ m - 1 \notin R
    BY <2>1, <2>3
  <2>. QED BY <2>2, <2>3, <2>4
<1>6. ASSUME NEW n \in Nat
      PROVE  g[n] \in S /\ g[n] = IF n = 0 THEN c ELSE F[g[n - 1]]
  <2>1. Is(H(n), n)
    <3>. HIDE DEF H, Is
    <3>. QED BY <1>4
  <2>2. n # 0 => n - 1 \in Nat /\ H(n)[n - 1] = H(n - 1)[n - 1]
    <3>. SUFFICES ASSUME n # 0 PROVE n - 1 \in Nat /\ H((n - 1) + 1)[n - 1] = H(n - 1)[n - 1]
      OBVIOUS
    <3>1. n - 1 \in Nat
      OBVIOUS
    <3>. HIDE DEF H
    <3>. QED BY <3>1, <1>5
  <2>. HIDE DEF H
  <2>. QED BY <2>1, <2>2
<1>7. g \in [Nat -> S]
  <2>. HIDE DEF H
  <2>. QED BY <1>6
<1>. HIDE DEF g
<1>. QED BY <1>6, <1>7 DEF IsIteration

\* Powers, as a recursive function.
IsPower(p, c) == p = [n \in Nat |-> IF n = 0 THEN 1 ELSE c * p[n - 1]]

LEMMA PowerExists ==
    ASSUME NEW c \in Nat
    PROVE  \E p : IsPower(p, c)
<1>. DEFINE F == [x \in Int |-> c * x]
<1>1. F \in [Int -> Int] /\ 1 \in Int
  OBVIOUS
<1>2. PICK g : IsIteration(g, Int, 1, F)
  <2>. HIDE DEF F
  <2>. QED BY <1>1, Iteration
<1>3. g = [n \in Nat |-> g[n]]
  BY <1>2 DEF IsIteration
<1>4. \A n \in Nat : g[n] = IF n = 0 THEN 1 ELSE c * g[n - 1]
  <2>. SUFFICES ASSUME NEW n \in Nat PROVE g[n] = IF n = 0 THEN 1 ELSE c * g[n - 1]
    OBVIOUS
  <2>1. n # 0 => g[n - 1] \in Int
    <3>1. g \in [Nat -> Int]
      BY <1>2 DEF IsIteration
    <3>2. n # 0 => n - 1 \in Nat
      OBVIOUS
    <3>. QED BY <3>1, <3>2
  <2>2. \A x \in Int : F[x] = c * x
    OBVIOUS
  <2>3. g[n] = IF n = 0 THEN 1 ELSE F[g[n - 1]]
    <3>. HIDE DEF F
    <3>. QED BY <1>2 DEF IsIteration
  <2>. HIDE DEF F
  <2>. QED BY <2>1, <2>2, <2>3
<1>. HIDE DEF F
<1>. QED BY <1>3, <1>4 DEF IsPower

LEMMA PowerLaws ==
    ASSUME NEW c \in Nat \ {0}, NEW p, IsPower(p, c)
    PROVE  /\ p[0] = 1
           /\ \A n \in Nat : p[n + 1] = c * p[n]
           /\ \A n \in Nat : p[n] \in Nat \ {0}
           /\ \A n \in Nat : \A m \in Nat : p[n + m] = p[n] * p[m]
<1>1. \A n \in Nat : p[n] = IF n = 0 THEN 1 ELSE c * p[n - 1]
  BY DEF IsPower
<1>2. p[0] = 1 /\ \A n \in Nat : p[n + 1] = c * p[n]
  BY <1>1
<1>3. \A n \in Nat : p[n] \in Nat \ {0}
  <2>. DEFINE H == {n \in Nat : p[n] \in Nat \ {0}}
  <2>1. 0 \in H
    BY <1>2
  <2>2. ASSUME NEW n \in H PROVE n + 1 \in H
    <3>1. p[n + 1] = c * p[n] /\ p[n] \in Nat \ {0}
      BY <1>2
    <3>2. p[n + 1] \in Nat \ {0}
      BY <3>1
    <3>. QED BY <3>2
  <2>3. H = Nat
    <3>1. H \in SUBSET Nat
      OBVIOUS
    <3>. HIDE DEF H
    <3>. QED BY <2>1, <2>2, <3>1, Induction
  <2>. QED BY <2>3
<1>4. ASSUME NEW n \in Nat PROVE \A m \in Nat : p[n + m] = p[n] * p[m]
  <2>. DEFINE H == {m \in Nat : p[n + m] = p[n] * p[m]}
  <2>1. 0 \in H
    <3>1. p[n] * 1 = p[n] /\ n + 0 = n
      BY <1>3
    <3>. QED BY <1>2, <3>1
  <2>2. ASSUME NEW m \in H PROVE m + 1 \in H
    <3>1. p[n + m] = p[n] * p[m] /\ m \in Nat
      OBVIOUS
    <3>2. p[m + 1] = c * p[m] /\ p[(n + m) + 1] = c * p[n + m] /\ n + (m + 1) = (n + m) + 1
      BY <1>2
    <3>3. p[n] \in Nat /\ p[m] \in Nat
      BY <1>3
    <3>4. p[n] * (c * p[m]) = c * (p[n] * p[m])
      BY <3>3
    <3>5. p[n + (m + 1)] = p[n] * p[m + 1]
      BY <3>1, <3>2, <3>4
    <3>. QED BY <3>5
  <2>3. H = Nat
    <3>1. H \in SUBSET Nat
      OBVIOUS
    <3>. HIDE DEF H
    <3>. QED BY <2>1, <2>2, <3>1, Induction
  <2>. QED BY <2>3
<1>. QED BY <1>2, <1>3, <1>4

-----------------------------------------------------------------------------
\* Folds from the left.

\* The last element of a range, and the ranges a fold walks through.
LEMMA MaxOfRange ==
    ASSUME NEW i \in Nat \ {0}
    PROVE  Max(1 .. i) = i /\ (1 .. i) \ {i} = 1 .. i - 1 /\ 1 .. i # {}
<1>1. i \in 1 .. i /\ \A y \in 1 .. i : i >= y
  OBVIOUS
<1>2. \A x \in 1 .. i : (\A y \in 1 .. i : x >= y) => x = i
  OBVIOUS
<1>3. Max(1 .. i) = i
  BY <1>1, <1>2 DEF Max
<1>4. (1 .. i) \ {i} = 1 .. i - 1
  OBVIOUS
<1>. QED BY <1>1, <1>3, <1>4

\* A set of them has one.
LEMMA MaxIsElement ==
    ASSUME NEW n \in Nat, NEW s \in SUBSET (1 .. n), s # {}
    PROVE  Max(s) \in s
<1>1. \E m \in s : \A y \in s : m >= y
  <2>. DEFINE Q == {n - x : x \in s}
  <2>1. Q \in SUBSET Nat
    <3>. SUFFICES ASSUME NEW x \in s PROVE n - x \in Nat
      OBVIOUS
    <3>1. x \in 1 .. n
      OBVIOUS
    <3>. QED BY <3>1
  <2>2a. Q # {}
    OBVIOUS
  <2>2. PICK m \in Q : \A k \in Q : m <= k
    <3>. HIDE DEF Q
    <3>. QED BY <2>1, <2>2a, SmallestNumber
  <2>3. PICK x \in s : m = n - x
    BY <2>2
  <2>4. \A y \in s : x >= y
    <3>. SUFFICES ASSUME NEW y \in s PROVE x >= y
      OBVIOUS
    <3>1. m <= n - y
      BY <2>2
    <3>. QED BY <2>3, <3>1
  <2>. QED BY <2>4
<1>. QED BY <1>1 DEF Max

IsFold(h, n, S, base, F, v) ==
    /\ h \in [SUBSET (1 .. n) -> S]
    /\ \A s \in SUBSET (1 .. n) :
          h[s] = IF s = {} THEN base ELSE F[<<h[s \ {Max(s)}], v[Max(s)]>>]

\* The equation of a fold from the left over v[1], ..., v[n] has a solution:
\* n rounds are enough for all subsets of 1 .. n.
LEMMA FoldExists ==
    ASSUME NEW n \in Nat, NEW S, NEW base \in S, NEW E, NEW F \in [S \X E -> S],
           NEW v, \A x \in 1 .. n : v[x] \in E
    PROVE  \E h : IsFold(h, n, S, base, F, v)
<1>. DEFINE D == 1 .. n
            T == [SUBSET D -> S]
            F2(k) == [s \in SUBSET D |-> IF s = {} THEN base
                                         ELSE F[<<k[s \ {Max(s)}], v[Max(s)]>>]]
            round == [k \in T |-> F2(k)]
<1>0. ASSUME NEW s \in SUBSET D, s # {} PROVE Max(s) \in s
  BY <1>0, MaxIsElement
<1>1. round \in [T -> T]
  <2>. SUFFICES ASSUME NEW k \in T, NEW s \in SUBSET D, s # {}
                PROVE  F[<<k[s \ {Max(s)}], v[Max(s)]>>] \in S
    OBVIOUS
  <2>1. Max(s) \in D /\ s \ {Max(s)} \in SUBSET D
    BY <1>0
  <2>. QED BY <2>1
<1>. DEFINE start == [s \in SUBSET D |-> base]
<1>2. PICK g \in [Nat -> T] : \A i \in Nat : g[i] = IF i = 0 THEN start ELSE round[g[i - 1]]
  <2>1. start \in T
    OBVIOUS
  <2>2. round \in [T -> T]
    BY <1>1
  <2>. HIDE DEF start, round, T, F2
  <2>3. \E g : IsIteration(g, T, start, round)
    BY <2>1, <2>2, Iteration
  <2>. QED BY <2>3 DEF IsIteration
<1>3. ASSUME NEW i \in Nat, NEW s \in SUBSET D
      PROVE  g[i + 1][s] = IF s = {} THEN base ELSE F[<<g[i][s \ {Max(s)}], v[Max(s)]>>]
  <2>1. g[i + 1] = round[g[i]] /\ g[i] \in T
    <3>1. i + 1 \in Nat /\ i + 1 # 0 /\ (i + 1) - 1 = i
      OBVIOUS
    <3>. HIDE DEF round, start, T
    <3>. QED BY <1>2, <3>1
  <2>2. g[i + 1] = F2(g[i])
    BY <2>1
  <2>. QED BY <2>2
<1>. HIDE DEF T, round, start, F2
<1>. DEFINE small(i) == {s \in SUBSET D : Cardinality(s) <= i}
            Q == {i \in Nat : \A s \in small(i) : g[i + 1][s] = g[i][s]}
<1>4. \A s \in SUBSET D : IsFiniteSet(s) /\ Cardinality(s) \in Nat
  <2>1. IsFiniteSet(D)
    BY FS_Interval
  <2>. HIDE DEF D
  <2>. QED BY <2>1, FS_Subset, FS_CardinalityType
<1>5. 0 \in Q
  <2>. SUFFICES ASSUME NEW s \in small(0) PROVE g[0 + 1][s] = g[0][s]
    OBVIOUS
  <2>1. s = {}
    BY <1>4, FS_EmptySet
  <2>2. g[0][s] = base
    <3>1. g[0] = start
      <4>. HIDE DEF start, round, T
      <4>. QED BY <1>2
    <3>2. start[s] = base
      BY DEF start
    <3>. QED BY <3>1, <3>2
  <2>. QED BY <1>3, <2>1, <2>2
<1>6. ASSUME NEW i \in Q PROVE i + 1 \in Q
  <2>0. i \in Nat /\ i + 1 \in Nat
    OBVIOUS
  <2>. SUFFICES ASSUME NEW s \in small(i + 1) PROVE g[(i + 1) + 1][s] = g[i + 1][s]
    <3>1. \A s \in small(i + 1) : g[(i + 1) + 1][s] = g[i + 1][s]
      OBVIOUS
    <3>. HIDE DEF small
    <3>. QED BY <2>0, <3>1
  <2>1. CASE s = {}
    <3>1. s \in SUBSET D /\ i + 1 \in Nat
      OBVIOUS
    <3>. HIDE DEF D
    <3>. QED BY <1>3, <2>1, <3>1
  <2>2. CASE s # {}
    <3>. DEFINE r == s \ {Max(s)}
    <3>1. Max(s) \in s /\ r \in SUBSET D
      BY <1>0, <2>2
    <3>2. r \in small(i)
      <4>1. Cardinality(r) = Cardinality(s) - 1
        BY <1>4, <3>1, FS_RemoveElement
      <4>. QED BY <1>4, <3>1, <4>1
    <3>3. g[i + 1][r] = g[i][r]
      BY <3>2
    <3>4a. s \in SUBSET D /\ i + 1 \in Nat
      OBVIOUS
    <3>. HIDE DEF Q, D, small
    <3>4. g[(i + 1) + 1][s] = F[<<g[i + 1][r], v[Max(s)]>>]
      BY <1>3, <2>0, <2>2, <3>4a
    <3>5. g[i + 1][s] = F[<<g[i][r], v[Max(s)]>>]
      BY <1>3, <2>0, <2>2, <3>4a
    <3>. QED BY <3>3, <3>4, <3>5
  <2>. QED BY <2>1, <2>2
<1>7. \A s \in SUBSET D : g[n + 1][s] = g[n][s]
  <2>1. n \in Q
    <3>1. Q \in SUBSET Nat
      OBVIOUS
    <3>. HIDE DEF Q
    <3>. QED BY <1>5, <1>6, <3>1, Induction
  <2>2. \A s \in SUBSET D : s \in small(n)
    <3>. SUFFICES ASSUME NEW s \in SUBSET D PROVE Cardinality(s) <= n
      OBVIOUS
    <3>1. IsFiniteSet(D) /\ Cardinality(D) = n
      BY FS_Interval
    <3>. HIDE DEF D
    <3>. QED BY <3>1, FS_Subset
  <2>. QED BY <2>1, <2>2
<1>8. g[n] \in [SUBSET D -> S]
  BY <1>2 DEF T
<1>9. \A s \in SUBSET D : g[n][s] = IF s = {} THEN base ELSE F[<<g[n][s \ {Max(s)}], v[Max(s)]>>]
  BY <1>3, <1>7
<1>. QED BY <1>8, <1>9 DEF IsFold

-----------------------------------------------------------------------------
\* Sequences.

LEMMA IsConcatenation ==
    ASSUME NEW S, NEW a \in Seq(S), NEW b \in Seq(S), NEW c \in Seq(S), Len(c) = Len(a) + Len(b),
           \A j \in 1 .. Len(a) : c[j] = a[j], \A k \in 1 .. Len(b) : c[Len(a) + k] = b[k]
    PROVE  c = a \o b
<1>1. /\ a \o b \in Seq(S) /\ Len(a \o b) = Len(a) + Len(b)
      /\ \A j \in 1 .. Len(a) + Len(b) : (a \o b)[j] = IF j <= Len(a) THEN a[j] ELSE b[j - Len(a)]
  BY ConcatProperties
<1>2. Len(a) \in Nat /\ Len(b) \in Nat
  OBVIOUS
<1>3. ASSUME NEW j \in 1 .. Len(c) PROVE c[j] = (a \o b)[j]
  <2>1. CASE j <= Len(a)
    <3>. j \in 1 .. Len(a)
      BY <2>1
    <3>. QED BY <2>1, <1>1, <1>2
  <2>2. CASE j > Len(a)
    <3>1. j - Len(a) \in 1 .. Len(b) /\ Len(a) + (j - Len(a)) = j
      BY <2>2, <1>2
    <3>2. c[j] = b[j - Len(a)]
      BY <3>1
    <3>. QED BY <3>1, <3>2, <2>2, <1>1, <1>2
  <2>. QED BY <2>1, <2>2, <1>2
<1>. QED BY <1>1, <1>3, SeqEqual

\* Short pieces of a sequence.
LEMMA ShortPieces ==
    ASSUME NEW S, NEW s \in Seq(S), NEW k \in 1 .. Len(s)
    PROVE  /\ SubSeq(s, k, k) = <<s[k]>>
           /\ k + 1 \in 1 .. Len(s) => SubSeq(s, k, k + 1) = <<s[k], s[k + 1]>>
<1>1. Len(s) \in Nat /\ k \in Nat /\ k \in Int /\ k + 1 \in Int /\ s[k] \in S
  BY ElementOfSeq
<1>2. SubSeq(s, k, k) = <<s[k]>>
  <2>1. \A i \in k .. k : s[i] \in S
    BY <1>1
  <2>2. /\ SubSeq(s, k, k) \in Seq(S) /\ Len(SubSeq(s, k, k)) = IF k <= k THEN k - k + 1 ELSE 0
        /\ \A i \in 1 .. k - k + 1 : SubSeq(s, k, k)[i] = s[k + i - 1]
    BY <1>1, <2>1, SubSeqProperties
  <2>3. Len(SubSeq(s, k, k)) = 1 /\ SubSeq(s, k, k)[1] = s[k]
    BY <1>1, <2>2
  <2>4. <<s[k]>> \in Seq(S) /\ Len(<<s[k]>>) = 1 /\ <<s[k]>>[1] = s[k]
    BY <1>1
  <2>5. \A i \in 1 .. 1 : i = 1
    OBVIOUS
  <2>. QED BY <2>2, <2>3, <2>4, <2>5, SeqEqual
<1>3. ASSUME k + 1 \in 1 .. Len(s) PROVE SubSeq(s, k, k + 1) = <<s[k], s[k + 1]>>
  <2>0. s[k + 1] \in S
    BY <1>3, ElementOfSeq
  <2>1. \A i \in k .. k + 1 : s[i] \in S
    BY <1>1, <2>0
  <2>2. /\ SubSeq(s, k, k + 1) \in Seq(S)
        /\ Len(SubSeq(s, k, k + 1)) = IF k <= k + 1 THEN (k + 1) - k + 1 ELSE 0
        /\ \A i \in 1 .. (k + 1) - k + 1 : SubSeq(s, k, k + 1)[i] = s[k + i - 1]
    BY <1>1, <2>1, SubSeqProperties
  <2>3. Len(SubSeq(s, k, k + 1)) = 2 /\ SubSeq(s, k, k + 1)[1] = s[k] /\ SubSeq(s, k, k + 1)[2] = s[k + 1]
    BY <1>1, <2>2
  <2>. DEFINE p == <<s[k], s[k + 1]>>
  <2>4. p \in Seq(S) /\ Len(p) = 2 /\ p[1] = s[k] /\ p[2] = s[k + 1]
    BY <1>1, <2>0
  <2>5. \A i \in 1 .. 2 : i = 1 \/ i = 2
    OBVIOUS
  <2>. HIDE DEF p
  <2>6. SubSeq(s, k, k + 1) = p
    BY <2>2, <2>3, <2>4, <2>5, SeqEqual
  <2>. QED BY <2>6 DEF p
<1>. QED BY <1>2, <1>3

\* Sequences of words of equal length, one behind the other.
Joined(s, n, w) == [j \in 1 .. w * n |-> s[((j - 1) \div w) + 1][((j - 1) % w) + 1]]

\* FlattenSeq joins them.
LEMMA FlattenWords ==
    ASSUME NEW n \in Nat \ {0}, NEW w \in Nat \ {0}, NEW S, NEW s \in Seq(Seq(S)),
           Len(s) = n, \A i \in 1 .. n : Len(s[i]) = w
    PROVE  FlattenSeq(s) = Joined(s, n, w)
<1>. DEFINE E(f) == f = [i \in 1 .. n |-> IF i = 1 THEN s[i] ELSE f[i - 1] \o s[i]]
            g == [i \in 1 .. n |-> Joined(s, i, w)]
            F == CHOOSE f : E(f)
<1>1. FlattenSeq(s) = F[n]
  BY DEF FlattenSeq
<1>2. \A i \in 1 .. n : s[i] \in Seq(S) /\ s[i] = [j \in 1 .. w |-> s[i][j]]
  OBVIOUS
<1>3. Joined(s, 1, w) = s[1]
  <2>1. \A j \in 1 .. w : (j - 1) \div w = 0 /\ (j - 1) % w = j - 1
    <3>. TAKE j \in 1 .. w
    <3>1. j - 1 \in 0 .. w - 1
      OBVIOUS
    <3>. QED BY <3>1, FirstPlace
  <2>. QED BY <2>1, <1>2 DEF Joined
<1>4. ASSUME NEW i \in 2 .. n PROVE Joined(s, i, w) = Joined(s, i - 1, w) \o s[i]
  <2>. DEFINE a == Joined(s, i - 1, w)
              c == Joined(s, i, w)
              p == w * (i - 1)
  <2>1. p \in Nat /\ w * i = p + w /\ i - 1 \in Nat /\ i - 1 \in Int
    BY SMT
  <2>2. \A j \in 1 .. p : ((j - 1) \div w) + 1 \in 1 .. i - 1 /\ ((j - 1) % w) + 1 \in 1 .. w
    <3>. TAKE j \in 1 .. p
    <3>1. j - 1 \in 0 .. w * (i - 1) - 1
      BY <2>1
    <3>2. (j - 1) \div w \in 0 .. (i - 1) - 1 /\ (j - 1) % w \in 0 .. w - 1
      BY <3>1, <2>1, PlaceRange
    <3>. QED BY <3>2
  <2>3. \A j \in 1 .. p : s[((j - 1) \div w) + 1][((j - 1) % w) + 1] \in S
    <3>1. \A k \in 1 .. i - 1 : \A j \in 1 .. w : s[k][j] \in S
      BY <1>2
    <3>. QED BY <2>2, <3>1
  <2>4. a = [j \in 1 .. p |-> s[((j - 1) \div w) + 1][((j - 1) % w) + 1]]
    BY DEF Joined
  <2>5. c = [j \in 1 .. p + w |-> s[((j - 1) \div w) + 1][((j - 1) % w) + 1]]
    BY <2>1 DEF Joined
  <2>6. \A k \in 1 .. w : ((p + k) - 1) \div w = i - 1 /\ ((p + k) - 1) % w = k - 1
    <3>. TAKE k \in 1 .. w
    <3>. DEFINE j == (p + k) - 1
    <3>. DEFINE q == i - 1
                r == k - 1
    <3>1. r \in 0 .. w - 1 /\ j = w * q + r /\ q \in Int
      BY <2>1
    <3>. HIDE DEF j, p, q, r
    <3>2. j \div w = q /\ j % w = r
      BY <3>1, Place
    <3>. QED BY <3>2 DEF j, q, r
  <2>. HIDE DEF a, c, p
  <2>7. a \in Seq(S) /\ Len(a) = p
    BY <2>1, <2>3, <2>4
  <2>8. \A j \in 1 .. p : c[j] = a[j]
    BY <2>1, <2>4, <2>5
  <2>9. \A k \in 1 .. w : c[p + k] = s[i][k]
    <3>. TAKE k \in 1 .. w
    <3>1. p + k \in 1 .. p + w /\ (i - 1) + 1 = i /\ (k - 1) + 1 = k
      BY <2>1
    <3>2. c[p + k] = s[(((p + k) - 1) \div w) + 1][(((p + k) - 1) % w) + 1]
      BY <3>1, <2>5
    <3>. QED BY <3>1, <3>2, <2>6
  <2>10. c \in Seq(S) /\ Len(c) = p + w
    <3>1. \A j \in 1 .. p + w : c[j] \in S
      <4>. TAKE j \in 1 .. p + w
      <4>1. CASE j <= p
        BY <4>1, <2>1, <2>7, <2>8
      <4>2. CASE j > p
        <5>1. j - p \in 1 .. w /\ p + (j - p) = j
          BY <4>2, <2>1
        <5>. QED BY <5>1, <2>9
      <4>. QED BY <4>1, <4>2, <2>1
    <3>2. \A j \in 1 .. p + w : s[((j - 1) \div w) + 1][((j - 1) % w) + 1] \in S
      BY <3>1, <2>5
    <3>. DEFINE m == p + w
    <3>3. m \in Nat /\ \A j \in 1 .. m : s[((j - 1) \div w) + 1][((j - 1) % w) + 1] \in S
      BY <2>1, <3>2
    <3>4. c = [j \in 1 .. m |-> s[((j - 1) \div w) + 1][((j - 1) % w) + 1]]
      BY <2>5
    <3>. HIDE DEF m
    <3>5. c \in Seq(S) /\ Len(c) = m
      BY <3>3, <3>4
    <3>. QED BY <3>5 DEF m
  <2>11. s[i] \in Seq(S) /\ Len(s[i]) = w
    OBVIOUS
  <2>12. c = a \o s[i]
    BY <2>1, <2>7, <2>8, <2>9, <2>10, <2>11, IsConcatenation
  <2>. QED BY <2>12 DEF a, c
<1>5. E(g)
  <2>1. \A i \in 1 .. n : g[i] = IF i = 1 THEN s[i] ELSE g[i - 1] \o s[i]
    <3>. TAKE i \in 1 .. n
    <3>1. CASE i = 1
      BY <3>1, <1>3
    <3>2. CASE i # 1
      <4>1. i \in 2 .. n /\ i - 1 \in 1 .. n
        BY <3>2
      <4>2. g[i] = Joined(s, i, w) /\ g[i - 1] = Joined(s, i - 1, w)
        BY <4>1
      <4>. QED BY <4>1, <4>2, <3>2, <1>4
    <3>. QED BY <3>1, <3>2
  <2>2. g = [i \in 1 .. n |-> g[i]]
    OBVIOUS
  <2>. HIDE DEF g
  <2>. QED BY <2>1, <2>2
<1>6. E(F)
  BY <1>5
<1>7. \A i \in 1 .. n : F[i] = Joined(s, i, w)
  <2>. DEFINE Q == {i \in 1 .. n : F[i] # Joined(s, i, w)}
  <2>. SUFFICES ASSUME Q # {} PROVE FALSE
    OBVIOUS
  <2>1. PICK i \in Q : \A k \in Q : i <= k
    <3>. Q \in SUBSET Nat
      OBVIOUS
    <3>. HIDE DEF Q
    <3>. QED BY SmallestNumber
  <2>. HIDE DEF F
  <2>2. F[i] = IF i = 1 THEN s[i] ELSE F[i - 1] \o s[i]
    BY <1>6
  <2>3. CASE i = 1
    BY <2>2, <2>3, <1>3
  <2>4. CASE i # 1
    <3>1. i - 1 \in 1 .. n /\ i - 1 \notin Q
      BY <2>4, <2>1
    <3>2. i \in 2 .. n /\ F[i - 1] = Joined(s, i - 1, w)
      BY <2>4, <3>1
    <3>. QED BY <3>2, <2>2, <2>4, <1>4
  <2>. QED BY <2>3, <2>4
<1>. HIDE DEF F
<1>. QED BY <1>1, <1>7

-----------------------------------------------------------------------------
\* Sums over a finite set.  MapThenSumSet is a fold defined by recursion over
\* the subsets; its laws are proved by taking a smallest subset on which a law
\* fails (SmallestSubset).

\* The sum over S of a function's values.
SumOf(v, S) == MapThenSumSet(LAMBDA x : v[x], S)

\* The element the fold takes out of s, and the recursion equation of the fold.
Taken(s) == CHOOSE x \in s : TRUE
IsSum(g, v, S) ==
    g = [s \in SUBSET S |-> IF s = {} THEN 0 ELSE v[Taken(s)] + g[s \ {Taken(s)}]]

LEMMA TakenIsElement ==
    ASSUME NEW s, s # {}
    PROVE  Taken(s) \in s
BY DEF Taken

\* The equation of the fold, at one subset.
LEMMA SumEquation ==
    ASSUME NEW g, NEW v, NEW S, IsSum(g, v, S), NEW s \in SUBSET S
    PROVE  /\ s = {} => g[s] = 0
           /\ s # {} => g[s] = v[Taken(s)] + g[s \ {Taken(s)}]
BY DEF IsSum

\* It has one solution.
LEMMA SumUnique ==
    ASSUME NEW S, IsFiniteSet(S), NEW T \in SUBSET S, NEW v, NEW w,
           \A x \in T : v[x] = w[x],
           NEW g, IsSum(g, v, S), NEW h, IsSum(h, w, T)
    PROVE  \A A \in SUBSET T : g[A] = h[A]
<1>. DEFINE Q == {A \in SUBSET T : g[A] # h[A]}
<1>. SUFFICES ASSUME Q # {} PROVE FALSE
  OBVIOUS
<1>1. IsFiniteSet(T)
  BY FS_Subset
<1>2. PICK A \in Q : \A B \in SUBSET A : B # A => B \notin Q
  <2>. Q \in SUBSET SUBSET T
    OBVIOUS
  <2>. HIDE DEF Q
  <2>. QED BY <1>1, SmallestSubset
<1>3. A \in SUBSET T /\ A \in SUBSET S /\ g[A] # h[A]
  OBVIOUS
<1>. DEFINE a == Taken(A)
<1>4. A # {} /\ a \in A
  BY <1>3, SumEquation, TakenIsElement
<1>5. g[A \ {a}] = h[A \ {a}]
  BY <1>2, <1>4
<1>. HIDE DEF Q
<1>6. g[A] = v[a] + g[A \ {a}]
  BY <1>3, <1>4, SumEquation
<1>7. h[A] = w[a] + h[A \ {a}]
  BY <1>3, <1>4, SumEquation
<1>. QED BY <1>3, <1>4, <1>5, <1>6, <1>7

\* It has a solution: the values for the smaller subsets are those of the
\* solutions for them.
LEMMA SumExists ==
    ASSUME NEW S, IsFiniteSet(S), NEW v
    PROVE  \E g : IsSum(g, v, S)
<1>. DEFINE Q == {A \in SUBSET S : ~ \E g : IsSum(g, v, A)}
<1>. SUFFICES ASSUME Q # {} PROVE FALSE
  OBVIOUS
<1>1. PICK A \in Q : \A B \in SUBSET A : B # A => B \notin Q
  <2>. Q \in SUBSET SUBSET S
    OBVIOUS
  <2>. HIDE DEF Q
  <2>. QED BY SmallestSubset
<1>. DEFINE sum(B) == (CHOOSE g : IsSum(g, v, B))[B]
            f == [s \in SUBSET A |-> IF s = {} THEN 0 ELSE v[Taken(s)] + sum(s \ {Taken(s)})]
<1>2. ASSUME NEW B \in SUBSET A, B # A
      PROVE  \E h : IsSum(h, v, B) /\ sum(B) = h[B]
  <2>1. \E h : IsSum(h, v, B)
    BY <1>1, <1>2
  <2>2. IsSum(CHOOSE h : IsSum(h, v, B), v, B)
    BY <2>1
  <2>. QED BY <2>2
<1>3. ASSUME NEW B \in SUBSET A, B # A
      PROVE  sum(B) = f[B]
  <2>1. PICK h : IsSum(h, v, B) /\ sum(B) = h[B]
    BY <1>2, <1>3
  <2>2. CASE B = {}
    BY <2>1, <2>2, SumEquation
  <2>3. CASE B # {}
    <3>. DEFINE c == B \ {Taken(B)}
    <3>1. c \in SUBSET B /\ c # B
      BY <2>3, TakenIsElement
    <3>2. PICK k : IsSum(k, v, c) /\ sum(c) = k[c]
      BY <1>2, <1>3, <3>1
    <3>3. h[c] = k[c]
      <4>1. IsFiniteSet(B)
        BY FS_Subset
      <4>. HIDE DEF c, sum
      <4>. QED BY <2>1, <3>1, <3>2, <4>1, SumUnique
    <3>4. h[B] = v[Taken(B)] + h[c]
      BY <2>1, <2>3, SumEquation
    <3>5. f[B] = v[Taken(B)] + sum(c)
      BY <2>3
    <3>. HIDE DEF c, sum, f
    <3>. QED BY <2>1, <3>2, <3>3, <3>4, <3>5
  <2>. QED BY <2>2, <2>3
<1>4. \A s \in SUBSET A : s # {} => f[s] = v[Taken(s)] + f[s \ {Taken(s)}]
  <2>. SUFFICES ASSUME NEW s \in SUBSET A, s # {}
                PROVE  f[s] = v[Taken(s)] + f[s \ {Taken(s)}]
    OBVIOUS
  <2>1. Taken(s) \in s
    BY TakenIsElement
  <2>2. s \ {Taken(s)} \in SUBSET A /\ s \ {Taken(s)} # A
    BY <2>1
  <2>3. sum(s \ {Taken(s)}) = f[s \ {Taken(s)}]
    BY <1>3, <2>2
  <2>. QED BY <2>3
<1>5. IsSum(f, v, A)
  <2>1. f[{}] = 0 /\ f = [s \in SUBSET A |-> f[s]]
    OBVIOUS
  <2>. HIDE DEF f
  <2>. QED BY <1>4, <2>1 DEF IsSum
<1>. QED BY <1>1, <1>5

\* What it says of the fold itself.
LEMMA SumOfIsSum ==
    ASSUME NEW S, IsFiniteSet(S), NEW v
    PROVE  \E g : IsSum(g, v, S) /\ SumOf(v, S) = g[S]
<1>1. PICK h : IsSum(h, v, S)
  BY SumExists
<1>2. h = [s \in SUBSET S |-> IF s = {} THEN 0 ELSE v[CHOOSE x \in s : TRUE] + h[s \ {CHOOSE x \in s : TRUE}]]
  BY <1>1 DEF IsSum, Taken
<1>3. \E g : /\ g = [s \in SUBSET S |-> IF s = {} THEN 0
                                      ELSE v[CHOOSE x \in s : TRUE] + g[s \ {CHOOSE x \in s : TRUE}]]
           /\ SumOf(v, S) = g[S]
  BY <1>2 DEF SumOf, MapThenSumSet, MapThenFoldSet
<1>. QED BY <1>3 DEF IsSum, Taken

-----------------------------------------------------------------------------
\* The laws, for a solution g of the equation: integers add up to an integer,
\* and any element can be taken out first.
LEMMA SumIsInt ==
    ASSUME NEW S, IsFiniteSet(S), NEW v, \A x \in S : v[x] \in Int, NEW g, IsSum(g, v, S)
    PROVE  \A A \in SUBSET S : g[A] \in Int
<1>. DEFINE Q == {A \in SUBSET S : g[A] \notin Int}
<1>. SUFFICES ASSUME Q # {} PROVE FALSE
  OBVIOUS
<1>1. PICK A \in Q : \A B \in SUBSET A : B # A => B \notin Q
  <2>. Q \in SUBSET SUBSET S
    OBVIOUS
  <2>. HIDE DEF Q
  <2>. QED BY SmallestSubset
<1>2. A \in SUBSET S /\ g[A] \notin Int
  OBVIOUS
<1>3. A # {} /\ Taken(A) \in A
  <2>. HIDE DEF Q
  <2>1. A = {} => g[A] = 0
    BY <1>2, SumEquation
  <2>2. A # {}
    BY <1>2, <2>1
  <2>. QED BY <2>2, TakenIsElement
<1>4. g[A \ {Taken(A)}] \in Int
  BY <1>1, <1>3
<1>. HIDE DEF Q
<1>5. g[A] = v[Taken(A)] + g[A \ {Taken(A)}]
  BY <1>2, <1>3, SumEquation
<1>. QED BY <1>2, <1>3, <1>4, <1>5

LEMMA SumTakesAny ==
    ASSUME NEW S, IsFiniteSet(S), NEW v, \A x \in S : v[x] \in Int, NEW g, IsSum(g, v, S)
    PROVE  \A A \in SUBSET S : \A x \in A : g[A] = v[x] + g[A \ {x}]
<1>. DEFINE Q == {A \in SUBSET S : \E x \in A : g[A] # v[x] + g[A \ {x}]}
<1>. SUFFICES ASSUME Q # {} PROVE FALSE
  OBVIOUS
<1>1. PICK A \in Q : \A B \in SUBSET A : B # A => B \notin Q
  <2>. Q \in SUBSET SUBSET S
    OBVIOUS
  <2>. HIDE DEF Q
  <2>. QED BY SmallestSubset
<1>2. PICK x \in A : g[A] # v[x] + g[A \ {x}]
  OBVIOUS
<1>. DEFINE a == Taken(A)
<1>3. a \in A /\ g[A] = v[a] + g[A \ {a}]
  BY SumEquation, TakenIsElement
<1>4. a # x
  BY <1>2, <1>3
<1>5. g[A \ {a}] = v[x] + g[(A \ {a}) \ {x}]
  <2>1. A \ {a} \in SUBSET A /\ A \ {a} # A /\ x \in A \ {a}
    BY <1>3, <1>4
  <2>. HIDE DEF a
  <2>. QED BY <1>1, <2>1
<1>6. g[A \ {x}] = v[a] + g[(A \ {x}) \ {a}]
  <2>1. A \ {x} \in SUBSET A /\ A \ {x} # A /\ a \in A \ {x}
    BY <1>3, <1>4
  <2>. HIDE DEF a
  <2>. QED BY <1>1, <2>1
<1>7. (A \ {x}) \ {a} = (A \ {a}) \ {x}
  OBVIOUS
<1>8. /\ v[x] \in Int /\ v[a] \in Int /\ g[(A \ {a}) \ {x}] \in Int
  <2>1. (A \ {a}) \ {x} \in SUBSET S
    OBVIOUS
  <2>. QED BY <1>3, <2>1, SumIsInt
<1>. DEFINE both == g[(A \ {a}) \ {x}]
<1>9. both \in Int
  BY <1>8
<1>10. g[A] = v[a] + (v[x] + both) /\ g[A \ {x}] = v[a] + both
  BY <1>3, <1>5, <1>6, <1>7
<1>. HIDE DEF a, Q, both
<1>. QED BY <1>2, <1>8, <1>9, <1>10

-----------------------------------------------------------------------------
\* The sum over no element is 0.
LEMMA SumEmpty ==
    ASSUME NEW v
    PROVE  SumOf(v, {}) = 0
<1>1. IsFiniteSet({})
  BY FS_EmptySet
<1>2. PICK g : IsSum(g, v, {}) /\ SumOf(v, {}) = g[{}]
  BY <1>1, SumOfIsSum
<1>. QED BY <1>2, SumEquation

\* Equal values have equal sums.
LEMMA SumSame ==
    ASSUME NEW S, IsFiniteSet(S), NEW v, NEW w, \A x \in S : v[x] = w[x]
    PROVE  SumOf(v, S) = SumOf(w, S)
<1>1. PICK g : IsSum(g, v, S) /\ SumOf(v, S) = g[S]
  BY SumOfIsSum
<1>2. PICK h : IsSum(h, w, S) /\ SumOf(w, S) = h[S]
  BY SumOfIsSum
<1>3. S \in SUBSET S
  OBVIOUS
<1>4. \A A \in SUBSET S : g[A] = h[A]
  BY <1>1, <1>2, <1>3, SumUnique
<1>. QED BY <1>1, <1>2, <1>3, <1>4

\* The sum over a subset is a value of the same solution.
LEMMA SumOfPart ==
    ASSUME NEW S, IsFiniteSet(S), NEW v, NEW g, IsSum(g, v, S), NEW T \in SUBSET S
    PROVE  SumOf(v, T) = g[T]
<1>1. IsFiniteSet(T)
  BY FS_Subset
<1>2. PICK h : IsSum(h, v, T) /\ SumOf(v, T) = h[T]
  BY <1>1, SumOfIsSum
<1>. QED BY <1>2, SumUnique

\* An element and the rest.
LEMMA SumRemove ==
    ASSUME NEW S, IsFiniteSet(S), NEW v, \A x \in S : v[x] \in Int, NEW x \in S
    PROVE  /\ SumOf(v, S) \in Int /\ SumOf(v, S \ {x}) \in Int
           /\ SumOf(v, S) = v[x] + SumOf(v, S \ {x})
<1>1. PICK g : IsSum(g, v, S)
  BY SumExists
<1>2. S \in SUBSET S /\ S \ {x} \in SUBSET S
  OBVIOUS
<1>3. SumOf(v, S) = g[S] /\ SumOf(v, S \ {x}) = g[S \ {x}]
  BY <1>1, <1>2, SumOfPart
<1>4. g[S] = v[x] + g[S \ {x}]
  BY <1>1, <1>2, SumTakesAny
<1>5. g[S] \in Int /\ g[S \ {x}] \in Int
  BY <1>1, <1>2, SumIsInt
<1>. QED BY <1>3, <1>4, <1>5

LEMMA SumAdd ==
    ASSUME NEW S, IsFiniteSet(S), NEW y, y \notin S, NEW v, \A x \in S \cup {y} : v[x] \in Int
    PROVE  /\ SumOf(v, S) \in Int
           /\ SumOf(v, S \cup {y}) = SumOf(v, S) + v[y]
<1>. DEFINE T == S \cup {y}
<1>1. IsFiniteSet(T) /\ T \ {y} = S /\ y \in T /\ \A x \in T : v[x] \in Int
  BY FS_AddElement
<1>. HIDE DEF T
<1>2. /\ SumOf(v, T \ {y}) \in Int
      /\ SumOf(v, T) = v[y] + SumOf(v, T \ {y})
  BY <1>1, SumRemove
<1>3. v[y] \in Int /\ SumOf(v, S) \in Int /\ SumOf(v, T) = v[y] + SumOf(v, S)
  BY <1>1, <1>2
<1>4. SumOf(v, T) = SumOf(v, S) + v[y]
  BY <1>3
<1>. QED BY <1>3, <1>4 DEF T

\* Integers add up to an integer, and no part of a sum of naturals is more
\* than the whole.
LEMMA SumInt ==
    ASSUME NEW S, IsFiniteSet(S), NEW v, \A x \in S : v[x] \in Int
    PROVE  SumOf(v, S) \in Int
<1>1. PICK g : IsSum(g, v, S) /\ SumOf(v, S) = g[S]
  BY SumOfIsSum
<1>2. S \in SUBSET S
  OBVIOUS
<1>3. \A A \in SUBSET S : g[A] \in Int
  BY <1>1, SumIsInt
<1>. QED BY <1>1, <1>2, <1>3

LEMMA SumPart ==
    ASSUME NEW S, IsFiniteSet(S), NEW v, \A x \in S : v[x] \in Nat, NEW T \in SUBSET S
    PROVE  /\ SumOf(v, S) \in Nat /\ SumOf(v, T) \in Nat
           /\ SumOf(v, T) <= SumOf(v, S)
<1>1. PICK g : IsSum(g, v, S)
  BY SumExists
<1>2. \A x \in S : v[x] \in Int
  OBVIOUS
<1>3. \A A \in SUBSET S : g[A] \in Int /\ SumOf(v, A) = g[A]
  BY <1>1, <1>2, SumIsInt, SumOfPart
<1>4. \A A \in SUBSET S : \A x \in A : g[A] = v[x] + g[A \ {x}]
  <2>. SUFFICES ASSUME NEW A \in SUBSET S, NEW x \in A
                PROVE  g[A] = v[x] + g[A \ {x}]
    OBVIOUS
  <2>. QED BY <1>1, <1>2, SumTakesAny
<1>5. \A A \in SUBSET S : \A B \in SUBSET A : g[B] <= g[A]
  <2>. DEFINE Q == {A \in SUBSET S : \E B \in SUBSET A : ~ (g[B] <= g[A])}
  <2>. SUFFICES ASSUME Q # {} PROVE FALSE
    OBVIOUS
  <2>1. PICK A \in Q : \A B \in SUBSET A : B # A => B \notin Q
    <3>. Q \in SUBSET SUBSET S
      OBVIOUS
    <3>. HIDE DEF Q
    <3>. QED BY SmallestSubset
  <2>2. PICK B \in SUBSET A : ~ (g[B] <= g[A])
    OBVIOUS
  <2>3. A \in SUBSET S /\ B \in SUBSET S /\ g[A] \in Int /\ g[B] \in Int
    BY <1>3
  <2>4. PICK x \in A : x \notin B
    BY <2>2, <2>3
  <2>5. g[B] <= g[A \ {x}]
    BY <2>1, <2>4
  <2>6. g[A] = v[x] + g[A \ {x}] /\ g[A \ {x}] \in Int /\ v[x] \in Nat
    BY <1>3, <1>4, <2>3
  <2>. HIDE DEF Q
  <2>. QED BY <2>2, <2>3, <2>5, <2>6
<1>6. g[{}] = 0
  BY <1>1, SumEquation
<1>7. {} \in SUBSET T /\ {} \in SUBSET S /\ T \in SUBSET S /\ S \in SUBSET S
  OBVIOUS
<1>8. g[{}] <= g[T] /\ g[T] <= g[S]
  BY <1>5, <1>7
<1>. QED BY <1>3, <1>6, <1>7, <1>8

LEMMA SumMember ==
    ASSUME NEW S, IsFiniteSet(S), NEW v, \A x \in S : v[x] \in Nat, NEW x \in S
    PROVE  v[x] <= SumOf(v, S)
<1>1. IsFiniteSet({x}) /\ {x} \ {x} = {} /\ v[x] \in Nat
  BY FS_Singleton
<1>2. SumOf(v, {x}) = v[x] + SumOf(v, {x} \ {x})
  BY <1>1, SumRemove
<1>3. SumOf(v, {x}) <= SumOf(v, S)
  <2>. {x} \in SUBSET S
    OBVIOUS
  <2>. QED BY SumPart
<1>. QED BY <1>1, <1>2, <1>3, SumEmpty

\* Zeros add up to zero, and sums are added element by element.
LEMMA SumZero ==
    ASSUME NEW S, IsFiniteSet(S), NEW v, \A x \in S : v[x] = 0
    PROVE  SumOf(v, S) = 0
<1>. DEFINE Q == {A \in SUBSET S : SumOf(v, A) # 0}
<1>. SUFFICES ASSUME Q # {} PROVE FALSE
  OBVIOUS
<1>1. PICK A \in Q : \A B \in SUBSET A : B # A => B \notin Q
  <2>. Q \in SUBSET SUBSET S
    OBVIOUS
  <2>. HIDE DEF Q
  <2>. QED BY SmallestSubset
<1>2. A \in SUBSET S /\ SumOf(v, A) # 0 /\ IsFiniteSet(A)
  BY FS_Subset
<1>3. PICK y \in A : TRUE
  BY <1>2, SumEmpty
<1>4. SumOf(v, A \ {y}) = 0
  BY <1>1, <1>2
<1>5. SumOf(v, A) = v[y] + SumOf(v, A \ {y})
  <2>1. \A x \in A : v[x] \in Int
    BY <1>2
  <2>. HIDE DEF Q
  <2>. QED BY <1>2, <2>1, SumRemove
<1>. QED BY <1>2, <1>4, <1>5

LEMMA SumPlus ==
    ASSUME NEW S, IsFiniteSet(S), NEW u, NEW v, NEW w,
           \A x \in S : v[x] \in Int /\ w[x] \in Int /\ u[x] = v[x] + w[x]
    PROVE  SumOf(u, S) = SumOf(v, S) + SumOf(w, S)
<1>. DEFINE Q == {A \in SUBSET S : SumOf(u, A) # SumOf(v, A) + SumOf(w, A)}
<1>. SUFFICES ASSUME Q # {} PROVE FALSE
  OBVIOUS
<1>1. PICK A \in Q : \A B \in SUBSET A : B # A => B \notin Q
  <2>. Q \in SUBSET SUBSET S
    OBVIOUS
  <2>. HIDE DEF Q
  <2>. QED BY SmallestSubset
<1>2. A \in SUBSET S /\ SumOf(u, A) # SumOf(v, A) + SumOf(w, A) /\ IsFiniteSet(A)
  BY FS_Subset
<1>3. PICK y \in A : TRUE
  BY <1>2, SumEmpty
<1>4. SumOf(u, A \ {y}) = SumOf(v, A \ {y}) + SumOf(w, A \ {y})
  BY <1>1, <1>2
<1>. HIDE DEF Q
<1>5. \A x \in A : u[x] \in Int /\ v[x] \in Int /\ w[x] \in Int
  BY <1>2
<1>6. SumOf(u, A) = u[y] + SumOf(u, A \ {y})
  BY <1>2, <1>5, SumRemove
<1>7. SumOf(v, A) = v[y] + SumOf(v, A \ {y}) /\ SumOf(v, A \ {y}) \in Int
  BY <1>2, <1>5, SumRemove
<1>8. SumOf(w, A) = w[y] + SumOf(w, A \ {y}) /\ SumOf(w, A \ {y}) \in Int
  BY <1>2, <1>5, SumRemove
<1>9. u[y] = v[y] + w[y] /\ v[y] \in Int /\ w[y] \in Int
  BY <1>2
<1>. QED BY <1>2, <1>4, <1>6, <1>7, <1>8, <1>9

\* The sum over two sets with nothing in common.
LEMMA SumUnion ==
    ASSUME NEW S, IsFiniteSet(S), NEW T, IsFiniteSet(T), S \cap T = {},
           NEW v, \A x \in S \cup T : v[x] \in Int
    PROVE  SumOf(v, S \cup T) = SumOf(v, S) + SumOf(v, T)
<1>. DEFINE Q == {A \in SUBSET T : SumOf(v, S \cup A) # SumOf(v, S) + SumOf(v, A)}
<1>. SUFFICES ASSUME Q # {} PROVE FALSE
  <2>1. T \in SUBSET T
    OBVIOUS
  <2>. QED BY <2>1
<1>1. PICK A \in Q : \A B \in SUBSET A : B # A => B \notin Q
  <2>. Q \in SUBSET SUBSET T
    OBVIOUS
  <2>. HIDE DEF Q
  <2>. QED BY SmallestSubset
<1>2. /\ A \in SUBSET T /\ IsFiniteSet(A)
      /\ SumOf(v, S \cup A) # SumOf(v, S) + SumOf(v, A)
  BY FS_Subset
<1>3. SumOf(v, S) \in Int
  BY SumInt
<1>4. A # {}
  <2>1. S \cup {} = S
    OBVIOUS
  <2>. HIDE DEF Q
  <2>. QED BY <1>2, <1>3, <2>1, SumEmpty
<1>5. PICK y \in A : TRUE
  BY <1>4
<1>6. SumOf(v, S \cup (A \ {y})) = SumOf(v, S) + SumOf(v, A \ {y})
  BY <1>1, <1>2
<1>. HIDE DEF Q
<1>. DEFINE R == S \cup A
<1>7. /\ IsFiniteSet(R) /\ y \in R /\ R \ {y} = S \cup (A \ {y})
      /\ \A x \in R : v[x] \in Int
      /\ \A x \in A : v[x] \in Int
  BY <1>2, FS_Union
<1>. HIDE DEF R
<1>8. SumOf(v, R) = v[y] + SumOf(v, R \ {y})
  BY <1>7, SumRemove
<1>9. SumOf(v, A) = v[y] + SumOf(v, A \ {y}) /\ SumOf(v, A \ {y}) \in Int
  BY <1>2, <1>7, SumRemove
<1>10. SumOf(v, R) # SumOf(v, S) + SumOf(v, A)
  BY <1>2 DEF R
<1>11. v[y] \in Int
  BY <1>7
<1>. DEFINE rest == SumOf(v, A \ {y})
<1>12. SumOf(v, R) = v[y] + (SumOf(v, S) + rest)
  BY <1>6, <1>7, <1>8
<1>13. SumOf(v, A) = v[y] + rest /\ rest \in Int
  BY <1>9
<1>. HIDE DEF rest
<1>. QED BY <1>3, <1>10, <1>11, <1>12, <1>13

\* The sum of a function with one value other than zero.
LEMMA SumSingle ==
    ASSUME NEW S, IsFiniteSet(S), NEW v, NEW y \in S, v[y] \in Int, \A x \in S \ {y} : v[x] = 0
    PROVE  SumOf(v, S) = v[y]
<1>1. \A x \in S : v[x] \in Int
  OBVIOUS
<1>2. SumOf(v, S) = v[y] + SumOf(v, S \ {y})
  BY <1>1, SumRemove
<1>3. SumOf(v, S \ {y}) = 0
  <2>1. IsFiniteSet(S \ {y})
    BY FS_RemoveElement
  <2>. QED BY <2>1, SumZero
<1>. QED BY <1>2, <1>3
=============================================================================
