---------------------------- MODULE Pedersen_proofs ----------------------------
(***************************************************************************)
(* Theorems about Pedersen, for every size of bytes, windows, segments and *)
(* inputs: the bits of an input are its binary digits, and inputs that     *)
(* differ have different scalars.                                          *)
(***************************************************************************)
EXTENDS Pedersen, BasicTheorems

-----------------------------------------------------------------------------
\* Powers of two.

LEMMA Two ==
    /\ two[0] = 1
    /\ \A n \in Nat : two[n + 1] = 2 * two[n]
    /\ \A n \in Nat : two[n] \in Nat \ {0}
    /\ \A n \in Nat : \A m \in Nat : two[n + m] = two[n] * two[m]
<1>1. \E p : IsPower(p, 2)
  BY PowerExists
<1>2. IsPower(two, 2)
  BY <1>1 DEF IsPower, two
<1>3. 2 \in Nat \ {0}
  OBVIOUS
<1>. QED BY <1>2, <1>3, PowerLaws

\* n bytes are P * n bits.
LEMMA PowerOfTwo ==
    /\ \A n \in Nat : Power[n] = two[BitsPerByte * n]
    /\ Limb = two[4 * BitsPerByte]
<1>1. \E p : IsPower(p, Byte)
  BY ByteAssumption, PowerExists
<1>2. IsPower(Power, Byte)
  BY <1>1 DEF IsPower, Power
<1>3. Power[0] = 1 /\ \A n \in Nat : Power[n + 1] = Byte * Power[n]
  BY <1>2, ByteAssumption, PowerLaws
<1>. DEFINE H == {n \in Nat : Power[n] = two[BitsPerByte * n]}
<1>4. BitsPerByte \in Nat /\ Byte = two[BitsPerByte]
  BY WindowsAssumption
<1>5. 0 \in H
  <2>1. BitsPerByte * 0 = 0
    BY <1>4
  <2>. QED BY <1>3, <2>1, Two
<1>6. ASSUME NEW n \in H PROVE n + 1 \in H
  <2>1. BitsPerByte * n \in Nat /\ BitsPerByte * (n + 1) = BitsPerByte + BitsPerByte * n
    BY <1>4
  <2>2. two[BitsPerByte + BitsPerByte * n] = two[BitsPerByte] * two[BitsPerByte * n]
    BY <1>4, <2>1, Two
  <2>. QED BY <1>3, <1>4, <2>1, <2>2
<1>7. H = Nat
  <2>1. H \in SUBSET Nat
    OBVIOUS
  <2>. HIDE DEF H
  <2>. QED BY <1>5, <1>6, <2>1, Induction
<1>8. BitsPerByte * 4 = 4 * BitsPerByte /\ 4 \in Nat
  BY <1>4
<1>9. \A n \in Nat : Power[n] = two[BitsPerByte * n]
  BY <1>7
<1>. QED BY <1>8, <1>9 DEF Limb

LEMMA Parity ==
    ASSUME NEW x \in Int, NEW h \in Int
    PROVE  (x - 2 * h) % 2 = x % 2
OBVIOUS

\* Taking a limb for a signed number moves what is above its bits only.
LEMMA SignKeepsBits ==
    ASSUME NEW e \in Nat, NEW h \in Nat \ {0}, Limb = two[e] * (2 * h), NEW limb \in 0 .. Limb - 1
    PROVE  /\ toInt32(limb) \in Int
           /\ (toInt32(limb) \div two[e]) % 2 = (limb \div two[e]) % 2
<1>. DEFINE t == two[e]
            q == limb \div t
            r == limb % t
<1>1. t \in Nat \ {0} /\ limb \in Int /\ Limb = t * (2 * h)
  BY Two
<1>2. q \in Int /\ r \in 0 .. t - 1 /\ limb = t * q + r
  BY <1>1, Division
<1>. HIDE DEF t, q, r
<1>3. Limb \in Nat \ {0}
  BY <1>1
<1>4. limb % Limb = limb
  BY <1>3, FirstPlace
<1>5. limb - Limb = t * (q - 2 * h) + r
  BY <1>1, <1>2
<1>6. (limb - Limb) \div t = q - 2 * h
  <2>. DEFINE p == q - 2 * h
  <2>1. p \in Int /\ limb - Limb = t * p + r
    BY <1>2, <1>5
  <2>. HIDE DEF p
  <2>2. (limb - Limb) \div t = p
    BY <1>1, <1>2, <2>1, Place
  <2>. QED BY <2>2 DEF p
<1>7. (q - 2 * h) % 2 = q % 2
  BY <1>2, Parity
<1>8. toInt32(limb) = limb \/ toInt32(limb) = limb - Limb
  BY <1>4 DEF toInt32
<1>9. limb - Limb \in Int
  BY <1>1, <1>3
<1>. QED BY <1>1, <1>6, <1>7, <1>8, <1>9 DEF q, t

\* Where bit k is: in byte j of limb q, above m others.
LEMMA BitPlace ==
    ASSUME NEW k \in Nat
    PROVE  LET P == BitsPerByte
               q == k \div (4 * P)
               j == (k \div P) % 4
               m == k % P
           IN  /\ q \in Nat /\ j \in 0 .. 3 /\ m \in Nat
               /\ P * j + m \in 0 .. 4 * P - 1
               /\ k = P * (4 * q) + (P * j + m)
<1>. DEFINE P == BitsPerByte
            u == k \div P
            m == k % P
            q == u \div 4
            j == u % 4
<1>1. P \in Nat \ {0}
  BY WindowsAssumption
<1>2. u \in Nat /\ m \in 0 .. P - 1 /\ k = P * u + m
  <2>. HIDE DEF P
  <2>1. k \in Int
    OBVIOUS
  <2>. QED BY <1>1, <2>1, Division, DivNat
<1>3. q \in Nat /\ j \in 0 .. 3 /\ u = 4 * q + j
  BY <1>2
<1>4. k \div (P * 4) = q
  <2>. HIDE DEF P
  <2>1. k \in Int /\ 4 \in Nat \ {0}
    OBVIOUS
  <2>. QED BY <1>1, <2>1, DivDiv
<1>5. P * 4 = 4 * P
  BY <1>1
<1>. HIDE DEF P, u, m, q, j
<1>6. P * j <= 3 * P
  <2>1. j * P <= 3 * P
    BY <1>1, <1>3, Times
  <2>. QED BY <1>1, <1>3, <2>1
<1>7. P * u = P * (4 * q) + P * j
  BY <1>1, <1>2, <1>3
<1>8. P * j \in Nat
  BY <1>1, <1>3
<1>9. P * j + m \in 0 .. 4 * P - 1
  BY <1>1, <1>2, <1>6, <1>8
<1>10. P * (4 * q) \in Nat
  BY <1>1, <1>3
<1>11. k = P * (4 * q) + (P * j + m)
  BY <1>2, <1>7, <1>8, <1>10
<1>. QED BY <1>2, <1>3, <1>4, <1>5, <1>9, <1>11 DEF P, u, m, q, j

\* leIntToBits gives binary digits.
LEMMA Bits ==
    ASSUME NEW n \in Nat, NEW s \in Nat, NEW i \in 1 .. s
    PROVE  leIntToBits(n, s)[i] = (n \div two[i - 1]) % 2
<1>. DEFINE P == BitsPerByte
            k == i - 1
            q == k \div (4 * P)
            j == (k \div P) % 4
            m == k % P
            e == P * j + m
            d == P * (4 * q)
            x == n \div two[d]
            limb == x % Limb
<1>1. k \in Nat /\ P \in Nat \ {0}
  BY WindowsAssumption
<1>2. /\ q \in Nat /\ j \in 0 .. 3 /\ m \in Nat /\ e \in 0 .. 4 * P - 1
      /\ k = d + e
  BY <1>1, BitPlace
<1>3. leIntToBits(n, s)[i] = (byteOfLimb((n \div Power[4 * q]) % Limb, j) \div two[m]) % 2
  BY DEF leIntToBits
<1>. HIDE DEF P, k, q, j, m
<1>4. d \in Nat /\ e \in Nat /\ P * j \in Nat /\ 4 * q \in Nat /\ 4 * P - e \in Nat \ {0}
  BY <1>1, <1>2
<1>5. Power[4 * q] = two[d] /\ Power[j] = two[P * j] /\ Limb = two[4 * P]
  BY <1>2, <1>4, PowerOfTwo DEF P
<1>. HIDE DEF e, d
<1>6. PICK h \in Nat \ {0} : two[4 * P - e] = 2 * h
  <2>. DEFINE g == 4 * P - e
  <2>1. g - 1 \in Nat /\ (g - 1) + 1 = g
    BY <1>1, <1>4
  <2>. HIDE DEF g
  <2>2. two[g] = 2 * two[g - 1] /\ two[g - 1] \in Nat \ {0}
    BY <2>1, Two
  <2>. QED BY <2>2 DEF g
<1>7. Limb = two[e] * (2 * h)
  <2>1. e + (4 * P - e) = 4 * P
    BY <1>1, <1>4
  <2>2. two[e + (4 * P - e)] = two[e] * two[4 * P - e]
    BY <1>4, Two
  <2>. QED BY <1>5, <1>6, <2>1, <2>2
<1>8. two[d] \in Nat \ {0} /\ two[e] \in Nat \ {0} /\ two[m] \in Nat \ {0} /\ two[P * j] \in Nat \ {0}
  BY <1>2, <1>4, Two
<1>9. x \in Nat
  BY <1>8, DivNat
<1>. HIDE DEF x
<1>10. Limb \in Nat \ {0}
  BY <1>7, <1>8
<1>11. limb \in 0 .. Limb - 1
  BY <1>9, <1>10, Division
<1>. HIDE DEF limb
<1>12. /\ toInt32(limb) \in Int
       /\ (toInt32(limb) \div two[e]) % 2 = (limb \div two[e]) % 2
  BY <1>4, <1>7, <1>11, SignKeepsBits
<1>13. byteOfLimb(limb, j) \div two[m] = toInt32(limb) \div two[e]
  <2>1. two[e] = two[P * j] * two[m]
    BY <1>2, <1>4, Two DEF e
  <2>. QED BY <1>5, <1>8, <1>12, <2>1, DivDiv DEF byteOfLimb, shiftRight
<1>14. (limb \div two[e]) % 2 = (x \div two[e]) % 2
  <2>. DEFINE y == x \div two[e]
  <2>1. x \in Int /\ 2 * h \in Nat \ {0}
    BY <1>9
  <2>2. y \in Int
    BY <1>8, <2>1, Division
  <2>3. limb = x % (two[e] * (2 * h))
    BY <1>7 DEF limb
  <2>4. limb \div two[e] = y % (2 * h)
    <3>. HIDE DEF y
    <3>1. (x % (two[e] * (2 * h))) \div two[e] = (x \div two[e]) % (2 * h)
      BY <1>8, <2>1, ModSplit
    <3>. QED BY <2>3, <3>1 DEF y
  <2>. HIDE DEF y
  <2>5. (y % (2 * h)) % 2 = y % 2
    <3>1. 2 \in Nat \ {0}
      OBVIOUS
    <3>. QED BY <2>1, <2>2, <3>1, ModSplit
  <2>. QED BY <2>4, <2>5 DEF y
<1>15. x \div two[e] = n \div two[k]
  <2>1. two[k] = two[d] * two[e]
    BY <1>2, <1>4, Two
  <2>. QED BY <1>8, <2>1, DivDiv DEF x
<1>16. (n \div Power[4 * q]) % Limb = limb
  BY <1>5 DEF limb, x
<1>. QED BY <1>3, <1>12, <1>13, <1>14, <1>15, <1>16 DEF k
-----------------------------------------------------------------------------
\* Sums.

\* g[i] is the sum of start and the first i terms.
IsRunning(g, start, terms, n) ==
    /\ \A i \in 0 .. n : g[i] \in Int
    /\ g[0] = start
    /\ \A i \in 1 .. n : g[i] = g[i - 1] + terms[i]

LEMMA Adding ==
    ASSUME NEW n \in Nat, NEW start \in Int, NEW terms, DOMAIN terms = 1 .. n,
           \A i \in 1 .. n : terms[i] \in Int
    PROVE  \E g : IsRunning(g, start, terms, n) /\ addUp(start, terms) = g[n]
<1>. DEFINE F == [p \in Int \X Int |-> p[1] + p[2]]
            Eq(h) == h = [s \in SUBSET (1 .. n) |-> IF s = {} THEN start
                                                   ELSE h[s \ {Max(s)}] + terms[Max(s)]]
<1>1. F \in [Int \X Int -> Int]
  OBVIOUS
<1>2. \E h : Eq(h) /\ \A s \in SUBSET (1 .. n) : h[s] \in Int
  <2>1. PICK h : IsFold(h, n, Int, start, F, terms)
    <3>. HIDE DEF F
    <3>. QED BY <1>1, FoldExists
  <2>2. ASSUME NEW s \in SUBSET (1 .. n), s # {}
        PROVE  F[<<h[s \ {Max(s)}], terms[Max(s)]>>] = h[s \ {Max(s)}] + terms[Max(s)]
    <3>1. Max(s) \in s
      BY <2>2, MaxIsElement
    <3>2. h[s \ {Max(s)}] \in Int /\ terms[Max(s)] \in Int
      BY <2>1, <3>1 DEF IsFold
    <3>. QED BY <3>2
  <2>3. h = [s \in SUBSET (1 .. n) |-> h[s]] /\ \A s \in SUBSET (1 .. n) : h[s] \in Int
    BY <2>1 DEF IsFold
  <2>. HIDE DEF F
  <2>4. \A s \in SUBSET (1 .. n) : h[s] = IF s = {} THEN start ELSE h[s \ {Max(s)}] + terms[Max(s)]
    BY <2>1, <2>2 DEF IsFold
  <2>. QED BY <2>3, <2>4
<1>3. PICK h : Eq(h) /\ addUp(start, terms) = h[1 .. n]
  BY <1>2 DEF addUp, FoldLeft, MapThenFoldSet
<1>4. h[{}] = start
  BY <1>3
<1>5. ASSUME NEW i \in 1 .. n PROVE h[1 .. i] = h[1 .. i - 1] + terms[i]
  <2>1. Max(1 .. i) = i /\ (1 .. i) \ {i} = 1 .. i - 1 /\ 1 .. i # {}
    <3>1. i \in Nat \ {0}
      OBVIOUS
    <3>. QED BY <3>1, MaxOfRange
  <2>2. 1 .. i \in SUBSET (1 .. n)
    OBVIOUS
  <2>. QED BY <1>3, <2>1, <2>2
<1>. HIDE DEF Eq
<1>. DEFINE g == [i \in 0 .. n |-> h[1 .. i]]
            Q == {i \in Nat : i \in 0 .. n => g[i] \in Int}
<1>6. g[0] = start /\ \A i \in 1 .. n : g[i] = g[i - 1] + terms[i]
  <2>1. 1 .. 0 = {}
    OBVIOUS
  <2>. QED BY <1>4, <1>5, <2>1
<1>7. g[n] = h[1 .. n]
  OBVIOUS
<1>. HIDE DEF g
<1>8. Q = Nat
  <2>1. 0 \in Q
    BY <1>6
  <2>2. ASSUME NEW i \in Q PROVE i + 1 \in Q
    <3>1. i + 1 \in 0 .. n => i \in 0 .. n /\ i + 1 \in 1 .. n /\ (i + 1) - 1 = i
      OBVIOUS
    <3>. QED BY <1>6, <3>1
  <2>3. Q \in SUBSET Nat
    OBVIOUS
  <2>. HIDE DEF Q
  <2>. QED BY <2>1, <2>2, <2>3, Induction
<1>9. \A i \in 0 .. n : g[i] \in Int
  BY <1>8
<1>. QED BY <1>3, <1>6, <1>7, <1>9 DEF IsRunning

\* A sum over the digits of a number is the number.
LEMMA SumOfBits ==
    ASSUME NEW n \in Nat, NEW s \in Nat
    PROVE  addUp(0, [j \in 1 .. s |-> leIntToBits(n, s)[j] * two[j - 1]]) = n % two[s]
<1>. DEFINE terms == [j \in 1 .. s |-> leIntToBits(n, s)[j] * two[j - 1]]
<1>1. ASSUME NEW j \in 1 .. s
      PROVE  /\ terms[j] = ((n \div two[j - 1]) % 2) * two[j - 1]
             /\ terms[j] \in Int
  <2>1. j - 1 \in Nat
    OBVIOUS
  <2>. DEFINE p == two[j - 1]
              r == (n \div p) % 2
  <2>2. p \in Nat \ {0} /\ n \in Int /\ 2 \in Nat \ {0}
    BY <2>1, Two
  <2>3. terms[j] = r * p
    BY Bits
  <2>. HIDE DEF p
  <2>4. n \div p \in Int
    BY <2>2, Division
  <2>5. r \in 0 .. 2 - 1
    BY <2>2, <2>4, Division
  <2>. HIDE DEF r
  <2>6. r * p \in Int
    BY <2>2, <2>5
  <2>. QED BY <2>3, <2>6 DEF r, p
<1>2. DOMAIN terms = 1 .. s
  OBVIOUS
<1>. HIDE DEF terms
<1>3. PICK g : IsRunning(g, 0, terms, s) /\ addUp(0, terms) = g[s]
  BY <1>1, <1>2, Adding
<1>. DEFINE Q == {i \in Nat : i \in 0 .. s => g[i] = n % two[i]}
<1>4. 0 \in Q
  <2>. DEFINE r == n % 1
  <2>1. r \in 0 .. 1 - 1
    BY Division
  <2>. HIDE DEF r
  <2>2. r = 0
    BY <2>1
  <2>. QED BY <1>3, <2>2, Two DEF IsRunning, r
<1>5. ASSUME NEW i \in Q PROVE i + 1 \in Q
  <2>. SUFFICES ASSUME i + 1 \in 0 .. s PROVE g[i + 1] = n % two[i + 1]
    OBVIOUS
  <2>1. i \in Nat /\ i \in 0 .. s /\ i + 1 \in 1 .. s /\ (i + 1) - 1 = i /\ g[i] = n % two[i]
    OBVIOUS
  <2>. DEFINE p == two[i]
  <2>2. p \in Nat \ {0} /\ two[i + 1] = 2 * p /\ n \in Int /\ 2 \in Nat \ {0}
    BY <2>1, Two
  <2>3. g[i + 1] = (n % p) + ((n \div p) % 2) * p
    <3>1. g[i + 1] = g[i] + terms[i + 1] /\ terms[i + 1] = ((n \div two[i]) % 2) * two[i]
      BY <1>1, <1>3, <2>1 DEF IsRunning
    <3>. QED BY <2>1, <3>1
  <2>. HIDE DEF p, Q
  <2>4. n % (p * 2) = p * ((n \div p) % 2) + (n % p)
    BY <2>2, ModSplit
  <2>5. n % p \in Int /\ (n \div p) % 2 \in Int
    <3>1. n \div p \in Int
      BY <2>2, Division
    <3>. QED BY <2>2, <3>1, Division
  <2>6. 2 * p = p * 2
    BY <2>2
  <2>. DEFINE x == n % p
              y == (n \div p) % 2
  <2>7. x + y * p = p * y + x
    <3>1. x \in Int /\ y \in Int /\ p \in Int
      BY <2>2, <2>5
    <3>. HIDE DEF x, y
    <3>. QED BY <3>1
  <2>. QED BY <2>2, <2>3, <2>4, <2>6, <2>7
<1>6. Q = Nat
  <2>1. Q \in SUBSET Nat
    OBVIOUS
  <2>. HIDE DEF Q
  <2>. QED BY <1>4, <1>5, <2>1, Induction
<1>7. g[s] = n % two[s]
  BY <1>6
<1>. QED BY <1>3, <1>7 DEF terms

-----------------------------------------------------------------------------
\* Digits.

\* Bit i of the input; what is beyond it counts as zero.
BitAt(s, i) == IF i <= Len(s) THEN s[i] ELSE 0

LEMMA BitAtType ==
    ASSUME NEW s \in Seq({0, 1}), NEW i \in Nat \ {0}
    PROVE  BitAt(s, i) \in {0, 1}
<1>1. Len(s) \in Nat /\ \A j \in 1 .. Len(s) : s[j] \in {0, 1}
  BY ElementOfSeq
<1>. QED BY <1>1 DEF BitAt

\* g[i] is what the first i bits of the window at o make of a digit.
IsDigit(g, s, o) ==
    /\ \A i \in 0 .. windowSize - 1 : g[i] \in 1 .. two[i]
    /\ \A i \in 1 .. windowSize - 1 : g[i] = g[i - 1] + BitAt(s, o + i) * two[i - 1]
    /\ digit(s, o) = IF BitAt(s, o + windowSize) = 1 THEN -g[windowSize - 1]
                     ELSE g[windowSize - 1]

LEMMA DigitTrace ==
    ASSUME NEW s \in Seq({0, 1}), NEW o \in Nat
    PROVE  \E g : IsDigit(g, s, o)
<1>. DEFINE n == windowSize - 1
            terms == [i \in 1 .. n |-> BitAt(s, o + i) * two[i - 1]]
<1>1. windowSize \in Nat /\ n \in Nat \ {0}
  BY WindowsAssumption
<1>2. \A i \in 1 .. n : /\ BitAt(s, o + i) \in {0, 1} /\ two[i - 1] \in Nat
                        /\ terms[i] = BitAt(s, o + i) * two[i - 1]
  <2>. TAKE i \in 1 .. n
  <2>1. o + i \in Nat \ {0} /\ i - 1 \in Nat
    BY <1>1
  <2>. QED BY <2>1, BitAtType, Two
<1>3. DOMAIN terms = 1 .. n
  OBVIOUS
<1>4. digit(s, o) = IF BitAt(s, o + windowSize) = 1 THEN -addUp(1, terms) ELSE addUp(1, terms)
  BY DEF digit, BitAt
<1>. HIDE DEF terms
<1>5. \A i \in 1 .. n : terms[i] \in Int
  <2>. TAKE i \in 1 .. n
  <2>. DEFINE x == BitAt(s, o + i)
              y == two[i - 1]
  <2>1. x \in Int /\ y \in Int /\ terms[i] = x * y
    BY <1>2
  <2>. HIDE DEF x, y
  <2>. QED BY <2>1
<1>6. PICK g : IsRunning(g, 1, terms, n) /\ addUp(1, terms) = g[n]
  <2>. HIDE DEF n
  <2>. QED BY <1>1, <1>3, <1>5, Adding
<1>. HIDE DEF n
<1>. DEFINE Q == {i \in Nat : i \in 0 .. n => g[i] \in 1 .. two[i]}
<1>7. 0 \in Q
  <2>1. g[0] = 1 /\ two[0] = 1
    BY <1>6, Two DEF IsRunning
  <2>. QED BY <2>1
<1>8. ASSUME NEW i \in Q PROVE i + 1 \in Q
  <2>. SUFFICES ASSUME i + 1 \in 0 .. n PROVE g[i + 1] \in 1 .. two[i + 1]
    OBVIOUS
  <2>1. i \in Nat /\ i \in 0 .. n /\ i + 1 \in 1 .. n /\ (i + 1) - 1 = i /\ g[i] \in 1 .. two[i]
    BY <1>1
  <2>2. /\ g[i + 1] = g[i] + terms[i + 1] /\ terms[i + 1] = BitAt(s, o + (i + 1)) * two[i]
        /\ BitAt(s, o + (i + 1)) \in {0, 1}
    BY <1>2, <1>6, <2>1 DEF IsRunning
  <2>3. two[i] \in Nat /\ two[i + 1] = 2 * two[i]
    BY <2>1, Two
  <2>4. terms[i + 1] = 0 \/ terms[i + 1] = two[i]
    BY <2>2, <2>3
  <2>. QED BY <2>1, <2>2, <2>3, <2>4
<1>9. Q = Nat
  <2>1. Q \in SUBSET Nat
    OBVIOUS
  <2>. HIDE DEF Q
  <2>. QED BY <1>7, <1>8, <2>1, Induction
<1>10. \A i \in 0 .. n : g[i] \in 1 .. two[i]
  BY <1>1, <1>9
<1>11. \A i \in 1 .. n : g[i] = g[i - 1] + BitAt(s, o + i) * two[i - 1]
  BY <1>2, <1>6 DEF IsRunning
<1>. QED BY <1>4, <1>6, <1>10, <1>11 DEF IsDigit, n

\* The largest digit.
Half == two[windowSize - 1]

IsSmall(x) == x \in Int /\ x # 0 /\ -Half <= x /\ x <= Half

LEMMA DigitIsSmall ==
    ASSUME NEW s \in Seq({0, 1}), NEW o \in Nat
    PROVE  IsSmall(digit(s, o))
<1>1. PICK g : IsDigit(g, s, o)
  BY DigitTrace
<1>2. windowSize - 1 \in 0 .. windowSize - 1 /\ windowSize - 1 \in Nat
  BY WindowsAssumption
<1>3. g[windowSize - 1] \in 1 .. Half /\ Half \in Nat
  BY <1>1, <1>2, Two DEF IsDigit, Half
<1>. QED BY <1>1, <1>3 DEF IsDigit, IsSmall

\* A digit tells all bits of its window.
LEMMA DigitTells ==
    ASSUME NEW s \in Seq({0, 1}), NEW t \in Seq({0, 1}), NEW o \in Nat, digit(s, o) = digit(t, o)
    PROVE  \A i \in 1 .. windowSize : BitAt(s, o + i) = BitAt(t, o + i)
<1>. DEFINE n == windowSize - 1
<1>1. windowSize \in Nat /\ n \in Nat /\ n \in 0 .. n /\ n + 1 = windowSize
  BY WindowsAssumption
<1>2. PICK g : IsDigit(g, s, o)
  BY DigitTrace
<1>3. PICK h : IsDigit(h, t, o)
  BY DigitTrace
<1>4. \A i \in 1 .. windowSize : BitAt(s, o + i) \in {0, 1} /\ BitAt(t, o + i) \in {0, 1}
  <2>. TAKE i \in 1 .. windowSize
  <2>1. o + i \in Nat \ {0}
    BY <1>1
  <2>. QED BY <2>1, BitAtType
<1>5. \A i \in 0 .. n : g[i] \in 1 .. two[i] /\ h[i] \in 1 .. two[i]
  BY <1>2, <1>3 DEF IsDigit
<1>6. /\ \A i \in 1 .. n : g[i] = g[i - 1] + BitAt(s, o + i) * two[i - 1]
      /\ \A i \in 1 .. n : h[i] = h[i - 1] + BitAt(t, o + i) * two[i - 1]
  BY <1>2, <1>3 DEF IsDigit
<1>. HIDE DEF n
<1>7. BitAt(s, o + windowSize) = BitAt(t, o + windowSize) /\ g[n] = h[n]
  <2>1. g[n] \in Nat \ {0} /\ h[n] \in Nat \ {0}
    <3>1. two[n] \in Nat
      BY <1>1, Two
    <3>. QED BY <1>1, <1>5, <3>1
  <2>2. windowSize \in 1 .. windowSize
    BY <1>1
  <2>3. /\ digit(s, o) = IF BitAt(s, o + windowSize) = 1 THEN -g[n] ELSE g[n]
        /\ digit(t, o) = IF BitAt(t, o + windowSize) = 1 THEN -h[n] ELSE h[n]
    BY <1>2, <1>3 DEF IsDigit, n
  <2>4. BitAt(s, o + windowSize) \in {0, 1} /\ BitAt(t, o + windowSize) \in {0, 1}
    BY <1>4, <2>2
  <2>. DEFINE x == BitAt(s, o + windowSize)
              y == BitAt(t, o + windowSize)
  <2>5. (IF x = 1 THEN -g[n] ELSE g[n]) = (IF y = 1 THEN -h[n] ELSE h[n])
    BY <2>3
  <2>. HIDE DEF x, y
  <2>6. x \in {0, 1} /\ y \in {0, 1}
    BY <2>4 DEF x, y
  <2>7. x = y /\ g[n] = h[n]
    BY <2>1, <2>5, <2>6
  <2>. QED BY <2>7 DEF x, y
<1>8. ASSUME NEW i \in 1 .. n, g[i] = h[i]
      PROVE  g[i - 1] = h[i - 1] /\ BitAt(s, o + i) = BitAt(t, o + i)
  <2>. DEFINE p == two[i - 1]
              x == BitAt(s, o + i)
              y == BitAt(t, o + i)
  <2>1. i - 1 \in 0 .. n /\ i - 1 \in Nat /\ i \in 1 .. windowSize
    BY <1>1
  <2>2. p \in Nat /\ g[i - 1] \in 1 .. p /\ h[i - 1] \in 1 .. p
    BY <1>5, <2>1, Two
  <2>3. g[i - 1] + x * p = h[i - 1] + y * p /\ x \in {0, 1} /\ y \in {0, 1}
    BY <1>4, <1>6, <1>8, <2>1
  <2>. HIDE DEF p, x, y
  <2>4. x = y /\ g[i - 1] = h[i - 1]
    <3>1. x * p = (IF x = 0 THEN 0 ELSE p) /\ y * p = (IF y = 0 THEN 0 ELSE p)
      BY <2>2, <2>3
    <3>. QED BY <2>2, <2>3, <3>1
  <2>. QED BY <2>4 DEF x, y
<1>. DEFINE Q == {k \in Nat : k \in 0 .. n => g[n - k] = h[n - k]}
<1>9. 0 \in Q
  <2>1. n - 0 = n
    BY <1>1
  <2>. QED BY <1>7, <2>1
<1>10. ASSUME NEW k \in Q PROVE k + 1 \in Q
  <2>. SUFFICES ASSUME k + 1 \in 0 .. n PROVE g[n - (k + 1)] = h[n - (k + 1)]
    OBVIOUS
  <2>1. k \in Nat /\ k \in 0 .. n /\ n - k \in 1 .. n /\ n - (k + 1) = (n - k) - 1
    BY <1>1
  <2>2. g[n - k] = h[n - k]
    BY <2>1
  <2>. QED BY <1>8, <2>1, <2>2
<1>11. Q = Nat
  <2>1. Q \in SUBSET Nat
    OBVIOUS
  <2>. HIDE DEF Q
  <2>. QED BY <1>9, <1>10, <2>1, Induction
<1>12. \A i \in 1 .. n : g[i] = h[i]
  <2>. TAKE i \in 1 .. n
  <2>1. n - i \in Nat /\ n - i \in 0 .. n /\ n - (n - i) = i
    BY <1>1
  <2>. QED BY <1>11, <2>1
<1>. QED
  <2>. TAKE i \in 1 .. windowSize
  <2>1. i = windowSize \/ i \in 1 .. n
    BY <1>1
  <2>. QED BY <1>7, <1>8, <1>12, <2>1

-----------------------------------------------------------------------------
\* Numbers of signed digits: the base leaves so much room that the digits of a
\* number, and how many they are, are its own.

LEMMA Exp ==
    /\ Half \in Nat \ {0} /\ exp(0) = 1
    /\ \A n \in Nat : exp(n) \in Nat \ {0} /\ exp(n + 1) = (4 * Half) * exp(n)
    /\ \A n \in Nat : \A m \in Nat : n <= m => exp(n) <= exp(m)
<1>. DEFINE w == windowSize + 1
<1>1. windowSize - 1 \in Nat /\ w \in Nat /\ w * 0 = 0
  BY WindowsAssumption
<1>2. Half \in Nat \ {0}
  BY <1>1, Two DEF Half
<1>3. two[w] = 4 * Half
  <2>. DEFINE u == windowSize - 1
  <2>1. u \in Nat /\ u + 1 \in Nat /\ (u + 1) + 1 = w
    BY <1>1, WindowsAssumption
  <2>. HIDE DEF u, w
  <2>2. two[u + 1] = 2 * two[u] /\ two[(u + 1) + 1] = 2 * two[u + 1] /\ two[u] \in Nat
    BY <2>1, Two
  <2>. QED BY <2>1, <2>2 DEF Half, u
<1>4. \A n \in Nat : exp(n) = two[w * n] /\ w * n \in Nat
  BY <1>1 DEF exp
<1>. HIDE DEF w
<1>5. exp(0) = 1
  BY <1>1, <1>4, Two
<1>6. ASSUME NEW n \in Nat, NEW m \in Nat PROVE exp(n + m) = exp(n) * exp(m)
  <2>1. w * (n + m) = w * n + w * m /\ n + m \in Nat
    BY <1>1
  <2>2. two[w * n + w * m] = two[w * n] * two[w * m]
    BY <1>4, Two
  <2>. QED BY <1>4, <2>1, <2>2
<1>7. ASSUME NEW n \in Nat PROVE exp(n) \in Nat \ {0}
  <2>1. w * n \in Nat /\ exp(n) = two[w * n]
    BY <1>4
  <2>. QED BY <2>1, Two
<1>8. ASSUME NEW n \in Nat PROVE exp(n + 1) = (4 * Half) * exp(n)
  <2>1. w * 1 = w /\ 1 \in Nat
    BY <1>1
  <2>2. exp(1) = 4 * Half
    BY <1>3, <1>4, <2>1
  <2>3. exp(n) \in Nat /\ 4 * Half \in Nat /\ exp(n + 1) = exp(n) * exp(1)
    BY <1>2, <1>6, <1>7
  <2>. DEFINE x == exp(n)
              y == 4 * Half
  <2>4. x \in Nat /\ y \in Nat /\ exp(n + 1) = x * y
    BY <2>2, <2>3
  <2>. HIDE DEF x, y
  <2>5. x * y = y * x
    BY <2>4
  <2>. QED BY <2>4, <2>5 DEF x, y
<1>9. ASSUME NEW n \in Nat, NEW m \in Nat, n <= m PROVE exp(n) <= exp(m)
  <2>. DEFINE x == exp(n)
              y == exp(m - n)
  <2>1. m - n \in Nat /\ n + (m - n) = m
    BY <1>9
  <2>2. x \in Nat \ {0} /\ y \in Nat \ {0} /\ exp(m) = x * y
    <3>1. exp(n + (m - n)) = exp(n) * exp(m - n)
      BY <1>6, <2>1
    <3>. QED BY <1>7, <2>1, <3>1
  <2>. HIDE DEF x, y
  <2>3. 1 * x <= y * x
    <3>1. 1 \in Int /\ y \in Int /\ x \in Nat /\ 1 <= y
      BY <2>2
    <3>. QED BY <3>1, Times
  <2>4. x <= x * y
    BY <2>2, <2>3
  <2>. QED BY <2>2, <2>4 DEF x
<1>. QED BY <1>2, <1>5, <1>7, <1>8, <1>9

\* g[i] is the number of the first i digits, the lowest first.
IsNumber(g, d, n) ==
    /\ \A i \in 0 .. n : g[i] \in Int
    /\ g[0] = 0
    /\ \A i \in 1 .. n : IsSmall(d[i]) /\ g[i] = g[i - 1] + d[i] * exp(i - 1)

\* They stay below half of the place of the next one.
LEMMA NumberIsBelow ==
    ASSUME NEW n \in Nat, NEW g, NEW d, IsNumber(g, d, n)
    PROVE  \A i \in 0 .. n : -exp(i) < 2 * g[i] /\ 2 * g[i] < exp(i)
<1>. DEFINE Q == {i \in Nat : i \in 0 .. n => -exp(i) < 2 * g[i] /\ 2 * g[i] < exp(i)}
<1>1. 0 \in Q
  <2>1. g[0] = 0 /\ exp(0) = 1
    BY Exp DEF IsNumber
  <2>. QED BY <2>1
<1>2. ASSUME NEW i \in Q PROVE i + 1 \in Q
  <2>. SUFFICES ASSUME i + 1 \in 0 .. n
                PROVE  -exp(i + 1) < 2 * g[i + 1] /\ 2 * g[i + 1] < exp(i + 1)
    OBVIOUS
  <2>. DEFINE x == d[i + 1]
              E == exp(i)
              y == x * E
              t == Half * E
  <2>1. /\ i \in Nat /\ i \in 0 .. n /\ i + 1 \in 1 .. n /\ (i + 1) - 1 = i
        /\ -E < 2 * g[i] /\ 2 * g[i] < E
    OBVIOUS
  <2>2. IsSmall(x) /\ g[i + 1] = g[i] + y /\ g[i] \in Int
    BY <2>1 DEF IsNumber
  <2>3. Half \in Nat \ {0} /\ E \in Nat \ {0} /\ exp(i + 1) = (4 * Half) * E
    BY <2>1, Exp
  <2>. HIDE DEF E, x, Q
  <2>4. x \in Int /\ -Half \in Int /\ Half \in Int /\ E \in Nat /\ -Half <= x /\ x <= Half
    BY <2>2, <2>3 DEF IsSmall
  <2>5. -Half * E <= x * E /\ x * E <= Half * E
    BY <2>4, Times
  <2>6. 1 * E <= Half * E
    <3>1. 1 \in Int /\ 1 <= Half
      BY <2>3
    <3>. QED BY <2>4, <3>1, Times
  <2>7. t \in Int /\ y \in Int /\ -Half * E = -t /\ (4 * Half) * E = 4 * t
    BY <2>4
  <2>8. -t <= y /\ y <= t /\ E <= t
    BY <2>4, <2>5, <2>6, <2>7
  <2>9. exp(i + 1) = 4 * t
    BY <2>3, <2>7
  <2>. HIDE DEF t, y
  <2>. QED BY <2>1, <2>2, <2>3, <2>7, <2>8, <2>9
<1>3. Q = Nat
  <2>1. Q \in SUBSET Nat
    OBVIOUS
  <2>. HIDE DEF Q
  <2>. QED BY <1>1, <1>2, <2>1, Induction
<1>. QED BY <1>3

\* The last digit, which is not zero, takes them beyond half of its own place.
LEMMA NumberIsAbove ==
    ASSUME NEW n \in Nat \ {0}, NEW g, NEW d, IsNumber(g, d, n)
    PROVE  exp(n - 1) < 2 * g[n] \/ 2 * g[n] < -exp(n - 1)
<1>. DEFINE x == d[n]
            E == exp(n - 1)
            y == x * E
            z == g[n - 1]
<1>1. n \in 1 .. n /\ n - 1 \in 0 .. n /\ n - 1 \in Nat /\ n \in Nat
  OBVIOUS
<1>2. IsSmall(x) /\ g[n] = z + y /\ z \in Int
  BY <1>1 DEF IsNumber
<1>3. E \in Nat \ {0} /\ -E < 2 * z /\ 2 * z < E
  BY <1>1, Exp, NumberIsBelow
<1>. HIDE DEF x, E, z
<1>4. x \in Int /\ E \in Nat /\ y \in Int /\ (1 <= x \/ x <= -1)
  BY <1>2, <1>3 DEF IsSmall
<1>5. E <= y \/ y <= -E
  <2>1. CASE 1 <= x
    <3>1. 1 * E <= x * E
      BY <1>4, <2>1, Times
    <3>. QED BY <1>4, <3>1
  <2>2. CASE x <= -1
    <3>1. -1 \in Int
      OBVIOUS
    <3>2. x * E <= (-1) * E
      BY <1>4, <2>2, <3>1, Times
    <3>. QED BY <1>4, <3>2
  <2>. QED BY <1>4, <2>1, <2>2
<1>. HIDE DEF y
<1>6. E < 2 * g[n] \/ 2 * g[n] < -E
  BY <1>2, <1>3, <1>4, <1>5
<1>. QED BY <1>6 DEF E

\* Equal numbers have the same digits.
LEMMA NumberTells ==
    ASSUME NEW n \in Nat \ {0}, NEW g, NEW d, IsNumber(g, d, n),
           NEW m \in Nat \ {0}, NEW h, NEW c, IsNumber(h, c, m), g[n] = h[m]
    PROVE  n = m /\ \A i \in 1 .. n : d[i] = c[i]
<1>1. n \in Nat /\ m \in Nat /\ n \in 0 .. n /\ m \in 0 .. m /\ n - 1 \in Nat /\ m - 1 \in Nat
  OBVIOUS
<1>2. /\ -exp(n) < 2 * g[n] /\ 2 * g[n] < exp(n) /\ g[n] \in Int
      /\ -exp(m) < 2 * g[n] /\ 2 * g[n] < exp(m)
  <2>1. -exp(n) < 2 * g[n] /\ 2 * g[n] < exp(n) /\ g[n] \in Int
    BY <1>1, NumberIsBelow DEF IsNumber
  <2>2. -exp(m) < 2 * h[m] /\ 2 * h[m] < exp(m)
    BY <1>1, NumberIsBelow
  <2>. QED BY <2>1, <2>2
<1>3. /\ exp(n - 1) < 2 * g[n] \/ 2 * g[n] < -exp(n - 1)
      /\ exp(m - 1) < 2 * g[n] \/ 2 * g[n] < -exp(m - 1)
  <2>1. exp(n - 1) < 2 * g[n] \/ 2 * g[n] < -exp(n - 1)
    BY NumberIsAbove
  <2>2. exp(m - 1) < 2 * h[m] \/ 2 * h[m] < -exp(m - 1)
    BY NumberIsAbove
  <2>. QED BY <2>1, <2>2
<1>4. n = m
  <2>1. exp(n) \in Nat /\ exp(m) \in Nat /\ exp(n - 1) \in Nat /\ exp(m - 1) \in Nat
    BY <1>1, Exp
  <2>2. ~ n < m
    <3>. SUFFICES ASSUME n < m PROVE FALSE
      OBVIOUS
    <3>1. n <= m - 1
      BY <1>1
    <3>2. exp(n) <= exp(m - 1)
      BY <1>1, <3>1, Exp
    <3>. QED BY <1>2, <1>3, <2>1, <3>2
  <2>3. ~ m < n
    <3>. SUFFICES ASSUME m < n PROVE FALSE
      OBVIOUS
    <3>1. m <= n - 1
      BY <1>1
    <3>2. exp(m) <= exp(n - 1)
      BY <1>1, <3>1, Exp
    <3>. QED BY <1>2, <1>3, <2>1, <3>2
  <2>. QED BY <1>1, <2>2, <2>3
<1>5. ASSUME NEW i \in 1 .. n, g[i] = h[i] PROVE g[i - 1] = h[i - 1] /\ d[i] = c[i]
  <2>. DEFINE E == exp(i - 1)
              x == d[i]
              y == c[i]
              u == g[i - 1]
              v == h[i - 1]
  <2>1. i - 1 \in Nat /\ i - 1 \in 0 .. n /\ i - 1 \in 0 .. m /\ i \in 1 .. m
    BY <1>4
  <2>2. /\ g[i] = u + x * E /\ h[i] = v + y * E
        /\ IsSmall(x) /\ IsSmall(y) /\ u \in Int /\ v \in Int
    BY <2>1 DEF IsNumber
  <2>3. /\ E \in Nat \ {0}
        /\ -E < 2 * u /\ 2 * u < E /\ -E < 2 * v /\ 2 * v < E
    BY <1>1, <2>1, Exp, NumberIsBelow
  <2>. HIDE DEF E, x, y, u, v
  <2>4. x \in Int /\ y \in Int /\ E \in Nat
    BY <2>2, <2>3 DEF IsSmall
  <2>. DEFINE z == x - y
  <2>5. z \in Int /\ z * E = v - u
    <3>. DEFINE p == x * E
                q == y * E
    <3>1. z * E = p - q /\ p \in Int /\ q \in Int /\ z \in Int
      BY <2>4
    <3>2. u + p = v + q
      BY <1>5, <2>2
    <3>. HIDE DEF p, q, z
    <3>. QED BY <2>2, <3>1, <3>2
  <2>6. -E < z * E /\ z * E < E
    BY <2>2, <2>3, <2>5
  <2>. HIDE DEF z
  <2>7. z = 0
    <3>1. CASE 1 <= z
      <4>1. 1 * E <= z * E
        BY <2>4, <2>5, <3>1, Times
      <4>. QED BY <2>4, <2>5, <2>6, <4>1
    <3>2. CASE z <= -1
      <4>1. -1 \in Int
        OBVIOUS
      <4>2. z * E <= (-1) * E
        BY <2>4, <2>5, <3>2, <4>1, Times
      <4>. QED BY <2>4, <2>5, <2>6, <4>2
    <3>. QED BY <2>5, <3>1, <3>2
  <2>8. x = y
    BY <2>4, <2>7 DEF z
  <2>9. u = v
    <3>1. 0 * E = 0
      BY <2>4
    <3>. QED BY <2>2, <2>5, <2>7, <3>1
  <2>. QED BY <2>8, <2>9 DEF x, y, u, v
<1>. DEFINE Q == {k \in Nat : k \in 0 .. n => g[n - k] = h[n - k]}
<1>6. 0 \in Q
  <2>1. n - 0 = n
    OBVIOUS
  <2>. QED BY <1>4, <2>1
<1>7. ASSUME NEW k \in Q PROVE k + 1 \in Q
  <2>. SUFFICES ASSUME k + 1 \in 0 .. n PROVE g[n - (k + 1)] = h[n - (k + 1)]
    OBVIOUS
  <2>1. k \in Nat /\ k \in 0 .. n /\ n - k \in 1 .. n /\ n - (k + 1) = (n - k) - 1
    OBVIOUS
  <2>2. g[n - k] = h[n - k]
    BY <2>1
  <2>. QED BY <1>5, <2>1, <2>2
<1>8. Q = Nat
  <2>1. Q \in SUBSET Nat
    OBVIOUS
  <2>. HIDE DEF Q
  <2>. QED BY <1>6, <1>7, <2>1, Induction
<1>9. \A i \in 1 .. n : g[i] = h[i]
  <2>. TAKE i \in 1 .. n
  <2>1. n - i \in Nat /\ n - i \in 0 .. n /\ n - (n - i) = i
    OBVIOUS
  <2>. QED BY <1>8, <2>1
<1>. QED BY <1>4, <1>5, <1>9

-----------------------------------------------------------------------------
\* Segments.

\* Where window w of segment k starts.
Place0(k, w) == k * bitsPerSegment + (w - 1) * windowSize

LEMMA Sizes ==
    /\ windowSize \in Nat \ {0} /\ nWindowsPerSegment \in Nat \ {0}
    /\ bitsPerSegment = windowSize * nWindowsPerSegment /\ bitsPerSegment \in Nat \ {0}
BY WindowsAssumption DEF bitsPerSegment

\* Each segment has windows, at most as many as fit, and the last one those of
\* the rest of the input.
LEMMA SegmentsCover ==
    ASSUME NEW s, Len(s) \in Nat \ {0}
    PROVE  /\ nSegments(s) \in Nat \ {0}
           /\ \A k \in 0 .. nSegments(s) - 1 : nWindows(s, k) \in 1 .. nWindowsPerSegment
           /\ (Len(s) - 1) \div windowSize
                = nWindowsPerSegment * (nSegments(s) - 1) + (nWindows(s, nSegments(s) - 1) - 1)
<1>. DEFINE x == Len(s) - 1
            W == nWindowsPerSegment
            q == x \div bitsPerSegment
            r == x % bitsPerSegment
            y == x \div windowSize
<1>1. x \in Nat /\ x \in Int
  OBVIOUS
<1>2. q \in Nat /\ r \in 0 .. bitsPerSegment - 1 /\ x = bitsPerSegment * q + r
  <2>. HIDE DEF x
  <2>. QED BY <1>1, Sizes, Division, DivNat
<1>3. nSegments(s) = q + 1
  BY DEF nSegments
<1>4. nWindows(s, q) = (r \div windowSize) + 1
  <2>. DEFINE z == q * bitsPerSegment
  <2>1. z = bitsPerSegment * q /\ z \in Nat
    BY <1>2, Sizes
  <2>. HIDE DEF q, r, z
  <2>2. Len(s) - z - 1 = r
    BY <1>1, <1>2, <2>1, Sizes
  <2>3. q = nSegments(s) - 1
    BY <1>2, <1>3
  <2>. QED BY <2>2, <2>3 DEF nWindows, z
<1>5. r \div windowSize \in 0 .. W - 1
  <2>. HIDE DEF r
  <2>. QED BY <1>2, Sizes, PlaceRange
<1>6. y \in Int /\ y \div W = q /\ r \div windowSize = y % W
  <2>. HIDE DEF x
  <2>1. y \in Int
    BY <1>1, Sizes, Division
  <2>2. y \div W = q
    BY <1>1, Sizes, DivDiv
  <2>3. r \div windowSize = y % W
    <3>1. x % (windowSize * W) = r
      BY Sizes
    <3>. HIDE DEF y, r, W
    <3>2. x \in Int /\ windowSize \in Nat \ {0} /\ W \in Nat \ {0}
      BY <1>1, Sizes DEF W
    <3>3. (x % (windowSize * W)) \div windowSize = (x \div windowSize) % W
      BY <3>2, ModSplit
    <3>. QED BY <3>1, <3>3 DEF y
  <2>. QED BY <2>1, <2>2, <2>3
<1>. HIDE DEF x, q, r, y, W
<1>7. y = W * q + (r \div windowSize)
  <2>1. y \in Int /\ W \in Nat \ {0}
    BY <1>6, Sizes DEF W
  <2>2. y = W * (y \div W) + (y % W)
    BY <2>1, Division
  <2>. QED BY <1>6, <2>2
<1>8. W \in Nat \ {0} /\ r \div windowSize \in 0 .. W - 1 /\ q \in Nat
  BY <1>2, <1>5, Sizes DEF W
<1>9. nSegments(s) \in Nat \ {0} /\ nSegments(s) - 1 = q
  BY <1>3, <1>8
<1>10. \A k \in 0 .. nSegments(s) - 1 : nWindows(s, k) \in 1 .. W
  <2>. TAKE k \in 0 .. nSegments(s) - 1
  <2>1. CASE k = q
    BY <1>4, <1>8, <2>1
  <2>2. CASE k # q
    BY <1>8, <1>9, <2>2 DEF nWindows, W
  <2>. QED BY <2>1, <2>2
<1>11. y = W * (nSegments(s) - 1) + (nWindows(s, nSegments(s) - 1) - 1)
  <2>1. nWindows(s, q) - 1 = r \div windowSize
    BY <1>4, <1>8
  <2>. QED BY <1>7, <1>9, <2>1
<1>. QED BY <1>9, <1>10, <1>11 DEF W, x, y

\* Every bit of the input is in a window.
LEMMA WindowsCover ==
    ASSUME NEW s, Len(s) \in Nat \ {0}, NEW i \in 1 .. Len(s)
    PROVE  \E k \in 0 .. nSegments(s) - 1 : \E w \in 1 .. nWindows(s, k) :
               \E j \in 1 .. windowSize : i = Place0(k, w) + j
<1>. DEFINE x == i - 1
            y == x \div windowSize
            z == (Len(s) - 1) \div windowSize
            W == nWindowsPerSegment
            n == nSegments(s)
            k == y \div W
            v == y % W
            j == x % windowSize
<1>1. x \in Nat /\ Len(s) - 1 \in Nat /\ x <= Len(s) - 1
  OBVIOUS
<1>2. /\ y \in Nat /\ j \in 0 .. windowSize - 1 /\ x = windowSize * y + j
      /\ z \in Nat /\ Len(s) - 1 < windowSize * z + windowSize
  <2>. DEFINE l == Len(s) - 1
  <2>1. l \in Int /\ x \in Int /\ l \in Nat
    BY <1>1
  <2>. HIDE DEF x, l
  <2>2. y \in Nat /\ j \in 0 .. windowSize - 1 /\ x = windowSize * y + j
    BY <1>1, <2>1, Sizes, Division, DivNat
  <2>. DEFINE r == l % windowSize
              p == windowSize * (l \div windowSize)
  <2>3. l \div windowSize \in Nat
    BY <2>1, Sizes, DivNat
  <2>4. r \in 0 .. windowSize - 1 /\ l = p + r
    BY <2>1, Sizes, Division
  <2>. HIDE DEF r
  <2>5. p \in Nat
    BY <2>3, Sizes
  <2>. HIDE DEF p
  <2>6. l < p + windowSize
    BY <2>4, <2>5, Sizes
  <2>. QED BY <2>2, <2>3, <2>6 DEF p, l
<1>3. y <= z
  <2>. SUFFICES ASSUME z + 1 <= y PROVE FALSE
    BY <1>2
  <2>. HIDE DEF y, z, j, x
  <2>1. (z + 1) * windowSize <= y * windowSize
    <3>1. z + 1 \in Int /\ y \in Int /\ windowSize \in Nat
      BY <1>2, Sizes
    <3>. QED BY <3>1, Times
  <2>. DEFINE p == windowSize * z
              t == windowSize * y
  <2>2. (z + 1) * windowSize = p + windowSize /\ y * windowSize = t /\ p \in Int /\ t \in Int
    BY <1>2, Sizes
  <2>. HIDE DEF p, t
  <2>3. x = t + j /\ Len(s) - 1 < p + windowSize
    BY <1>2 DEF p, t
  <2>. QED BY <1>1, <1>2, <2>1, <2>2, <2>3, Sizes
<1>4. k \in Nat /\ v \in 0 .. W - 1 /\ y = W * k + v
  <2>1. y \in Int
    BY <1>2
  <2>. HIDE DEF y
  <2>. QED BY <1>2, <2>1, Sizes, Division, DivNat
<1>5. /\ n \in Nat \ {0} /\ nWindows(s, n - 1) \in 1 .. W
      /\ z = W * (n - 1) + (nWindows(s, n - 1) - 1)
  <2>1. n \in Nat \ {0} /\ n - 1 \in 0 .. n - 1
    BY SegmentsCover
  <2>. QED BY <2>1, SegmentsCover
<1>. HIDE DEF x, y, z, W, n, k, v, j
<1>6. W \in Nat \ {0}
  BY Sizes DEF W
<1>7. k <= n - 1
  <2>. SUFFICES ASSUME n <= k PROVE FALSE
    BY <1>4, <1>5
  <2>1. n * W <= k * W
    BY <1>4, <1>5, <1>6, Times
  <2>. DEFINE u == W * (n - 1)
  <2>2. n * W = u + W /\ k * W = W * k /\ u \in Int /\ W * k \in Int
    BY <1>4, <1>5, <1>6
  <2>3. z = u + (nWindows(s, n - 1) - 1)
    BY <1>5
  <2>. HIDE DEF u
  <2>4. z < u + W
    BY <1>5, <1>6, <2>2, <2>3
  <2>. QED BY <1>2, <1>3, <1>4, <1>6, <2>1, <2>2, <2>4
<1>8. v + 1 \in 1 .. nWindows(s, k)
  <2>1. CASE k = n - 1
    <3>1. v <= nWindows(s, k) - 1
      <4>. DEFINE u == W * k
      <4>1. u \in Int /\ y = u + v /\ z = u + (nWindows(s, k) - 1)
        BY <1>4, <1>5, <1>6, <2>1
      <4>. HIDE DEF u
      <4>. QED BY <1>3, <1>4, <1>5, <2>1, <4>1
    <3>. QED BY <1>4, <1>5, <2>1, <3>1
  <2>2. CASE k # n - 1
    <3>1. nWindows(s, k) = W
      BY <2>2 DEF nWindows, W, n
    <3>. QED BY <1>4, <1>6, <3>1
  <2>. QED BY <2>1, <2>2
<1>9. i = Place0(k, v + 1) + (j + 1)
  <2>. DEFINE ws == windowSize
  <2>1. ws \in Nat /\ bitsPerSegment = ws * W
    BY Sizes DEF W
  <2>. HIDE DEF ws
  <2>2. k * (ws * W) + v * ws = ws * (W * k + v)
    BY <1>4, <1>6, <2>1
  <2>3. (v + 1) - 1 = v /\ i = x + 1
    BY <1>4 DEF x
  <2>4. Place0(k, v + 1) = ws * y
    BY <1>4, <2>1, <2>2, <2>3 DEF Place0, ws
  <2>5. x = ws * y + j
    BY <1>2 DEF ws
  <2>6. ws * y \in Int /\ j \in Int
    BY <1>2, <2>1, Sizes
  <2>. DEFINE p == ws * y
  <2>. HIDE DEF p
  <2>. QED BY <2>3, <2>4, <2>5, <2>6 DEF p
<1>10. k \in 0 .. nSegments(s) - 1 /\ j + 1 \in 1 .. windowSize
  BY <1>2, <1>4, <1>5, <1>7, Sizes DEF n
<1>. QED BY <1>8, <1>9, <1>10

-----------------------------------------------------------------------------
\* Scalars.

\* The digits of segment k.
digitsOf(s, k) == [w \in 1 .. nWindows(s, k) |-> digit(s, Place0(k, w))]

LEMMA PlaceType ==
    ASSUME NEW k \in Nat, NEW w \in Nat \ {0}
    PROVE  Place0(k, w) \in Nat
<1>1. k * bitsPerSegment \in Nat
  BY Sizes
<1>2. (w - 1) * windowSize \in Nat
  <2>1. w - 1 \in Nat
    OBVIOUS
  <2>. QED BY <2>1, Sizes
<1>. QED BY <1>1, <1>2 DEF Place0

LEMMA ScalarTrace ==
    ASSUME NEW s \in Seq({0, 1}), NEW k \in Nat, nWindows(s, k) \in 1 .. nWindowsPerSegment
    PROVE  \E g : /\ IsNumber(g, digitsOf(s, k), nWindows(s, k))
                  /\ LET sum == g[nWindows(s, k)]
                     IN  escalar(s, k) = IF sum < 0 THEN subOrder + sum ELSE sum
<1>. DEFINE n == nWindows(s, k)
            d == digitsOf(s, k)
            terms == [w \in 1 .. n |->
                         digit(s, k * bitsPerSegment + (w - 1) * windowSize) * exp(w - 1)]
<1>1. n \in Nat /\ 0 \in Int
  BY Sizes
<1>2. \A w \in 1 .. n : IsSmall(d[w]) /\ terms[w] = d[w] * exp(w - 1)
  <2>. TAKE w \in 1 .. n
  <2>1. Place0(k, w) \in Nat
    <3>1. w \in Nat \ {0}
      BY <1>1
    <3>. QED BY <3>1, PlaceType
  <2>2. d[w] = digit(s, Place0(k, w))
    BY DEF digitsOf
  <2>3. terms[w] = digit(s, Place0(k, w)) * exp(w - 1)
    BY DEF Place0
  <2>. QED BY <2>1, <2>2, <2>3, DigitIsSmall
<1>3. escalar(s, k) = IF addUp(0, terms) < 0 THEN subOrder + addUp(0, terms) ELSE addUp(0, terms)
  BY DEF escalar
<1>4. DOMAIN terms = 1 .. n
  OBVIOUS
<1>. HIDE DEF n, d, terms
<1>5. \A w \in 1 .. n : terms[w] \in Int
  <2>. TAKE w \in 1 .. n
  <2>. DEFINE x == d[w]
              y == exp(w - 1)
  <2>1. w - 1 \in Nat
    BY <1>1
  <2>2. y \in Int
    BY <2>1, Exp
  <2>3. IsSmall(x) /\ terms[w] = x * y
    BY <1>2
  <2>. HIDE DEF x, y
  <2>. QED BY <2>2, <2>3 DEF IsSmall
<1>6. PICK g : IsRunning(g, 0, terms, n) /\ addUp(0, terms) = g[n]
  BY <1>1, <1>4, <1>5, Adding
<1>7. IsNumber(g, d, n)
  BY <1>2, <1>6 DEF IsRunning, IsNumber
<1>. QED BY <1>3, <1>6, <1>7 DEF n, d

\* A scalar tells the number of windows of its segment, and their digits.
LEMMA ScalarTells ==
    ASSUME NEW s \in Seq({0, 1}), NEW t \in Seq({0, 1}), NEW k \in Nat,
           nWindows(s, k) \in 1 .. nWindowsPerSegment,
           nWindows(t, k) \in 1 .. nWindowsPerSegment,
           escalar(s, k) = escalar(t, k)
    PROVE  /\ nWindows(s, k) = nWindows(t, k)
           /\ \A w \in 1 .. nWindows(s, k) : digit(s, Place0(k, w)) = digit(t, Place0(k, w))
<1>. DEFINE n == nWindows(s, k)
            m == nWindows(t, k)
            d == digitsOf(s, k)
            c == digitsOf(t, k)
<1>1. PICK g : IsNumber(g, d, n) /\ escalar(s, k) = IF g[n] < 0 THEN subOrder + g[n] ELSE g[n]
  BY ScalarTrace
<1>2. PICK h : IsNumber(h, c, m) /\ escalar(t, k) = IF h[m] < 0 THEN subOrder + h[m] ELSE h[m]
  BY ScalarTrace
<1>3. n \in Nat \ {0} /\ m \in Nat \ {0} /\ n <= nWindowsPerSegment /\ m <= nWindowsPerSegment
  BY Sizes
<1>4. \A w \in 1 .. n : d[w] = digit(s, Place0(k, w))
  BY DEF digitsOf
<1>5. \A w \in 1 .. m : c[w] = digit(t, Place0(k, w))
  BY DEF digitsOf
<1>. HIDE DEF n, m, d, c
<1>6. ASSUME NEW f, NEW e, NEW l \in Nat \ {0}, l <= nWindowsPerSegment, IsNumber(f, e, l)
      PROVE  f[l] \in Int /\ -subOrder < 2 * f[l] /\ 2 * f[l] < subOrder
  <2>1. l \in 0 .. l /\ l \in Nat /\ nWindowsPerSegment \in Nat
    BY Sizes
  <2>2. -exp(l) < 2 * f[l] /\ 2 * f[l] < exp(l) /\ f[l] \in Int
    BY <1>6, <2>1, NumberIsBelow DEF IsNumber
  <2>3. exp(l) <= exp(nWindowsPerSegment) /\ exp(l) \in Nat /\ exp(nWindowsPerSegment) \in Nat
    BY <1>6, <2>1, Exp
  <2>4. exp(nWindowsPerSegment) <= subOrder /\ subOrder \in Nat
    BY OrderAssumption DEF exp
  <2>. QED BY <2>2, <2>3, <2>4
<1>7. g[n] \in Int /\ -subOrder < 2 * g[n] /\ 2 * g[n] < subOrder
  BY <1>1, <1>3, <1>6
<1>8. h[m] \in Int /\ -subOrder < 2 * h[m] /\ 2 * h[m] < subOrder
  BY <1>2, <1>3, <1>6
<1>9. g[n] = h[m]
  <2>1. (IF g[n] < 0 THEN subOrder + g[n] ELSE g[n]) = (IF h[m] < 0 THEN subOrder + h[m] ELSE h[m])
    BY <1>1, <1>2
  <2>2. subOrder \in Nat
    BY OrderAssumption
  <2>. QED BY <1>7, <1>8, <2>1, <2>2
<1>10. n = m /\ \A i \in 1 .. n : d[i] = c[i]
  BY <1>1, <1>2, <1>3, <1>9, NumberTells
<1>. QED BY <1>4, <1>5, <1>10 DEF n, m

\* The scalars tell an input from all others of the same number of windows, and
\* that number.
LEMMA ScalarsTell ==
    ASSUME NEW s \in Seq({0, 1}), NEW t \in Seq({0, 1}), Len(s) \in Nat \ {0}, Len(t) \in Nat \ {0},
           scalars(s) = scalars(t)
    PROVE  /\ (Len(s) - 1) \div windowSize = (Len(t) - 1) \div windowSize
           /\ Len(s) = Len(t) => s = t
<1>1. nSegments(s) \in Nat \ {0} /\ nSegments(t) \in Nat \ {0}
  BY SegmentsCover
<1>2. nSegments(s) = nSegments(t)
  <2>1. 0 .. nSegments(s) - 1 = 0 .. nSegments(t) - 1
    BY DEF scalars
  <2>2. /\ nSegments(s) - 1 \in 0 .. nSegments(s) - 1
        /\ nSegments(t) - 1 \in 0 .. nSegments(t) - 1
    BY <1>1
  <2>. DEFINE p == nSegments(s) - 1
              q == nSegments(t) - 1
  <2>3. p \in 0 .. q /\ q \in 0 .. p
    BY <2>1, <2>2
  <2>. QED BY <1>1, <2>3
<1>3. \A k \in 0 .. nSegments(s) - 1 : escalar(s, k) = escalar(t, k)
  <2>. TAKE k \in 0 .. nSegments(s) - 1
  <2>1. scalars(s)[k] = escalar(s, k)
    BY DEF scalars
  <2>2. scalars(t)[k] = escalar(t, k)
    BY <1>2 DEF scalars
  <2>. QED BY <2>1, <2>2
<1>4. ASSUME NEW k \in 0 .. nSegments(s) - 1
      PROVE  /\ nWindows(s, k) = nWindows(t, k)
             /\ \A w \in 1 .. nWindows(s, k) : digit(s, Place0(k, w)) = digit(t, Place0(k, w))
  <2>1. k \in Nat
    BY <1>1
  <2>2. nWindows(s, k) \in 1 .. nWindowsPerSegment
    BY SegmentsCover
  <2>3. nWindows(t, k) \in 1 .. nWindowsPerSegment
    BY <1>2, SegmentsCover
  <2>. QED BY <1>3, <2>1, <2>2, <2>3, ScalarTells
<1>5. (Len(s) - 1) \div windowSize = (Len(t) - 1) \div windowSize
  <2>1. nSegments(s) - 1 \in 0 .. nSegments(s) - 1
    BY <1>1
  <2>2. nWindows(s, nSegments(s) - 1) = nWindows(t, nSegments(t) - 1)
    BY <1>2, <1>4, <2>1
  <2>3. (Len(s) - 1) \div windowSize
          = nWindowsPerSegment * (nSegments(s) - 1) + (nWindows(s, nSegments(s) - 1) - 1)
    BY SegmentsCover
  <2>4. (Len(t) - 1) \div windowSize
          = nWindowsPerSegment * (nSegments(t) - 1) + (nWindows(t, nSegments(t) - 1) - 1)
    BY SegmentsCover
  <2>. QED BY <1>2, <2>2, <2>3, <2>4
<1>6. ASSUME Len(s) = Len(t) PROVE s = t
  <2>1. ASSUME NEW i \in 1 .. Len(s) PROVE s[i] = t[i]
    <3>0. PICK k \in 0 .. nSegments(s) - 1 :
              \E w \in 1 .. nWindows(s, k) : \E j \in 1 .. windowSize : i = Place0(k, w) + j
      BY WindowsCover
    <3>1. PICK w \in 1 .. nWindows(s, k) : \E j \in 1 .. windowSize : i = Place0(k, w) + j
      BY <3>0
    <3>2. PICK j \in 1 .. windowSize : i = Place0(k, w) + j
      BY <3>1
    <3>3. k \in Nat /\ w \in Nat \ {0}
      <4>1. nWindows(s, k) \in 1 .. nWindowsPerSegment
        BY SegmentsCover
      <4>. QED BY <1>1, <4>1, Sizes
    <3>4. Place0(k, w) \in Nat /\ digit(s, Place0(k, w)) = digit(t, Place0(k, w))
      BY <1>4, <3>3, PlaceType
    <3>5. BitAt(s, Place0(k, w) + j) = BitAt(t, Place0(k, w) + j)
      BY <3>4, DigitTells
    <3>6. BitAt(s, i) = BitAt(t, i)
      BY <3>2, <3>5
    <3>7. i <= Len(s) /\ i <= Len(t)
      BY <1>6
    <3>. QED BY <3>6, <3>7 DEF BitAt
  <2>. QED BY <1>6, <2>1, SeqEqual
<1>. QED BY <1>5, <1>6

-----------------------------------------------------------------------------
\* Calls.

\* FlattenSeq of one, two or three words.
LEMMA FlattenFew ==
    ASSUME NEW s, NEW n \in 1 .. 3, DOMAIN s = 1 .. n, Len(s) = n
    PROVE  FlattenSeq(s) = IF n = 1 THEN s[1] ELSE IF n = 2 THEN s[1] \o s[2]
                           ELSE (s[1] \o s[2]) \o s[3]
<1>. DEFINE E(f) == f = [i \in 1 .. n |-> IF i = 1 THEN s[i] ELSE f[i - 1] \o s[i]]
            f0 == [i \in 1 .. n |-> IF i = 1 THEN s[1] ELSE IF i = 2 THEN s[1] \o s[2]
                                    ELSE (s[1] \o s[2]) \o s[3]]
            F == CHOOSE f : E(f)
<1>1. FlattenSeq(s) = F[n]
  BY DEF FlattenSeq
<1>2. E(f0)
  <2>1. \A i \in 1 .. n : f0[i] = IF i = 1 THEN s[i] ELSE f0[i - 1] \o s[i]
    <3>. TAKE i \in 1 .. n
    <3>1. CASE i = 1
      BY <3>1
    <3>2. CASE i = 2
      <4>1. i - 1 = 1 /\ 1 \in 1 .. n /\ i # 1
        BY <3>2
      <4>. QED BY <3>2, <4>1
    <3>3. CASE i = 3
      <4>1. i - 1 = 2 /\ 2 \in 1 .. n /\ i # 1 /\ i # 2
        BY <3>3
      <4>. QED BY <3>3, <4>1
    <3>. QED BY <3>1, <3>2, <3>3
  <2>2. f0 = [i \in 1 .. n |-> f0[i]]
    OBVIOUS
  <2>. HIDE DEF f0
  <2>. QED BY <2>1, <2>2
<1>3. E(F)
  BY <1>2
<1>. HIDE DEF F
<1>4. \A i \in 1 .. n : F[i] = IF i = 1 THEN s[i] ELSE F[i - 1] \o s[i]
  BY <1>3
<1>5. F[1] = s[1]
  BY <1>4
<1>6. ASSUME NEW i \in 1 .. n, NEW k \in 1 .. n, i = k + 1 PROVE F[i] = F[k] \o s[i]
  <2>1. i # 1 /\ i - 1 = k
    BY <1>6
  <2>. QED BY <1>4, <2>1
<1>7. ASSUME n # 1 PROVE F[2] = s[1] \o s[2]
  <2>1. 2 \in 1 .. n /\ 1 \in 1 .. n /\ 2 = 1 + 1
    BY <1>7
  <2>. QED BY <1>5, <1>6, <2>1, Zenon
<1>8. ASSUME n # 1, n # 2 PROVE F[3] = (s[1] \o s[2]) \o s[3]
  <2>1. 3 \in 1 .. n /\ 2 \in 1 .. n /\ 3 = 2 + 1
    BY <1>8
  <2>. QED BY <1>6, <1>7, <1>8, <2>1, Zenon
<1>9. n = 1 \/ n = 2 \/ n = 3
  OBVIOUS
<1>10. CASE n = 1
  BY <1>1, <1>5, <1>10, Zenon
<1>11. CASE n = 2
  <2>1. n # 1
    BY <1>11
  <2>. QED BY <1>1, <1>7, <1>11, <2>1, Zenon
<1>12. CASE n = 3
  <2>1. n # 1 /\ n # 2
    BY <1>12
  <2>. QED BY <1>1, <1>8, <1>12, <2>1, Zenon
<1>. QED BY <1>9, <1>10, <1>11, <1>12

LEMMA WordType ==
    ASSUME NEW n \in Nat, NEW s \in Nat
    PROVE  leIntToBits(n, s) \in Seq({0, 1}) /\ Len(leIntToBits(n, s)) = s
<1>. DEFINE word == leIntToBits(n, s)
<1>1. \A i \in 1 .. s : word[i] \in {0, 1}
  <2>. TAKE i \in 1 .. s
  <2>1. i - 1 \in Nat /\ n \in Int /\ 2 \in Nat \ {0}
    OBVIOUS
  <2>. DEFINE q == n \div two[i - 1]
  <2>2. q \in Int
    BY <2>1, Two, Division
  <2>3. word[i] = q % 2
    BY Bits
  <2>. HIDE DEF q
  <2>4. q % 2 \in 0 .. 2 - 1
    BY <2>1, <2>2, Division
  <2>. QED BY <2>3, <2>4
<1>2. word = [i \in 1 .. s |-> word[i]]
  BY DEF leIntToBits
<1>. HIDE DEF word
<1>3. word \in Seq({0, 1}) /\ Len(word) = s
  BY <1>1, <1>2
<1>. QED BY <1>3 DEF word

\* A word tells the number, below two[s].
LEMMA WordTells ==
    ASSUME NEW s \in Nat, NEW n \in 0 .. two[s] - 1, NEW m \in 0 .. two[s] - 1,
           leIntToBits(n, s) = leIntToBits(m, s)
    PROVE  n = m
<1>1. n \in Nat /\ m \in Nat /\ two[s] \in Nat \ {0}
  BY Two
<1>2. n % two[s] = m % two[s]
  BY <1>1, SumOfBits
<1>3. n % two[s] = n /\ m % two[s] = m
  <2>. DEFINE p == two[s]
  <2>. HIDE DEF p
  <2>. QED BY <1>1, FirstPlace DEF p
<1>. QED BY <1>2, <1>3

\* Sequences of equal length tell their parts.
Words == Seq({0, 1})

SameWhole(s, t, u, v) ==
    /\ s \in Words /\ t \in Words /\ u \in Words /\ v \in Words
    /\ Len(s) = Len(u) /\ Len(t) = Len(v)
    /\ s \o t = u \o v

LEMMA PartsTell ==
    ASSUME NEW s, NEW t, NEW u, NEW v, SameWhole(s, t, u, v)
    PROVE  s = u /\ t = v
<1>. DEFINE S == {0, 1}
<1>. /\ s \in Seq(S) /\ t \in Seq(S) /\ u \in Seq(S) /\ v \in Seq(S)
     /\ Len(s) = Len(u) /\ Len(t) = Len(v) /\ s \o t = u \o v
  BY DEF SameWhole, Words
<1>. HIDE DEF S
<1>1. /\ Len(s) \in Nat /\ Len(t) \in Nat
      /\ \A i \in 1 .. Len(s) : (s \o t)[i] = s[i] /\ (u \o v)[i] = u[i]
      /\ \A i \in 1 .. Len(t) : (s \o t)[Len(s) + i] = t[i]
      /\ \A i \in 1 .. Len(v) : (u \o v)[Len(s) + i] = v[i]
  <2>1. \A i \in 1 .. Len(s) : (s \o t)[i] = s[i] /\ (u \o v)[i] = u[i]
    <3>. TAKE i \in 1 .. Len(s)
    <3>1. i \in 1 .. Len(s) + Len(t) /\ i \in 1 .. Len(u) + Len(v) /\ i <= Len(s) /\ i <= Len(u)
      <4>1. Len(s) \in Nat /\ Len(t) \in Nat /\ Len(v) \in Nat
        OBVIOUS
      <4>. QED BY <4>1
    <3>2. (s \o t)[i] = s[i]
      BY <3>1, ConcatProperties
    <3>3. (u \o v)[i] = u[i]
      BY <3>1, ConcatProperties
    <3>. QED BY <3>2, <3>3
  <2>2. ASSUME NEW x \in Seq(S), NEW y \in Seq(S), NEW i \in 1 .. Len(y)
        PROVE  (x \o y)[Len(x) + i] = y[i]
    <3>1. Len(x) \in Nat /\ Len(y) \in Nat
      OBVIOUS
    <3>2. Len(x) + i \in 1 .. Len(x) + Len(y) /\ ~ Len(x) + i <= Len(x) /\ (Len(x) + i) - Len(x) = i
      BY <3>1
    <3>. QED BY <3>2, ConcatProperties
  <2>3. \A i \in 1 .. Len(v) : (u \o v)[Len(s) + i] = v[i]
    BY <2>2
  <2>. QED BY <2>1, <2>2, <2>3
<1>2. s = u
  BY <1>1, SeqEqual
<1>3. t = v
  BY <1>1, SeqEqual
<1>. QED BY <1>2, <1>3

LEMMA Widths ==
    /\ BalanceBits \in Nat \ {0} /\ FieldBits \in Nat \ {0}
    /\ Elements \in SUBSET Nat /\ Balances \in SUBSET Nat
    /\ Elements = 0 .. two[FieldBits] - 1 /\ Balances = 0 .. two[BalanceBits] - 1
<1>1. BalanceBits \in Nat \ {0} /\ FieldBits \in Nat \ {0}
  BY WindowsAssumption
<1>2. two[BalanceBits] \in Nat /\ two[FieldBits] \in Nat
  BY <1>1, Two
<1>3. Elements = 0 .. two[FieldBits] - 1 /\ Balances = 0 .. two[BalanceBits] - 1
  BY DEF Elements, Balances
<1>4. \A n \in Nat : 0 .. n - 1 \in SUBSET Nat
  OBVIOUS
<1>. QED BY <1>1, <1>2, <1>3, <1>4

\* What a call is: one to three numbers that fit their words.
LEMMA CallType ==
    ASSUME NEW c \in Calls
    PROVE  /\ c \in Seq(Nat) /\ Len(c) \in 1 .. 3 /\ DOMAIN c = 1 .. Len(c)
           /\ \A i \in 1 .. Len(c) : /\ width(c, i) \in Nat \ {0}
                                     /\ c[i] \in Nat /\ c[i] \in 0 .. two[width(c, i)] - 1
<1>1. CASE \E v \in Elements : c = <<v>>
  <2>1. PICK v \in Elements : c = <<v>>
    BY <1>1
  <2>2. c \in Seq(Nat) /\ Len(c) = 1 /\ c[1] = v /\ v \in Nat /\ DOMAIN c = 1 .. 1
    BY <2>1, Widths
  <2>3. \A i \in 1 .. 1 : i = 1 /\ width(c, i) = FieldBits
    BY <2>2 DEF width
  <2>. QED BY <2>2, <2>3, Widths
<1>2. CASE c \in Elements \X Elements
  <2>1. PICK v \in Elements : \E w \in Elements : c = <<v, w>>
    BY <1>2
  <2>2. PICK w \in Elements : c = <<v, w>>
    BY <2>1
  <2>3. v \in Nat /\ w \in Nat
    BY Widths
  <2>4. c \in Seq(Nat) /\ Len(c) = 2 /\ c[1] = v /\ c[2] = w /\ DOMAIN c = 1 .. 2
    BY <2>2, <2>3
  <2>5. \A i \in 1 .. 2 : (i = 1 \/ i = 2) /\ width(c, i) = FieldBits
    BY <2>4 DEF width
  <2>6. \A i \in 1 .. 2 : c[i] \in Elements
    BY <2>4, <2>5
  <2>. QED BY <2>4, <2>5, <2>6, Widths
<1>3. CASE c \in Balances \X Elements \X Elements
  <2>1. PICK u \in Balances : \E v \in Elements : \E w \in Elements : c = <<u, v, w>>
    BY <1>3
  <2>2. PICK v \in Elements : \E w \in Elements : c = <<u, v, w>>
    BY <2>1
  <2>3. PICK w \in Elements : c = <<u, v, w>>
    BY <2>2
  <2>4. u \in Nat /\ v \in Nat /\ w \in Nat
    BY Widths
  <2>5. c \in Seq(Nat) /\ Len(c) = 3 /\ c[1] = u /\ c[2] = v /\ c[3] = w /\ DOMAIN c = 1 .. 3
    BY <2>3, <2>4
  <2>6. /\ width(c, 1) = BalanceBits /\ width(c, 2) = FieldBits /\ width(c, 3) = FieldBits
        /\ \A i \in 1 .. 3 : i = 1 \/ i = 2 \/ i = 3
    BY <2>5 DEF width
  <2>7. \A i \in 1 .. 3 : c[i] \in 0 .. two[width(c, i)] - 1 /\ width(c, i) \in Nat \ {0} /\ c[i] \in Nat
    BY <2>4, <2>5, <2>6, Widths
  <2>. QED BY <2>5, <2>7
<1>. QED BY <1>1, <1>2, <1>3 DEF Calls

word(c, i) == leIntToBits(c[i], width(c, i))

LEMMA CallWords ==
    ASSUME NEW c \in Calls
    PROVE  /\ \A i \in 1 .. Len(c) : word(c, i) \in Seq({0, 1}) /\ Len(word(c, i)) = width(c, i)
           /\ bitsOf(c) = IF Len(c) = 1 THEN word(c, 1)
                          ELSE IF Len(c) = 2 THEN word(c, 1) \o word(c, 2)
                          ELSE (word(c, 1) \o word(c, 2)) \o word(c, 3)
<1>. DEFINE n == Len(c)
            s == [i \in DOMAIN c |-> leIntToBits(c[i], width(c, i))]
<1>1. n \in 1 .. 3 /\ DOMAIN c = 1 .. n
  BY CallType
<1>2. \A i \in 1 .. n : word(c, i) \in Seq({0, 1}) /\ Len(word(c, i)) = width(c, i)
  <2>. TAKE i \in 1 .. n
  <2>1. c[i] \in Nat /\ width(c, i) \in Nat
    BY CallType
  <2>. QED BY <2>1, WordType DEF word
<1>3. s = [i \in 1 .. n |-> word(c, i)]
  BY <1>1 DEF word
<1>4. bitsOf(c) = FlattenSeq(s)
  BY DEF bitsOf
<1>. HIDE DEF s, n
<1>5. DOMAIN s = 1 .. n /\ Len(s) = n /\ \A i \in 1 .. n : s[i] = word(c, i)
  <2>1. s \in Seq(Seq({0, 1})) /\ Len(s) = n
    BY <1>1, <1>2, <1>3
  <2>. QED BY <1>3, <2>1
<1>6. FlattenSeq(s) = IF n = 1 THEN s[1] ELSE IF n = 2 THEN s[1] \o s[2] ELSE (s[1] \o s[2]) \o s[3]
  BY <1>1, <1>5, FlattenFew
<1>7. CASE n = 1
  <2>1. 1 \in 1 .. n
    BY <1>7
  <2>. QED BY <1>2, <1>4, <1>5, <1>6, <1>7, <2>1, Zenon DEF n
<1>8. CASE n = 2
  <2>1. 1 \in 1 .. n /\ 2 \in 1 .. n /\ n # 1
    BY <1>8
  <2>. QED BY <1>2, <1>4, <1>5, <1>6, <1>8, <2>1, Zenon DEF n
<1>9. CASE n = 3
  <2>1. 1 \in 1 .. n /\ 2 \in 1 .. n /\ 3 \in 1 .. n /\ n # 1 /\ n # 2
    BY <1>9
  <2>. QED BY <1>2, <1>4, <1>5, <1>6, <2>1, Zenon DEF n
<1>10. n = 1 \/ n = 2 \/ n = 3
  BY <1>1
<1>. QED BY <1>7, <1>8, <1>9, <1>10

LEMMA CallBits ==
    ASSUME NEW c \in Calls
    PROVE  /\ bitsOf(c) \in Seq({0, 1})
           /\ Len(c) = 1 => Len(bitsOf(c)) = FieldBits
           /\ Len(c) = 2 => Len(bitsOf(c)) = 2 * FieldBits
           /\ Len(c) = 3 => Len(bitsOf(c)) = BalanceBits + 2 * FieldBits
<1>1. Len(c) = 1 \/ Len(c) = 2 \/ Len(c) = 3
  BY CallType
<1>2. BalanceBits \in Nat /\ FieldBits \in Nat
  BY Widths
<1>. DEFINE u == word(c, 1)
            v == word(c, 2)
            w == word(c, 3)
<1>3. CASE Len(c) = 1
  <2>1. 1 \in 1 .. Len(c) /\ width(c, 1) = FieldBits
    BY <1>3 DEF width
  <2>2. u \in Seq({0, 1}) /\ Len(u) = FieldBits /\ bitsOf(c) = u
    BY <1>3, <2>1, CallWords
  <2>. QED BY <1>3, <2>2
<1>4. CASE Len(c) = 2
  <2>1. 1 \in 1 .. Len(c) /\ 2 \in 1 .. Len(c) /\ Len(c) # 1
    BY <1>4
  <2>2. width(c, 1) = FieldBits /\ width(c, 2) = FieldBits
    BY <1>4 DEF width
  <2>3. /\ u \in Seq({0, 1}) /\ Len(u) = FieldBits /\ v \in Seq({0, 1}) /\ Len(v) = FieldBits
        /\ bitsOf(c) = u \o v
    BY <1>4, <2>1, <2>2, CallWords
  <2>. HIDE DEF u, v
  <2>4. u \o v \in Seq({0, 1}) /\ Len(u \o v) = FieldBits + FieldBits
    BY <2>3, ConcatProperties
  <2>. QED BY <1>2, <1>4, <2>3, <2>4
<1>5. CASE Len(c) = 3
  <2>1. 1 \in 1 .. Len(c) /\ 2 \in 1 .. Len(c) /\ 3 \in 1 .. Len(c) /\ Len(c) # 1 /\ Len(c) # 2
    BY <1>5
  <2>2. width(c, 1) = BalanceBits /\ width(c, 2) = FieldBits /\ width(c, 3) = FieldBits
    BY <1>5 DEF width
  <2>3. /\ u \in Seq({0, 1}) /\ Len(u) = BalanceBits /\ v \in Seq({0, 1}) /\ Len(v) = FieldBits
        /\ w \in Seq({0, 1}) /\ Len(w) = FieldBits /\ bitsOf(c) = (u \o v) \o w
    BY <2>1, <2>2, CallWords
  <2>. HIDE DEF u, v, w
  <2>4. u \o v \in Seq({0, 1}) /\ Len(u \o v) = BalanceBits + FieldBits
    BY <2>3, ConcatProperties
  <2>. DEFINE x == u \o v
  <2>5. x \in Seq({0, 1}) /\ Len(x) = BalanceBits + FieldBits
    BY <2>4
  <2>. HIDE DEF x
  <2>6. x \o w \in Seq({0, 1}) /\ Len(x \o w) = (BalanceBits + FieldBits) + FieldBits
    <3>1. x \o w \in Seq({0, 1}) /\ Len(x \o w) = Len(x) + Len(w)
      BY <2>3, <2>5, ConcatProperties
    <3>. QED BY <2>3, <2>5, <3>1
  <2>7. bitsOf(c) = x \o w
    BY <2>3 DEF x
  <2>. QED BY <1>2, <1>5, <2>6, <2>7
<1>. QED BY <1>1, <1>3, <1>4, <1>5

\* Calls of a function that differ have different bits.
LEMMA CallTells ==
    ASSUME NEW c \in Calls, NEW d \in Calls, Len(c) = Len(d), bitsOf(c) = bitsOf(d)
    PROVE  c = d
<1>1. Len(c) = 1 \/ Len(c) = 2 \/ Len(c) = 3
  <2>1. Len(c) \in 1 .. 3
    BY CallType
  <2>. QED BY <2>1
<1>2. \A i \in 1 .. Len(c) : width(c, i) = width(d, i)
  BY DEF width
<1>3. \A i \in 1 .. Len(c) : /\ word(c, i) \in Words /\ word(d, i) \in Words
                             /\ Len(word(c, i)) = Len(word(d, i))
  BY <1>2, CallWords DEF Words
<1>4. \A i \in 1 .. Len(c) : word(c, i) = word(d, i)
  <2>1. CASE Len(c) = 1
    <3>1. word(c, 1) = word(d, 1)
      BY <2>1, CallWords
    <3>2. \A i \in 1 .. 1 : i = 1
      OBVIOUS
    <3>. QED BY <2>1, <3>1, <3>2
  <2>. DEFINE u == word(c, 1)
              v == word(c, 2)
              w == word(c, 3)
              x == word(d, 1)
              y == word(d, 2)
              z == word(d, 3)
  <2>2. CASE Len(c) = 2
    <3>1. 1 \in 1 .. Len(c) /\ 2 \in 1 .. Len(c) /\ Len(c) # 1
      BY <2>2
    <3>2. u \o v = x \o y
      BY <2>2, <3>1, CallWords
    <3>3. /\ u \in Words /\ v \in Words /\ x \in Words /\ y \in Words
          /\ Len(u) = Len(x) /\ Len(v) = Len(y)
      BY <1>3, <3>1
    <3>. HIDE DEF u, v, x, y
    <3>4. u = x /\ v = y
      <4>1. SameWhole(u, v, x, y)
        BY <3>2, <3>3 DEF SameWhole
      <4>. QED BY <4>1, PartsTell
    <3>5. \A i \in 1 .. 2 : i = 1 \/ i = 2
      OBVIOUS
    <3>. QED BY <2>2, <3>4, <3>5 DEF u, v, x, y
  <2>3. CASE Len(c) = 3
    <3>1. 1 \in 1 .. Len(c) /\ 2 \in 1 .. Len(c) /\ 3 \in 1 .. Len(c) /\ Len(c) # 1 /\ Len(c) # 2
      BY <2>3
    <3>2. (u \o v) \o w = (x \o y) \o z
      BY <3>1, CallWords
    <3>3. /\ u \in Words /\ v \in Words /\ x \in Words /\ y \in Words
          /\ w \in Words /\ z \in Words
          /\ Len(u) = Len(x) /\ Len(v) = Len(y) /\ Len(w) = Len(z)
      BY <1>3, <3>1
    <3>. HIDE DEF u, v, w, x, y, z
    <3>. DEFINE l == u \o v
                r == x \o y
    <3>4. l \in Words /\ Len(l) = Len(u) + Len(v)
      BY <3>3, ConcatProperties DEF Words
    <3>5. r \in Words /\ Len(r) = Len(x) + Len(y)
      BY <3>3, ConcatProperties DEF Words
    <3>6. l = r /\ w = z
      <4>1. Len(l) = Len(r) /\ l \o w = r \o z
        BY <3>2, <3>3, <3>4, <3>5
      <4>2. l \in Words /\ r \in Words /\ w \in Words /\ z \in Words /\ Len(w) = Len(z)
        BY <3>3, <3>4, <3>5
      <4>. HIDE DEF l, r
      <4>3. SameWhole(l, w, r, z)
        BY <4>1, <4>2 DEF SameWhole
      <4>. QED BY <4>3, PartsTell
    <3>7. u = x /\ v = y
      <4>1. SameWhole(u, v, x, y)
        BY <3>3, <3>6 DEF SameWhole
      <4>. QED BY <4>1, PartsTell
    <3>8. \A i \in 1 .. 3 : i = 1 \/ i = 2 \/ i = 3
      OBVIOUS
    <3>. QED BY <2>3, <3>6, <3>7, <3>8 DEF u, v, w, x, y, z
  <2>. QED BY <1>1, <2>1, <2>2, <2>3
<1>5. ASSUME NEW i \in 1 .. Len(c) PROVE c[i] = d[i]
  <2>1. width(c, i) \in Nat /\ c[i] \in 0 .. two[width(c, i)] - 1 /\ d[i] \in 0 .. two[width(c, i)] - 1
    BY <1>2, CallType
  <2>2. leIntToBits(c[i], width(c, i)) = leIntToBits(d[i], width(c, i))
    BY <1>2, <1>4 DEF word
  <2>. QED BY <2>1, <2>2, WordTells
<1>6. c \in Seq(Nat) /\ d \in Seq(Nat)
  BY CallType
<1>. QED BY <1>5, <1>6, SeqEqual

LEMMA Lengths ==
    /\ (FieldBits - 1) \div windowSize < (2 * FieldBits - 1) \div windowSize
    /\ (2 * FieldBits - 1) \div windowSize < ((BalanceBits + 2 * FieldBits) - 1) \div windowSize
BY LengthsAssumption

LEMMA CallsTellApart ==
    ASSUME NEW c \in Calls, NEW d \in Calls, scalars(bitsOf(c)) = scalars(bitsOf(d))
    PROVE  c = d
<1>. DEFINE s == bitsOf(c)
            t == bitsOf(d)
<1>1. Len(c) \in 1 .. 3 /\ Len(d) \in 1 .. 3
  BY CallType
<1>2. BalanceBits \in Nat \ {0} /\ FieldBits \in Nat \ {0}
  BY Widths
<1>3. /\ s \in Seq({0, 1}) /\ t \in Seq({0, 1})
      /\ Len(c) = 1 => Len(s) = FieldBits
      /\ Len(c) = 2 => Len(s) = 2 * FieldBits
      /\ Len(c) = 3 => Len(s) = BalanceBits + 2 * FieldBits
      /\ Len(d) = 1 => Len(t) = FieldBits
      /\ Len(d) = 2 => Len(t) = 2 * FieldBits
      /\ Len(d) = 3 => Len(t) = BalanceBits + 2 * FieldBits
  BY CallBits
<1>4. scalars(s) = scalars(t)
  OBVIOUS
<1>. HIDE DEF s, t
<1>5. Len(s) \in Nat \ {0} /\ Len(t) \in Nat \ {0}
  BY <1>1, <1>2, <1>3
<1>6. /\ (Len(s) - 1) \div windowSize = (Len(t) - 1) \div windowSize
      /\ Len(s) = Len(t) => s = t
  BY <1>3, <1>4, <1>5, ScalarsTell
<1>7. Len(c) = Len(d)
  <2>. DEFINE x == (FieldBits - 1) \div windowSize
              y == (2 * FieldBits - 1) \div windowSize
              z == ((BalanceBits + 2 * FieldBits) - 1) \div windowSize
              p == (Len(s) - 1) \div windowSize
              q == (Len(t) - 1) \div windowSize
  <2>1. x < y /\ y < z
    BY Lengths
  <2>2. /\ p = IF Len(c) = 1 THEN x ELSE IF Len(c) = 2 THEN y ELSE z
        /\ q = IF Len(d) = 1 THEN x ELSE IF Len(d) = 2 THEN y ELSE z
    <3>1. (Len(c) = 1 => p = x) /\ (Len(c) = 2 => p = y) /\ (Len(c) = 3 => p = z)
      BY <1>3
    <3>2. (Len(d) = 1 => q = x) /\ (Len(d) = 2 => q = y) /\ (Len(d) = 3 => q = z)
      BY <1>3
    <3>. HIDE DEF p, q, x, y, z
    <3>. QED BY <1>1, <3>1, <3>2
  <2>3. x \in Int /\ y \in Int /\ z \in Int
    BY <1>2, Sizes, Division
  <2>4. p = q
    BY <1>6
  <2>. HIDE DEF x, y, z, p, q
  <2>. QED BY <1>1, <2>1, <2>2, <2>3, <2>4
<1>8. s = t
  <2>1. Len(c) = 1 \/ Len(c) = 2 \/ Len(c) = 3
    BY <1>1
  <2>2. Len(s) = Len(t)
    BY <1>3, <1>7, <2>1
  <2>. QED BY <1>6, <2>2
<1>. QED BY <1>7, <1>8, CallTells DEF s, t

-----------------------------------------------------------------------------
\* The calls that were made are calls, the first one first.
HashInv ==
    /\ a \in Calls \cup {<<>>} /\ b \in Calls \cup {<<>>}
    /\ b # <<>> => a # <<>>

LEMMA HashInvariant == HashSpec => []HashInv
<1>1. HashInit => HashInv
  BY DEF HashInit, HashInv
<1>2. HashInv /\ [FirstHash \/ SecondHash]_hashVars => HashInv'
  BY DEF HashInv, FirstHash, SecondHash, hashVars
<1>. QED BY <1>1, <1>2, PTL DEF HashSpec

\* Inputs of the hash functions that differ, in a value, in their number or in
\* the function, have different scalars: what pedersenHash multiplies its base
\* points by, window by window, tells the input.
THEOREM DifferentInputsDifferentScalars == HashSpec => []ScalarsTellApart
<1>1. HashInv => ScalarsTellApart
  <2>. SUFFICES ASSUME HashInv, b # <<>>, scalars(bitsOf(a)) = scalars(bitsOf(b)) PROVE a = b
    BY DEF ScalarsTellApart
  <2>1. a \in Calls /\ b \in Calls
    BY DEF HashInv
  <2>. QED BY <2>1, CallsTellApart
<1>. QED BY <1>1, HashInvariant, PTL

\* leIntToBits gives the binary digits of a number of any size, although it
\* takes them from signed limbs.
THEOREM BitsAreBinaryDigits == HashSpec => []BitsAreDigits
<1>1. HashInv => BitsAreDigits
  <2>. SUFFICES ASSUME HashInv, a # <<>>, NEW s \in 1 .. 2 * FieldBits
                PROVE  LET n == a[1] + Limb * a[Len(a)]
                       IN  addUp(0, [j \in 1 .. s |-> leIntToBits(n, s)[j] * two[j - 1]]) = n % two[s]
    BY DEF BitsAreDigits
  <2>1. a \in Calls
    BY DEF HashInv
  <2>2. a[1] \in Nat /\ a[Len(a)] \in Nat
    <3>1. 1 \in 1 .. Len(a) /\ Len(a) \in 1 .. Len(a)
      BY <2>1, CallType
    <3>. QED BY <2>1, <3>1, CallType
  <2>3. Limb \in Nat
    <3>1. 4 * BitsPerByte \in Nat
      BY WindowsAssumption
    <3>. QED BY <3>1, PowerOfTwo, Two
  <2>. DEFINE n == a[1] + Limb * a[Len(a)]
  <2>4. n \in Nat
    BY <2>2, <2>3
  <2>5. s \in Nat
    OBVIOUS
  <2>. HIDE DEF n
  <2>6. addUp(0, [j \in 1 .. s |-> leIntToBits(n, s)[j] * two[j - 1]]) = n % two[s]
    BY <2>4, <2>5, SumOfBits
  <2>. QED BY <2>6 DEF n
<1>. QED BY <1>1, HashInvariant, PTL
=============================================================================
