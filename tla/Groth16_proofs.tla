---------------------------- MODULE Groth16_proofs ----------------------------
(***************************************************************************)
(* Theorems about ProvingKey, for every circuit: any number of variables,  *)
(* of public ones, of coefficients and of points.  One invariant says how  *)
(* far the offset has come, as a sum over the polynomials that were        *)
(* written; the other what is found behind the pointers so far.            *)
(*                                                                         *)
(* Then about Groth16, for every curve over a field in which the powers    *)
(* find the roots: points of proof and key come out of their bytes as they *)
(* went in.                                                                *)
(***************************************************************************)
EXTENDS Groth16, BasicTheorems

\* The parts that pointers are followed into, and the size of their points.
PointSections == {"A", "B1", "B2", "C", "hExps"}
pointSize(s) == IF s = "B2" THEN 128 ELSE 64

\* What the polynomials take, one by one and all of them.
sizesOf(pols) == [n \in DOMAIN pols |-> 36 * Cardinality(pols[n]) + 4]
sizeUpTo(pols, n) == SumOf(sizesOf(pols), 0 .. n - 1)
sizeA(k) == sizeUpTo(k.polsA, k.nVars)
sizeB(k) == sizeUpTo(k.polsB, k.nVars)

\* Where a section starts, from the counts alone.
start(k, s) ==
    CASE s = "polsA" -> 488
      [] s = "polsB" -> 488 + sizeA(k)
      [] s = "A"     -> 488 + sizeA(k) + sizeB(k)
      [] s = "B1"    -> 488 + sizeA(k) + sizeB(k) + 64 * k.nVars
      [] s = "B2"    -> 488 + sizeA(k) + sizeB(k) + 128 * k.nVars
      [] s = "C"     -> 488 + sizeA(k) + sizeB(k) + 256 * k.nVars
      [] s = "hExps" -> 488 + sizeA(k) + sizeB(k) + 256 * k.nVars + 64 * (k.nVars - k.nPublic - 1)
      [] OTHER       -> 488 + sizeA(k) + sizeB(k) + 256 * k.nVars + 64 * (k.nVars - k.nPublic - 1)
                          + 64 * k.domainSize

\* How much of section s was written before its item n.
before(k, s, n) ==
    CASE s = "polsA" -> sizeUpTo(k.polsA, n)
      [] s = "polsB" -> sizeUpTo(k.polsB, n)
      [] OTHER       -> pointSize(s) * (n - first(k, s))

\* The offset is where the counts say it should be.
OffsetInv ==
    /\ provingKey \in ProvingKeys
    /\ section \in Sections \cup {"header", "end"}
    /\ section = "header" => offset = 0
    /\ section = "end" => offset = start(provingKey, "end")
    /\ section \in Sections =>
          /\ i \in first(provingKey, section) .. bound(provingKey, section)
          /\ offset = start(provingKey, section) + before(provingKey, section, i)

\* The points of section s before its item n are found behind its pointer.
Found(s, n) ==
    /\ s \in DOMAIN pointers
    /\ pointers[s] \in Nat
    /\ \A m \in 0 .. n - 1 - first(provingKey, s) :
          /\ pointers[s] + pointSize(s) * m \in DOMAIN written
          /\ written[pointers[s] + pointSize(s) * m] = <<s, first(provingKey, s) + m>>

rank == [header |-> 0, polsA |-> 1, polsB |-> 2, A |-> 3, B1 |-> 4, B2 |-> 5, C |-> 6,
         hExps |-> 7, end |-> 8]

\* Every write is at the end of what was written before: it covers nothing.
FoundInv ==
    /\ provingKey \in ProvingKeys
    /\ section \in Sections \cup {"header", "end"}
    /\ offset \in Nat
    /\ section = "header" => offset = 0
    /\ \A o \in DOMAIN written : o \in Nat /\ o < offset
    /\ section \in Sections =>
          i \in first(provingKey, section) .. bound(provingKey, section)
    /\ \A s \in PointSections :
          rank[s] < rank[section] => Found(s, bound(provingKey, s))
    /\ section \in PointSections =>
          /\ Found(section, i)
          /\ offset = pointers[section] + pointSize(section) * (i - first(provingKey, section))

-----------------------------------------------------------------------------
\* The counts of a key.
LEMMA KeyType ==
    ASSUME NEW k \in ProvingKeys
    PROVE  /\ k.nVars \in Nat /\ k.nPublic \in Nat /\ k.domainSize \in Nat
           /\ k.nPublic + 1 <= k.nVars
           /\ k.polsA \in [0 .. k.nVars - 1 -> SUBSET Nat]
           /\ k.polsB \in [0 .. k.nVars - 1 -> SUBSET Nat]
           /\ \A n \in 0 .. k.nVars - 1 : IsFiniteSet(k.polsA[n]) /\ IsFiniteSet(k.polsB[n])
BY KeysAssumption

\* The range of every loop.
LEMMA LoopRange ==
    ASSUME NEW k \in ProvingKeys, NEW s \in Sections
    PROVE  /\ first(k, s) \in Nat /\ bound(k, s) \in Nat
           /\ first(k, s) <= bound(k, s)
BY KeyType DEF first, bound, Sections

\* A polynomial takes a positive number of bytes, and a point 64 or 128.
LEMMA PolynomialSize ==
    ASSUME NEW p, IsFiniteSet(p)
    PROVE  /\ polynomial(p) = 36 * Cardinality(p) + 4
           /\ polynomial(p) \in Nat /\ polynomial(p) > 0
<1>1. Cardinality(p) \in Nat
  BY FS_CardinalityType
<1>2. uint32 = 4 /\ bigInt = 32
  BY DEF uint32, bigInt
<1>. QED BY <1>1, <1>2 DEF polynomial

LEMMA PointItem ==
    ASSUME NEW k, NEW s \in PointSections, NEW n
    PROVE  itemSize(k, s, n) = pointSize(s) /\ pointSize(s) \in {64, 128}
<1>1. point = 64 /\ point2 = 128
  BY DEF point, point2, bigInt, uint32
<1>. QED BY <1>1 DEF itemSize, pointSize, PointSections

LEMMA ItemPositive ==
    ASSUME NEW k \in ProvingKeys, NEW s \in Sections, NEW n \in Nat,
           first(k, s) <= n, n < bound(k, s)
    PROVE  itemSize(k, s, n) \in Nat /\ itemSize(k, s, n) > 0
<1>1. CASE s \in PointSections
  BY <1>1, PointItem
<1>2. CASE s \in {"polsA", "polsB"}
  <2>1. n \in 0 .. k.nVars - 1
    BY <1>2, KeyType DEF bound
  <2>2. IsFiniteSet(k.polsA[n]) /\ IsFiniteSet(k.polsB[n])
    BY <2>1, KeyType
  <2>. QED BY <1>2, <2>2, PolynomialSize DEF itemSize
<1>. QED BY <1>1, <1>2 DEF Sections, PointSections

-----------------------------------------------------------------------------
\* The sizes of the polynomials of a key.
LEMMA SizesType ==
    ASSUME NEW n \in Nat, NEW pols \in [0 .. n - 1 -> SUBSET Nat],
           \A m \in 0 .. n - 1 : IsFiniteSet(pols[m])
    PROVE  /\ \A m \in 0 .. n - 1 : /\ sizesOf(pols)[m] \in Nat
                                    /\ sizesOf(pols)[m] = 36 * Cardinality(pols[m]) + 4
                                    /\ sizesOf(pols)[m] = polynomial(pols[m])
<1>1. \A m \in 0 .. n - 1 : polynomial(pols[m]) = 36 * Cardinality(pols[m]) + 4 /\ polynomial(pols[m]) \in Nat
  BY PolynomialSize
<1>. QED BY <1>1 DEF sizesOf

\* Up to a polynomial they add up to what was written before it.
LEMMA SizeUpTo ==
    ASSUME NEW n \in Nat, NEW pols \in [0 .. n - 1 -> SUBSET Nat],
           \A m \in 0 .. n - 1 : IsFiniteSet(pols[m])
    PROVE  /\ sizeUpTo(pols, 0) = 0
           /\ \A m \in 0 .. n : sizeUpTo(pols, m) \in Nat /\ sizeUpTo(pols, m) <= sizeUpTo(pols, n)
           /\ \A m \in 0 .. n - 1 : sizeUpTo(pols, m + 1) = sizeUpTo(pols, m) + polynomial(pols[m])
<1>. DEFINE v == sizesOf(pols)
<1>1. \A m \in 0 .. n - 1 : v[m] \in Nat /\ v[m] = polynomial(pols[m])
  BY SizesType
<1>. HIDE DEF v
<1>2. sizeUpTo(pols, 0) = 0
  <2>1. 0 .. 0 - 1 = {}
    OBVIOUS
  <2>. QED BY <2>1, SumEmpty DEF sizeUpTo
<1>3. ASSUME NEW m \in 0 .. n
      PROVE  sizeUpTo(pols, m) \in Nat /\ sizeUpTo(pols, m) <= sizeUpTo(pols, n)
  <2>1. IsFiniteSet(0 .. n - 1) /\ 0 .. m - 1 \in SUBSET (0 .. n - 1)
    BY FS_Interval
  <2>2. SumOf(v, 0 .. m - 1) \in Nat /\ SumOf(v, 0 .. m - 1) <= SumOf(v, 0 .. n - 1)
    BY <1>1, <2>1, SumPart
  <2>. QED BY <2>2 DEF sizeUpTo, v
<1>4. ASSUME NEW m \in 0 .. n - 1
      PROVE  sizeUpTo(pols, m + 1) = sizeUpTo(pols, m) + polynomial(pols[m])
  <2>. DEFINE S == 0 .. m - 1
  <2>1. IsFiniteSet(S)
    BY FS_Interval
  <2>4. m \notin S /\ S \cup {m} = 0 .. (m + 1) - 1
    OBVIOUS
  <2>2. \A x \in S \cup {m} : v[x] \in Int
    BY <1>1, <2>4
  <2>. HIDE DEF S
  <2>3. SumOf(v, S \cup {m}) = SumOf(v, S) + v[m]
    BY <2>1, <2>2, <2>4, SumAdd
  <2>. QED BY <1>1, <2>4, <2>3 DEF sizeUpTo, S, v
<1>. QED BY <1>2, <1>3, <1>4

LEMMA SizeTotal ==
    ASSUME NEW k \in ProvingKeys
    PROVE  sizeA(k) \in Nat /\ sizeB(k) \in Nat
<1>1. /\ k.nVars \in Nat /\ k.nVars \in 0 .. k.nVars
      /\ k.polsA \in [0 .. k.nVars - 1 -> SUBSET Nat]
      /\ k.polsB \in [0 .. k.nVars - 1 -> SUBSET Nat]
      /\ \A n \in 0 .. k.nVars - 1 : IsFiniteSet(k.polsA[n])
      /\ \A n \in 0 .. k.nVars - 1 : IsFiniteSet(k.polsB[n])
  BY KeyType
<1>2. sizeUpTo(k.polsA, k.nVars) \in Nat
  BY <1>1, SizeUpTo
<1>3. sizeUpTo(k.polsB, k.nVars) \in Nat
  BY <1>1, SizeUpTo
<1>. QED BY <1>2, <1>3 DEF sizeA, sizeB

\* Where each section starts, and that the next one does after its items.
LEMMA Starts ==
    ASSUME NEW k
    PROVE  /\ start(k, "polsA") = 488
           /\ start(k, "polsB") = 488 + sizeA(k)
           /\ start(k, "A") = 488 + sizeA(k) + sizeB(k)
           /\ start(k, "B1") = 488 + sizeA(k) + sizeB(k) + 64 * k.nVars
           /\ start(k, "B2") = 488 + sizeA(k) + sizeB(k) + 128 * k.nVars
           /\ start(k, "C") = 488 + sizeA(k) + sizeB(k) + 256 * k.nVars
           /\ start(k, "hExps") = 488 + sizeA(k) + sizeB(k) + 256 * k.nVars + 64 * (k.nVars - k.nPublic - 1)
           /\ start(k, "end") = 488 + sizeA(k) + sizeB(k) + 256 * k.nVars + 64 * (k.nVars - k.nPublic - 1)
                                  + 64 * k.domainSize
BY DEF start

LEMMA StartsNat ==
    ASSUME NEW k \in ProvingKeys
    PROVE  /\ \A s \in Sections : start(k, s) \in Nat /\ start(k, s) <= start(k, "end")
           /\ start(k, "end") \in Nat
           /\ start(k, "polsA") + sizeA(k) = start(k, "polsB")
           /\ start(k, "polsB") + sizeB(k) = start(k, "A")
           /\ start(k, "A") + 64 * k.nVars = start(k, "B1")
           /\ start(k, "B1") + 64 * k.nVars = start(k, "B2")
           /\ start(k, "B2") + 128 * k.nVars = start(k, "C")
           /\ start(k, "C") + 64 * (k.nVars - (k.nPublic + 1)) = start(k, "hExps")
           /\ start(k, "hExps") + 64 * k.domainSize = start(k, "end")
           /\ \A s \in Sections : start(k, after[s]) <= start(k, "end")
<1>. DEFINE a == sizeA(k)
            c == sizeB(k)
            n == k.nVars
            p == k.nPublic
            d == k.domainSize
<1>1. a \in Nat /\ c \in Nat /\ n \in Nat /\ p \in Nat /\ d \in Nat /\ p + 1 <= n
  BY SizeTotal, KeyType
<1>2. /\ start(k, "polsA") = 488
      /\ start(k, "polsB") = 488 + a
      /\ start(k, "A") = 488 + a + c
      /\ start(k, "B1") = 488 + a + c + 64 * n
      /\ start(k, "B2") = 488 + a + c + 128 * n
      /\ start(k, "C") = 488 + a + c + 256 * n
      /\ start(k, "hExps") = 488 + a + c + 256 * n + 64 * (n - p - 1)
      /\ start(k, "end") = 488 + a + c + 256 * n + 64 * (n - p - 1) + 64 * d
  BY Starts
<1>3. /\ after["polsA"] = "polsB" /\ after["polsB"] = "A" /\ after["A"] = "B1" /\ after["B1"] = "B2"
      /\ after["B2"] = "C" /\ after["C"] = "hExps" /\ after["hExps"] = "end"
  BY DEF after
<1>. HIDE DEF a, c, n, p, d
<1>4. /\ start(k, "end") \in Nat
      /\ start(k, "polsA") + a = start(k, "polsB")
      /\ start(k, "polsB") + c = start(k, "A")
      /\ start(k, "A") + 64 * n = start(k, "B1")
      /\ start(k, "B1") + 64 * n = start(k, "B2")
      /\ start(k, "B2") + 128 * n = start(k, "C")
      /\ start(k, "C") + 64 * (n - (p + 1)) = start(k, "hExps")
      /\ start(k, "hExps") + 64 * d = start(k, "end")
  BY <1>1, <1>2
<1>5. \A s \in Sections : start(k, s) \in Nat /\ start(k, s) <= start(k, "end")
  BY <1>1, <1>2 DEF Sections
<1>6. \A s \in Sections : start(k, after[s]) <= start(k, "end")
  BY <1>3, <1>4, <1>5 DEF Sections
<1>. QED BY <1>4, <1>5, <1>6 DEF a, c, n, p, d

\* The sum of calculateBuffLen() over the polynomials of both kinds.
LEMMA BuffLen ==
    ASSUME NEW k \in ProvingKeys
    PROVE  calculateBuffLen(k) = start(k, "end")
<1>. DEFINE S == 0 .. k.nVars - 1
            v == sizesOf(k.polsA)
            w == sizesOf(k.polsB)
            polSize(pol) == 36 * Cardinality(pol) + 4
            u == [n \in S |-> polSize(k.polsA[n]) + polSize(k.polsB[n])]
            total == MapThenSumSet(LAMBDA n : polSize(k.polsA[n]) + polSize(k.polsB[n]), S)
<1>1. IsFiniteSet(S)
  BY KeyType, FS_Interval
<1>2. \A n \in S : v[n] \in Int /\ w[n] \in Int /\ u[n] = v[n] + w[n]
  <2>1. /\ k.nVars \in Nat /\ k.polsA \in [0 .. k.nVars - 1 -> SUBSET Nat]
        /\ k.polsB \in [0 .. k.nVars - 1 -> SUBSET Nat]
        /\ \A n \in 0 .. k.nVars - 1 : IsFiniteSet(k.polsA[n])
        /\ \A n \in 0 .. k.nVars - 1 : IsFiniteSet(k.polsB[n])
    BY KeyType
  <2>2. \A n \in S : v[n] \in Nat /\ v[n] = polSize(k.polsA[n])
    BY <2>1, SizesType
  <2>3. \A n \in S : w[n] \in Nat /\ w[n] = polSize(k.polsB[n])
    BY <2>1, SizesType
  <2>4. \A n \in S : u[n] = polSize(k.polsA[n]) + polSize(k.polsB[n])
    OBVIOUS
  <2>. HIDE DEF u, v, w, S, polSize
  <2>. QED BY <2>2, <2>3, <2>4
<1>3. total = SumOf(u, S)
  <2>1. PICK h : IsSum(h, u, S)
    BY <1>1, SumExists
  <2>2. ASSUME NEW s \in SUBSET S, s # {}
        PROVE  u[CHOOSE x \in s : TRUE]
                 = polSize(k.polsA[CHOOSE x \in s : TRUE]) + polSize(k.polsB[CHOOSE x \in s : TRUE])
    <3>1. (CHOOSE x \in s : TRUE) \in S
      BY <2>2
    <3>. QED BY <3>1
  <2>3. \A g : IsSum(g, u, S) <=>
                 g = [s \in SUBSET S |->
                        IF s = {} THEN 0
                        ELSE (polSize(k.polsA[CHOOSE x \in s : TRUE]) + polSize(k.polsB[CHOOSE x \in s : TRUE]))
                               + g[s \ {CHOOSE x \in s : TRUE}]]
    <3>. HIDE DEF u, S, polSize
    <3>. QED BY <2>2 DEF IsSum, Taken
  <2>4. \E g : /\ g = [s \in SUBSET S |->
                        IF s = {} THEN 0
                        ELSE (polSize(k.polsA[CHOOSE x \in s : TRUE]) + polSize(k.polsB[CHOOSE x \in s : TRUE]))
                               + g[s \ {CHOOSE x \in s : TRUE}]]
               /\ total = g[S]
    <3>. HIDE DEF u, S, polSize
    <3>1. h = [s \in SUBSET S |->
                        IF s = {} THEN 0
                        ELSE (polSize(k.polsA[CHOOSE x \in s : TRUE]) + polSize(k.polsB[CHOOSE x \in s : TRUE]))
                               + h[s \ {CHOOSE x \in s : TRUE}]]
      BY <2>1, <2>3
    <3>. QED BY <3>1 DEF total, MapThenSumSet, MapThenFoldSet
  <2>5. PICK g : IsSum(g, u, S) /\ total = g[S]
    <3>. HIDE DEF u, S, polSize, total
    <3>. QED BY <2>3, <2>4
  <2>. HIDE DEF u, S, total
  <2>. QED BY <1>1, <2>5, SumOfPart
<1>4. SumOf(u, S) = SumOf(v, S) + SumOf(w, S)
  <2>. HIDE DEF u, v, w, S
  <2>. QED BY <1>1, <1>2, SumPlus
<1>5. total = sizeA(k) + sizeB(k)
  BY <1>3, <1>4 DEF sizeA, sizeB, sizeUpTo
<1>6. calculateBuffLen(k)
        = 40 + 3 * (32 * 2) + 2 * (32 * 4) + total
          + k.nVars * (32 * 2) + k.nVars * (32 * 2) + k.nVars * (32 * 4)
          + (k.nVars - k.nPublic - 1) * (32 * 2)
          + k.domainSize * (32 * 2)
  BY DEF calculateBuffLen
<1>7. sizeA(k) \in Nat /\ sizeB(k) \in Nat
  BY SizeTotal
<1>8. start(k, "end") = 488 + sizeA(k) + sizeB(k) + 256 * k.nVars + 64 * (k.nVars - k.nPublic - 1)
                          + 64 * k.domainSize
  BY Starts
<1>9. k.nVars \in Nat /\ k.nPublic \in Nat /\ k.domainSize \in Nat
  BY KeyType
<1>. HIDE DEF total
<1>. QED BY <1>5, <1>6, <1>7, <1>8, <1>9

-----------------------------------------------------------------------------
\* What a section takes before its first item, one item further and in all:
\* the next one starts where it ends.
LEMMA BeforeItem ==
    ASSUME NEW k \in ProvingKeys, NEW s \in Sections
    PROVE  /\ start(k, s) \in Nat
           /\ before(k, s, first(k, s)) = 0
           /\ \A n \in first(k, s) .. bound(k, s) :
                  /\ before(k, s, n) \in Nat
                  /\ n < bound(k, s) => before(k, s, n + 1) = before(k, s, n) + itemSize(k, s, n)
                  /\ start(k, s) + before(k, s, n) <= start(k, "end")
           /\ start(k, s) + before(k, s, bound(k, s)) = start(k, after[s])
<1>1. /\ k.nVars \in Nat /\ k.nPublic \in Nat /\ k.domainSize \in Nat /\ k.nPublic + 1 <= k.nVars
      /\ k.polsA \in [0 .. k.nVars - 1 -> SUBSET Nat]
      /\ k.polsB \in [0 .. k.nVars - 1 -> SUBSET Nat]
      /\ \A n \in 0 .. k.nVars - 1 : IsFiniteSet(k.polsA[n])
      /\ \A n \in 0 .. k.nVars - 1 : IsFiniteSet(k.polsB[n])
  BY KeyType
<1>2. sizeA(k) \in Nat /\ sizeB(k) \in Nat
  BY SizeTotal
<1>3. CASE s = "polsA"
  <2>1. /\ first(k, s) = 0 /\ bound(k, s) = k.nVars
        /\ after[s] = "polsB"
        /\ \A n : before(k, s, n) = sizeUpTo(k.polsA, n)
        /\ \A n : itemSize(k, s, n) = polynomial(k.polsA[n])
    BY <1>3 DEF first, bound, after, before, itemSize
  <2>2. /\ sizeUpTo(k.polsA, 0) = 0
        /\ \A m \in 0 .. k.nVars : sizeUpTo(k.polsA, m) \in Nat /\ sizeUpTo(k.polsA, m) <= sizeA(k)
        /\ \A m \in 0 .. k.nVars - 1 : sizeUpTo(k.polsA, m + 1) = sizeUpTo(k.polsA, m) + polynomial(k.polsA[m])
    BY <1>1, SizeUpTo DEF sizeA
  <2>3. sizeUpTo(k.polsA, k.nVars) = sizeA(k)
    BY DEF sizeA
  <2>4. /\ start(k, s) \in Nat /\ start(k, "end") \in Nat
        /\ start(k, s) + sizeA(k) = start(k, after[s])
        /\ start(k, after[s]) <= start(k, "end")
    BY <1>3, <2>1, StartsNat
  <2>5. before(k, s, first(k, s)) = 0
    BY <2>1, <2>2
  <2>6. ASSUME NEW n \in first(k, s) .. bound(k, s)
        PROVE  /\ before(k, s, n) \in Nat
               /\ n < bound(k, s) => before(k, s, n + 1) = before(k, s, n) + itemSize(k, s, n)
               /\ start(k, s) + before(k, s, n) <= start(k, "end")
    <3>1. n \in 0 .. k.nVars
      BY <2>1, <2>6
    <3>2. before(k, s, n) \in Nat /\ before(k, s, n) <= sizeA(k)
      BY <2>1, <2>2, <3>1
    <3>3. ASSUME n < bound(k, s)
          PROVE  before(k, s, n + 1) = before(k, s, n) + itemSize(k, s, n)
      <4>1. n \in 0 .. k.nVars - 1
        BY <1>1, <2>1, <3>1, <3>3
      <4>. QED BY <2>1, <2>2, <4>1
    <3>4. start(k, s) + before(k, s, n) <= start(k, "end")
      <4>1. start(k, s) + sizeA(k) <= start(k, "end")
        BY <2>4
      <4>. QED BY <1>2, <2>4, <3>2, <4>1
    <3>. QED BY <3>2, <3>3, <3>4
  <2>7. start(k, s) + before(k, s, bound(k, s)) = start(k, after[s])
    BY <2>1, <2>3, <2>4
  <2>. QED BY <2>4, <2>5, <2>6, <2>7
<1>4. CASE s = "polsB"
  <2>1. /\ first(k, s) = 0 /\ bound(k, s) = k.nVars
        /\ after[s] = "A"
        /\ \A n : before(k, s, n) = sizeUpTo(k.polsB, n)
        /\ \A n : itemSize(k, s, n) = polynomial(k.polsB[n])
    BY <1>4 DEF first, bound, after, before, itemSize
  <2>2. /\ sizeUpTo(k.polsB, 0) = 0
        /\ \A m \in 0 .. k.nVars : sizeUpTo(k.polsB, m) \in Nat /\ sizeUpTo(k.polsB, m) <= sizeB(k)
        /\ \A m \in 0 .. k.nVars - 1 : sizeUpTo(k.polsB, m + 1) = sizeUpTo(k.polsB, m) + polynomial(k.polsB[m])
    BY <1>1, SizeUpTo DEF sizeB
  <2>3. sizeUpTo(k.polsB, k.nVars) = sizeB(k)
    BY DEF sizeB
  <2>4. /\ start(k, s) \in Nat /\ start(k, "end") \in Nat
        /\ start(k, s) + sizeB(k) = start(k, after[s])
        /\ start(k, after[s]) <= start(k, "end")
    BY <1>4, <2>1, StartsNat
  <2>5. before(k, s, first(k, s)) = 0
    BY <2>1, <2>2
  <2>6. ASSUME NEW n \in first(k, s) .. bound(k, s)
        PROVE  /\ before(k, s, n) \in Nat
               /\ n < bound(k, s) => before(k, s, n + 1) = before(k, s, n) + itemSize(k, s, n)
               /\ start(k, s) + before(k, s, n) <= start(k, "end")
    <3>1. n \in 0 .. k.nVars
      BY <2>1, <2>6
    <3>2. before(k, s, n) \in Nat /\ before(k, s, n) <= sizeB(k)
      BY <2>1, <2>2, <3>1
    <3>3. ASSUME n < bound(k, s)
          PROVE  before(k, s, n + 1) = before(k, s, n) + itemSize(k, s, n)
      <4>1. n \in 0 .. k.nVars - 1
        BY <1>1, <2>1, <3>1, <3>3
      <4>. QED BY <2>1, <2>2, <4>1
    <3>4. start(k, s) + before(k, s, n) <= start(k, "end")
      <4>1. start(k, s) + sizeB(k) <= start(k, "end")
        BY <2>4
      <4>. QED BY <1>2, <2>4, <3>2, <4>1
    <3>. QED BY <3>2, <3>3, <3>4
  <2>7. start(k, s) + before(k, s, bound(k, s)) = start(k, after[s])
    BY <2>1, <2>3, <2>4
  <2>. QED BY <2>4, <2>5, <2>6, <2>7
<1>5. CASE s \in PointSections
  <2>1. /\ \A n : before(k, s, n) = pointSize(s) * (n - first(k, s))
        /\ \A n : itemSize(k, s, n) = pointSize(s)
    BY <1>5, PointItem DEF before, PointSections
  <2>2. /\ start(k, s) \in Nat /\ start(k, "end") \in Nat
        /\ start(k, after[s]) <= start(k, "end")
    BY StartsNat
  <2>3. /\ first(k, s) \in Nat /\ bound(k, s) \in Nat /\ first(k, s) <= bound(k, s)
    BY LoopRange
  <2>4. start(k, s) + pointSize(s) * (bound(k, s) - first(k, s)) = start(k, after[s])
    <3>1. CASE s \in {"A", "B1", "B2"}
      BY <1>1, <3>1, StartsNat DEF first, bound, after, pointSize
    <3>2. CASE s = "C"
      BY <1>1, <3>2, StartsNat DEF first, bound, after, pointSize
    <3>3. CASE s = "hExps"
      BY <1>1, <3>3, StartsNat DEF first, bound, after, pointSize
    <3>. QED BY <1>5, <3>1, <3>2, <3>3 DEF PointSections
  <2>5. CASE pointSize(s) = 64
    BY <2>1, <2>2, <2>3, <2>4, <2>5
  <2>6. CASE pointSize(s) = 128
    BY <2>1, <2>2, <2>3, <2>4, <2>6
  <2>. QED BY <1>5, <2>5, <2>6, PointItem
<1>. QED BY <1>3, <1>4, <1>5 DEF Sections, PointSections

-----------------------------------------------------------------------------
\* The offset is always where the counts say.
LEMMA OffsetInit == PkeyInit => OffsetInv
BY DEF PkeyInit, OffsetInv, Sections

LEMMA OffsetNext == OffsetInv /\ [PkeyNext]_pkeyVars => OffsetInv'
<1>. SUFFICES ASSUME OffsetInv, [PkeyNext]_pkeyVars PROVE OffsetInv'
  OBVIOUS
<1>1. CASE Header
  <2>1. /\ provingKey' = provingKey /\ section' = "polsA" /\ i' = first(provingKey, "polsA")
        /\ offset' = headerSize
    BY <1>1 DEF Header, Enter, after
  <2>2. headerSize = start(provingKey, "polsA")
    BY DEF headerSize, start, point2, point, bigInt, uint32
  <2>3. "polsA" \in Sections
    BY DEF Sections
  <2>4. /\ before(provingKey, "polsA", first(provingKey, "polsA")) = 0
        /\ start(provingKey, "polsA") \in Nat
        /\ first(provingKey, "polsA") \in first(provingKey, "polsA") .. bound(provingKey, "polsA")
    BY <2>3, BeforeItem, LoopRange DEF OffsetInv
  <2>. QED BY <2>1, <2>2, <2>3, <2>4 DEF OffsetInv
<1>2. CASE WriteItem
  <2>1. /\ provingKey' = provingKey /\ section' = section /\ section \in Sections
        /\ i < bound(provingKey, section)
        /\ i' = i + 1
        /\ offset' = offset + itemSize(provingKey, section, i)
    BY <1>2 DEF WriteItem
  <2>2. /\ provingKey \in ProvingKeys
        /\ i \in first(provingKey, section) .. bound(provingKey, section)
        /\ offset = start(provingKey, section) + before(provingKey, section, i)
        /\ section # "header" /\ section # "end"
    BY <2>1 DEF OffsetInv, Sections
  <2>3. /\ before(provingKey, section, i) \in Nat /\ start(provingKey, section) \in Nat
        /\ before(provingKey, section, i + 1)
             = before(provingKey, section, i) + itemSize(provingKey, section, i)
    BY <2>1, <2>2, BeforeItem
  <2>4. first(provingKey, section) \in Nat /\ bound(provingKey, section) \in Nat
    BY <2>1, <2>2, LoopRange
  <2>5. itemSize(provingKey, section, i) \in Nat
    BY <2>1, <2>2, <2>4, ItemPositive
  <2>6. i' \in first(provingKey, section) .. bound(provingKey, section)
    BY <2>1, <2>2, <2>4
  <2>7. offset' = start(provingKey, section) + before(provingKey, section, i')
    BY <2>1, <2>2, <2>3, <2>5
  <2>. QED BY <2>1, <2>2, <2>6, <2>7 DEF OffsetInv
<1>3. CASE NextSection
  <2>1. /\ provingKey' = provingKey /\ section' = after[section] /\ section \in Sections
        /\ i >= bound(provingKey, section)
        /\ i' = IF section' = "end" THEN 0 ELSE first(provingKey, section')
        /\ offset' = offset
    BY <1>3 DEF NextSection, Enter
  <2>2. /\ provingKey \in ProvingKeys
        /\ i \in first(provingKey, section) .. bound(provingKey, section)
        /\ offset = start(provingKey, section) + before(provingKey, section, i)
    BY <2>1 DEF OffsetInv
  <2>3. first(provingKey, section) \in Nat /\ bound(provingKey, section) \in Nat
    BY <2>1, <2>2, LoopRange
  <2>4. i = bound(provingKey, section)
    BY <2>1, <2>2, <2>3
  <2>5. offset = start(provingKey, section')
    BY <2>1, <2>2, <2>4, BeforeItem
  <2>6. CASE section' = "end"
    BY <2>1, <2>2, <2>5, <2>6 DEF OffsetInv, Sections
  <2>7. CASE section' # "end"
    <3>1. section' \in Sections
      BY <2>1, <2>7 DEF after, Sections
    <3>2. /\ before(provingKey, section', first(provingKey, section')) = 0
          /\ start(provingKey, section') \in Nat
          /\ first(provingKey, section') \in Nat /\ bound(provingKey, section') \in Nat
          /\ first(provingKey, section') <= bound(provingKey, section')
      BY <2>2, <3>1, BeforeItem, LoopRange
    <3>3. section' # "header"
      BY <3>1 DEF Sections
    <3>. QED BY <2>1, <2>2, <2>5, <2>7, <3>1, <3>2, <3>3 DEF OffsetInv
  <2>. QED BY <2>6, <2>7
<1>4. CASE UNCHANGED pkeyVars
  BY <1>4 DEF OffsetInv, pkeyVars
<1>. QED BY <1>1, <1>2, <1>3, <1>4 DEF PkeyNext

LEMMA OffsetFits == OffsetInv => BufferFits
<1>. SUFFICES ASSUME OffsetInv PROVE BufferFits
  OBVIOUS
<1>1. provingKey \in ProvingKeys /\ calculateBuffLen(provingKey) = start(provingKey, "end")
  BY BuffLen DEF OffsetInv
<1>2. start(provingKey, "end") \in Nat
  BY <1>1, StartsNat
<1>3. CASE section = "header"
  BY <1>1, <1>2, <1>3 DEF OffsetInv, BufferFits
<1>4. CASE section = "end"
  BY <1>1, <1>2, <1>4 DEF OffsetInv, BufferFits
<1>5. CASE section \in Sections
  <2>1. offset <= start(provingKey, "end")
    BY <1>1, <1>5, BeforeItem DEF OffsetInv
  <2>. QED BY <1>1, <1>5, <2>1 DEF BufferFits, Sections
<1>. QED BY <1>3, <1>4, <1>5 DEF OffsetInv

\* For every circuit, the buffer of buildpkey.js has exactly the room that its
\* loops need: no setUint32() is outside, and the assertion at its end holds.
THEOREM KeyFillsBuffer == PkeySpec => []BufferFits
<1>. QED BY OffsetInit, OffsetNext, OffsetFits, PTL DEF PkeySpec

-----------------------------------------------------------------------------
\* What a pointer leads to stays there, as every write is at the end.
LEMMA FoundInit == PkeyInit => FoundInv
BY DEF PkeyInit, FoundInv, Sections, PointSections, rank

LEMMA FoundNext == FoundInv /\ [PkeyNext]_pkeyVars => FoundInv'
<1>. SUFFICES ASSUME FoundInv, [PkeyNext]_pkeyVars PROVE FoundInv'
  OBVIOUS
<1>1. provingKey \in ProvingKeys /\ offset \in Nat
  BY DEF FoundInv
<1>2. CASE Header
  <2>1. /\ provingKey' = provingKey /\ section' = "polsA" /\ i' = first(provingKey, "polsA")
        /\ offset' = headerSize /\ written' = written /\ offset = 0
    BY <1>2 DEF Header, Enter, after, FoundInv
  <2>2. headerSize \in Nat /\ headerSize > 0
    BY DEF headerSize, point2, point, bigInt, uint32
  <2>3. "polsA" \in Sections /\ "polsA" \notin PointSections
    BY DEF Sections, PointSections
  <2>4. first(provingKey, "polsA") \in first(provingKey, "polsA") .. bound(provingKey, "polsA")
    BY <1>1, <2>3, LoopRange
  <2>5. \A s \in PointSections : ~ (rank[s] < rank["polsA"])
    BY DEF PointSections, rank
  <2>6. \A o \in DOMAIN written : o \in Nat /\ o < headerSize
    BY <2>1, <2>2 DEF FoundInv
  <2>. QED BY <1>1, <2>1, <2>2, <2>3, <2>4, <2>5, <2>6 DEF FoundInv
<1>3. CASE WriteItem
  <2>1. /\ provingKey' = provingKey /\ section' = section /\ section \in Sections
        /\ i < bound(provingKey, section)
        /\ i' = i + 1 /\ pointers' = pointers
        /\ offset' = offset + itemSize(provingKey, section, i)
        /\ written' = [o \in DOMAIN written \cup {offset} |->
                          IF o = offset THEN <<section, i>> ELSE written[o]]
    BY <1>3 DEF WriteItem
  <2>2. /\ i \in first(provingKey, section) .. bound(provingKey, section)
        /\ first(provingKey, section) \in Nat /\ bound(provingKey, section) \in Nat
        /\ section # "header"
    BY <1>1, <2>1, LoopRange DEF FoundInv, Sections
  <2>3. itemSize(provingKey, section, i) \in Nat /\ itemSize(provingKey, section, i) > 0
    BY <1>1, <2>1, <2>2, ItemPositive
  <2>4. offset' \in Nat /\ offset' > offset
    BY <1>1, <2>1, <2>3
  <2>5. offset \notin DOMAIN written
    BY <1>1 DEF FoundInv
  <2>6. /\ DOMAIN written \subseteq DOMAIN written'
        /\ \A o \in DOMAIN written : written'[o] = written[o]
        /\ offset \in DOMAIN written' /\ written'[offset] = <<section, i>>
        /\ DOMAIN written' = DOMAIN written \cup {offset}
    BY <2>1, <2>5
  <2>7. \A o \in DOMAIN written' : o \in Nat /\ o < offset'
    <3>1. TAKE o \in DOMAIN written'
    <3>2. CASE o = offset
      BY <1>1, <2>4, <3>2
    <3>3. CASE o \in DOMAIN written
      <4>1. o \in Nat /\ o < offset /\ offset < offset'
        BY <2>4, <3>3 DEF FoundInv
      <4>. QED BY <1>1, <2>4, <4>1
    <3>. QED BY <2>6, <3>2, <3>3
  <2>8. i' \in first(provingKey, section) .. bound(provingKey, section)
    BY <2>1, <2>2
  <2>9. ASSUME NEW s \in PointSections, rank[s] < rank[section]
        PROVE  Found(s, bound(provingKey, s))'
    <3>1. Found(s, bound(provingKey, s)) /\ bound(provingKey, s) \in Nat
      BY <1>1, <2>9, LoopRange DEF FoundInv, Sections, PointSections
    <3>2. s \in DOMAIN pointers' /\ pointers'[s] = pointers[s]
      BY <2>1, <3>1 DEF Found
    <3>. QED BY <2>1, <2>6, <3>1, <3>2 DEF Found
  <2>10. ASSUME section \in PointSections
         PROVE  /\ Found(section, i)'
                /\ offset' = pointers'[section] + pointSize(section) * (i' - first(provingKey, section))
    <3>1. /\ Found(section, i)
          /\ offset = pointers[section] + pointSize(section) * (i - first(provingKey, section))
      BY <2>10 DEF FoundInv
    <3>2. itemSize(provingKey, section, i) = pointSize(section) /\ pointSize(section) \in {64, 128}
      BY <2>10, PointItem
    <3>3. section \in DOMAIN pointers /\ pointers[section] \in Nat
      BY <3>1 DEF Found
    <3>4. offset' = pointers'[section] + pointSize(section) * (i' - first(provingKey, section))
      <4>1. CASE pointSize(section) = 64
        BY <1>1, <2>1, <2>2, <3>1, <3>2, <3>3, <4>1
      <4>2. CASE pointSize(section) = 128
        BY <1>1, <2>1, <2>2, <3>1, <3>2, <3>3, <4>2
      <4>. QED BY <3>2, <4>1, <4>2
    <3>5. ASSUME NEW m \in 0 .. i' - 1 - first(provingKey, section)
          PROVE  /\ pointers[section] + pointSize(section) * m \in DOMAIN written'
                 /\ written'[pointers[section] + pointSize(section) * m]
                      = <<section, first(provingKey, section) + m>>
      <4>1. CASE m \in 0 .. i - 1 - first(provingKey, section)
        BY <2>6, <3>1, <4>1 DEF Found
      <4>2. CASE m = i - first(provingKey, section)
        <5>1. pointers[section] + pointSize(section) * m = offset
          BY <3>1, <4>2
        <5>2. first(provingKey, section) + m = i
          BY <2>2, <4>2
        <5>. QED BY <2>6, <5>1, <5>2
      <4>3. m \in 0 .. i - first(provingKey, section)
        BY <2>1, <2>2
      <4>4. m \in 0 .. i - 1 - first(provingKey, section) \/ m = i - first(provingKey, section)
        BY <2>2, <4>3
      <4>. QED BY <4>1, <4>2, <4>4
    <3>6. Found(section, i)'
      BY <2>1, <3>3, <3>5 DEF Found
    <3>. QED BY <3>4, <3>6
  <2>. QED BY <1>1, <2>1, <2>2, <2>4, <2>7, <2>8, <2>9, <2>10 DEF FoundInv
<1>4. CASE NextSection
  <2>1. /\ provingKey' = provingKey /\ section' = after[section] /\ section \in Sections
        /\ i >= bound(provingKey, section)
        /\ i' = IF section' = "end" THEN 0 ELSE first(provingKey, section')
        /\ pointers' = [t \in DOMAIN pointers \cup ({section'} \cap Sections) |->
                           IF t = section' THEN pointerTo(section', offset) ELSE pointers[t]]
        /\ offset' = offset /\ written' = written
    BY <1>4 DEF NextSection, Enter
  <2>2. /\ i \in first(provingKey, section) .. bound(provingKey, section)
        /\ first(provingKey, section) \in Nat /\ bound(provingKey, section) \in Nat
    BY <1>1, <2>1, LoopRange DEF FoundInv
  <2>3. i = bound(provingKey, section)
    BY <2>1, <2>2
  <2>4. /\ section' \in Sections \cup {"end"}
        /\ \A s \in PointSections :
               rank[s] < rank[section'] => s # section' /\ (rank[s] < rank[section] \/ s = section)
    BY <2>1 DEF after, rank, Sections, PointSections
  <2>5. ASSUME NEW s \in PointSections, rank[s] < rank[section']
        PROVE  Found(s, bound(provingKey, s))'
    <3>1. Found(s, bound(provingKey, s))
      BY <2>3, <2>4, <2>5 DEF FoundInv
    <3>2. s \in DOMAIN pointers' /\ pointers'[s] = pointers[s]
      BY <2>1, <2>4, <2>5, <3>1 DEF Found
    <3>. QED BY <2>1, <3>1, <3>2 DEF Found
  <2>6. section' \in Sections =>
          i' \in first(provingKey, section') .. bound(provingKey, section')
    <3>1. "end" \notin Sections
      BY DEF Sections
    <3>. QED BY <1>1, <2>1, <3>1, LoopRange
  <2>7. ASSUME section' \in PointSections
        PROVE  /\ Found(section, i)'
               /\ offset' = pointers'[section'] + pointSize(section') * (i' - first(provingKey, section'))
    <3>1. section' \in Sections /\ section' # "end"
      BY <2>7 DEF Sections, PointSections
    <3>2. section' \in DOMAIN pointers' /\ pointers'[section'] = offset
      BY <2>1, <3>1 DEF pointerTo
    <3>3. i' = first(provingKey, section') /\ first(provingKey, section') \in Nat
      BY <1>1, <2>1, <3>1, LoopRange
    <3>4. 0 .. i' - 1 - first(provingKey, section') = {}
      BY <3>3
    <3>5. pointSize(section') * (i' - first(provingKey, section')) = 0
      BY <3>3 DEF pointSize
    <3>. QED BY <1>1, <2>1, <3>2, <3>4, <3>5 DEF Found
  <2>8. section' # "header"
    BY <2>4 DEF Sections
  <2>. QED BY <1>1, <2>1, <2>4, <2>5, <2>6, <2>7, <2>8 DEF FoundInv
<1>5. CASE UNCHANGED pkeyVars
  BY <1>5 DEF FoundInv, Found, pkeyVars
<1>. QED BY <1>2, <1>3, <1>4, <1>5 DEF PkeyNext

LEMMA FoundLeads == FoundInv => PointersLead
<1>. SUFFICES ASSUME FoundInv, section = "end",
                     NEW s \in PointSections,
                     NEW n \in 0 .. bound(provingKey, s) - 1 - first(provingKey, s)
              PROVE  LET o == pointers[s] + n * itemSize(provingKey, s, n)
                     IN  o \in DOMAIN written /\ written[o] = <<s, first(provingKey, s) + n>>
  BY DEF PointersLead, PointSections
<1>1. Found(s, bound(provingKey, s))
  BY DEF FoundInv, rank, PointSections
<1>2. itemSize(provingKey, s, n) = pointSize(s) /\ pointSize(s) \in {64, 128}
  BY PointItem
<1>3. n \in Int
  BY DEF FoundInv
<1>4. n * itemSize(provingKey, s, n) = pointSize(s) * n
  BY <1>2, <1>3
<1>. QED BY <1>1, <1>4 DEF Found

\* Whoever follows the pointers of a finished key finds every point of every
\* section in its place, and of C one for each variable that is not public.
THEOREM KeyPointersLead == PkeySpec => []PointersLead
<1>. QED BY FoundInit, FoundNext, FoundLeads, PTL DEF PkeySpec

-----------------------------------------------------------------------------
\* The fields.

\* The modulus is odd and not small.
LEMMA ModulusType ==
    modulus \in Nat /\ modulus >= 3 /\ modulus % 2 = 1 /\ FlagBit \in Nat /\ modulus <= FlagBit
BY ModulusAssumption

\* An element of fp is its own remainder; its negative is the rest to the modulus.
LEMMA FieldElement ==
    ASSUME NEW x \in fp
    PROVE  /\ x \in Nat /\ x < modulus /\ x % modulus = x
           /\ neg(x) = (IF x = 0 THEN 0 ELSE modulus - x)
           /\ neg(x) \in fp /\ neg(neg(x)) = x
<1>1. x \in 0 .. modulus - 1 /\ modulus \in Nat \ {0}
  BY ModulusType DEF fp
<1>2. ASSUME NEW y \in 0 .. modulus - 1 PROVE neg(y) = IF y = 0 THEN 0 ELSE modulus - y
  <2>1. CASE y = 0
    <3>1. 0 \in 0 .. modulus - 1 /\ -y = 0
      <4>1. \A z \in Int : -z = 0 - z
        OBVIOUS
      <4>2. -y = 0 - y
        BY <1>1, <4>1
      <4>. QED BY <1>1, <2>1, <4>2
    <3>2. 0 % modulus = 0
      BY <1>1, FirstPlace
    <3>. QED BY <3>1, <3>2, <2>1 DEF neg
  <2>2. CASE y # 0
    <3>1. modulus - y \in 0 .. modulus - 1 /\ -1 \in Int
      BY <1>1, <2>2
    <3>2. modulus * (-1) + (modulus - y) = -y
      BY <1>1
    <3>3. (modulus * (-1) + (modulus - y)) % modulus = modulus - y
      BY <1>1, <3>1, Unique
    <3>. QED BY <3>2, <3>3, <2>2 DEF neg
  <2>. QED BY <2>1, <2>2
<1>3. x % modulus = x
  BY <1>1, FirstPlace
<1>4. neg(x) \in 0 .. modulus - 1
  BY <1>1, <1>2
<1>5. neg(neg(x)) = x
  BY <1>1, <1>2, <1>4
<1>. QED BY <1>1, <1>2, <1>3, <1>4, <1>5 DEF fp

\* Sums and products stay in the field; 0 and 1 are neutral.
LEMMA FieldLaws ==
    ASSUME NEW x \in fp, NEW y \in fp
    PROVE  /\ add(x, y) \in fp /\ mul(x, y) \in fp
           /\ add(x, 0) = x /\ add(0, x) = x
           /\ mul(x, 1) = x /\ mul(1, x) = x /\ mul(x, 0) = 0 /\ mul(0, x) = 0
<1>1. x \in Nat /\ y \in Nat /\ modulus \in Nat \ {0}
  BY FieldElement, ModulusType
<1>2. x + y \in Int /\ x * y \in Int
  BY <1>1
<1>3. (x + y) % modulus \in 0 .. modulus - 1 /\ (x * y) % modulus \in 0 .. modulus - 1
  BY <1>1, <1>2, Division
<1>4. x + 0 = x /\ 0 + x = x /\ x * 1 = x /\ 1 * x = x /\ x * 0 = 0 /\ 0 * x = 0
  BY <1>1
<1>5. 0 \in 0 .. modulus - 1
  BY <1>1
<1>6. x % modulus = x /\ 0 % modulus = 0
  BY <1>1, <1>5, FieldElement, FirstPlace
<1>. QED BY <1>3, <1>4, <1>6 DEF add, mul, fp

\* Units of the two fields.
LEMMA Units == 0 \in fp /\ 1 \in fp /\ neg(0) = 0 /\ <<0, 0>> \in fp2 /\ <<1, 0>> \in fp2
<1>1. 0 \in fp /\ 1 \in fp
  BY ModulusType DEF fp
<1>. QED BY <1>1, FieldElement DEF fp2

\* A power of one is one.
LEMMA PowerOfOne == \A e \in Nat : exp(1, e) = 1
<1>. DEFINE F == [x \in fp |-> mul(x, 1)]
            E(p) == p = [n \in Nat |-> IF n = 0 THEN 1 ELSE mul(p[n - 1], 1)]
            P == CHOOSE p : E(p)
<1>1. F \in [fp -> fp] /\ 1 \in fp
  BY FieldLaws, Units
<1>2. PICK g : IsIteration(g, fp, 1, F)
  <2>. HIDE DEF F
  <2>. QED BY <1>1, Iteration
<1>3. E(g)
  <2>1. g = [n \in Nat |-> g[n]]
    BY <1>2 DEF IsIteration
  <2>2. ASSUME NEW n \in Nat PROVE g[n] = IF n = 0 THEN 1 ELSE mul(g[n - 1], 1)
    <3>1. n # 0 => g[n - 1] \in fp
      <4>1. n # 0 => n - 1 \in Nat
        OBVIOUS
      <4>2. g \in [Nat -> fp]
        BY <1>2 DEF IsIteration
      <4>. QED BY <4>1, <4>2
    <3>2. \A x \in fp : F[x] = mul(x, 1)
      OBVIOUS
    <3>3. g[n] = IF n = 0 THEN 1 ELSE F[g[n - 1]]
      <4>. HIDE DEF F
      <4>. QED BY <1>2 DEF IsIteration
    <3>. HIDE DEF F
    <3>. QED BY <3>1, <3>2, <3>3
  <2>. HIDE DEF F
  <2>. QED BY <2>1, <2>2
<1>4. E(P)
  <2>. HIDE DEF E
  <2>. QED BY <1>3 DEF E
<1>5. \A n \in Nat : P[n] = IF n = 0 THEN 1 ELSE mul(P[n - 1], 1)
  <2>. HIDE DEF P
  <2>. QED BY <1>4
<1>. DEFINE H == {n \in Nat : P[n] = 1}
<1>. HIDE DEF P
<1>6. 0 \in H
  BY <1>5
<1>7. ASSUME NEW n \in H PROVE n + 1 \in H
  <2>1. P[n + 1] = mul(P[n], 1)
    BY <1>5
  <2>2. mul(1, 1) = 1
    BY FieldLaws, Units
  <2>. QED BY <2>1, <2>2
<1>8. H = Nat
  <2>1. H \in SUBSET Nat
    OBVIOUS
  <2>. HIDE DEF H
  <2>. QED BY <1>6, <1>7, <2>1, Induction
<1>9. \A e \in Nat : exp(1, e) = P[e]
  BY DEF exp, P
<1>. QED BY <1>8, <1>9

LEMMA InverseOfUnit == inverse(1) = 1
BY PowerOfOne, ModulusType DEF inverse

-----------------------------------------------------------------------------
\* Points through their bytes.

\* A root and its negative differ in the bit that travels, unless they are one.
LEMMA SignTells ==
    ASSUME NEW y \in fp
    PROVE  /\ signBE(y) \in BOOLEAN
           /\ y # 0 => signBE(neg(y)) = ~signBE(y)
           /\ y = 0 => neg(y) = y
<1>1. y \in Nat /\ neg(y) = (IF y = 0 THEN 0 ELSE modulus - y) /\ neg(neg(y)) = y
  BY FieldElement
<1>2. y # 0 => modulus - y # y
  BY <1>1, ModulusType
<1>. QED BY <1>1, <1>2, ModulusType DEF signBE

\* What the flags on top of x are read as.
LEMMA Flags ==
    ASSUME NEW x \in fp, NEW s \in {0, 2}
    PROVE  /\ (x + s * FlagBit) % FlagBit = x
           /\ (x + s * FlagBit) \div FlagBit = s
<1>1. FlagBit \in Nat \ {0} /\ x \in 0 .. FlagBit - 1 /\ s \in Int
  <2>1. x \in Nat /\ x < modulus
    BY FieldElement
  <2>. QED BY <2>1, ModulusType
<1>2. (FlagBit * s + x) \div FlagBit = s /\ (FlagBit * s + x) % FlagBit = x
  BY <1>1, Unique
<1>3. FlagBit * s + x = x + s * FlagBit
  BY <1>1
<1>. QED BY <1>2, <1>3

\* One element uncompressed, and the right side of the equation.
cubic1(x) == add(mul(mul(x, x), x), b)

LEMMA OnCurve1 ==
    ASSUME NEW p \in points1
    PROVE  /\ p[1] \in fp /\ p[2] \in fp
           /\ mul(p[2], p[2]) = cubic1(p[1])
           /\ ~(p[1] = 0 /\ p[2] = 0)
<1>1. p[1] \in fp /\ p[2] \in fp /\ G1!IsOnCurve(<<p[1], p[2], 1>>)
  BY DEF points1
<1>2. mul(p[2], p[2]) = cubic1(p[1])
  BY <1>1 DEF cubic1, G1!IsOnCurve, G1!square
<1>3. mul(0, 0) = 0 /\ add(0, b) = b /\ b # 0
  BY FieldLaws, Units, CurvesAssumption
<1>. QED BY <1>1, <1>2, <1>3 DEF cubic1

sign1(y) == IF signBE(y) THEN 0 ELSE 2 * FlagBit

LEMMA Compressed1 ==
    ASSUME NEW p \in points1
    PROVE  g1ToBuff(p) = <<p[1] + sign1(p[2])>>
<1>1. /\ p[1] \in fp /\ p[2] \in fp /\ ~(p[1] = 0 /\ p[2] = 0)
      /\ G1!IsOnCurve(<<p[1], p[2], 1>>)
  BY OnCurve1 DEF points1
<1>. DEFINE q == <<p[1], p[2], 1>>
<1>2. G1!FromBytes(<<p[1]>>, <<p[2]>>) = q
  <2>1. fromBytes(<<p[1]>>) = p[1] /\ fromBytes(<<p[2]>>) = p[2]
    BY <1>1, FieldElement DEF fromBytes
  <2>2. p[1] # error /\ p[2] # error
    BY <1>1, ErrorAssumption
  <2>. QED BY <1>1, <2>1, <2>2 DEF G1!FromBytes
<1>3. G1!Affine(q) = q
  <2>1. mul(1, 1) = 1 /\ mul(p[1], 1) = p[1] /\ mul(p[2], 1) = p[2]
    BY <1>1, FieldLaws, Units
  <2>. QED BY <2>1, InverseOfUnit DEF G1!Affine, G1!IsZero, G1!square
<1>4. G1!ToCompressed(q) = [<<p[1]>> EXCEPT ![1] = @ + sign1(p[2])]
  <2>1. ~G1!IsZero(q) /\ q[1] = p[1] /\ q[2] = p[2]
    BY DEF G1!IsZero
  <2>. HIDE DEF q
  <2>. QED BY <1>3, <2>1 DEF G1!ToCompressed, toBytes, sign1
<1>. QED BY <1>2, <1>4 DEF g1ToBuff

LEMMA Decompressed1 ==
    ASSUME NEW p \in points1
    PROVE  G1!FromCompressed(<<p[1] + sign1(p[2])>>) = point1(p)
<1>. DEFINE x == p[1]
            y == p[2]
            s == IF signBE(y) THEN 0 ELSE 2
            w == x + sign1(y)
            r == sqrt(cubic1(x))
<1>1. x \in fp /\ y \in fp /\ mul(y, y) = cubic1(x)
  BY OnCurve1
<1>2. w % FlagBit = x /\ w \div FlagBit = s
  <2>1. w = x + s * FlagBit
    BY ModulusType DEF sign1
  <2>. QED BY <1>1, <2>1, Flags
<1>3. r \in {y, neg(y)} /\ r # error
  BY <1>1, RootsAssumption, ErrorAssumption, FieldElement
<1>4. (IF signBE(r) = (w \div FlagBit >= 2) THEN neg(r) ELSE r) = y
  <2>1. (s >= 2) = ~signBE(y)
    BY <1>1, SignTells
  <2>2. neg(neg(y)) = y
    BY <1>1, FieldElement
  <2>. HIDE DEF r, s, w
  <2>. QED BY <1>1, <1>2, <1>3, <2>1, <2>2, SignTells
<1>5. G1!FromCompressed(<<w>>) = <<x, y, 1>>
  <2>1. fromBytes([<<w>> EXCEPT ![1] = @ % FlagBit]) = x
    BY <1>1, <1>2, FieldElement DEF fromBytes
  <2>2. (w \div FlagBit) % 2 # 1 /\ x # error
    BY <1>1, <1>2, ErrorAssumption
  <2>. HIDE DEF w
  <2>. QED BY <1>3, <1>4, <2>1, <2>2 DEF G1!FromCompressed, G1!square, cubic1
<1>. QED BY <1>5 DEF point1

\* The same over fp2.
LEMMA Field2Element ==
    ASSUME NEW x \in fp2
    PROVE  /\ x[1] \in fp /\ x[2] \in fp /\ x = <<x[1], x[2]>>
           /\ neg2(x) \in fp2 /\ neg2(neg2(x)) = x
           /\ mul2(x, <<1, 0>>) = x
<1>1. x[1] \in fp /\ x[2] \in fp /\ x = <<x[1], x[2]>>
  BY DEF fp2
<1>2. neg(x[1]) \in fp /\ neg(x[2]) \in fp /\ neg(neg(x[1])) = x[1] /\ neg(neg(x[2])) = x[2]
  BY <1>1, FieldElement
<1>3. neg2(x) \in fp2 /\ neg2(neg2(x)) = x
  BY <1>1, <1>2 DEF neg2, fp2
<1>4. mul2(x, <<1, 0>>) = x
  <2>1. mul(x[1], 1) = x[1] /\ mul(x[2], 1) = x[2] /\ mul(x[1], 0) = 0 /\ mul(x[2], 0) = 0
    BY <1>1, FieldLaws, Units
  <2>2. add(x[1], neg(0)) = x[1] /\ add(0, x[2]) = x[2]
    BY <1>1, FieldLaws, Units
  <2>. QED BY <1>1, <2>1, <2>2 DEF mul2
<1>. QED BY <1>1, <1>3, <1>4

LEMMA InverseOfUnit2 == inverse2(<<1, 0>>) = <<1, 0>>
<1>1. mul(1, 1) = 1 /\ mul(0, 0) = 0 /\ mul(0, 1) = 0 /\ add(1, 0) = 1 /\ neg(0) = 0
  BY FieldLaws, Units
<1>. QED BY <1>1, InverseOfUnit DEF inverse2

LEMMA SignTells2 ==
    ASSUME NEW y \in fp2
    PROVE  /\ signBE2(y) \in BOOLEAN
           /\ y # <<0, 0>> => signBE2(neg2(y)) = ~signBE2(y)
           /\ y = <<0, 0>> => neg2(y) = y
<1>1. y[1] \in fp /\ y[2] \in fp /\ y = <<y[1], y[2]>>
  BY Field2Element
<1>2. neg(0) = 0 /\ (y[2] # 0 => neg(y[2]) # 0)
  BY <1>1, FieldElement, Units, ModulusType
<1>3. neg2(y) = <<neg(y[1]), neg(y[2])>>
  BY DEF neg2
<1>4. CASE y[2] # 0
  <2>1. signBE2(y) = signBE(y[2]) /\ signBE2(neg2(y)) = signBE(neg(y[2]))
    BY <1>2, <1>3, <1>4 DEF signBE2
  <2>. QED BY <1>1, <1>4, <2>1, SignTells
<1>5. CASE y[2] = 0
  <2>1. signBE2(y) = signBE(y[1]) /\ signBE2(neg2(y)) = signBE(neg(y[1]))
    BY <1>2, <1>3, <1>5 DEF signBE2
  <2>2. y = <<0, 0>> <=> y[1] = 0
    BY <1>1, <1>5
  <2>. QED BY <1>1, <1>2, <1>3, <1>5, <2>1, <2>2, SignTells
<1>. QED BY <1>4, <1>5

cubic2(x) == add2(mul2(mul2(x, x), x), b2)

LEMMA OnCurve2 ==
    ASSUME NEW p \in points2
    PROVE  /\ p[1] \in fp2 /\ p[2] \in fp2
           /\ mul2(p[2], p[2]) = cubic2(p[1])
           /\ ~(p[1] = <<0, 0>> /\ p[2] = <<0, 0>>)
<1>1. p[1] \in fp2 /\ p[2] \in fp2 /\ G2!IsOnCurve(<<p[1], p[2], <<1, 0>>>>)
  BY DEF points2
<1>2. mul2(p[2], p[2]) = cubic2(p[1])
  BY <1>1 DEF cubic2, G2!IsOnCurve, G2!square
<1>3. mul2(<<0, 0>>, <<0, 0>>) = <<0, 0>>
  <2>1. mul(0, 0) = 0 /\ add(0, 0) = 0 /\ neg(0) = 0
    BY FieldLaws, Units
  <2>. QED BY <2>1 DEF mul2
<1>4. add2(<<0, 0>>, b2) = b2 /\ b2 # <<0, 0>>
  <2>1. b2 \in fp2 /\ b2 # <<0, 0>>
    BY CurvesAssumption
  <2>2. b2[1] \in fp /\ b2[2] \in fp /\ b2 = <<b2[1], b2[2]>>
    BY <2>1, Field2Element
  <2>3. add(0, b2[1]) = b2[1] /\ add(0, b2[2]) = b2[2]
    BY <2>2, FieldLaws
  <2>. QED BY <2>1, <2>2, <2>3 DEF add2
<1>. QED BY <1>1, <1>2, <1>3, <1>4 DEF cubic2

sign2(y) == IF signBE2(y) THEN 0 ELSE 2 * FlagBit

LEMMA Compressed2 ==
    ASSUME NEW p \in points2
    PROVE  g2ToBuff(p) = <<p[1][2] + sign2(p[2]), p[1][1]>>
<1>1. /\ p[1] \in fp2 /\ p[2] \in fp2 /\ ~(p[1] = <<0, 0>> /\ p[2] = <<0, 0>>)
      /\ G2!IsOnCurve(<<p[1], p[2], <<1, 0>>>>)
  BY OnCurve2 DEF points2
<1>2. /\ p[1][1] \in fp /\ p[1][2] \in fp /\ p[1] = <<p[1][1], p[1][2]>>
      /\ p[2][1] \in fp /\ p[2][2] \in fp /\ p[2] = <<p[2][1], p[2][2]>>
  BY <1>1, Field2Element
<1>. DEFINE q == <<p[1], p[2], <<1, 0>>>>
<1>3. G2!FromBytes(<<p[1][2], p[1][1]>>, <<p[2][2], p[2][1]>>) = q
  <2>0. ASSUME NEW z \in fp PROVE z \in Nat /\ ~(z >= modulus)
    BY FieldElement, ModulusType
  <2>1. fromBytes2(<<p[1][2], p[1][1]>>) = p[1] /\ fromBytes2(<<p[2][2], p[2][1]>>) = p[2]
    BY <1>2, <2>0 DEF fromBytes2
  <2>2. p[1] # error /\ p[2] # error
    BY <1>1, ErrorAssumption
  <2>. QED BY <1>1, <2>1, <2>2 DEF G2!FromBytes
<1>4. G2!Affine(q) = q
  <2>1. mul2(<<1, 0>>, <<1, 0>>) = <<1, 0>> /\ mul2(p[1], <<1, 0>>) = p[1]
        /\ mul2(p[2], <<1, 0>>) = p[2]
    BY <1>1, Field2Element, Units
  <2>2. <<1, 0>> # <<0, 0>>
    OBVIOUS
  <2>. QED BY <2>1, <2>2, InverseOfUnit2 DEF G2!Affine, G2!IsZero, G2!square
<1>5. G2!ToCompressed(q) = [<<p[1][2], p[1][1]>> EXCEPT ![1] = @ + sign2(p[2])]
  <2>1. ~G2!IsZero(q) /\ q[1] = p[1] /\ q[2] = p[2]
    <3>1. <<1, 0>> # <<0, 0>>
      OBVIOUS
    <3>. QED BY <3>1 DEF G2!IsZero
  <2>. HIDE DEF q
  <2>. QED BY <1>4, <2>1 DEF G2!ToCompressed, toBytes2, sign2
<1>. QED BY <1>3, <1>5 DEF g2ToBuff

LEMMA Decompressed2 ==
    ASSUME NEW p \in points2
    PROVE  G2!FromCompressed(<<p[1][2] + sign2(p[2]), p[1][1]>>) = pointOf2(p)
<1>. DEFINE x == p[1]
            y == p[2]
            s == IF signBE2(y) THEN 0 ELSE 2
            w == x[2] + sign2(y)
            r == sqrt2(cubic2(x))
<1>1. x \in fp2 /\ y \in fp2 /\ mul2(y, y) = cubic2(x)
  BY OnCurve2
<1>2. x[1] \in fp /\ x[2] \in fp /\ x = <<x[1], x[2]>>
  BY <1>1, Field2Element
<1>3. w % FlagBit = x[2] /\ w \div FlagBit = s
  <2>1. w = x[2] + s * FlagBit
    BY ModulusType DEF sign2
  <2>. QED BY <1>2, <2>1, Flags
<1>4. r \in {y, neg2(y)} /\ r # error
  BY <1>1, RootsAssumption, ErrorAssumption, Field2Element
<1>5. (IF signBE2(r) = (w \div FlagBit >= 2) THEN neg2(r) ELSE r) = y
  <2>1. (s >= 2) = ~signBE2(y)
    BY <1>1, SignTells2
  <2>2. neg2(neg2(y)) = y
    BY <1>1, Field2Element
  <2>. HIDE DEF r, s, w
  <2>. QED BY <1>1, <1>3, <1>4, <2>1, <2>2, SignTells2
<1>6. G2!FromCompressed(<<w, x[1]>>) = <<x, y, <<1, 0>>>>
  <2>1. [<<w, x[1]>> EXCEPT ![1] = @ % FlagBit] = <<x[2], x[1]>>
    BY <1>3
  <2>2. fromBytes2(<<x[2], x[1]>>) = x
    <3>1. ASSUME NEW z \in fp PROVE z \in Nat /\ ~(z >= modulus)
      BY FieldElement, ModulusType
    <3>. QED BY <1>2, <3>1 DEF fromBytes2
  <2>3. (w \div FlagBit) % 2 # 1 /\ x # error
    BY <1>1, <1>3, ErrorAssumption
  <2>. HIDE DEF w, x, y
  <2>. QED BY <1>4, <1>5, <2>1, <2>2, <2>3 DEF G2!FromCompressed, G2!square, cubic2, r
<1>. QED BY <1>6 DEF pointOf2

-----------------------------------------------------------------------------
\* A proof and a verifying key as words.
word1(p) == p[1] + sign1(p[2])

LEMMA Words ==
    /\ \A p \in points1 : word1(p) \in Nat
    /\ \A p \in points2 : p[1][2] + sign2(p[2]) \in Nat /\ p[1][1] \in Nat
<1>1. ASSUME NEW p \in points1 PROVE word1(p) \in Nat
  <2>1. p[1] \in Nat /\ FlagBit \in Nat
    BY OnCurve1, FieldElement, ModulusType
  <2>. QED BY <2>1 DEF word1, sign1
<1>2. ASSUME NEW p \in points2 PROVE p[1][2] + sign2(p[2]) \in Nat /\ p[1][1] \in Nat
  <2>1. p[1][1] \in fp /\ p[1][2] \in fp
    BY OnCurve2, Field2Element
  <2>2. p[1][1] \in Nat /\ p[1][2] \in Nat /\ FlagBit \in Nat
    BY <2>1, FieldElement, ModulusType
  <2>. QED BY <2>2 DEF sign2
<1>. QED BY <1>1, <1>2

\* Words one behind the other.
LEMMA ThreeWords ==
    ASSUME NEW w1 \in Nat, NEW w2 \in Nat, NEW w3 \in Nat
    PROVE  <<w1>> \o <<w2, w3>> = <<w1, w2, w3>>
<1>. DEFINE s == <<w1>>
            p == <<w2, w3>>
            t == <<w1, w2, w3>>
<1>1. /\ s \in Seq(Nat) /\ Len(s) = 1 /\ s[1] = w1
      /\ p \in Seq(Nat) /\ Len(p) = 2 /\ p[1] = w2 /\ p[2] = w3
      /\ t \in Seq(Nat) /\ Len(t) = 3
      /\ t[1] = w1 /\ t[2] = w2 /\ t[3] = w3
  OBVIOUS
<1>. HIDE DEF s, p, t
<1>2. \A j \in 1 .. Len(s) : t[j] = s[j]
  <2>1. \A j \in 1 .. 1 : j = 1
    OBVIOUS
  <2>. QED BY <1>1, <2>1
<1>3. \A k \in 1 .. Len(p) : t[Len(s) + k] = p[k]
  <2>1. \A k \in 1 .. 2 : k = 1 \/ k = 2
    OBVIOUS
  <2>. QED BY <1>1, <2>1
<1>4. Len(t) = Len(s) + Len(p)
  BY <1>1
<1>5. t = s \o p
  BY <1>1, <1>2, <1>3, <1>4, IsConcatenation
<1>. QED BY <1>5 DEF s, p, t

LEMMA FourWords ==
    ASSUME NEW w1 \in Nat, NEW w2 \in Nat, NEW w3 \in Nat, NEW w4 \in Nat
    PROVE  <<w1, w2, w3>> \o <<w4>> = <<w1, w2, w3, w4>>
<1>. DEFINE s == <<w1, w2, w3>>
            p == <<w4>>
            t == <<w1, w2, w3, w4>>
<1>1. /\ s \in Seq(Nat) /\ Len(s) = 3 /\ s[1] = w1 /\ s[2] = w2 /\ s[3] = w3
      /\ p \in Seq(Nat) /\ Len(p) = 1 /\ p[1] = w4
      /\ t \in Seq(Nat) /\ Len(t) = 4
      /\ t[1] = w1 /\ t[2] = w2 /\ t[3] = w3 /\ t[4] = w4
  OBVIOUS
<1>. HIDE DEF s, p, t
<1>2. \A j \in 1 .. Len(s) : t[j] = s[j]
  <2>1. \A j \in 1 .. 3 : j = 1 \/ j = 2 \/ j = 3
    OBVIOUS
  <2>. QED BY <1>1, <2>1
<1>3. \A k \in 1 .. Len(p) : t[Len(s) + k] = p[k]
  <2>1. \A k \in 1 .. 1 : k = 1
    OBVIOUS
  <2>. QED BY <1>1, <2>1
<1>4. Len(t) = Len(s) + Len(p)
  BY <1>1
<1>5. t = s \o p
  BY <1>1, <1>2, <1>3, <1>4, IsConcatenation
<1>. QED BY <1>5 DEF s, p, t

LEMMA FiveWords ==
    ASSUME NEW w1 \in Nat, NEW w2 \in Nat, NEW w3 \in Nat, NEW w4 \in Nat,
           NEW w5 \in Nat
    PROVE  <<w1, w2, w3>> \o <<w4, w5>> = <<w1, w2, w3, w4, w5>>
<1>. DEFINE s == <<w1, w2, w3>>
            p == <<w4, w5>>
            t == <<w1, w2, w3, w4, w5>>
<1>1. /\ s \in Seq(Nat) /\ Len(s) = 3 /\ s[1] = w1 /\ s[2] = w2 /\ s[3] = w3
      /\ p \in Seq(Nat) /\ Len(p) = 2 /\ p[1] = w4 /\ p[2] = w5
      /\ t \in Seq(Nat) /\ Len(t) = 5
      /\ t[1] = w1 /\ t[2] = w2 /\ t[3] = w3 /\ t[4] = w4 /\ t[5] = w5
  OBVIOUS
<1>. HIDE DEF s, p, t
<1>2. \A j \in 1 .. Len(s) : t[j] = s[j]
  <2>1. \A j \in 1 .. 3 : j = 1 \/ j = 2 \/ j = 3
    OBVIOUS
  <2>. QED BY <1>1, <2>1
<1>3. \A k \in 1 .. Len(p) : t[Len(s) + k] = p[k]
  <2>1. \A k \in 1 .. 2 : k = 1 \/ k = 2
    OBVIOUS
  <2>. QED BY <1>1, <2>1
<1>4. Len(t) = Len(s) + Len(p)
  BY <1>1
<1>5. t = s \o p
  BY <1>1, <1>2, <1>3, <1>4, IsConcatenation
<1>. QED BY <1>5 DEF s, p, t

LEMMA SevenWords ==
    ASSUME NEW s \in Seq(Nat), Len(s) = 5, NEW x \in Nat, NEW y \in Nat
    PROVE  s \o <<x, y>> = <<s[1], s[2], s[3], s[4], s[5], x, y>>
<1>. DEFINE p == <<x, y>>
            t == <<s[1], s[2], s[3], s[4], s[5], x, y>>
<1>1. /\ p \in Seq(Nat) /\ Len(p) = 2 /\ p[1] = x /\ p[2] = y
      /\ t \in Seq(Nat) /\ Len(t) = 7
      /\ t[1] = s[1] /\ t[2] = s[2] /\ t[3] = s[3] /\ t[4] = s[4] /\ t[5] = s[5] /\ t[6] = x /\ t[7] = y
  <2>1. s[1] \in Nat /\ s[2] \in Nat /\ s[3] \in Nat /\ s[4] \in Nat /\ s[5] \in Nat
    <3>1. \A k \in 1 .. 5 : s[k] \in Nat
      BY ElementOfSeq
    <3>. QED BY <3>1
  <2>. QED BY <2>1
<1>. HIDE DEF p, t
<1>2. \A j \in 1 .. Len(s) : t[j] = s[j]
  <2>1. \A j \in 1 .. 5 : j = 1 \/ j = 2 \/ j = 3 \/ j = 4 \/ j = 5
    OBVIOUS
  <2>. QED BY <1>1, <2>1
<1>3. \A k \in 1 .. Len(p) : t[Len(s) + k] = p[k]
  <2>1. \A k \in 1 .. 2 : k = 1 \/ k = 2
    OBVIOUS
  <2>. QED BY <1>1, <2>1
<1>4. Len(t) = Len(s) + Len(p)
  BY <1>1
<1>5. t = s \o p
  BY <1>1, <1>2, <1>3, <1>4, IsConcatenation
<1>. QED BY <1>5 DEF p, t

LEMMA Cuts ==
    ASSUME NEW s \in Seq(Nat)
    PROVE  /\ Len(s) >= 1 => SubSeq(s, 1, 1) = <<s[1]>>
           /\ Len(s) >= 3 => SubSeq(s, 2, 3) = <<s[2], s[3]>>
           /\ Len(s) >= 4 => SubSeq(s, 4, 4) = <<s[4]>>
           /\ Len(s) >= 5 => SubSeq(s, 4, 5) = <<s[4], s[5]>>
           /\ Len(s) >= 7 => SubSeq(s, 6, 7) = <<s[6], s[7]>>
<1>1. Len(s) \in Nat
  OBVIOUS
<1>2. ASSUME NEW k \in 1 .. Len(s), k + 1 \in 1 .. Len(s) PROVE SubSeq(s, k, k + 1) = <<s[k], s[k + 1]>>
  BY <1>2, ShortPieces
<1>3. ASSUME NEW k \in 1 .. Len(s) PROVE SubSeq(s, k, k) = <<s[k]>>
  BY ShortPieces
<1>4. Len(s) >= 3 => SubSeq(s, 2, 2 + 1) = <<s[2], s[2 + 1]>>
  BY <1>1, <1>2
<1>5. Len(s) >= 5 => SubSeq(s, 4, 4 + 1) = <<s[4], s[4 + 1]>>
  BY <1>1, <1>2
<1>6. Len(s) >= 7 => SubSeq(s, 6, 6 + 1) = <<s[6], s[6 + 1]>>
  BY <1>1, <1>2
<1>7. 2 + 1 = 3 /\ 4 + 1 = 5 /\ 6 + 1 = 7
  OBVIOUS
<1>8. (Len(s) >= 1 => SubSeq(s, 1, 1) = <<s[1]>>) /\ (Len(s) >= 4 => SubSeq(s, 4, 4) = <<s[4]>>)
  BY <1>1, <1>3
<1>. QED BY <1>4, <1>5, <1>6, <1>7, <1>8

\* The verifier cuts a proof into its three points again.
LEMMA ProofArrives ==
    ASSUME NEW p, {p.pi_a, p.pi_c} \subseteq points1, p.pi_b \in points2
    PROVE  /\ Len(serializeProof(p)) = 4
           /\ GetProofFromCompressed(serializeProof(p)) =
                 [A |-> point1(p.pi_a), B |-> pointOf2(p.pi_b), C |-> point1(p.pi_c)]
<1>. DEFINE a == word1(p.pi_a)
            d == p.pi_b[1][2] + sign2(p.pi_b[2])
            e == p.pi_b[1][1]
            c == word1(p.pi_c)
<1>1. serializeProof(p) = <<a>> \o <<d, e>> \o <<c>>
  BY Compressed1, Compressed2 DEF serializeProof, word1
<1>2. a \in Nat /\ c \in Nat /\ d \in Nat /\ e \in Nat
  BY Words
<1>3. /\ G1!FromCompressed(<<a>>) = point1(p.pi_a)
      /\ G2!FromCompressed(<<d, e>>) = pointOf2(p.pi_b)
      /\ G1!FromCompressed(<<c>>) = point1(p.pi_c)
  BY Decompressed1, Decompressed2 DEF word1
<1>. HIDE DEF a, c, d, e
<1>. DEFINE in == serializeProof(p)
<1>4. in \in Seq(Nat) /\ Len(in) = 4 /\ in[1] = a /\ in[2] = d /\ in[3] = e /\ in[4] = c
  <2>1. in = <<a, d, e, c>>
    <3>1. <<a>> \o <<d, e>> = <<a, d, e>>
      BY <1>2, ThreeWords, Zenon
    <3>2. <<a, d, e>> \o <<c>> = <<a, d, e, c>>
      BY <1>2, FourWords, Zenon
    <3>. QED BY <1>1, <3>1, <3>2
  <2>. QED BY <1>2, <2>1
<1>. HIDE DEF in
<1>5. SubSeq(in, 1, 1) = <<a>> /\ SubSeq(in, 2, 3) = <<d, e>> /\ SubSeq(in, 4, 4) = <<c>>
  BY <1>4, Cuts
<1>. QED BY <1>3, <1>4, <1>5 DEF GetProofFromCompressed, in

\* A verifying key of the setup.
SetupKey(vk, n) ==
    /\ vk.vk_alfa_1 \in points1
    /\ {vk.vk_beta_2, vk.vk_gamma_2, vk.vk_delta_2} \subseteq points2
    /\ vk.IC \in Seq(points1) /\ Len(vk.IC) = n

\* Its points for the inputs have one word each.
LEMMA InputWords ==
    ASSUME NEW n \in Nat \ {0}, NEW v \in Seq(points1), Len(v) = n
    PROVE  FlattenSeq([k \in DOMAIN v |-> g1ToBuff(v[k])]) = [k \in 1 .. n |-> word1(v[k])]
<1>. DEFINE s == [k \in 1 .. n |-> <<word1(v[k])>>]
<1>1. DOMAIN v = 1 .. n /\ \A k \in 1 .. n : v[k] \in points1
  OBVIOUS
<1>2. \A k \in 1 .. n : word1(v[k]) \in Nat /\ g1ToBuff(v[k]) = <<word1(v[k])>>
  BY <1>1, Words, Compressed1 DEF word1
<1>3. [k \in DOMAIN v |-> g1ToBuff(v[k])] = s
  BY <1>1, <1>2
<1>4. s \in Seq(Seq(Nat)) /\ Len(s) = n /\ \A k \in 1 .. n : Len(s[k]) = 1 /\ s[k][1] = word1(v[k])
  <2>1. \A k \in 1 .. n : <<word1(v[k])>> \in Seq(Nat)
    BY <1>2
  <2>. QED BY <2>1
<1>5. FlattenSeq(s) = Joined(s, n, 1)
  <2>1. 1 \in Nat \ {0} /\ s \in Seq(Seq(Nat)) /\ Len(s) = n /\ \A k \in 1 .. n : Len(s[k]) = 1
    BY <1>4
  <2>. HIDE DEF s
  <2>. QED BY <2>1, FlattenWords
<1>6. 1 * n = n /\ \A j \in 1 .. n : ((j - 1) \div 1) + 1 = j /\ ((j - 1) % 1) + 1 = 1
  OBVIOUS
<1>7. Joined(s, n, 1) = [j \in 1 .. n |-> word1(v[j])]
  <2>. HIDE DEF s
  <2>. QED BY <1>4, <1>6 DEF Joined
<1>. QED BY <1>3, <1>5, <1>7

LEMMA KeyBytes ==
    ASSUME NEW n \in Nat \ {0}, NEW vk, SetupKey(vk, n)
    PROVE  serializeVK(vk) =
              <<word1(vk.vk_alfa_1),
                vk.vk_beta_2[1][2] + sign2(vk.vk_beta_2[2]), vk.vk_beta_2[1][1],
                vk.vk_gamma_2[1][2] + sign2(vk.vk_gamma_2[2]), vk.vk_gamma_2[1][1],
                vk.vk_delta_2[1][2] + sign2(vk.vk_delta_2[2]), vk.vk_delta_2[1][1]>>
                \o [k \in 1 .. n |-> word1(vk.IC[k])]
<1>. DEFINE a == word1(vk.vk_alfa_1)
            d1 == vk.vk_beta_2[1][2] + sign2(vk.vk_beta_2[2])
            e1 == vk.vk_beta_2[1][1]
            d2 == vk.vk_gamma_2[1][2] + sign2(vk.vk_gamma_2[2])
            e2 == vk.vk_gamma_2[1][1]
            d3 == vk.vk_delta_2[1][2] + sign2(vk.vk_delta_2[2])
            e3 == vk.vk_delta_2[1][1]
            w == [k \in 1 .. n |-> word1(vk.IC[k])]
<1>1. serializeVK(vk) = <<a>> \o <<d1, e1>> \o <<d2, e2>> \o <<d3, e3>> \o w
  <2>1. g1ToBuff(vk.vk_alfa_1) = <<a>>
    BY Compressed1 DEF SetupKey, word1
  <2>2. /\ g2ToBuff(vk.vk_beta_2) = <<d1, e1>> /\ g2ToBuff(vk.vk_gamma_2) = <<d2, e2>>
        /\ g2ToBuff(vk.vk_delta_2) = <<d3, e3>>
    BY Compressed2 DEF SetupKey
  <2>3. FlattenSeq([k \in DOMAIN vk.IC |-> g1ToBuff(vk.IC[k])]) = w
    BY InputWords DEF SetupKey
  <2>. HIDE DEF a, d1, e1, d2, e2, d3, e3, w
  <2>. QED BY <2>1, <2>2, <2>3 DEF serializeVK
<1>2. /\ a \in Nat /\ d1 \in Nat /\ e1 \in Nat /\ d2 \in Nat /\ e2 \in Nat
      /\ d3 \in Nat /\ e3 \in Nat
  BY Words DEF SetupKey
<1>. HIDE DEF a, d1, e1, d2, e2, d3, e3, w
<1>3. <<a>> \o <<d1, e1>> \o <<d2, e2>> \o <<d3, e3>> = <<a, d1, e1, d2, e2, d3, e3>>
  <2>1. <<a>> \o <<d1, e1>> = <<a, d1, e1>>
    BY <1>2, ThreeWords, Zenon
  <2>2. <<a, d1, e1>> \o <<d2, e2>> = <<a, d1, e1, d2, e2>>
    BY <1>2, FiveWords, SMT
  <2>3. <<a, d1, e1, d2, e2>> \o <<d3, e3>> = <<a, d1, e1, d2, e2, d3, e3>>
    <3>. DEFINE five == <<a, d1, e1, d2, e2>>
    <3>1. /\ five \in Seq(Nat) /\ Len(five) = 5
          /\ five[1] = a /\ five[2] = d1 /\ five[3] = e1 /\ five[4] = d2 /\ five[5] = e2
      BY <1>2
    <3>. HIDE DEF five
    <3>2. five \o <<d3, e3>> = <<five[1], five[2], five[3], five[4], five[5], d3, e3>>
      BY <1>2, <3>1, SevenWords
    <3>. QED BY <3>1, <3>2 DEF five
  <2>. QED BY <2>1, <2>2, <2>3
<1>. QED BY <1>1, <1>3 DEF a, d1, e1, d2, e2, d3, e3, w

\* The verifier finds its points in it.
LEMMA KeyArrives ==
    ASSUME NEW n \in Nat \ {0}, NEW vk, SetupKey(vk, n)
    PROVE  /\ Len(serializeVK(vk)) = 7 + n
           /\ GetVerificationKeyFromCompressed(serializeVK(vk)) =
                 [AlphaG1 |-> point1(vk.vk_alfa_1), BetaG2 |-> pointOf2(vk.vk_beta_2),
                  GammaG2 |-> pointOf2(vk.vk_gamma_2), DeltaG2 |-> pointOf2(vk.vk_delta_2),
                  Ic |-> [k \in DOMAIN vk.IC |-> point1(vk.IC[k])]]
<1>. DEFINE a == word1(vk.vk_alfa_1)
            d1 == vk.vk_beta_2[1][2] + sign2(vk.vk_beta_2[2])
            e1 == vk.vk_beta_2[1][1]
            d2 == vk.vk_gamma_2[1][2] + sign2(vk.vk_gamma_2[2])
            e2 == vk.vk_gamma_2[1][1]
            d3 == vk.vk_delta_2[1][2] + sign2(vk.vk_delta_2[2])
            e3 == vk.vk_delta_2[1][1]
            f == <<a, d1, e1, d2, e2, d3, e3>>
            w == [k \in 1 .. n |-> word1(vk.IC[k])]
            in == serializeVK(vk)
<1>1. in = f \o w
  BY KeyBytes
<1>2. /\ a \in Nat /\ d1 \in Nat /\ e1 \in Nat /\ d2 \in Nat /\ e2 \in Nat
      /\ d3 \in Nat /\ e3 \in Nat
  BY Words DEF SetupKey
<1>3. DOMAIN vk.IC = 1 .. n /\ \A k \in 1 .. n : vk.IC[k] \in points1
  BY DEF SetupKey
<1>4. w \in Seq(Nat) /\ Len(w) = n /\ \A k \in 1 .. n : w[k] = word1(vk.IC[k])
  BY <1>3, Words
<1>5. f \in Seq(Nat) /\ Len(f) = 7
  BY <1>2
<1>6. /\ G1!FromCompressed(<<a>>) = point1(vk.vk_alfa_1)
      /\ G2!FromCompressed(<<d1, e1>>) = pointOf2(vk.vk_beta_2)
      /\ G2!FromCompressed(<<d2, e2>>) = pointOf2(vk.vk_gamma_2)
      /\ G2!FromCompressed(<<d3, e3>>) = pointOf2(vk.vk_delta_2)
      /\ \A k \in 1 .. n : G1!FromCompressed(<<word1(vk.IC[k])>>) = point1(vk.IC[k])
  BY <1>3, Decompressed1, Decompressed2 DEF SetupKey, word1
<1>7. /\ f[1] = a /\ f[2] = d1 /\ f[3] = e1 /\ f[4] = d2 /\ f[5] = e2 /\ f[6] = d3 /\ f[7] = e3
  OBVIOUS
<1>. HIDE DEF a, d1, e1, d2, e2, d3, e3, f, w, in
<1>8. /\ in \in Seq(Nat) /\ Len(in) = 7 + n
      /\ \A j \in 1 .. 7 : in[j] = f[j]
      /\ \A k \in 1 .. n : in[7 + k] = w[k]
  <2>1. /\ f \o w \in Seq(Nat) /\ Len(f \o w) = Len(f) + Len(w)
        /\ \A j \in 1 .. Len(f) + Len(w) : (f \o w)[j] = IF j <= Len(f) THEN f[j] ELSE w[j - Len(f)]
    BY <1>4, <1>5, ConcatProperties
  <2>2. \A j \in 1 .. 7 + n : in[j] = IF j <= 7 THEN f[j] ELSE w[j - 7]
    BY <1>1, <1>4, <1>5, <2>1
  <2>3. \A k \in 1 .. n : 7 + k \in 1 .. 7 + n /\ ~(7 + k <= 7) /\ (7 + k) - 7 = k
    OBVIOUS
  <2>4. \A j \in 1 .. 7 : in[j] = f[j]
    <3>. TAKE j \in 1 .. 7
    <3>1. j \in 1 .. 7 + n /\ j <= 7
      BY <1>1
    <3>. QED BY <2>2, <3>1
  <2>5. \A k \in 1 .. n : in[7 + k] = w[k]
    BY <2>2, <2>3
  <2>6. in \in Seq(Nat) /\ Len(in) = 7 + n
    BY <1>1, <1>4, <1>5, <2>1
  <2>. QED BY <2>4, <2>5, <2>6
<1>9. /\ SubSeq(in, 1, 1) = <<a>> /\ SubSeq(in, 2, 3) = <<d1, e1>>
      /\ SubSeq(in, 4, 5) = <<d2, e2>> /\ SubSeq(in, 6, 7) = <<d3, e3>>
  <2>1. /\ in[1] = a /\ in[2] = d1 /\ in[3] = e1 /\ in[4] = d2 /\ in[5] = e2 /\ in[6] = d3 /\ in[7] = e3
        /\ Len(in) >= 1 /\ Len(in) >= 3 /\ Len(in) >= 5 /\ Len(in) >= 7
    BY <1>7, <1>8
  <2>2. /\ SubSeq(in, 1, 1) = <<in[1]>> /\ SubSeq(in, 2, 3) = <<in[2], in[3]>>
        /\ SubSeq(in, 4, 5) = <<in[4], in[5]>> /\ SubSeq(in, 6, 7) = <<in[6], in[7]>>
    BY <1>8, <2>1, Cuts, Zenon
  <2>. QED BY <2>1, <2>2
<1>10. ASSUME NEW k \in 1 .. n PROVE SubSeq(in, 7 + k, 7 + k) = <<word1(vk.IC[k])>>
  <2>1. SubSeq(in, 7 + k, 7 + k) = <<in[7 + k]>>
    <3>1. 7 + k \in 1 .. Len(in) /\ in \in Seq(Nat)
      BY <1>8
    <3>. QED BY <3>1, ShortPieces
  <2>. QED BY <1>4, <1>8, <2>1
<1>11. [k \in 1 .. Len(in) - 7 |-> G1!FromCompressed(SubSeq(in, 7 + k, 7 + k))]
         = [k \in DOMAIN vk.IC |-> point1(vk.IC[k])]
  <2>1. Len(in) - 7 = n
    BY <1>8
  <2>. QED BY <1>3, <1>6, <1>10, <2>1
<1>. QED BY <1>6, <1>8, <1>9, <1>11 DEF GetVerificationKeyFromCompressed, in

-----------------------------------------------------------------------------
\* The pipeline.
arrivedProof(p) == [A |-> point1(p.pi_a), B |-> pointOf2(p.pi_b), C |-> point1(p.pi_c)]

arrivedKey(vk) ==
    [AlphaG1 |-> point1(vk.vk_alfa_1), BetaG2 |-> pointOf2(vk.vk_beta_2),
     GammaG2 |-> pointOf2(vk.vk_gamma_2), DeltaG2 |-> pointOf2(vk.vk_delta_2),
     Ic |-> [k \in DOMAIN vk.IC |-> point1(vk.IC[k])]]

\* What ProofVerify knows at some point of its loop.
Verifying(s, x, n) ==
    [state |-> s, proof |-> arrivedProof(proof.points), vk |-> arrivedKey(verifyingKey(provingKey)),
     vkX |-> x, i |-> n]

ArrivalInv ==
    /\ provingKey \in ProvingKeys
    /\ proof # none =>
          /\ proof.points \in proofs(provingKey)
          /\ Len(proof.publicSignals) = provingKey.nPublic
          /\ proof.bytes = serializeProof(proof.points)
    /\ verifier # none =>
          /\ proof # none
          /\ \E s \in {"adding", "added"} : \E x, n : verifier = Verifying(s, x, n)

\* What the verifier reads is no error.
LEMMA NoErrors ==
    ASSUME NEW p, {p.pi_a, p.pi_c} \subseteq points1, p.pi_b \in points2,
           NEW n \in Nat \ {0}, NEW vk, SetupKey(vk, n)
    PROVE  /\ error \notin {arrivedProof(p).A, arrivedProof(p).C, arrivedKey(vk).AlphaG1}
                            \cup Range(arrivedKey(vk).Ic)
           /\ error \notin {arrivedProof(p).B, arrivedKey(vk).BetaG2, arrivedKey(vk).GammaG2,
                            arrivedKey(vk).DeltaG2}
<1>1. \A q \in points1 : point1(q) # error
  <2>1. \A q \in points1 : point1(q) \in fp \X fp \X fp
    BY OnCurve1, Units DEF point1
  <2>. QED BY <2>1, ErrorAssumption
<1>2. \A q \in points2 : pointOf2(q) # error
  <2>1. \A q \in points2 : pointOf2(q) \in fp2 \X fp2 \X fp2
    BY OnCurve2, Units DEF pointOf2
  <2>. QED BY <2>1, ErrorAssumption
<1>3. error \notin Range(arrivedKey(vk).Ic)
  <2>1. \A k \in DOMAIN vk.IC : vk.IC[k] \in points1
    BY DEF SetupKey
  <2>. QED BY <1>1, <2>1 DEF arrivedKey, Range
<1>4. /\ arrivedProof(p).A # error /\ arrivedProof(p).C # error /\ arrivedProof(p).B # error
  BY <1>1, <1>2 DEF arrivedProof
<1>5. /\ arrivedKey(vk).AlphaG1 # error /\ arrivedKey(vk).BetaG2 # error
      /\ arrivedKey(vk).GammaG2 # error /\ arrivedKey(vk).DeltaG2 # error
  BY <1>1, <1>2 DEF arrivedKey, SetupKey
<1>. QED BY <1>3, <1>4, <1>5

LEMMA ArrivalStart == GrothInit => ArrivalInv
BY DEF GrothInit, PkeyInit, ArrivalInv

LEMMA BuildKeeps == ArrivalInv /\ BuildKey => ArrivalInv'
<1>. SUFFICES ASSUME ArrivalInv, BuildKey PROVE ArrivalInv'
  OBVIOUS
<1>1. provingKey' = provingKey /\ proof' = proof /\ verifier' = verifier
  BY DEF BuildKey, PkeyNext, Header, WriteItem, NextSection
<1>. QED BY <1>1 DEF ArrivalInv, Verifying

LEMMA ProveKeeps == ArrivalInv /\ Prove => ArrivalInv'
<1>. SUFFICES ASSUME ArrivalInv, Prove PROVE ArrivalInv'
  OBVIOUS
<1>1. PICK p \in proofs(provingKey), inputs \in [1 .. provingKey.nPublic -> Inputs] :
          proof' = [state |-> "sent", points |-> p, publicSignals |-> inputs,
                    bytes |-> serializeProof(p)]
  BY DEF Prove
<1>2. provingKey' = provingKey /\ verifier' = verifier /\ proof = none
  BY DEF Prove, pkeyVars
<1>3. provingKey \in ProvingKeys /\ provingKey.nPublic \in Nat
  BY KeyType DEF ArrivalInv
<1>4. Len(inputs) = provingKey.nPublic
  BY <1>3
<1>5. proof'.points = p /\ proof'.publicSignals = inputs /\ proof'.bytes = serializeProof(p)
  BY <1>1
<1>6. verifier = none
  BY <1>2 DEF ArrivalInv
<1>. QED BY <1>2, <1>3, <1>4, <1>5, <1>6 DEF ArrivalInv

LEMMA ReceiveKeeps == ArrivalInv /\ Receive => ArrivalInv'
<1>. SUFFICES ASSUME ArrivalInv, Receive PROVE ArrivalInv'
  OBVIOUS
<1>. DEFINE vk == verifyingKey(provingKey)
            n == provingKey.nPublic + 1
            p == proof.points
<1>1. provingKey' = provingKey /\ proof' = proof /\ proof # none
  BY DEF Receive, pkeyVars
<1>2. /\ provingKey \in ProvingKeys /\ p \in proofs(provingKey)
      /\ Len(proof.publicSignals) = provingKey.nPublic /\ proof.bytes = serializeProof(p)
  BY <1>1 DEF ArrivalInv
<1>3. provingKey.nPublic \in Nat /\ n \in Nat \ {0}
  BY <1>2, KeyType
<1>4. SetupKey(vk, n) /\ {p.pi_a, p.pi_c} \subseteq points1 /\ p.pi_b \in points2
  BY <1>2, SetupAssumption DEF SetupKey
<1>5. /\ Len(serializeVK(vk)) = 7 + n
      /\ GetVerificationKeyFromCompressed(serializeVK(vk)) = arrivedKey(vk)
  BY <1>3, <1>4, KeyArrives DEF arrivedKey
<1>6. /\ Len(proof.bytes) = 4
      /\ GetProofFromCompressed(proof.bytes) = arrivedProof(p)
  BY <1>2, <1>4, ProofArrives DEF arrivedProof
<1>7. Len(serializeVK(vk)) = Len(proof.publicSignals) + 8
  BY <1>2, <1>3, <1>5
<1>8. /\ error \notin {arrivedProof(p).A, arrivedProof(p).C, arrivedKey(vk).AlphaG1}
                        \cup Range(arrivedKey(vk).Ic)
      /\ error \notin {arrivedProof(p).B, arrivedKey(vk).BetaG2, arrivedKey(vk).GammaG2,
                        arrivedKey(vk).DeltaG2}
  BY <1>3, <1>4, NoErrors
<1>. HIDE DEF n
<1>9. verifier' = [state |-> "adding", proof |-> arrivedProof(p), vk |-> arrivedKey(vk),
                   vkX |-> arrivedKey(vk).Ic[1], i |-> 0]
  BY <1>5, <1>6, <1>7, <1>8 DEF Receive
<1>10. verifier' = Verifying("adding", arrivedKey(vk).Ic[1], 0)'
  BY <1>1, <1>9 DEF Verifying
<1>. QED BY <1>1, <1>2, <1>10 DEF ArrivalInv

LEMMA AddInputKeeps == ArrivalInv /\ AddInput => ArrivalInv'
<1>. SUFFICES ASSUME ArrivalInv, AddInput PROVE ArrivalInv'
  OBVIOUS
<1>1. provingKey' = provingKey /\ proof' = proof /\ verifier # none
  BY DEF AddInput, pkeyVars, none
<1>2. PICK s \in {"adding", "added"} : \E x, n : verifier = Verifying(s, x, n)
  BY <1>1 DEF ArrivalInv
<1>3. PICK x, n : verifier = Verifying(s, x, n)
  BY <1>2
<1>4. \E t \in {"adding", "added"} : \E y, m : verifier' = Verifying(t, y, m)
  <2>1. CASE verifier.i < Len(proof.publicSignals)
    <3>. DEFINE m == verifier.i + 1
                y == G1!Add(verifier.vkX, G1!MulScalar(verifier.vk.Ic[m + 1], proof.publicSignals[m]))
    <3>1. verifier' = [verifier EXCEPT !.vkX = y, !.i = m]
      BY <2>1 DEF AddInput
    <3>. HIDE DEF m, y
    <3>2. [verifier EXCEPT !.vkX = y] = Verifying(s, y, n)
      BY <1>3 DEF Verifying
    <3>3. [Verifying(s, y, n) EXCEPT !.i = m] = Verifying(s, y, m)
      BY DEF Verifying
    <3>. DEFINE r == [verifier EXCEPT !.vkX = y]
    <3>4. [verifier EXCEPT !.vkX = y, !.i = m] = [r EXCEPT !.i = m]
      BY Zenon
    <3>. QED BY <3>1, <3>2, <3>3, <3>4
  <2>2. CASE ~(verifier.i < Len(proof.publicSignals))
    <3>1. verifier' = [verifier EXCEPT !.state = "added"]
      BY <2>2 DEF AddInput
    <3>2. [Verifying(s, x, n) EXCEPT !.state = "added"] = Verifying("added", x, n)
      BY DEF Verifying
    <3>. QED BY <1>3, <3>1, <3>2
  <2>. QED BY <2>1, <2>2
<1>. QED BY <1>1, <1>4 DEF ArrivalInv, Verifying

LEMMA ArrivalStep == ArrivalInv /\ [GrothNext]_grothVars => ArrivalInv'
<1>. SUFFICES ASSUME ArrivalInv, [GrothNext]_grothVars PROVE ArrivalInv'
  OBVIOUS
<1>1. CASE BuildKey
  BY <1>1, BuildKeeps
<1>2. CASE Prove
  BY <1>2, ProveKeeps
<1>3. CASE Receive
  BY <1>3, ReceiveKeeps
<1>4. CASE AddInput
  BY <1>4, AddInputKeeps
<1>5. CASE UNCHANGED grothVars
  BY <1>5 DEF grothVars, pkeyVars, ArrivalInv, Verifying
<1>. QED BY <1>1, <1>2, <1>3, <1>4, <1>5 DEF GrothNext

LEMMA Arrived == ArrivalInv => PointsArrive
<1>. SUFFICES ASSUME ArrivalInv, verifier # none
              PROVE  /\ verifier.state # "refused"
                     /\ verifier.proof = arrivedProof(proof.points)
                     /\ verifier.vk = arrivedKey(verifyingKey(provingKey))
  BY DEF PointsArrive, arrivedProof, arrivedKey
<1>1. PICK s \in {"adding", "added"} : \E x, n : verifier = Verifying(s, x, n)
  BY DEF ArrivalInv
<1>2. PICK x, n : verifier = Verifying(s, x, n)
  BY <1>1
<1>. QED BY <1>2 DEF Verifying

\* Every point of a proof and of the verifying key comes out of its compressed
\* bytes as it went in, over every field in which the powers find the roots.
THEOREM PointsAlwaysArrive == GrothSpec => []PointsArrive
<1>. QED BY ArrivalStart, ArrivalStep, Arrived, PTL DEF GrothSpec

\* The pipeline writes its proving key as ProvingKey does, so what is proved of
\* that key is true here.
THEOREM PipelineBuildsKey == GrothSpec => PkeySpec
<1>1. GrothInit => PkeyInit
  BY DEF GrothInit
<1>2. [GrothNext]_grothVars => [PkeyNext]_pkeyVars
  BY DEF GrothNext, BuildKey, Prove, Receive, AddInput, grothVars
<1>. QED BY <1>1, <1>2, PTL DEF GrothSpec, PkeySpec
=============================================================================
